\* The lists of a chain with one more block, and no trouble.
SPECIFICATION FairSpec
CONSTANTS
    None = None
    FirstTip = 2
    MaxHeight = 3
    Recent = 1
    Behind = 0
    Old = 1
    MaxFaultyPeers = 1
    Quorums <- NewQuorums
    FileLists = {}
    MaxTroubles = 0
INVARIANTS
    CurrentIsHighestQueried
CHECK_DEADLOCK FALSE
