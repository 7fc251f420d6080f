\* A tip at 2 and one more block; one trouble.
SPECIFICATION FairSpec
CONSTANTS
    None = None
    FirstTip = 2
    MaxHeight = 3
    Recent = 1
    Behind = 0
    Old = 1
    MaxFaultyPeers = 1
    Quorums <- NewQuorums
    FileLists = {}
    MaxTroubles = 1
INVARIANTS
    TypeOK
    Driven
    SyncHasNext
CHECK_DEADLOCK FALSE
PROPERTIES
    Emptied
    SyncGoesOn
