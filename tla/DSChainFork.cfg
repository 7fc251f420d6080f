SPECIFICATION Spec
CONSTANTS
  Blocks <- ForkBlocks
  Genesis = "g"
  NoBlock = "none"
  Parent <- ForkParent
  Height <- ForkHeight
  Work <- ForkHeight
  Anc <- ForkAnc
  TxsOf <- ForkTxs
  Checkpoints = {"g"}
  SyncStart = "g"
  BadTarget = {}
  BadHash = {}
  Lockable = {}
  Txs = {"t1", "t2"}
  Unconfirmed = 9
  DGW = 2
  KeepSync = 9
  SyncTrim = 99
  KeepTerminal = 9
  TerminalTrim = 99
  TipTrim = 99
  Estimates = {4}
INVARIANTS
  TypeOK
  SyncTipHasMostWork
  HeightsAgreeAtTip
  NoOrphanWaitsForTip
PROPERTIES
  ReorgConfirms
  HeightsFollowChains
  WorkNeverDrops
