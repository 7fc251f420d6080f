SPECIFICATION Spec
CONSTANTS
  Blocks <- LockBlocks
  Genesis = "g"
  NoBlock = "none"
  Parent <- LockParent
  Height <- LockHeight
  Work <- LockHeight
  Anc <- LockAnc
  TxsOf <- LockTxs
  Checkpoints = {"g"}
  SyncStart = "g"
  BadTarget = {}
  BadHash = {}
  Lockable = {"b3"}
  Txs = {}
  Unconfirmed = 9
  DGW = 2
  KeepSync = 9
  SyncTrim = 99
  KeepTerminal = 9
  TerminalTrim = 99
  TipTrim = 99
  Estimates = {4}
INVARIANTS
  LockedTerminalBlocksOnChain
