SPECIFICATION Spec
CONSTANTS
  Blocks <- CheckpointTree
  Genesis = "g"
  NoBlock = "none"
  Parent <- CheckpointParent
  Height <- CheckpointHeight
  Work <- CheckpointHeight
  Anc <- CheckpointAnc
  TxsOf <- CheckpointTxs
  Checkpoints = {"g", "a3"}
  SyncStart = "g"
  BadTarget = {}
  BadHash = {"y4"}
  Lockable = {}
  Txs = {}
  Unconfirmed = 9
  DGW = 2
  KeepSync = 3
  SyncTrim = 5
  KeepTerminal = 2
  TerminalTrim = 5
  TipTrim = 4
  Estimates = {4}
INVARIANTS
  TipsHeld
  CheckpointsRespected
  SyncChainUnbroken
