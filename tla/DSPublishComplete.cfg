\* One transaction, asked for twice, and one peer.
SPECIFICATION Spec
CONSTANTS
  Txs = {"child"}
  Parents <- ChildAndParent
  Sent = {"child"}
  Peers = {p1}
  Serving = {}
  Lingering = {}
  Requests = {r1, r2}
  Nobody = Nobody
  Nothing = Nothing
  Idle = Idle
  MaxQueue = 2
INVARIANTS
  TimeoutPending
  
PROPERTIES
  CompletionSpec
  ForgottenForAReason
  EveryRequestEnds
CHECK_DEADLOCK FALSE
