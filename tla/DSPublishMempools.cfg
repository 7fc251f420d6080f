\* One transaction that nobody waits for, two peers.
SPECIFICATION Spec
CONSTANTS
  Txs = {"child"}
  Parents <- ChildAndParent
  Sent = {"child"}
  Peers = {p1, p2}
  Serving = {p1, p2}
  Lingering = {}
  Requests = {}
  Nobody = Nobody
  Nothing = Nothing
  Idle = Idle
  MaxQueue = 1
PROPERTIES
  RemovalWaitsForMempools
CHECK_DEADLOCK FALSE
