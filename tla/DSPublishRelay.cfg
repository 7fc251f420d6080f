\* A transaction and the one it spends that nobody waits for, two peers, of which one may be disconnected
\* while it reads a message.
SPECIFICATION Spec
CONSTANTS
  Txs = {"child", "parent"}
  Parents <- ChildAndParent
  Sent = {"child"}
  Peers = {p1, p2}
  Serving = {p1, p2}
  Lingering = {p1}
  Requests = {}
  Nobody = Nobody
  Nothing = Nothing
  Idle = Idle
  MaxQueue = 1
INVARIANTS
  TypeOK
  OnlyLatePeersStayCounted
CHECK_DEADLOCK FALSE
