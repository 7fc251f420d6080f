\* The application stops the sync while what a peer did waits to be handled.
SPECIFICATION Spec
CONSTANTS
    Peers = {p1, p2}
    Nobody = Nobody
    MaxConnectCount = 2
    MaxConnectFailures = 1
    MisbehavingThreshold = 2
    MaxFaults = 2
    MaxCalls = 2
SYMMETRY AnyPeer
INVARIANT StaysDisconnected
CHECK_DEADLOCK FALSE
