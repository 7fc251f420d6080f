\* Three addresses for two connections; one fault, two calls of the application.
SPECIFICATION FairSpec
CONSTANTS
    Peers = {p1, p2, p3}
    Nobody = Nobody
    MaxConnectCount = 2
    MaxConnectFailures = 1
    MisbehavingThreshold = 1
    MaxFaults = 1
    MaxCalls = 2
INVARIANTS
    TypeOK
    ConnectionsAreHeld
    DownloadPeerStands
    ChosenOnceAllConnected
    NotStranded
PROPERTIES
    Settles
CHECK_DEADLOCK FALSE
