CONSTANTS
    p1 = p1
    UdpPeers = {p1}
    TcpPeers = {}
    HighestTimestamp = 14
    ClientTimeout = 5
    HEARTBEAT_INTERVAL = 2
    HEARTBEAT_RETRIES = 5
    MaxStep = 2
    MaxConnects = 1
SPECIFICATION Spec
INVARIANTS ProbedOnce ElapsedFits NotDroppedEarly SilenceBounded ProbedBeforeDropped
