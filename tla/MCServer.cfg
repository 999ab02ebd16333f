CONSTANTS
    p1 = p1
    p2 = p2
    UdpPeers = {p1}
    TcpPeers = {p1, p2}
    HighestTimestamp = 4
    ClientTimeout = 1
    HEARTBEAT_INTERVAL = 1
    HEARTBEAT_RETRIES = 5
    MaxStep = 1
    MaxConnects = 2
SPECIFICATION Spec
INVARIANTS TypeOK UniquePeer HandlerServesItsPeer TcpClientHasSocket
PROPERTIES DropsAreAnnounced ImplementsRegistry
VIEW StateView
