CONSTANTS
    p1 = p1
    UdpPeers = {}
    TcpPeers = {p1}
    HighestTimestamp = 6
    ClientTimeout = 2
    HEARTBEAT_INTERVAL = 1
    HEARTBEAT_RETRIES = 5
    MaxStep = 1
    MaxConnects = 1
SPECIFICATION Spec
PROPERTIES SilentClientsDropped QuitEnds
