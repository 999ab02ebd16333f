CONSTANTS
    HighestTimestamp = 38
    ClientTimeout = 18
    HEARTBEAT_INTERVAL = 4
    CONNECT_TIMEOUT = 5
    MaxDelay = 1
    MaxStep = 1
SPECIFICATION Spec
INVARIANTS HalfOpenBounded
PROPERTIES TimeoutsMeanLoss
