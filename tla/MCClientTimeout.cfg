CONSTANTS
    Protocols = {"TCP", "UDP"}
    HighestTimestamp = 4
    ClientTimeout = 1
    MaxStep = 1
    Timestamps = {0, 4}
SPECIFICATION Spec
INVARIANT TimeoutMeansSilence
