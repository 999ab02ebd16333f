CONSTANTS
    Components = {"Client", "State"}
    Factory = {"Client", "State"}
    Systems = {"Network", "State"}
    Requirements <- SystemRequirements
    Raised = {"Moving"}
    Masks = {}
    MaxId = 2
    MaxEvents = 2
    Peers = {a, b}
    PlayerMask = {"Client", "State"}
    MapMask = {"State"}
    MapEntities = 1
    MaxClients = 3
SPECIFICATION WorldSpec
INVARIANTS WorldTypeOK PlayersAreClients InputsBelong
CHECK_DEADLOCK FALSE
SYMMETRY PeerSymmetry
