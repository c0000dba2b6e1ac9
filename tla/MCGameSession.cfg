\* Two processes join and leave; one state update of each is read in a tick, or one ping is sent
SPECIFICATION Spec
CONSTANTS
    p1 = p1
    p2 = p2
    Process = {p1, p2}
    Endpoint = {p1, p2}
    EndpointOf <- MCEndpointOf
    NoEndpoint = NoEndpoint
    NoPlayer = NoPlayer
    MaxPolls = 2
    MaxPings = 1
    PingTransport = "TCP"
    MaxHealth = 2
    ProjectileDamage = 1
    MaxShots = 0
    MaxUpdates = 1
SYMMETRY MCSymmetry
INVARIANTS
    GameInvariant
    OnePlayerPerClient
    LocalPlayerPresent
PROPERTIES
    ImplementsNetwork
CONSTRAINT
    PingsOrUpdates
