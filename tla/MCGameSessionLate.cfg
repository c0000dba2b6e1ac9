\* A second process joins the game of a player that was hit; one projectile
SPECIFICATION MCLateJoinFairSpec
CONSTANTS
    p1 = p1
    p2 = p2
    Process = {p1, p2}
    Endpoint = {p1, p2}
    EndpointOf <- MCEndpointOf
    NoEndpoint = NoEndpoint
    NoPlayer = NoPlayer
    MaxPolls = 2
    MaxPings = 0
    PingTransport = "TCP"
    MaxHealth = 2
    ProjectileDamage = 1
    MaxShots = 1
    MaxUpdates = 0
INVARIANTS
    RemotePlayersAgree
PROPERTIES
    ExitedIsForgotten
    PlayersMeet
