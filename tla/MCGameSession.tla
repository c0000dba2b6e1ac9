--------------------------- MODULE MCGameSession ---------------------------
(* Instances of GameSession for TLC. *)
EXTENDS GameSession

CONSTANTS p1, p2

(* Every process at an endpoint of its own, which takes the process's name;
   the processes are then interchangeable. *)
MCEndpointOf == [p \in Process |-> p]
MCSymmetry == Permutations(Process)

(* A process pings when no state update is being relayed, and none is from then
   on. *)
PingsOrUpdates ==
    PingsSent > 0 =>
        /\ udpToClient = {}
        /\ \A c \in DOMAIN m_clients :
              \A m \in ToSet(m_clients[c].inbox) : m.type # "PlayerStateUpdate"

(* A game in which the process p1, whose player was hit once by someone who has
   left since, is the only one. *)
MCLateJoinInit ==
    /\ m_newConnections = <<>>
    /\ connID = [p \in Process |-> IF p = p1 THEN FirstClientID ELSE 0]
    /\ serverOpen = [p \in Process |-> p = p1]
    /\ clientOpen = [p \in Process |-> p = p1]
    /\ toServer = [p \in Process |-> <<>>]
    /\ toClient = [p \in Process |-> <<>>]
    /\ udpToServer = {}
    /\ udpToClient = {}
    /\ udpOpen = TRUE
    /\ m_clients = [c \in {FirstClientID} |->
         [status |-> "Connected", udpToken |-> TokenFor(FirstClientID), tcpConnection |-> p1,
          udpEndpoint |-> EndpointOf[p1], tcpOutbox |-> <<>>, udpOutbox |-> <<>>, inbox |-> <<>>]]
    /\ m_nextClientID = FirstClientID + 2
    /\ m_udpEndpointToClientID = [e \in {EndpointOf[p1]} |-> FirstClientID]
    /\ callback = NoCallback
    /\ toRemove = {}
    /\ phase = [p \in Process |-> IF p = p1 THEN "connected" ELSE "off"]
    /\ bindToken = [p \in Process |-> IF p = p1 THEN TokenFor(FirstClientID) ELSE 0]
    /\ elapsed = [p \in Process |-> IF p = p1 THEN 1 ELSE 0]
    /\ m_nextPingSeq = [p \in Process |-> 0]
    /\ tick = "accept"
    /\ players = [q \in {0} |-> HealthAfterHit(MaxHealth)]
    /\ m_projectiles = {}
    /\ m_clientIDToPlayerID = [c \in {FirstClientID} |-> 0]
    /\ m_nextPlayerID = 2
    /\ m_localPlayerID = [p \in Process |-> IF p = p1 THEN 0 ELSE NoPlayer]
    /\ inGame = [p \in Process |-> p = p1]
    /\ reading = [p \in Process |-> "TCP"]
    /\ view = [p \in Process |-> IF p = p1 THEN players ELSE <<>>]
    /\ m_nextProjectileID = [p \in Process |-> 0]

MCLateJoinSpec == MCLateJoinInit /\ [][Next]_vars

MCLateJoinFairSpec == MCLateJoinSpec /\ Fairness
=============================================================================
