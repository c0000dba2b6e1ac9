----------------------------- MODULE GameServer -----------------------------
(* The GameServer class of src/game/game_server.h on top of NetworkServer: one
   tick is one call of update(), taken apart at every point where the io_context
   thread or another process may act in a way the tick can notice. *)
EXTENDS NetworkServer, GameSimulation

CONSTANT MaxUpdates     \* bound on the state updates of a client read in one tick

ASSUME UpdateAssumption == MaxUpdates \in Nat

VARIABLES tick,                 \* where the game thread is in update()
          players,              \* m_gameSimulation: PlayerID -> health
          m_projectiles,        \* m_gameSimulation: the projectiles in flight
          m_clientIDToPlayerID,
          m_nextPlayerID

gameVars == <<players, m_projectiles, m_clientIDToPlayerID, m_nextPlayerID>>
gameServerVars == <<tick, gameVars>>

(* accept: acceptConnections runs; receiveTCP, receiveUDP: a loop of pumpReceive
   has read something; send: pumpSend is next; cleanup, remove: the two halves of
   cleanupDisconnectedClients are.  A loop that finds nothing leaves no trace. *)
Tick == {"accept", "receiveTCP", "receiveUDP", "send", "cleanup", "remove"}

Projectile == [id: Nat, owner: Nat]

GameServerTypeOK ==
    /\ tick \in Tick
    /\ DOMAIN players \subseteq Nat
    /\ players \in [DOMAIN players -> 1 .. MaxHealth]
    /\ m_projectiles \subseteq Projectile
    /\ DOMAIN m_clientIDToPlayerID \subseteq Nat
    /\ m_clientIDToPlayerID \in [DOMAIN m_clientIDToPlayerID -> Nat]
    /\ m_nextPlayerID \in Nat

GameServerInit ==
    /\ tick = "accept"
    /\ players = <<>>
    /\ m_projectiles = {}
    /\ m_clientIDToPlayerID = <<>>
    /\ m_nextPlayerID = 0

-----------------------------------------------------------------------------
(* The network half of the tick *)

(* acceptConnections has found the listener's queue empty. *)
Accepted == tick # "accept" \/ m_newConnections = <<>>

Accept ==
    /\ tick = "accept"
    /\ AcceptConnection
    /\ UNCHANGED gameServerVars

PumpReceiveTCP(c) ==
    /\ tick \in {"accept", "receiveTCP"} /\ Accepted
    /\ ReceiveTCP(c)
    /\ tick' = "receiveTCP"
    /\ UNCHANGED gameVars

OfType(msgs, type) ==
    LET upTo[n \in 0 .. Len(msgs)] ==
          IF n = 0 THEN <<>>
          ELSE IF msgs[n].type = type THEN Append(upTo[n - 1], msgs[n]) ELSE upTo[n - 1]
    IN upTo[Len(msgs)]

UpdatesRead(c) == Len(OfType(m_clients[c].inbox, "PlayerStateUpdate"))

PumpReceiveUDP(d) ==
    /\ tick \in {"accept", "receiveTCP", "receiveUDP"} /\ Accepted
    /\ d.msg.type = "PlayerStateUpdate" /\ d.from \in DOMAIN m_udpEndpointToClientID
         => UpdatesRead(m_udpEndpointToClientID[d.from]) < MaxUpdates
    /\ DispatchDatagram(d) \/ HandleUDPBind(d) \/ IgnoreDatagram(d)
    /\ tick' = "receiveUDP"
    /\ UNCHANGED gameVars

Send ==
    /\ tick = "send"
    /\ PumpSend
    /\ tick' = "cleanup"
    /\ UNCHANGED gameVars

Cleanup ==
    /\ tick = "cleanup"
    /\ CollectDisconnected
    /\ tick' = IF Disconnected = {} THEN "accept" ELSE "remove"
    /\ UNCHANGED gameVars

RemoveClient(c) ==
    /\ tick = "remove"
    /\ RemoveDisconnected(c)
    /\ UNCHANGED gameServerVars

-----------------------------------------------------------------------------
(* The callbacks *)

\* Mutants: the snapshot leaves out the healths, or adds no player for them.
SnapshotOfStates ==
    LET upTo[n \in 0 .. m_nextPlayerID] ==
          IF n = 0 THEN <<>>
          ELSE IF n - 1 \in DOMAIN players THEN Append(upTo[n - 1], PlayerStateUpdate(n - 1))
          ELSE upTo[n - 1]
    IN upTo[m_nextPlayerID]

SnapshotOfHealths ==
    LET upTo[n \in 0 .. m_nextPlayerID] ==
          IF n = 0 THEN <<>>
          ELSE IF n - 1 \in DOMAIN players
               THEN Append(upTo[n - 1], PlayerHealthUpdate(n - 1, players[n - 1]))
          ELSE upTo[n - 1]
    IN upTo[m_nextPlayerID]

(* What a new client is told of the game it joins, players in map order; every
   identifier is below m_nextPlayerID. *)
Snapshot ==
    LET upTo[n \in 0 .. m_nextPlayerID] ==
          IF n = 0 THEN <<>>
          ELSE IF n - 1 \in DOMAIN players
               THEN upTo[n - 1] \o <<PlayerStateUpdate(n - 1), PlayerHealthUpdate(n - 1, players[n - 1])>>
          ELSE upTo[n - 1]
    IN upTo[m_nextPlayerID]

\* Mutant: nobody else is told.
OnClientConnectedQuietly ==
    /\ callback.kind = "connect"
    /\ LET c  == callback.client
           id == m_nextPlayerID
       IN /\ m_clients' = QueueTCP(m_clients, {c}, <<AssignLocalPlayerID(id)>> \o Snapshot)
          /\ m_clientIDToPlayerID' = [b \in DOMAIN m_clientIDToPlayerID \cup {c} |->
                                        IF b = c THEN id ELSE m_clientIDToPlayerID[b]]
          /\ players' = AddPlayer(players, id)
    /\ m_nextPlayerID' = m_nextPlayerID + 1
    /\ callback' = NoCallback
    /\ UNCHANGED <<transportVars, m_nextClientID, m_udpEndpointToClientID, toRemove,
                   tick, m_projectiles>>

OnClientConnected ==
    /\ callback.kind = "connect"
    /\ LET c  == callback.client
           id == m_nextPlayerID
       IN /\ m_clients' = QueueTCP(QueueTCP(m_clients, {c}, <<AssignLocalPlayerID(id)>> \o Snapshot),
                                   DOMAIN m_clients \ {c}, <<PlayerJoined(id)>>)
          /\ m_clientIDToPlayerID' = [b \in DOMAIN m_clientIDToPlayerID \cup {c} |->
                                        IF b = c THEN id ELSE m_clientIDToPlayerID[b]]
          /\ players' = AddPlayer(players, id)
    /\ m_nextPlayerID' = m_nextPlayerID + 1
    /\ callback' = NoCallback
    /\ UNCHANGED <<transportVars, m_nextClientID, m_udpEndpointToClientID, toRemove,
                   tick, m_projectiles>>

\* Mutant: the player stays.
OnClientDisconnectedKeepingPlayer ==
    /\ callback.kind = "disconnect"
    /\ LET c == callback.client IN
        IF c \in DOMAIN m_clientIDToPlayerID
        THEN /\ m_clients' = QueueTCP(m_clients, DOMAIN m_clients \ {c},
                                      <<PlayerLeft(m_clientIDToPlayerID[c])>>)
             /\ m_clientIDToPlayerID' =
                  [b \in DOMAIN m_clientIDToPlayerID \ {c} |-> m_clientIDToPlayerID[b]]
        ELSE UNCHANGED <<m_clients, m_clientIDToPlayerID>>
    /\ callback' = NoCallback
    /\ tick' = IF toRemove = {} THEN "accept" ELSE "remove"
    /\ UNCHANGED <<transportVars, m_nextClientID, m_udpEndpointToClientID, toRemove,
                   players, m_projectiles, m_nextPlayerID>>

(* A client that never finished the handshake has no player. *)
OnClientDisconnected ==
    /\ callback.kind = "disconnect"
    /\ LET c == callback.client IN
        IF c \in DOMAIN m_clientIDToPlayerID
        THEN /\ players' = RemovePlayer(players, m_clientIDToPlayerID[c])
             /\ m_clients' = QueueTCP(m_clients, DOMAIN m_clients \ {c},
                                      <<PlayerLeft(m_clientIDToPlayerID[c])>>)
             /\ m_clientIDToPlayerID' =
                  [b \in DOMAIN m_clientIDToPlayerID \ {c} |-> m_clientIDToPlayerID[b]]
        ELSE UNCHANGED <<players, m_clients, m_clientIDToPlayerID>>
    /\ callback' = NoCallback
    /\ tick' = IF toRemove = {} THEN "accept" ELSE "remove"
    /\ UNCHANGED <<transportVars, m_nextClientID, m_udpEndpointToClientID, toRemove,
                   m_projectiles, m_nextPlayerID>>

-----------------------------------------------------------------------------
(* The game half of the tick *)

(* addProjectile is emplace: an identifier in use keeps its projectile. *)
AddProjectiles(projectiles, spawns) ==
    projectiles \cup {[id |-> m.projectileID, owner |-> m.ownerPlayerID] :
        m \in {s \in ToSet(spawns) : \A x \in projectiles : x.id # s.projectileID}}

(* One turn of the loop over the clients: state updates are applied and relayed
   by UDP, spawned projectiles by TCP, to every other client. *)
ConsumeClient(game, c) ==
    LET others  == DOMAIN game.clients \ {c}
        updates == OfType(game.clients[c].inbox, "PlayerStateUpdate")
        spawns  == OfType(game.clients[c].inbox, "ProjectileSpawn")
    IN [players     |-> ApplyAll(game.players, updates),
        projectiles |-> AddProjectiles(game.projectiles, spawns),
        clients     |-> QueueUDP(QueueTCP(Consumed(game.clients, c), others, spawns),
                                 others, updates)]

(* Where projectiles fly and whom they hit is left open, except that each hits
   one player at most and never its owner (detectProjectileHits). *)
PossibleHits(projectiles, targets) ==
    {hit \in [projectiles -> targets] : \A x \in projectiles : hit[x] # x.owner}

(* updateSimulation and the broadcast of what it produced: projectiles that
   expire or leave the window are gone, some of the others hit a player, in the
   order of their identifiers, and are removed. *)
UpdateSimulation(game, gone, hitting) ==
    \E hit \in PossibleHits(hitting, DOMAIN game.players), order \in SetToSeqs(hitting) :
        LET victims == [i \in 1 .. Len(order) |-> hit[order[i]]]
            result  == RegisterHits(game.players, victims)
        IN /\ \A i, j \in 1 .. Len(order) : i < j => order[i].id <= order[j].id
           /\ players' = result.players
           /\ m_clients' = QueueTCP(game.clients, DOMAIN game.clients, result.outgoing)
           /\ m_projectiles' = game.projectiles \ (gone \cup hitting)

(* The loop over the clients, in the order given. *)
ConsumeAll(order) ==
    LET game[n \in 0 .. Len(order)] ==
          IF n = 0 THEN [players |-> players, projectiles |-> m_projectiles, clients |-> m_clients]
          ELSE ConsumeClient(game[n - 1], order[n])
    IN game[Len(order)]

(* The rest of update() up to pumpSend; the clients are consumed in the order of
   an unordered_map. *)
Update ==
    /\ tick \in {"accept", "receiveTCP", "receiveUDP"} /\ Accepted
    /\ ServerIdle
    /\ \E order \in SetToSeqs(DOMAIN m_clients) :
        LET game == ConsumeAll(order)
        IN \E gone \in SUBSET game.projectiles :
             \E hitting \in SUBSET (game.projectiles \ gone) :
                UpdateSimulation(game, gone, hitting)
    /\ tick' = "send"
    /\ UNCHANGED <<transportVars, m_nextClientID, m_udpEndpointToClientID, callback, toRemove,
                   m_clientIDToPlayerID, m_nextPlayerID>>

GameServerStep ==
    \/ Accept
    \/ \E c \in DOMAIN m_clients : PumpReceiveTCP(c)
    \/ \E d \in udpToServer : PumpReceiveUDP(d)
    \/ OnClientConnected
    \/ Update
    \/ Send
    \/ Cleanup
    \/ \E c \in toRemove : RemoveClient(c)
    \/ OnClientDisconnected
=============================================================================
