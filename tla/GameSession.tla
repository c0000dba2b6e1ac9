---------------------------- MODULE GameSession ----------------------------
(* The whole program: the server's game loop and the client processes, over TCP
   and UDP.  Each endpoint belongs to one process; the server's UDP socket is
   closed only with the server (src/src/server/server.cpp), so UDPClose is out. *)
EXTENDS GameServer, GameClient, Network

ASSUME DistinctEndpoints ==
    \A p, q \in Process : EndpointOf[p] = EndpointOf[q] => p = q

vars == <<networkVars, gameServerVars, gameClientVars>>

TypeOK ==
    /\ NetworkTypeOK
    /\ GameServerTypeOK
    /\ GameClientTypeOK

Init ==
    /\ NetworkInit
    /\ GameServerInit
    /\ GameClientInit

ServerStep == GameServerStep /\ UNCHANGED <<clientVars, gameClientVars>>

ClientStep(p) == GameClientStep(p) /\ UNCHANGED <<serverVars, gameServerVars>>

(* The client's end closes with its process (End): what the server can still see
   of a process that goes on for a while after that is what is in flight, and
   NetSession has it go on. *)
NetworkStep ==
    /\ \E p \in Process : ServerDisconnect(p)
    /\ UNCHANGED <<serverVars, clientVars, gameServerVars, gameClientVars>>

Next == ServerStep \/ (\E p \in Process : ClientStep(p)) \/ NetworkStep

Spec == Init /\ [][Next]_vars

(* What the game thread cannot help doing next, told by the variables that say
   where it is.  A receive loop may find nothing, so it is not among them. *)
threadVars == <<tick, callback, m_newConnections>>

TickStep ==
    \/ /\ tick = "accept" /\ m_newConnections # <<>>              \* Accept
       /\ m_newConnections' = Tail(m_newConnections)
       /\ UNCHANGED <<tick, callback>>
    \/ /\ tick \in {"accept", "receiveTCP", "receiveUDP"}          \* Update
       /\ Accepted /\ callback = NoCallback
       /\ tick' = "send"
       /\ UNCHANGED <<callback, m_newConnections>>
    \/ /\ tick = "send"                                           \* Send
       /\ tick' = "cleanup"
       /\ UNCHANGED <<callback, m_newConnections>>
    \/ /\ tick = "cleanup"                                        \* Cleanup
       /\ tick' \in {"accept", "remove"}
       /\ UNCHANGED <<callback, m_newConnections>>
    \/ /\ tick = "remove" /\ callback = NoCallback                \* RemoveClient
       /\ \E c \in toRemove : callback' = [kind |-> "disconnect", client |-> c]
       /\ UNCHANGED <<tick, m_newConnections>>
    \/ /\ callback # NoCallback                                   \* a callback
       /\ callback' = NoCallback
       /\ tick' \in {tick, "accept"}
       /\ UNCHANGED m_newConnections

(* The same for process p: it ends a batch that read the UDP loop or that had
   the identifier; it reads TCP; either end notices that the other is closed. *)
BatchStep(p) ==
    /\ phase[p] = "connected"
    /\ reading[p] = "UDP" \/ (~inGame[p] /\ m_localPlayerID[p] # NoPlayer)
    /\ reading' = [reading EXCEPT ![p] = "TCP"]
    /\ inGame' = [inGame EXCEPT ![p] = m_localPlayerID[p] # NoPlayer]

ReadStep(p) ==
    /\ phase[p] = "connected" /\ reading[p] = "TCP" /\ toClient[p] # <<>>
    /\ toClient' = [toClient EXCEPT ![p] = Tail(@)]

ServerNotices(p) ==
    /\ serverOpen[p] /\ ~clientOpen[p]
    /\ serverOpen' = [serverOpen EXCEPT ![p] = FALSE]

ClientNotices(p) ==
    /\ Running(p) /\ ~serverOpen[p]
    /\ phase' = [phase EXCEPT ![p] = "exited"]

(* The game loop never stops ticking, a client process runs its frames, reads
   TCP in each of them, and ends when it finds itself disconnected.  Nothing is
   assumed of datagrams or of processes in the handshake. *)
Fairness ==
    /\ WF_threadVars(TickStep)
    /\ \A p \in Process :
         /\ WF_<<reading, inGame>>(BatchStep(p))
         /\ SF_toClient(ReadStep(p))
         /\ WF_serverOpen(ServerNotices(p))
         /\ WF_phase(ClientNotices(p))

FairSpec == Spec /\ Fairness

-----------------------------------------------------------------------------
(* Where a process is, seen from the server *)

ClientOf(p) == connID[p]

Bound(p) == ClientOf(p) \in DOMAIN m_clientIDToPlayerID

PlayerOf(p) == m_clientIDToPlayerID[ClientOf(p)]

ConnectedClients == {c \in DOMAIN m_clients : m_clients[c].status = "Connected"}

(* Both ends are up, so that what the server sends arrives. *)
Alive(p) == /\ ClientOf(p) \in DOMAIN m_clients
            /\ serverOpen[p] /\ clientOpen[p]

(* Of what the server has still to tell p over TCP, what p reads before the
   acknowledgement it throws away. *)
Kept(p) ==
    IF phase[p] = "connected" THEN ToCome(p)
    ELSE LET acks == {i \in 1 .. Len(ToCome(p)) : ToCome(p)[i].type = "UDPBindAck"}
         IN SubSeq(ToCome(p), CHOOSE i \in acks : \A j \in acks : i <= j, Len(ToCome(p)))

(* The players p will know once it has applied all that. *)
WillKnow(p) == ApplyAll(view[p], Kept(p))

-----------------------------------------------------------------------------
(* The game is one of the applications Network allows: callbacks and updates
   only add messages to outboxes and take inboxes, a client sends nothing before
   the handshake is over. *)
ImplementsNetwork == NetworkSpec

(* Exactly the bound clients have a player in the server's game, one each: no
   state update, however late, brings a player back or makes one up at the
   server, and no disconnect leaves one behind. *)
OnePlayerPerClient ==
    callback = NoCallback =>
        /\ DOMAIN m_clientIDToPlayerID = ConnectedClients
        /\ DOMAIN players = {m_clientIDToPlayerID[c] : c \in DOMAIN m_clientIDToPlayerID}
        /\ \A c, d \in DOMAIN m_clientIDToPlayerID :
             m_clientIDToPlayerID[c] = m_clientIDToPlayerID[d] => c = d

(* A process that is bound misses no other player and no hit on one: the
   snapshot and the events after it, joined to what it knows already, come to
   the players and healths of the server, in spite of the messages the
   handshake drops and of state updates overtaking PlayerJoined by UDP. *)
RemotePlayersAgree ==
    callback = NoCallback =>
        \A p \in Process :
            (Alive(p) /\ Bound(p) /\ phase[p] \in {"waitAck", "connected"}) =>
                \A q \in DOMAIN players \ {PlayerOf(p)} :
                    q \in DOMAIN WillKnow(p) /\ WillKnow(p)[q] = players[q]

(* In the game a process has its own player, the one the server gave it; the
   frame loop dereferences it every frame. *)
LocalPlayerPresent ==
    \A p \in Process :
        (inGame[p] /\ phase[p] = "connected") =>
            /\ m_localPlayerID[p] \in DOMAIN view[p]
            /\ Bound(p) => m_localPlayerID[p] = PlayerOf(p)

(* A process that ended, however and wherever it was, is forgotten by the
   server: no client, no player and no endpoint of its stays behind. *)
ExitedIsForgotten ==
    \A p \in Process :
        phase[p] = "exited" ~>
            /\ p \notin ToSet(m_newConnections)
            /\ ClientOf(p) \notin DOMAIN m_clients \cup DOMAIN m_clientIDToPlayerID
            /\ EndpointOf[p] \notin DOMAIN m_udpEndpointToClientID

(* Two players who stay in the game come to see each other. *)
PlayersMeet ==
    \A p, q \in Process :
        (inGame[p] /\ inGame[q]) ~>
            \/ inGame[q] /\ m_localPlayerID[q] \in DOMAIN view[p]
            \/ ~inGame[p] \/ ~inGame[q]

(* A client process is told the same of its own health as everyone else. *)
OwnHealthAgrees ==
    callback = NoCallback =>
        \A p \in Process :
            (Alive(p) /\ Bound(p) /\ inGame[p] /\ phase[p] = "connected") =>
                WillKnow(p)[PlayerOf(p)] = players[PlayerOf(p)]

(* Once everything the server sent has been read, a process knows no player that
   has left: the state update of a player no longer there only ever means its
   PlayerJoined is still to come (src/game/game_simulation.h:282). *)
NoGhost ==
    callback = NoCallback =>
        \A p \in Process :
            (Alive(p) /\ Bound(p) /\ inGame[p] /\ phase[p] = "connected") =>
                DOMAIN WillKnow(p) \subseteq DOMAIN players

-----------------------------------------------------------------------------
(* The inductive invariant behind OnePlayerPerClient and LocalPlayerPresent, on
   top of the one of Network: whose player a message is about, wherever it is. *)

(* The tables change in the callbacks, one client at a time. *)
CallbackState ==
    LET c == callback.client
        mapped == DOMAIN m_clientIDToPlayerID
    IN /\ callback.kind = "none" => callback = NoCallback /\ mapped = ConnectedClients
       /\ callback.kind = "connect" =>
            c \in ConnectedClients /\ c \notin mapped /\ mapped = ConnectedClients \ {c}
       /\ callback.kind = "disconnect" =>
            c \notin DOMAIN m_clients /\ mapped \ {c} = ConnectedClients

(* Identifiers of players are given out once; those in the table are in the game. *)
PlayerTable ==
    /\ DOMAIN players = {m_clientIDToPlayerID[c] : c \in DOMAIN m_clientIDToPlayerID}
    /\ \A c \in DOMAIN m_clientIDToPlayerID : m_clientIDToPlayerID[c] < m_nextPlayerID
    /\ \A c, d \in DOMAIN m_clientIDToPlayerID :
         m_clientIDToPlayerID[c] = m_clientIDToPlayerID[d] => c = d
    /\ IsFiniteSet(m_projectiles)

(* Player id is the one the server gave p, as far as it still remembers. *)
OwnPlayer(p, id) ==
    /\ ClientOf(p) # 0
    /\ ClientOf(p) \in DOMAIN m_clients => Bound(p)
    /\ Bound(p) => PlayerOf(p) = id

(* A process is told the identifier of its own player and that others left. *)
ToProcess ==
    \A p \in Process : \A m \in ToSet(ToCome(p)) :
        /\ m.type = "AssignLocalPlayerID" => OwnPlayer(p, m.playerID)
        /\ m.type = "PlayerLeft" =>
             /\ m.playerID < m_nextPlayerID
             /\ m.playerID # m_localPlayerID[p]
             /\ AssignLocalPlayerID(m.playerID) \notin ToSet(ToCome(p))
        /\ m.type \in {"PlayerHealthUpdate", "PlayerRespawned"} => m.health \in 1 .. MaxHealth

(* What goes by UDP, besides UDPBinds, pings and pongs, is state updates, the
   client's of its own player. *)
Datagrams ==
    /\ \A d \in udpToClient : d.msg.type \in {"PlayerStateUpdate", "Pong"}
    /\ \A c \in DOMAIN m_clients : \A m \in ToSet(m_clients[c].udpOutbox) :
         m.type \in {"PlayerStateUpdate", "Pong"}
    /\ \A d \in udpToServer :
         d.msg.type \notin {"UDPBind", "Ping"} =>
            /\ d.msg.type = "PlayerStateUpdate"
            /\ \E p \in Process : d.from = EndpointOf[p] /\ OwnPlayer(p, d.msg.playerID)

(* A process tells the server of its shots over TCP, and pings it.  So the
   updates in an inbox are of the client's player; a UDPBind gets there when it
   comes after another one, a ping is answered and does not. *)
FromProcess ==
    /\ \A p \in Process : \A m \in ToSet(toServer[p]) : m.type \in {"ProjectileSpawn", "Ping"}
    /\ \A c \in DOMAIN m_clients : \A m \in ToSet(m_clients[c].inbox) :
         m.type \notin {"ProjectileSpawn", "UDPBind"} =>
            /\ m.type = "PlayerStateUpdate"
            /\ c \in DOMAIN m_clientIDToPlayerID /\ m.playerID = m_clientIDToPlayerID[c]

LocalPlayer ==
    \A p \in Process :
        /\ m_localPlayerID[p] # NoPlayer => OwnPlayer(p, m_localPlayerID[p])
        /\ inGame[p] => m_localPlayerID[p] \in DOMAIN view[p]

PlayersInvariant ==
    /\ TypeOK
    /\ CallbackState
    /\ PlayerTable
    /\ ToProcess
    /\ Datagrams
    /\ FromProcess
    /\ LocalPlayer

-----------------------------------------------------------------------------
(* The inductive invariant behind RemotePlayersAgree: who is told what, and when. *)

(* No message, and no client, knows of a player the server has not made. *)
Numbered(m) ==
    m.type \in {"AssignLocalPlayerID", "PlayerStateUpdate", "PlayerJoined", "PlayerHealthUpdate",
                "PlayerRespawned"} => m.playerID < m_nextPlayerID

GivenOut ==
    /\ \A p \in Process :
         /\ \A m \in ToSet(ToCome(p)) : Numbered(m)
         /\ \A id \in DOMAIN view[p] : id < m_nextPlayerID
         /\ m_localPlayerID[p] # NoPlayer => m_localPlayerID[p] < m_nextPlayerID
    /\ \A d \in udpToClient : Numbered(d.msg)
    /\ \A c \in DOMAIN m_clients : \A m \in ToSet(m_clients[c].udpOutbox) : Numbered(m)

(* A player that a process is told has left is not in the game. *)
LeftIsGone ==
    \A p \in Process : \A m \in ToSet(ToCome(p)) : m.type = "PlayerLeft" => m.playerID \notin DOMAIN players

(* When the connect callback runs, the acknowledgement is the last message its
   client was sent. *)
JustBound ==
    callback.kind = "connect" =>
        LET outbox == m_clients[callback.client].tcpOutbox
        IN outbox # <<>> /\ outbox[Len(outbox)] = UDPBindAck

(* What the server tells p reaches it, and p has been told of the game. *)
Follows(p) == Alive(p) /\ Bound(p) /\ phase[p] \in {"waitAck", "connected"}

(* As RemotePlayersAgree, within callbacks too. *)
CopiesFollow ==
    \A p \in Process : Follows(p) =>
        \A q \in DOMAIN players \ {PlayerOf(p)} : Agrees(view[p], Kept(p), q, players[q])

AgreementInvariant ==
    /\ GivenOut
    /\ LeftIsGone
    /\ JustBound
    /\ CopiesFollow

(* In every state, within callbacks too: whose player each message is about, and
   that the copies of the game come to follow the server's (onClientConnected,
   onClientDisconnected, update and the client's batches, taken together). *)
GameInvariant == PlayersInvariant /\ AgreementInvariant
=============================================================================
