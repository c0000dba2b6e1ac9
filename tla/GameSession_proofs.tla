------------------------- MODULE GameSession_proofs -------------------------
(* Proofs about the whole program, for any number of processes, shots and
   healths: it is one of the applications Network allows, so that all that is
   proved of NetworkSpec holds for it; PlayersInvariant, with OnePlayerPerClient
   and LocalPlayerPresent, on top of that; and AgreementInvariant, with
   RemotePlayersAgree, on top of both. *)
EXTENDS MCGameSession, GameServer_proofs

SessionInvariant == BindingInvariant /\ NoneDisconnected /\ PlayersInvariant

(* The steps of the application at the server. *)
GameWork == OnClientConnected \/ OnClientDisconnected \/ Update

LEMMA ClientsFinite ==
    ASSUME BindingInvariant
    PROVE  IsFiniteSet(DOMAIN m_clients)
<1>1. FirstClientID \in Nat /\ m_nextClientID \in Nat
  BY DEF FirstClientID, BindingInvariant, NetworkTypeOK, ServerTypeOK
<1>2. DOMAIN m_clients \in SUBSET (FirstClientID .. m_nextClientID)
  <2>1. \A c \in DOMAIN m_clients : c \in Nat /\ FirstClientID <= c /\ c < m_nextClientID
    BY DEF BindingInvariant, ClientsIdentified, NetworkTypeOK, ServerTypeOK
  <2> QED BY <1>1, <2>1
<1>3. IsFiniteSet(FirstClientID .. m_nextClientID)
  BY <1>1, FS_Interval
<1> QED BY <1>2, <1>3, FS_Subset

LEMMA SessionTyped ==
    ASSUME SessionInvariant
    PROVE  NetworkTypeOK /\ ServerTyped /\ UpdatesKnown
<1>1. NetworkTypeOK /\ ServerTyped
  BY ClientsFinite DEF SessionInvariant, BindingInvariant, NetworkTypeOK, PlayersInvariant, TypeOK, PlayerTable,
                       ServerTyped
<1>2. UpdatesKnown
  BY DEF SessionInvariant, PlayersInvariant, FromProcess, PlayerTable, UpdatesKnown
<1> QED BY <1>1, <1>2

-----------------------------------------------------------------------------
(* The game is an application of the network. *)

LEMMA AllServedUsed ==
    ASSUME ServerTypeOK, NEW M \in SUBSET AppMessage, AllServed(m_clients, m_clients', M)
    PROVE  /\ m_clients' \in [DOMAIN m_clients -> NetworkClientRecord]
           /\ \A c \in DOMAIN m_clients : Used(m_clients[c], m_clients'[c])
<1>1. m_clients' \in [DOMAIN m_clients -> NetworkClientRecord]
  BY DEF AllServed
<1>2. ASSUME NEW c \in DOMAIN m_clients PROVE Used(m_clients[c], m_clients'[c])
  <2>1. m_clients'[c] \in NetworkClientRecord /\ Served(m_clients[c], m_clients'[c], M)
    BY <1>1 DEF AllServed
  <2>2. Relayed \subseteq AppMessage
    BY KindsAreMessages DEF Relayed
  <2>3. /\ Grows(m_clients[c].tcpOutbox, m_clients'[c].tcpOutbox, AppMessage)
        /\ Grows(m_clients[c].udpOutbox, m_clients'[c].udpOutbox, AppMessage)
    BY <2>1, <2>2, GrowsMore DEF Served
  <2>4. /\ Extended(m_clients[c].tcpOutbox, m_clients'[c].tcpOutbox)
        /\ Extended(m_clients[c].udpOutbox, m_clients'[c].udpOutbox)
    BY <2>3 DEF Grows, Extended
  <2> QED BY <2>1, <2>4 DEF Used, Served
<1> QED BY <1>1, <1>2

LEMMA NewsAreApplication ==
    ASSUME SessionInvariant
    PROVE  /\ {AssignLocalPlayerID(m_nextPlayerID), PlayerJoined(m_nextPlayerID)} \cup Introductions
                \subseteq AppMessage
           /\ Spawns \cup HealthsOf(DOMAIN players) \subseteq AppMessage
           /\ \A c \in DOMAIN m_clientIDToPlayerID : PlayerLeft(m_clientIDToPlayerID[c]) \in AppMessage
<1>1. /\ m_nextPlayerID \in Nat /\ DOMAIN players \subseteq Nat
      /\ \A c \in DOMAIN m_clientIDToPlayerID : m_clientIDToPlayerID[c] \in Nat
  BY SessionTyped DEF ServerTyped, GameServerTypeOK
<1> QED BY <1>1, GameMessagesTyped, KindsAreMessages DEF Introductions, HealthsOf

LEMMA GameWorkIsApplication ==
    ASSUME SessionInvariant, GameWork, UNCHANGED clientVars
    PROVE  ServerApplication
<1>1. ServerTyped /\ UpdatesKnown /\ ServerTypeOK
  BY SessionTyped DEF ServerTyped
<1>2. /\ m_clients' \in [DOMAIN m_clients -> NetworkClientRecord]
      /\ \A c \in DOMAIN m_clients : Used(m_clients[c], m_clients'[c])
  <2>1. CASE OnClientConnected
    BY <1>1, <2>1, OnClientConnectedTyped, NewsAreApplication, AllServedUsed
  <2>2. CASE OnClientDisconnected /\ callback.client \in DOMAIN m_clientIDToPlayerID
    <3> DEFINE M == {PlayerLeft(m_clientIDToPlayerID[callback.client])}
    <3>1. M \in SUBSET AppMessage
      BY <2>2, NewsAreApplication
    <3>2. AllServed(m_clients, m_clients', M)
      BY <1>1, <2>2, OnClientDisconnectedTyped
    <3> HIDE DEF M
    <3> QED BY <1>1, <3>1, <3>2, AllServedUsed
  <2>3. CASE OnClientDisconnected /\ callback.client \notin DOMAIN m_clientIDToPlayerID
    <3>1. m_clients' = m_clients /\ m_clients \in [DOMAIN m_clients -> NetworkClientRecord]
      BY <1>1, <2>3, OnClientDisconnectedTyped DEF ServerTypeOK
    <3>2. AllServed(m_clients, m_clients', {})
      BY <3>1, AllSameServed
    <3> QED BY <1>1, <3>2, AllServedUsed
  <2>4. CASE Update
    BY <1>1, <2>4, UpdateTyped, NewsAreApplication, AllServedUsed
  <2> QED BY <2>1, <2>2, <2>3, <2>4 DEF GameWork
<1>3. /\ callback' \in {callback, NoCallback}
      /\ UNCHANGED <<transportVars, m_nextClientID, m_udpEndpointToClientID, toRemove>>
  BY DEF GameWork, OnClientConnected, OnClientDisconnected, Update
<1> QED BY <1>2, <1>3 DEF ServerApplication

(* What a frame hands to pumpSend. *)
SpawnOf(p, shoots) ==
    IF shoots THEN <<ProjectileSpawn(m_localPlayerID[p], ProjectileID(p))>> ELSE <<>>

UpdateOf(p) == <<PlayerStateUpdate(m_localPlayerID[p])>>

LEMMA FrameSends ==
    ASSUME SessionInvariant, NEW p \in Process, NEW shoots \in BOOLEAN, NEW withPing \in BOOLEAN,
           EndFrame(p, shoots, withPing)
    PROVE  /\ SpawnOf(p, shoots) \in Seq(Spawns) /\ SpawnOf(p, shoots) \in Seq(AppMessage)
           /\ UpdateOf(p) \in Seq(AppMessage)
           /\ ClientPumpSend(p, SpawnOf(p, shoots), UpdateOf(p), withPing)
<1>1. m_nextProjectileID \in [Process -> Nat] /\ m_localPlayerID[p] \in Nat /\ ProjectileID(p) \in Nat
  BY DEF EndFrame, ProjectileID, SessionInvariant, PlayersInvariant, TypeOK, GameClientTypeOK
<1>2. /\ ProjectileSpawn(m_localPlayerID[p], ProjectileID(p)) \in Spawns
      /\ PlayerStateUpdate(m_localPlayerID[p]) \in AppMessage /\ Spawns \subseteq AppMessage
  BY <1>1, GameMessagesTyped, KindsAreMessages
<1>3. SpawnOf(p, shoots) \in Seq(Spawns) /\ UpdateOf(p) \in Seq(AppMessage)
  BY <1>2 DEF SpawnOf, UpdateOf
<1>4. SpawnOf(p, shoots) \in Seq(AppMessage)
  BY <1>2 DEF SpawnOf
<1>5. ClientPumpSend(p, SpawnOf(p, shoots), UpdateOf(p), withPing)
  BY DEF EndFrame, SpawnOf, UpdateOf
<1> QED BY <1>3, <1>4, <1>5

LEMMA EndFrameIsApplication ==
    ASSUME SessionInvariant, NEW p \in Process, NEW shoots \in BOOLEAN, NEW withPing \in BOOLEAN,
           EndFrame(p, shoots, withPing), UNCHANGED serverVars
    PROVE  ClientApplication(p, withPing)
BY SessionTyped, FrameSends, PumpSendIsApplication

LEMMA StepIsNetworkStep ==
    ASSUME SessionInvariant, [Next]_vars
    PROVE  [NetworkNext]_networkVars
<1>1. CASE ServerStep
  <2>1. UNCHANGED clientVars
    BY <1>1 DEF ServerStep
  <2>2. GameWork => ServerApplication
    BY <2>1, GameWorkIsApplication
  <2>3. GameServerStep => GameWork \/ NetworkServerStep
    BY DEF GameServerStep, GameWork, NetworkServerStep, Accept, PumpReceiveTCP, PumpReceiveUDP, TakeDatagram,
           DispatchDatagram, HandleUDPBind, IgnoreDatagram, Send, Cleanup, RemoveClient
  <2> QED BY <1>1, <2>1, <2>2, <2>3 DEF ServerStep, NetworkNext
<1>2. ASSUME NEW p \in Process, ClientStep(p) PROVE [NetworkNext]_networkVars
  <2>1. UNCHANGED serverVars
    BY <1>2 DEF ClientStep
  <2>2. ASSUME NEW shoots \in BOOLEAN, NEW withPing \in BOOLEAN, EndFrame(p, shoots, withPing)
        PROVE  ClientApplication(p, withPing)
    BY <2>1, <2>2, EndFrameIsApplication
  <2>3. EndPoll(p) => UNCHANGED networkVars
    BY <2>1 DEF EndPoll, networkVars
  <2>4. Handshaking(p) \/ End(p) \/ ClientReceiveTCP(p) \/ (\E d \in udpToClient : ClientReceiveUDP(p, d))
          => NetworkClientStep(p)
    BY DEF Handshaking, End, ClientReceiveTCP, ClientReceiveUDP, NetworkClientStep
  <2> QED BY <1>2, <2>1, <2>2, <2>3, <2>4 DEF ClientStep, GameClientStep, NetworkNext
<1>3. CASE NetworkStep
  BY <1>3 DEF NetworkStep, NetworkNext, TransportStep
<1>4. CASE UNCHANGED vars
  BY <1>4 DEF vars
<1> QED BY <1>1, <1>2, <1>3, <1>4 DEF Next

-----------------------------------------------------------------------------
(* What a step leaves alone *)

(* The server's tables of players change in GameWork only, and there the server
   is in the game thread's hands. *)
LEMMA TablesFrame ==
    ASSUME [Next]_vars, ~GameWork
    PROVE  UNCHANGED gameVars /\ (m_clients' # m_clients => NetworkServerStep)
<1>1. CASE ServerStep
  BY <1>1 DEF GameWork, ServerStep, GameServerStep, NetworkServerStep, Accept, PumpReceiveTCP, PumpReceiveUDP,
              TakeDatagram, DispatchDatagram, HandleUDPBind, IgnoreDatagram, Send, Cleanup, RemoveClient,
              gameServerVars
<1>2. ASSUME NEW p \in Process, ClientStep(p) PROVE UNCHANGED gameVars /\ m_clients' = m_clients
  BY <1>2 DEF ClientStep, serverVars, gameServerVars
<1>3. CASE NetworkStep
  BY <1>3 DEF NetworkStep, serverVars, gameServerVars
<1>4. CASE UNCHANGED vars
  BY <1>4 DEF vars, networkVars, serverVars, gameServerVars
<1> QED BY <1>1, <1>2, <1>3, <1>4 DEF Next

LEMMA GameWorkFrame ==
    ASSUME SessionInvariant, [Next]_vars, GameWork
    PROVE  /\ ServerApplication /\ UNCHANGED <<transportVars, clientVars, gameClientVars>>
           /\ DOMAIN m_clients' = DOMAIN m_clients
           /\ \A c \in DOMAIN m_clients : SameBinding(m_clients'[c], m_clients[c])
<1>1. tick' # tick \/ callback' # callback
  BY SessionTyped DEF GameWork, OnClientConnected, OnClientDisconnected, Update, NoCallback
<1>2. UNCHANGED <<clientVars, gameClientVars>>
  <2>1. ASSUME NEW p \in Process PROVE ~ClientStep(p)
    BY <1>1 DEF ClientStep, serverVars, gameServerVars
  <2>2. ~NetworkStep
    BY <1>1 DEF NetworkStep, serverVars, gameServerVars
  <2>3. ~UNCHANGED vars
    BY <1>1 DEF vars, networkVars, serverVars, gameServerVars
  <2> QED BY <2>1, <2>2, <2>3 DEF Next, ServerStep
<1>3. ServerApplication
  BY <1>2, GameWorkIsApplication
<1> QED BY <1>2, <1>3 DEF ServerApplication, Used

(* Clients with an identifier given out before were there before. *)
LEMMA ClientsStay ==
    ASSUME SessionInvariant, [Next]_vars, NEW c \in DOMAIN m_clients', c # m_nextClientID
    PROVE  c \in DOMAIN m_clients
<1>1. NetworkTypeOK /\ [NetworkNext]_networkVars
  BY SessionTyped, StepIsNetworkStep
<1>2. CASE AcceptConnection
  BY <1>2 DEF AcceptConnection
<1>3. CASE ~AcceptConnection
  BY <1>1, <1>3, ClientsFrame
<1> QED BY <1>2, <1>3

(* A process keeps the player it has. *)
LEMMA OwnPlayerKept ==
    ASSUME SessionInvariant, [Next]_vars, NEW p \in Process, NEW id, OwnPlayer(p, id)
    PROVE  OwnPlayer(p, id)'
<1> DEFINE c == connID[p]
           table == m_clientIDToPlayerID
<1>1. /\ connID \in [Process -> Nat] /\ m_nextClientID \in Nat /\ c < m_nextClientID /\ c # 0
      /\ connID'[p] = c
  BY SessionTyped, StepIsNetworkStep, ConnIDKept
     DEF SessionInvariant, BindingInvariant, NetworkTypeOK, TransportTypeOK, ServerTypeOK, Identities,
         OwnPlayer, ClientOf
<1>2. c \in DOMAIN m_clients => c \in DOMAIN table
  BY DEF OwnPlayer, ClientOf, Bound
<1>3. c \in DOMAIN table => table[c] = id
  BY DEF OwnPlayer, ClientOf, Bound, PlayerOf
<1> DEFINE Goal == /\ c \in DOMAIN m_clients' => c \in DOMAIN table'
                   /\ c \in DOMAIN table' => table'[c] = id
<1>4. ASSUME OnClientConnected PROVE Goal
  <2>1. callback.kind = "connect" /\ callback.client \in ConnectedClients
    BY <1>4 DEF OnClientConnected, SessionInvariant, PlayersInvariant, CallbackState
  <2>2. callback.client \notin DOMAIN table
    BY <2>1 DEF SessionInvariant, PlayersInvariant, CallbackState
  <2>3. c # callback.client
    BY <1>2, <2>1, <2>2 DEF ConnectedClients
  <2>4. table' = [b \in DOMAIN table \cup {callback.client} |->
                    IF b = callback.client THEN m_nextPlayerID ELSE table[b]]
    BY <1>4 DEF OnClientConnected
  <2>5. DOMAIN m_clients' = DOMAIN m_clients
    BY <1>4, GameWorkFrame DEF GameWork
  <2> QED BY <1>2, <1>3, <2>3, <2>4, <2>5
<1>5. ASSUME OnClientDisconnected PROVE Goal
  <2>1. callback.client \notin DOMAIN m_clients
    BY <1>5 DEF OnClientDisconnected, SessionInvariant, PlayersInvariant, CallbackState
  <2>2. \/ table' = [b \in DOMAIN table \ {callback.client} |-> table[b]]
        \/ table' = table
    BY <1>5 DEF OnClientDisconnected
  <2>3. DOMAIN m_clients' = DOMAIN m_clients
    BY <1>5, GameWorkFrame DEF GameWork
  <2> QED BY <1>2, <1>3, <2>1, <2>2, <2>3
<1>6. ASSUME ~OnClientConnected, ~OnClientDisconnected PROVE Goal
  <2>1. table' = table
    BY <1>6, TablesFrame DEF GameWork, Update, gameVars
  <2>2. c \in DOMAIN m_clients' => c \in DOMAIN m_clients
    BY <1>1, ClientsStay
  <2> QED BY <1>2, <1>3, <2>1, <2>2
<1>7. Goal
  BY <1>4, <1>5, <1>6
<1> QED BY <1>1, <1>7 DEF OwnPlayer, ClientOf, Bound, PlayerOf

-----------------------------------------------------------------------------
(* The tables *)

(* The clients that are connected change when one is bound or removed. *)
LEMMA ConnectedFrame ==
    ASSUME SessionInvariant, [Next]_vars
    PROVE  \/ \E c \in DOMAIN m_clients :
                /\ c \notin ConnectedClients /\ ConnectedClients' = ConnectedClients \cup {c}
                /\ callback = NoCallback /\ callback' = [kind |-> "connect", client |-> c]
           \/ \E c : /\ ConnectedClients' = ConnectedClients \ {c} /\ c \notin DOMAIN m_clients'
                     /\ callback = NoCallback /\ callback' = [kind |-> "disconnect", client |-> c]
           \/ /\ ConnectedClients' = ConnectedClients
              /\ \A c : c \notin DOMAIN m_clients => c \notin DOMAIN m_clients' \/ callback = NoCallback
              /\ callback' = callback \/ (callback' = NoCallback /\ GameWork)
<1>1. NetworkTypeOK /\ [NetworkNext]_networkVars /\ BindingInvariant
  BY SessionTyped, StepIsNetworkStep DEF SessionInvariant
<1>2. /\ \A b \in DOMAIN m_clients : m_clients[b] \in NetworkClientRecord
      /\ m_nextClientID \notin DOMAIN m_clients
  BY <1>1 DEF NetworkTypeOK, ServerTypeOK, BindingInvariant, ClientsIdentified
<1> DEFINE Quiet == /\ ConnectedClients' = ConnectedClients
                    /\ \A c : c \notin DOMAIN m_clients => c \notin DOMAIN m_clients' \/ callback = NoCallback
                    /\ callback' = callback \/ (callback' = NoCallback /\ GameWork)
<1>3. CASE AcceptConnection
  <2>1. /\ callback' = callback /\ callback = NoCallback
        /\ m_clients' = [c \in DOMAIN m_clients \cup {m_nextClientID} |->
              IF c = m_nextClientID THEN NewClient(Head(m_newConnections)) ELSE m_clients[c]]
    BY <1>3 DEF AcceptConnection, ServerIdle
  <2>2. NewClient(Head(m_newConnections)).status = "BindingUDP"
    BY DEF NewClient
  <2>3. ConnectedClients' = ConnectedClients
    BY <1>2, <2>1, <2>2 DEF ConnectedClients
  <2> QED BY <2>1, <2>3
<1>4. ASSUME NEW d \in udpToServer, HandleUDPBind(d)
      PROVE  \E c \in DOMAIN m_clients :
                /\ c \notin ConnectedClients /\ ConnectedClients' = ConnectedClients \cup {c}
                /\ callback = NoCallback /\ callback' = [kind |-> "connect", client |-> c]
  <2>1. PICK c \in ClientsWithToken(d.msg.token) :
          /\ m_clients' = [m_clients EXCEPT ![c].udpEndpoint = d.from,
                                            ![c].status = "Connected",
                                            ![c].tcpOutbox = Append(@, UDPBindAck)]
          /\ callback' = [kind |-> "connect", client |-> c]
    BY <1>4 DEF HandleUDPBind
  <2>2. c \in DOMAIN m_clients /\ m_clients[c].status # "Connected"
    BY <1>1, <1>4, BindsOnce DEF ClientsWithToken
  <2>3. m_clients'[c].status = "Connected" /\ \A b \in DOMAIN m_clients \ {c} : m_clients'[b] = m_clients[b]
    BY <1>2, <2>1, <2>2 DEF NetworkClientRecord
  <2>4. DOMAIN m_clients' = DOMAIN m_clients
    BY <2>1
  <2>5. ConnectedClients' = ConnectedClients \cup {c}
    BY <2>2, <2>3, <2>4 DEF ConnectedClients
  <2> QED BY <1>4, <2>1, <2>2, <2>5 DEF ConnectedClients, HandleUDPBind, TakeDatagram, ServerIdle
<1>5. ASSUME NEW c \in toRemove, RemoveDisconnected(c)
      PROVE  /\ ConnectedClients' = ConnectedClients \ {c} /\ c \notin DOMAIN m_clients'
             /\ callback = NoCallback /\ callback' = [kind |-> "disconnect", client |-> c]
  BY <1>5 DEF RemoveDisconnected, ConnectedClients
<1>6. ASSUME ~AcceptConnection, ~\E d \in udpToServer : HandleUDPBind(d),
             ~\E c \in toRemove : RemoveDisconnected(c)
      PROVE  Quiet
  <2>1. /\ DOMAIN m_clients' = DOMAIN m_clients
        /\ \A c \in DOMAIN m_clients : m_clients'[c].status = m_clients[c].status
    BY <1>1, <1>6, BindingFrame DEF SameBinding
  <2>2. ConnectedClients' = ConnectedClients
    BY <2>1 DEF ConnectedClients
  <2>3. GameWork => callback' \in {callback, NoCallback}
    BY DEF GameWork, OnClientConnected, OnClientDisconnected, Update
  <2>4. ~GameWork => callback' = callback
    <3>1. ServerStep => GameWork \/ callback' = callback
      BY <1>6 DEF ServerStep, GameServerStep, GameWork, Accept, PumpReceiveTCP, ReceiveTCP, PumpReceiveUDP,
                  DispatchDatagram, IgnoreDatagram, TakeDatagram, Send, PumpSend, Cleanup, CollectDisconnected,
                  RemoveClient, serverVars
    <3>2. \A p \in Process : ClientStep(p) => callback' = callback
      BY DEF ClientStep, serverVars
    <3>3. NetworkStep => callback' = callback
      BY DEF NetworkStep, serverVars
    <3> QED BY <3>1, <3>2, <3>3 DEF Next, vars, networkVars, serverVars
  <2> QED BY <2>1, <2>2, <2>3, <2>4
<1> QED BY <1>3, <1>4, <1>5, <1>6

LEMMA CallbackStateNext ==
    ASSUME SessionInvariant, [Next]_vars
    PROVE  CallbackState'
<1> DEFINE table == m_clientIDToPlayerID
           c == callback.client
<1>1. CallbackState
  BY DEF SessionInvariant, PlayersInvariant
<1>2. callback \in Callback
  BY SessionTyped DEF NetworkTypeOK, ServerTypeOK
<1>3. CASE OnClientConnected
  <2>1. callback.kind = "connect" /\ callback' = NoCallback
        /\ DOMAIN table' = DOMAIN table \cup {c} /\ DOMAIN m_clients' = DOMAIN m_clients
    BY <1>3, GameWorkFrame DEF OnClientConnected, GameWork
  <2>2. ConnectedClients' = ConnectedClients
    BY <1>3, GameWorkFrame DEF GameWork, SameBinding, ConnectedClients
  <2>3. DOMAIN table' = ConnectedClients'
    BY <1>1, <2>1, <2>2 DEF CallbackState
  <2> QED BY <2>1, <2>3 DEF CallbackState, NoCallback
<1>4. CASE OnClientDisconnected
  <2>1. callback.kind = "disconnect" /\ callback' = NoCallback
        /\ DOMAIN table' = DOMAIN table \ {c}
    BY <1>4 DEF OnClientDisconnected
  <2>2. ConnectedClients' = ConnectedClients
    BY <1>4, GameWorkFrame DEF GameWork, SameBinding, ConnectedClients
  <2>3. DOMAIN table' = ConnectedClients'
    BY <1>1, <2>1, <2>2 DEF CallbackState
  <2> QED BY <2>1, <2>3 DEF CallbackState, NoCallback
<1>5. CASE ~OnClientConnected /\ ~OnClientDisconnected
  <2>1. table' = table
    BY <1>5, TablesFrame DEF GameWork, Update, gameVars
  <2>2. GameWork => callback' = callback
    BY <1>5 DEF GameWork, Update
  <2>3. ASSUME NEW b \in DOMAIN m_clients,
               b \notin ConnectedClients, ConnectedClients' = ConnectedClients \cup {b},
               callback = NoCallback, callback' = [kind |-> "connect", client |-> b]
        PROVE  CallbackState'
    <3>1. DOMAIN table = ConnectedClients
      BY <1>1, <2>3 DEF CallbackState, NoCallback
    <3> QED BY <2>1, <2>3, <3>1 DEF CallbackState
  <2>4. ASSUME NEW b, ConnectedClients' = ConnectedClients \ {b}, b \notin DOMAIN m_clients',
               callback = NoCallback, callback' = [kind |-> "disconnect", client |-> b]
        PROVE  CallbackState'
    <3>1. DOMAIN table = ConnectedClients
      BY <1>1, <2>4 DEF CallbackState, NoCallback
    <3> QED BY <2>1, <2>4, <3>1 DEF CallbackState
  <2>5. ASSUME ConnectedClients' = ConnectedClients, callback' = callback,
               \A b : b \notin DOMAIN m_clients => b \notin DOMAIN m_clients' \/ callback = NoCallback
        PROVE  CallbackState'
    <3>1. callback.kind = "disconnect" => callback # NoCallback
      BY DEF NoCallback
    <3> QED BY <1>1, <2>1, <2>5, <3>1 DEF CallbackState
  <2> QED BY <2>2, <2>3, <2>4, <2>5, ConnectedFrame
<1> QED BY <1>3, <1>4, <1>5

(* Who is in the game follows the table: the players of update() are those it
   found, whatever it was sent. *)
LEMMA PlayerTableNext ==
    ASSUME SessionInvariant, [Next]_vars
    PROVE  PlayerTable'
<1> DEFINE table == m_clientIDToPlayerID
           c == callback.client
           Ids == {table[b] : b \in DOMAIN table}
<1>1. /\ PlayerTable /\ ServerTyped /\ UpdatesKnown
      /\ m_nextPlayerID \in Nat /\ \A b \in DOMAIN table : table[b] \in Nat
  BY SessionTyped DEF SessionInvariant, PlayersInvariant, ServerTyped, GameServerTypeOK
<1>2. CASE OnClientConnected
  <2>1. /\ table' = [b \in DOMAIN table \cup {c} |-> IF b = c THEN m_nextPlayerID ELSE table[b]]
        /\ players' = AddPlayer(players, m_nextPlayerID)
        /\ m_nextPlayerID' = m_nextPlayerID + 1 /\ m_projectiles' = m_projectiles
    BY <1>2 DEF OnClientConnected
  <2>2. c \notin DOMAIN table
    BY <1>2 DEF OnClientConnected, SessionInvariant, PlayersInvariant, CallbackState
  <2>3. DOMAIN players' = DOMAIN players \cup {m_nextPlayerID}
    BY <2>1 DEF AddPlayer
  <2>4. m_nextPlayerID \notin Ids
    BY <1>1 DEF PlayerTable
  <2>5. DOMAIN table' = DOMAIN table \cup {c} /\ table'[c] = m_nextPlayerID
        /\ \A b \in DOMAIN table : table'[b] = table[b]
    BY <2>1, <2>2
  <2>6. DOMAIN players' = {table'[b] : b \in DOMAIN table'}
    BY <1>1, <2>3, <2>5 DEF PlayerTable
  <2>7. \A b \in DOMAIN table' : table'[b] < m_nextPlayerID'
    BY <1>1, <2>1, <2>5 DEF PlayerTable
  <2>8. \A a, b \in DOMAIN table' : table'[a] = table'[b] => a = b
    BY <1>1, <2>4, <2>5 DEF PlayerTable
  <2> QED BY <1>1, <2>1, <2>6, <2>7, <2>8 DEF PlayerTable
<1>3. CASE OnClientDisconnected
  <2>1. m_nextPlayerID' = m_nextPlayerID /\ m_projectiles' = m_projectiles
    BY <1>3 DEF OnClientDisconnected
  <2>2. CASE c \in DOMAIN table
    <3>1. /\ players' = RemovePlayer(players, table[c])
          /\ table' = [b \in DOMAIN table \ {c} |-> table[b]]
      BY <1>3, <2>2 DEF OnClientDisconnected
    <3>2. DOMAIN players' = DOMAIN players \ {table[c]}
      BY <3>1 DEF RemovePlayer
    <3>3. DOMAIN table' = DOMAIN table \ {c} /\ \A b \in DOMAIN table \ {c} : table'[b] = table[b]
      BY <3>1
    <3>4. DOMAIN players' = {table'[b] : b \in DOMAIN table'}
      BY <1>1, <2>2, <3>2, <3>3 DEF PlayerTable
    <3> QED BY <1>1, <2>1, <3>3, <3>4 DEF PlayerTable
  <2>3. CASE c \notin DOMAIN table
    <3>1. players' = players /\ table' = table
      BY <1>3, <2>3 DEF OnClientDisconnected
    <3> QED BY <1>1, <2>1, <3>1 DEF PlayerTable
  <2> QED BY <2>2, <2>3
<1>4. CASE Update
  <2>1. /\ players' \in Games(DOMAIN players) /\ IsFiniteSet(m_projectiles')
        /\ table' = table /\ m_nextPlayerID' = m_nextPlayerID
    BY <1>1, <1>4, UpdateTyped DEF Update
  <2>2. DOMAIN players' = DOMAIN players
    BY <2>1 DEF Games
  <2> QED BY <1>1, <2>1, <2>2 DEF PlayerTable
<1>5. CASE ~GameWork
  <2>1. UNCHANGED gameVars
    BY <1>5, TablesFrame
  <2> QED BY <1>1, <2>1 DEF PlayerTable, gameVars
<1> QED BY <1>2, <1>3, <1>4, <1>5 DEF GameWork

LEMMA GameServerTypeNext ==
    ASSUME SessionInvariant, [Next]_vars
    PROVE  GameServerTypeOK'
<1> DEFINE table == m_clientIDToPlayerID
           c == callback.client
<1>1. GameServerTypeOK /\ ServerTyped /\ UpdatesKnown /\ callback \in Callback
  BY SessionTyped DEF SessionInvariant, PlayersInvariant, TypeOK, NetworkTypeOK, ServerTypeOK
<1>2. tick' \in Tick
  <2>1. GameServerStep => tick' \in Tick
    BY <1>1 DEF GameServerStep, Accept, PumpReceiveTCP, PumpReceiveUDP, Send, Cleanup, RemoveClient,
                OnClientConnected, OnClientDisconnected, Update, gameServerVars, GameServerTypeOK, Tick
  <2>2. ~ServerStep => tick' = tick
    BY DEF Next, ClientStep, NetworkStep, gameServerVars, vars
  <2> QED BY <1>1, <2>1, <2>2 DEF ServerStep, GameServerTypeOK
<1>3. CASE OnClientConnected
  <2>1. /\ table' = [b \in DOMAIN table \cup {c} |-> IF b = c THEN m_nextPlayerID ELSE table[b]]
        /\ players' = AddPlayer(players, m_nextPlayerID)
        /\ m_nextPlayerID' = m_nextPlayerID + 1 /\ m_projectiles' = m_projectiles
    BY <1>3 DEF OnClientConnected
  <2>2. c \in Nat /\ m_nextPlayerID \in Nat
    BY <1>1 DEF Callback, GameServerTypeOK
  <2>3. /\ DOMAIN players' \subseteq Nat /\ players' \in [DOMAIN players' -> 1 .. MaxHealth]
    <3>1. MaxHealth \in 1 .. MaxHealth
      BY HealthAssumption
    <3> QED BY <1>1, <2>1, <2>2, <3>1 DEF AddPlayer, GameServerTypeOK
  <2>4. DOMAIN table' \subseteq Nat /\ table' \in [DOMAIN table' -> Nat] /\ m_nextPlayerID' \in Nat
    BY <1>1, <2>1, <2>2 DEF GameServerTypeOK
  <2> QED BY <1>1, <1>2, <2>1, <2>3, <2>4 DEF GameServerTypeOK
<1>4. CASE OnClientDisconnected
  <2>1. m_nextPlayerID' = m_nextPlayerID /\ m_projectiles' = m_projectiles
    BY <1>4 DEF OnClientDisconnected
  <2>2. players' = RemovePlayer(players, table[c]) \/ players' = players
    BY <1>4 DEF OnClientDisconnected
  <2>3. table' = [b \in DOMAIN table \ {c} |-> table[b]] \/ table' = table
    BY <1>4 DEF OnClientDisconnected
  <2>4. /\ DOMAIN players' \subseteq Nat /\ players' \in [DOMAIN players' -> 1 .. MaxHealth]
    BY <1>1, <2>2 DEF RemovePlayer, GameServerTypeOK
  <2>5. DOMAIN table' \subseteq Nat /\ table' \in [DOMAIN table' -> Nat]
    BY <1>1, <2>3 DEF GameServerTypeOK
  <2> QED BY <1>1, <1>2, <2>1, <2>4, <2>5 DEF GameServerTypeOK
<1>5. CASE Update
  <2>1. /\ players' \in Games(DOMAIN players) /\ m_projectiles' \subseteq Projectile
        /\ table' = table /\ m_nextPlayerID' = m_nextPlayerID
    BY <1>1, <1>5, UpdateTyped DEF Update
  <2>2. DOMAIN players' = DOMAIN players /\ players' \in [DOMAIN players' -> 1 .. MaxHealth]
    BY <2>1 DEF Games
  <2> QED BY <1>1, <1>2, <2>1, <2>2 DEF GameServerTypeOK
<1>6. CASE ~GameWork
  <2>1. UNCHANGED gameVars
    BY <1>6, TablesFrame
  <2> QED BY <1>1, <1>2, <2>1 DEF GameServerTypeOK, gameVars
<1> QED BY <1>3, <1>4, <1>5, <1>6 DEF GameWork

-----------------------------------------------------------------------------
(* What is still to come to a process, as a set *)

(* What the game adds to it. *)
GameNews(p, m) ==
    \/ /\ OnClientConnected
       /\ m \in {AssignLocalPlayerID(m_nextPlayerID), PlayerJoined(m_nextPlayerID)} \cup Introductions
       /\ m.type = "AssignLocalPlayerID" => connID[p] = callback.client
    \/ /\ OnClientDisconnected
       /\ callback.client \in DOMAIN m_clientIDToPlayerID
       /\ m = PlayerLeft(m_clientIDToPlayerID[callback.client])
       /\ connID[p] \in DOMAIN m_clients
    \/ Update /\ m \in Spawns \cup HealthsOf(DOMAIN players)

LEMMA ElementsOf ==
    ASSUME NEW msgs \in Seq(Message)
    PROVE  /\ \A i \in 1 .. Len(msgs) : msgs[i] \in ToSet(msgs)
           /\ \A m \in ToSet(msgs) : m \in Message /\ \E i \in 1 .. Len(msgs) : m = msgs[i]
BY DEF ToSet

LEMMA ComingTyped ==
    ASSUME SessionInvariant, [Next]_vars, NEW p \in Process
    PROVE  ToCome(p) \in Seq(Message) /\ ToCome(p)' \in Seq(Message)
<1>1. NetworkTypeOK /\ NetworkTypeOK'
  BY SessionTyped, StepIsNetworkStep, TypeNext DEF SessionInvariant, BindingInvariant
<1>2. toClient[p] \in Seq(Message) /\ Outbox(p) \in Seq(Message)
  BY <1>1, OutboxTyped DEF NetworkTypeOK, TransportTypeOK
<1>3. toClient'[p] \in Seq(Message) /\ \A c \in DOMAIN m_clients' : m_clients'[c] \in NetworkClientRecord
  BY <1>1 DEF NetworkTypeOK, TransportTypeOK, ServerTypeOK
<1>4. Outbox(p)' \in Seq(Message)
  BY <1>3, NoMessages, QueuesTyped DEF Outbox
<1>5. ToCome(p) = toClient[p] \o Outbox(p) /\ ToCome(p)' = toClient'[p] \o Outbox(p)'
  BY DEF ToCome, Outbox
<1> QED BY <1>2, <1>3, <1>4, <1>5

LEMMA AddedToQueue ==
    ASSUME NEW T \in Seq(Message), NEW O \in Seq(Message), NEW O1, NEW M, Grows(O, O1, M),
           NEW m \in ToSet(T \o O1)
    PROVE  m \in ToSet(T \o O) \/ m \in M
<1>1. O1 \in Seq(Message) /\ Len(O) <= Len(O1)
  BY DEF Grows
<1>2. PICK i \in 1 .. Len(T \o O1) : m = (T \o O1)[i]
  <2>1. T \o O1 \in Seq(Message)
    BY <1>1
  <2> QED BY <2>1, ElementsOf
<1>3. Len(T \o O) = Len(T) + Len(O) /\ Len(T \o O1) = Len(T) + Len(O1) /\ T \o O \in Seq(Message)
  BY <1>1
<1>4. CASE i \in 1 .. Len(T)
  <2>1. i \in 1 .. Len(T \o O) /\ m = (T \o O)[i]
    BY <1>1, <1>2, <1>3, <1>4
  <2> QED BY <1>3, <2>1, ElementsOf
<1>5. CASE i \notin 1 .. Len(T)
  <2> DEFINE k == i - Len(T)
  <2>1. k \in 1 .. Len(O1) /\ m = O1[k]
    BY <1>1, <1>2, <1>3, <1>5
  <2>2. k <= Len(O) => k \in 1 .. Len(O) /\ (T \o O)[i] = O[k] /\ i \in 1 .. Len(T \o O)
    BY <1>1, <1>3, <1>5, <2>1
  <2>3. IF k <= Len(O) THEN O1[k] = O[k] ELSE O1[k] \in M
    BY <2>1 DEF Grows
  <2> HIDE DEF k
  <2> QED BY <1>3, <2>1, <2>2, <2>3, ElementsOf
<1> QED BY <1>4, <1>5

LEMMA GameWorkHeard ==
    ASSUME SessionInvariant, [Next]_vars, GameWork, NEW p \in Process, NEW m \in ToSet(ToCome(p)')
    PROVE  m \in ToSet(ToCome(p)) \/ GameNews(p, m)
<1> DEFINE c == connID[p]
           T == toClient[p]
           O == Outbox(p)
           O1 == Outbox(p)'
<1>1. ServerTyped /\ UpdatesKnown /\ NetworkTypeOK
  BY SessionTyped
<1>2. T \in Seq(Message) /\ O \in Seq(Message)
  BY <1>1, OutboxTyped DEF NetworkTypeOK, TransportTypeOK
<1>3. connID' = connID /\ toClient' = toClient /\ DOMAIN m_clients' = DOMAIN m_clients
  BY GameWorkFrame DEF transportVars, tcpVars
<1>4. ToCome(p) = T \o O /\ ToCome(p)' = T \o O1
  BY <1>3 DEF ToCome, Outbox
<1>5. CASE c \notin DOMAIN m_clients
  <2>1. O1 = O
    BY <1>3, <1>5 DEF Outbox
  <2> QED BY <1>4, <2>1
<1>6. CASE c \in DOMAIN m_clients
  <2>1. O = m_clients[c].tcpOutbox /\ O1 = m_clients'[c].tcpOutbox
    BY <1>3, <1>6 DEF Outbox
  <2> HIDE DEF O, O1, T
  <2>2. CASE OnClientConnected
    <3> DEFINE M == {AssignLocalPlayerID(m_nextPlayerID), PlayerJoined(m_nextPlayerID)} \cup Introductions
               J == {PlayerJoined(m_nextPlayerID)}
    <3>1. AllServed(m_clients, m_clients', M)
      BY <1>1, <2>2, OnClientConnectedTyped
    <3>2. Grows(O, O1, M)
      BY <1>6, <2>1, <3>1 DEF AllServed, Served
    <3>3. c # callback.client => Grows(O, O1, J)
      BY <1>1, <1>6, <2>1, <2>2, OnClientConnectedTyped DEF Served
    <3>4. m \in J => m \in M /\ m.type # "AssignLocalPlayerID"
      BY DEF PlayerJoined
    <3> HIDE DEF M, J
    <3>5. m \in ToSet(ToCome(p)) \/ m \in M
      BY <1>2, <1>4, <3>2, AddedToQueue
    <3>6. c # callback.client => m \in ToSet(ToCome(p)) \/ m \in J
      BY <1>2, <1>4, <3>3, AddedToQueue
    <3> QED BY <2>2, <3>4, <3>5, <3>6 DEF GameNews, M
  <2>3. CASE OnClientDisconnected
    <3>1. CASE callback.client \in DOMAIN m_clientIDToPlayerID
      <4> DEFINE M == {PlayerLeft(m_clientIDToPlayerID[callback.client])}
      <4>1. AllServed(m_clients, m_clients', M)
        BY <1>1, <2>3, <3>1, OnClientDisconnectedTyped
      <4>2. Grows(O, O1, M)
        BY <1>6, <2>1, <4>1 DEF AllServed, Served
      <4>3. m \in ToSet(ToCome(p)) \/ m \in M
        <5> HIDE DEF M
        <5> QED BY <1>2, <1>4, <4>2, AddedToQueue
      <4> QED BY <1>6, <2>3, <3>1, <4>3 DEF GameNews
    <3>2. CASE callback.client \notin DOMAIN m_clientIDToPlayerID
      <4>1. O1 = O
        BY <1>1, <2>1, <2>3, <3>2, OnClientDisconnectedTyped
      <4> QED BY <1>4, <4>1
    <3> QED BY <3>1, <3>2
  <2>4. CASE Update
    <3>1. AllServed(m_clients, m_clients', Spawns \cup HealthsOf(DOMAIN players))
      BY <1>1, <2>4, UpdateTyped
    <3>2. Grows(O, O1, Spawns \cup HealthsOf(DOMAIN players))
      BY <1>6, <2>1, <3>1 DEF AllServed, Served
    <3>3. m \in ToSet(ToCome(p)) \/ m \in Spawns \cup HealthsOf(DOMAIN players)
      BY <1>2, <1>4, <3>2, AddedToQueue
    <3> QED BY <2>4, <3>3 DEF GameNews
  <2> QED BY <2>2, <2>3, <2>4 DEF GameWork
<1> QED BY <1>5, <1>6

(* A message still to come was to come before, or is of the handshake, or an
   answer to a ping, or what the game adds. *)
LEMMA HeardFrame ==
    ASSUME SessionInvariant, [Next]_vars, NEW p \in Process, NEW m \in ToSet(ToCome(p)')
    PROVE  \/ m \in ToSet(ToCome(p))
           \/ m.type \in {"UDPBindRequest", "UDPBindAck", "Pong"}
           \/ GameNews(p, m)
<1>1. CASE GameWork
  BY <1>1, GameWorkHeard
<1>2. CASE ~GameWork
  <2>1. BindingInvariant /\ NoneDisconnected /\ NetworkTypeOK /\ [NetworkNext]_networkVars
    BY SessionTyped, StepIsNetworkStep DEF SessionInvariant
  <2>2. ~Queues
    BY <1>2, TablesFrame DEF Queues
  <2>3. ToCome(p) \in Seq(Message) /\ ToCome(p)' \in Seq(Message)
    BY ComingTyped
  <2> DEFINE old == ToCome(p)
             new == ToCome(p)'
  <2>4. PICK k, n \in Nat :
          /\ Shifted(old, new, k, n)
          /\ \A i \in n + 1 .. Len(new) : News(p, new[i])
    <3>1. \E k, n \in Nat :
             /\ Shifted(ToCome(p), ToCome(p)', k, n)
             /\ \A i \in n + 1 .. Len(ToCome(p)') :
                  \/ ToCome(p)'[i] \in AppMessage /\ Queues
                  \/ i = n + 1 /\ i = Len(ToCome(p)') /\ News(p, ToCome(p)'[i])
      BY <2>1, ToComeFrame
    <3> QED BY <2>2, <3>1
  <2> HIDE DEF old, new
  <2>5. PICK i \in 1 .. Len(new) : m = new[i]
    BY <2>3 DEF ToSet, new
  <2>6. CASE i <= n
    <3>1. k + i \in 1 .. Len(old) /\ new[i] = old[k + i]
      BY <2>3, <2>4, <2>5, <2>6 DEF Shifted, old
    <3> QED BY <2>3, <2>5, <3>1 DEF ToSet, old
  <2>7. CASE ~(i <= n)
    <3>1. News(p, m)
      BY <2>3, <2>4, <2>5, <2>7 DEF new
    <3> QED BY <3>1 DEF News, Asked, Acknowledged, Answered, UDPBindRequest, UDPBindAck, Pong
  <2> QED BY <2>4, <2>5, <2>6, <2>7
<1> QED BY <1>1, <1>2

(* What the game adds tells a process of its own player once, of others leaving,
   and of healths in range. *)
LEMMA NewsTold ==
    ASSUME SessionInvariant, NEW p \in Process, NEW m, GameNews(p, m)
    PROVE  /\ m.type = "AssignLocalPlayerID" =>
                /\ OnClientConnected /\ connID[p] = callback.client
                /\ m = AssignLocalPlayerID(m_nextPlayerID)
           /\ m.type = "PlayerLeft" =>
                /\ OnClientDisconnected /\ callback.client \in DOMAIN m_clientIDToPlayerID
                /\ m.playerID = m_clientIDToPlayerID[callback.client]
                /\ connID[p] \in DOMAIN m_clients
           /\ m.type \in {"PlayerHealthUpdate", "PlayerRespawned"} => m.health \in 1 .. MaxHealth
<1>1. \A n \in Introductions \cup Spawns \cup Healths :
        /\ n.type \notin {"AssignLocalPlayerID", "PlayerLeft"}
        /\ n.type \in {"PlayerHealthUpdate", "PlayerRespawned"} => n.health \in 1 .. MaxHealth
  BY DEF Introductions, HealthsOf, Spawns, Healths, PlayerStateUpdate
<1>2. CASE OnClientConnected
           /\ m \in {AssignLocalPlayerID(m_nextPlayerID), PlayerJoined(m_nextPlayerID)} \cup Introductions
           /\ (m.type = "AssignLocalPlayerID" => connID[p] = callback.client)
  <2>1. PlayerJoined(m_nextPlayerID).type = "PlayerJoined"
        /\ AssignLocalPlayerID(m_nextPlayerID).type = "AssignLocalPlayerID"
    BY DEF PlayerJoined, AssignLocalPlayerID
  <2> QED BY <1>1, <1>2, <2>1
<1>3. CASE /\ OnClientDisconnected
           /\ callback.client \in DOMAIN m_clientIDToPlayerID
           /\ m = PlayerLeft(m_clientIDToPlayerID[callback.client])
           /\ connID[p] \in DOMAIN m_clients
  BY <1>3 DEF PlayerLeft
<1>4. CASE Update /\ m \in Spawns \cup HealthsOf(DOMAIN players)
  BY <1>1, <1>4 DEF HealthsOf
<1> QED BY <1>2, <1>3, <1>4 DEF GameNews

(* While a process is told that a player left, or when it is, the player is not
   its own. *)
LEMMA OthersLeave ==
    ASSUME SessionInvariant, OnClientDisconnected, NEW p \in Process, connID[p] \in DOMAIN m_clients,
           callback.client \in DOMAIN m_clientIDToPlayerID
    PROVE  ~OwnPlayer(p, m_clientIDToPlayerID[callback.client])
<1>1. callback.client \notin DOMAIN m_clients
  BY DEF OnClientDisconnected, SessionInvariant, PlayersInvariant, CallbackState
<1>2. connID[p] # callback.client
  BY <1>1
<1> QED BY <1>2 DEF OwnPlayer, ClientOf, Bound, PlayerOf, SessionInvariant, PlayersInvariant, PlayerTable

LEMMA FirstHeard ==
    ASSUME SessionInvariant, NEW p \in Process, toClient[p] # <<>>
    PROVE  Head(toClient[p]) \in ToSet(ToCome(p)) /\ Head(toClient[p]) \in Message
<1>1. toClient[p] \in Seq(Message) /\ Outbox(p) \in Seq(Message)
  BY SessionTyped, OutboxTyped DEF NetworkTypeOK, TransportTypeOK
<1>2. ToCome(p) = toClient[p] \o Outbox(p)
  BY DEF ToCome, Outbox
<1>3. ToCome(p) \in Seq(Message) /\ 1 \in 1 .. Len(ToCome(p)) /\ ToCome(p)[1] = Head(toClient[p])
  BY <1>1, <1>2
<1> QED BY <1>1, <1>3, ElementsOf

(* The client's own game changes in its own steps. *)
LEMMA GameClientFrame ==
    ASSUME SessionInvariant, [Next]_vars, NEW p \in Process
    PROVE  \/ ClientStep(p)
           \/ /\ m_localPlayerID'[p] = m_localPlayerID[p] /\ inGame'[p] = inGame[p]
              /\ view'[p] = view[p]
<1>1. GameClientTypeOK
  BY DEF SessionInvariant, PlayersInvariant, TypeOK
<1>2. ASSUME NEW q \in Process, ClientStep(q), q # p
      PROVE  /\ m_localPlayerID'[p] = m_localPlayerID[p] /\ inGame'[p] = inGame[p]
             /\ view'[p] = view[p]
  BY <1>1, <1>2 DEF ClientStep, GameClientStep, Handshaking, End, ClientReceiveTCP, ClientReceiveUDP, Apply,
                    EndPoll, EndFrame, gameClientVars, GameClientTypeOK
<1>3. ServerStep \/ NetworkStep \/ UNCHANGED vars => UNCHANGED gameClientVars
  BY DEF ServerStep, NetworkStep, vars
<1> QED BY <1>2, <1>3 DEF Next, gameClientVars

LEMMA LocalFrame ==
    ASSUME SessionInvariant, [Next]_vars, NEW p \in Process
    PROVE  \/ m_localPlayerID'[p] \in {m_localPlayerID[p], NoPlayer}
           \/ AssignLocalPlayerID(m_localPlayerID'[p]) \in ToSet(ToCome(p))
<1>1. GameClientTypeOK
  BY DEF SessionInvariant, PlayersInvariant, TypeOK
<1>2. ASSUME ClientReceiveTCP(p)
      PROVE  \/ m_localPlayerID'[p] = m_localPlayerID[p]
             \/ AssignLocalPlayerID(m_localPlayerID'[p]) \in ToSet(ToCome(p))
  <2> DEFINE msg == Head(toClient[p])
  <2>1. toClient[p] # <<>> /\ Apply(p, msg)
    BY <1>2 DEF ClientReceiveTCP, ReceiveFromServer, TakeTCP
  <2>2. msg \in ToSet(ToCome(p)) /\ msg \in Message
    BY <2>1, FirstHeard
  <2>3. msg.type = "AssignLocalPlayerID" => msg = AssignLocalPlayerID(msg.playerID)
    <3> HIDE DEF msg
    <3> QED BY <2>2 DEF Message, NetMessage, AppMessage, AssignLocalPlayerID
  <2> HIDE DEF msg
  <2> QED BY <1>1, <2>1, <2>2, <2>3 DEF Apply, GameClientTypeOK
<1>3. ASSUME NEW d \in udpToClient, ClientReceiveUDP(p, d) PROVE m_localPlayerID'[p] = m_localPlayerID[p]
  <2>1. d.msg.type # "AssignLocalPlayerID"
    BY DEF SessionInvariant, PlayersInvariant, Datagrams
  <2> QED BY <1>3, <2>1 DEF ClientReceiveUDP, Apply
<1>4. ASSUME End(p) PROVE m_localPlayerID'[p] = NoPlayer
  BY <1>1, <1>4 DEF End, GameClientTypeOK
<1>5. ASSUME ClientStep(p)
      PROVE  \/ m_localPlayerID'[p] \in {m_localPlayerID[p], NoPlayer}
             \/ AssignLocalPlayerID(m_localPlayerID'[p]) \in ToSet(ToCome(p))
  BY <1>2, <1>3, <1>4, <1>5 DEF ClientStep, GameClientStep, Handshaking, EndPoll, EndFrame, gameClientVars
<1> QED BY <1>5, GameClientFrame

LEMMA ToProcessNext ==
    ASSUME SessionInvariant, [Next]_vars
    PROVE  ToProcess'
<1> SUFFICES ASSUME NEW p \in Process, NEW m \in ToSet(ToCome(p)')
             PROVE  /\ m.type = "AssignLocalPlayerID" => OwnPlayer(p, m.playerID)'
                    /\ m.type = "PlayerLeft" =>
                         /\ m.playerID < m_nextPlayerID'
                         /\ m.playerID # m_localPlayerID'[p]
                         /\ AssignLocalPlayerID(m.playerID) \notin ToSet(ToCome(p)')
                    /\ m.type \in {"PlayerHealthUpdate", "PlayerRespawned"} => m.health \in 1 .. MaxHealth
  BY DEF ToProcess
<1> DEFINE table == m_clientIDToPlayerID
           heard == ToSet(ToCome(p))
           id == m.playerID
           a == AssignLocalPlayerID(id)
<1>1. /\ m_nextPlayerID \in Nat /\ \A c \in DOMAIN table : table[c] \in Nat /\ table[c] < m_nextPlayerID
      /\ 0 \notin DOMAIN m_clients /\ connID \in [Process -> Nat] /\ NetworkTypeOK /\ Identities
      /\ NoPlayer \notin Nat
  BY SessionTyped, ShotAssumption
     DEF ServerTyped, GameServerTypeOK, ServerTypeOK, NetworkTypeOK, TransportTypeOK, SessionInvariant,
         BindingInvariant, PlayersInvariant, PlayerTable
<1>2. \A n \in heard :
        /\ n.type = "AssignLocalPlayerID" => OwnPlayer(p, n.playerID)
        /\ n.type = "PlayerLeft" =>
             /\ n.playerID < m_nextPlayerID /\ n.playerID # m_localPlayerID[p]
             /\ AssignLocalPlayerID(n.playerID) \notin heard
        /\ n.type \in {"PlayerHealthUpdate", "PlayerRespawned"} => n.health \in 1 .. MaxHealth
  BY DEF SessionInvariant, PlayersInvariant, ToProcess
<1> HIDE DEF heard
<1>3. /\ m \in heard \/ m.type \in {"UDPBindRequest", "UDPBindAck", "Pong"} \/ GameNews(p, m)
      /\ a \in ToSet(ToCome(p)') => a \in heard \/ GameNews(p, a)
  <2>1. a.type = "AssignLocalPlayerID"
    BY DEF AssignLocalPlayerID
  <2> HIDE DEF a
  <2> QED BY <2>1, HeardFrame DEF heard
<1>4. ASSUME m.type = "AssignLocalPlayerID" PROVE OwnPlayer(p, id)'
  <2>1. CASE m \in heard
    BY <1>2, <1>4, <2>1, OwnPlayerKept
  <2>2. CASE GameNews(p, m)
    <3>1. OnClientConnected /\ connID[p] = callback.client /\ m = AssignLocalPlayerID(m_nextPlayerID)
      BY <1>4, <2>2, NewsTold
    <3>2. id = m_nextPlayerID
      BY <3>1 DEF AssignLocalPlayerID
    <3>3. connID[p] \in DOMAIN m_clients
      BY <3>1 DEF OnClientConnected, SessionInvariant, PlayersInvariant, CallbackState, ConnectedClients
    <3>4. connID' = connID
      BY <3>1 DEF OnClientConnected, transportVars, tcpVars
    <3>5. connID[p] \in DOMAIN table' /\ table'[connID[p]] = id
      BY <3>1, <3>2 DEF OnClientConnected
    <3> HIDE DEF id
    <3> QED BY <1>1, <3>3, <3>4, <3>5 DEF OwnPlayer, ClientOf, Bound, PlayerOf
  <2> QED BY <1>3, <1>4, <2>1, <2>2
<1>5. ASSUME m.type = "PlayerLeft"
      PROVE  /\ id < m_nextPlayerID' /\ id # m_localPlayerID'[p]
             /\ a \notin ToSet(ToCome(p)')
  <2>1. m_nextPlayerID' \in {m_nextPlayerID, m_nextPlayerID + 1}
    BY TablesFrame DEF GameWork, OnClientConnected, OnClientDisconnected, Update, gameVars
  <2>2. GameNews(p, a) => OnClientConnected /\ id = m_nextPlayerID
    <3>1. a.type = "AssignLocalPlayerID" /\ a.playerID = id
          /\ AssignLocalPlayerID(m_nextPlayerID).playerID = m_nextPlayerID
      BY DEF AssignLocalPlayerID
    <3> HIDE DEF a
    <3> QED BY <3>1, NewsTold
  <2>3. a \in heard => OwnPlayer(p, id)
    <3>1. a.type = "AssignLocalPlayerID" /\ a.playerID = id
      BY DEF AssignLocalPlayerID
    <3> HIDE DEF a
    <3> QED BY <1>2, <3>1
  <2>4. CASE m \in heard
    <3>1. id < m_nextPlayerID /\ id # m_localPlayerID[p] /\ a \notin heard
      BY <1>2, <1>5, <2>4
    <3>2. id \in Nat
      <4>1. ToCome(p)' \in Seq(Message)
        BY SessionTyped, ComingTyped
      <4>2. m \in Message
        BY <4>1, ElementsOf
      <4> QED BY <1>5, <4>2 DEF Message, NetMessage, AppMessage
    <3>3. id < m_nextPlayerID'
      BY <1>1, <2>1, <3>1, <3>2
    <3>4. id # m_localPlayerID'[p]
      BY <1>1, <3>1, <3>2, LocalFrame DEF heard
    <3>5. a \notin ToSet(ToCome(p)')
      <4> HIDE DEF a, id
      <4> QED BY <1>1, <1>3, <2>2, <3>1, <3>2
    <3> QED BY <3>3, <3>4, <3>5
  <2>5. CASE GameNews(p, m)
    <3>1. /\ OnClientDisconnected /\ callback.client \in DOMAIN table
          /\ id = table[callback.client] /\ connID[p] \in DOMAIN m_clients
      BY <1>5, <2>5, NewsTold
    <3>2. ~OwnPlayer(p, id)
      BY <3>1, OthersLeave
    <3>3. m_nextPlayerID' = m_nextPlayerID /\ ~OnClientConnected
      BY <3>1 DEF OnClientDisconnected, OnClientConnected
    <3>4. m_localPlayerID' = m_localPlayerID
      BY <3>1, GameWorkFrame DEF GameWork, gameClientVars
    <3>5. id # m_localPlayerID[p]
      BY <1>1, <3>1, <3>2 DEF SessionInvariant, PlayersInvariant, LocalPlayer
    <3>6. id < m_nextPlayerID'
      BY <1>1, <3>1, <3>3
    <3> HIDE DEF a, id
    <3> QED BY <1>3, <2>2, <2>3, <3>2, <3>3, <3>4, <3>5, <3>6
  <2> QED BY <1>3, <1>5, <2>4, <2>5
<1>6. ASSUME m.type \in {"PlayerHealthUpdate", "PlayerRespawned"} PROVE m.health \in 1 .. MaxHealth
  BY <1>2, <1>3, <1>6, NewsTold
<1> QED BY <1>4, <1>5, <1>6

-----------------------------------------------------------------------------
(* What is on its way to the server, and in the queues of its clients *)

LEMMA ToServerNext ==
    ASSUME SessionInvariant, [Next]_vars, NEW p \in Process, NEW m \in ToSet(toServer'[p])
    PROVE  m.type \in {"ProjectileSpawn", "Ping"}
<1>1. toServer \in [Process -> Seq(Message)] /\ NetworkTypeOK
      /\ \A n \in ToSet(toServer[p]) : n.type \in {"ProjectileSpawn", "Ping"}
  BY SessionTyped DEF NetworkTypeOK, TransportTypeOK, SessionInvariant, PlayersInvariant, FromProcess
<1>2. CASE toServer'[p] = toServer[p]
  BY <1>1, <1>2
<1>3. ASSUME NEW c \in DOMAIN m_clients, ReceiveTCP(c) PROVE m.type \in {"ProjectileSpawn", "Ping"}
  <2>1. toServer'[p] = toServer[p] \/ (toServer[p] # <<>> /\ toServer'[p] = Tail(toServer[p]))
    BY <1>1, <1>3 DEF ReceiveTCP
  <2>2. ASSUME toServer[p] # <<>>, toServer'[p] = Tail(toServer[p]) PROVE m \in ToSet(toServer[p])
    <3>1. PICK i \in 1 .. Len(Tail(toServer[p])) : m = Tail(toServer[p])[i]
      <4>1. Tail(toServer[p]) \in Seq(Message)
        BY <1>1, <2>2
      <4> QED BY <2>2, <4>1, ElementsOf
    <3>2. i + 1 \in 1 .. Len(toServer[p]) /\ m = toServer[p][i + 1]
      BY <1>1, <2>2, <3>1
    <3> QED BY <1>1, <3>2, ElementsOf
  <2> QED BY <1>1, <2>1, <2>2
<1>4. ASSUME NEW c \in toRemove, RemoveDisconnected(c) PROVE m.type \in {"ProjectileSpawn", "Ping"}
  <2>1. toServer'[p] = toServer[p] \/ toServer'[p] = <<>>
    BY <1>1, <1>4 DEF RemoveDisconnected
  <2>2. toServer'[p] # <<>>
    BY DEF ToSet
  <2> QED BY <1>2, <2>1, <2>2
<1>5. ASSUME NEW shoots \in BOOLEAN, NEW withPing \in BOOLEAN, EndFrame(p, shoots, withPing)
      PROVE  m.type \in {"ProjectileSpawn", "Ping"}
  <2> DEFINE ping == Ping(m_nextPingSeq[p])
             spawn == SpawnOf(p, shoots)
             over == WithPing(spawn, p, withPing, "TCP")
             M == Spawns \cup {ping}
  <2>1. /\ spawn \in Seq(Spawns) /\ over \in Seq(Message)
        /\ toServer' = [toServer EXCEPT ![p] = IF clientOpen[p] /\ serverOpen[p] THEN @ \o over ELSE @]
    BY <1>1, <1>5, FrameSends, PumpSendAdds
  <2>2. over \in Seq(M)
    <3> HIDE DEF spawn, ping
    <3>1. spawn \in Seq(M) /\ ping \in M
      BY <2>1
    <3>2. over \in {spawn, Append(spawn, ping)}
      BY DEF WithPing, ping
    <3> HIDE DEF over, M
    <3> QED BY <3>1, <3>2
  <2>3. \A n \in M : n.type \in {"ProjectileSpawn", "Ping"}
    BY DEF Spawns, Ping
  <2> HIDE DEF ping, spawn, over, M
  <2>4. toServer'[p] = toServer[p] \/ toServer'[p] = toServer[p] \o over
    BY <1>1, <2>1
  <2>5. ASSUME toServer'[p] = toServer[p] \o over PROVE m \in ToSet(toServer[p]) \/ m \in M
    <3>1. Grows(<<>>, over, M)
      BY <2>1, <2>2 DEF Grows
    <3>2. m \in ToSet(toServer[p] \o <<>>) \/ m \in M
      BY <1>1, <2>5, <3>1, NoMessages, AddedToQueue
    <3>3. toServer[p] \o <<>> = toServer[p]
      BY <1>1
    <3> QED BY <3>2, <3>3
  <2> QED BY <1>1, <1>2, <2>3, <2>4, <2>5
<1>6. ASSUME ~\E c \in DOMAIN m_clients : ReceiveTCP(c), ~\E c \in toRemove : RemoveDisconnected(c),
             ~\E shoots, withPing \in BOOLEAN : EndFrame(p, shoots, withPing)
      PROVE  toServer'[p] = toServer[p]
  <2>1. ServerStep => toServer' = toServer
    BY <1>6 DEF ServerStep, GameServerStep, Accept, AcceptConnection, PumpReceiveTCP, PumpReceiveUDP,
                DispatchDatagram, HandleUDPBind, IgnoreDatagram, Send, PumpSend, Cleanup, CollectDisconnected,
                RemoveClient, OnClientConnected, OnClientDisconnected, Update, transportVars, tcpVars
  <2>2. ASSUME NEW q \in Process, ClientStep(q) PROVE toServer'[p] = toServer[p]
    <3>1. CASE \E shoots, withPing \in BOOLEAN : EndFrame(q, shoots, withPing)
      <4>1. q # p
        BY <1>6, <3>1
      <4> QED BY <1>1, <3>1, <4>1 DEF EndFrame, ClientPumpSend
    <3>2. CASE ~\E shoots, withPing \in BOOLEAN : EndFrame(q, shoots, withPing)
      BY <2>2, <3>2 DEF ClientStep, GameClientStep, Handshaking, Start, TakeBindRequest, PollBindRequest,
                        TakeBindAck, PollBindAck, TakeTCP, End, Exit, ClientReceiveTCP, ReceiveFromServer,
                        ClientReceiveUDP, ReceiveDatagram, EndPoll, transportVars, tcpVars
    <3> QED BY <3>1, <3>2
  <2>3. NetworkStep => toServer' = toServer
    BY DEF NetworkStep, ServerDisconnect
  <2> QED BY <2>1, <2>2, <2>3 DEF Next, vars, networkVars, transportVars, tcpVars
<1> QED BY <1>2, <1>3, <1>4, <1>5, <1>6

(* A message is put in its client's inbox; a ping has a pong sent back. *)
LEMMA Dispatched ==
    ASSUME NEW clients, clients \in [DOMAIN clients -> NetworkClientRecord],
           NEW msg \in Message, NEW target, NEW transport, NEW c \in DOMAIN clients
    PROVE  /\ \A m \in ToSet(Dispatch(clients, target, msg, transport)[c].udpOutbox) :
                m \in ToSet(clients[c].udpOutbox) \/ m.type = "Pong"
           /\ \A m \in ToSet(Dispatch(clients, target, msg, transport)[c].inbox) :
                m \in ToSet(clients[c].inbox) \/ (m = msg /\ c = target /\ m.type # "Ping")
<1> DEFINE after == Dispatch(clients, target, msg, transport)[c]
           old == clients[c].inbox
           sent == clients[c].udpOutbox
<1>1. clients[c] \in NetworkClientRecord /\ old \in Seq(Message) /\ sent \in Seq(Message)
  BY QueuesTyped
<1>2. ASSUME NEW msgs \in Seq(Message), NEW new \in Message,
             NEW m \in ToSet(Append(msgs, new))
      PROVE  m \in ToSet(msgs) \/ m = new
  <2>1. PICK i \in 1 .. Len(msgs) + 1 : m = Append(msgs, new)[i]
    <3>1. Append(msgs, new) \in Seq(Message) /\ Len(Append(msgs, new)) = Len(msgs) + 1
      OBVIOUS
    <3> QED BY <1>2, <3>1, ElementsOf
  <2>2. i \in 1 .. Len(msgs) => m = msgs[i]
    BY <2>1
  <2>3. i \notin 1 .. Len(msgs) => m = new
    BY <2>1
  <2> QED BY <2>2, <2>3, ElementsOf
<1>3. CASE msg.type = "Ping"
  <2> DEFINE pong == Pong(msg.seq)
  <2>1. pong \in Message /\ pong.type = "Pong"
    BY <1>3 DEF Message, NetMessage, AppMessage, Pong
  <2>2. /\ after.inbox = old
        /\ after.udpOutbox \in {sent, sent \o <<pong>>}
    BY <1>1, <1>3 DEF Dispatch, QueueMessages, QueueTCP, QueueUDP, NetworkClientRecord
  <2>3. sent \o <<pong>> = Append(sent, pong)
    BY <1>1, <2>1
  <2> HIDE DEF pong
  <2> QED BY <1>1, <1>2, <2>1, <2>2, <2>3
<1>4. CASE msg.type # "Ping" /\ c = target
  <2>1. after.udpOutbox = sent /\ after.inbox = Append(old, msg)
    BY <1>1, <1>4 DEF Dispatch, NetworkClientRecord
  <2> QED BY <1>1, <1>2, <1>4, <2>1
<1>5. CASE msg.type # "Ping" /\ c # target
  BY <1>5 DEF Dispatch
<1> QED BY <1>3, <1>4, <1>5

(* What the server keeps of what it reads is a projectile spawned, by TCP, or a
   datagram that is not a ping; a pong or what it relays is all it sends by UDP. *)
LEMMA ClientQueuesFrame ==
    ASSUME SessionInvariant, [Next]_vars, NEW c \in DOMAIN m_clients'
    PROVE  /\ \A m \in ToSet(m_clients'[c].udpOutbox) :
                \/ c \in DOMAIN m_clients /\ m \in ToSet(m_clients[c].udpOutbox)
                \/ m \in Relayed \/ m.type = "Pong"
           /\ \A m \in ToSet(m_clients'[c].inbox) :
                \/ c \in DOMAIN m_clients /\ m \in ToSet(m_clients[c].inbox)
                \/ m.type = "ProjectileSpawn"
                \/ \E d \in udpToServer : /\ m = d.msg /\ d.from \in DOMAIN m_udpEndpointToClientID
                                          /\ m_udpEndpointToClientID[d.from] = c
                                          /\ m.type # "Ping"
<1> DEFINE Goal ==
             /\ \A m \in ToSet(m_clients'[c].udpOutbox) :
                  \/ c \in DOMAIN m_clients /\ m \in ToSet(m_clients[c].udpOutbox)
                  \/ m \in Relayed \/ m.type = "Pong"
             /\ \A m \in ToSet(m_clients'[c].inbox) :
                  \/ c \in DOMAIN m_clients /\ m \in ToSet(m_clients[c].inbox)
                  \/ m.type = "ProjectileSpawn"
                  \/ \E d \in udpToServer : /\ m = d.msg /\ d.from \in DOMAIN m_udpEndpointToClientID
                                            /\ m_udpEndpointToClientID[d.from] = c
                                            /\ m.type # "Ping"
<1>1. /\ ServerTyped /\ UpdatesKnown /\ NetworkTypeOK
      /\ m_clients \in [DOMAIN m_clients -> NetworkClientRecord]
      /\ \A b \in DOMAIN m_clients : m_clients[b] \in NetworkClientRecord
      /\ toServer \in [Process -> Seq(Message)] /\ udpToServer \subseteq ToServerDatagram
  BY SessionTyped DEF NetworkTypeOK, ServerTypeOK, TransportTypeOK
<1>2. ToSet(<<>>) = {}
  BY DEF ToSet
<1>3. ASSUME c \in DOMAIN m_clients, m_clients'[c].udpOutbox = m_clients[c].udpOutbox,
             m_clients'[c].inbox = m_clients[c].inbox
      PROVE  Goal
  BY <1>3
<1>4. ASSUME GameWork PROVE Goal
  <2>1. DOMAIN m_clients' = DOMAIN m_clients
    BY <1>4, GameWorkFrame
  <2>2. c \in DOMAIN m_clients /\ m_clients[c].udpOutbox \in Seq(Message)
        /\ m_clients[c].inbox \in Seq(Message)
    BY <1>1, <2>1, QueuesTyped
  <2>3. \/ m_clients' = m_clients
        \/ \E M : AllServed(m_clients, m_clients', M)
    BY <1>1, <1>4, OnClientConnectedTyped, OnClientDisconnectedTyped, UpdateTyped DEF GameWork
  <2>4. ASSUME NEW M, AllServed(m_clients, m_clients', M) PROVE Goal
    <3>1. /\ Grows(m_clients[c].udpOutbox, m_clients'[c].udpOutbox, Relayed)
          /\ m_clients'[c].inbox \in {m_clients[c].inbox, <<>>}
      BY <2>2, <2>4 DEF AllServed, Served
    <3>2. ASSUME NEW m \in ToSet(m_clients'[c].udpOutbox)
          PROVE  m \in Relayed \/ m \in ToSet(m_clients[c].udpOutbox)
      <4>1. <<>> \o m_clients'[c].udpOutbox = m_clients'[c].udpOutbox
            /\ <<>> \o m_clients[c].udpOutbox = m_clients[c].udpOutbox
        BY <2>2, <3>1 DEF Grows
      <4> DEFINE new == m_clients'[c].udpOutbox
                 old == m_clients[c].udpOutbox
      <4>2. Grows(old, new, Relayed) /\ old \in Seq(Message) /\ m \in ToSet(<<>> \o new)
        BY <2>2, <3>1, <3>2, <4>1
      <4> HIDE DEF new, old
      <4>3. m \in ToSet(<<>> \o old) \/ m \in Relayed
        BY <4>2, NoMessages, AddedToQueue
      <4> QED BY <4>1, <4>3 DEF old
    <3> QED BY <1>2, <2>2, <3>1, <3>2
  <2> QED BY <1>3, <2>2, <2>3, <2>4
<1>5. ASSUME AcceptConnection PROVE Goal
  <2>1. c = m_nextClientID \/ (c \in DOMAIN m_clients /\ m_clients'[c] = m_clients[c])
    BY <1>5 DEF AcceptConnection
  <2>2. c = m_nextClientID => m_clients'[c].udpOutbox = <<>> /\ m_clients'[c].inbox = <<>>
    BY <1>5 DEF AcceptConnection, NewClient
  <2> QED BY <1>2, <1>3, <2>1, <2>2
<1>6. ASSUME NEW b \in DOMAIN m_clients, ReceiveTCP(b) PROVE Goal
  <2> DEFINE p == m_clients[b].tcpConnection
             msg == Head(toServer[p])
  <2>1. p \in Process /\ toServer[p] \in Seq(Message) /\ toServer[p] # <<>>
        /\ m_clients' = Dispatch(m_clients, b, msg, "TCP")
    BY <1>1, <1>6 DEF ReceiveTCP, NetworkClientRecord
  <2>2. msg \in ToSet(toServer[p]) /\ msg \in Message
    <3>1. 1 \in 1 .. Len(toServer[p]) /\ msg = toServer[p][1]
      BY <2>1
    <3> QED BY <2>1, <3>1, ElementsOf
  <2>3. msg.type \in {"ProjectileSpawn", "Ping"}
    BY <2>1, <2>2 DEF SessionInvariant, PlayersInvariant, FromProcess
  <2> HIDE DEF msg, p
  <2>4. c \in DOMAIN m_clients
    BY <1>1, <2>1, <2>2, DispatchTyped
  <2>5. /\ \A m \in ToSet(m_clients'[c].udpOutbox) :
             m \in ToSet(m_clients[c].udpOutbox) \/ m.type = "Pong"
        /\ \A m \in ToSet(m_clients'[c].inbox) :
             m \in ToSet(m_clients[c].inbox) \/ m.type = "ProjectileSpawn"
    <3>1. m_clients \in [DOMAIN m_clients -> NetworkClientRecord]
      BY <1>1
    <3>2. /\ \A m \in ToSet(Dispatch(m_clients, b, msg, "TCP")[c].udpOutbox) :
               m \in ToSet(m_clients[c].udpOutbox) \/ m.type = "Pong"
          /\ \A m \in ToSet(Dispatch(m_clients, b, msg, "TCP")[c].inbox) :
               m \in ToSet(m_clients[c].inbox) \/ (m = msg /\ c = b /\ m.type # "Ping")
      BY <2>2, <2>4, <3>1, Dispatched
    <3> QED BY <2>1, <2>3, <3>2
  <2> QED BY <2>4, <2>5
<1>7. ASSUME NEW d \in udpToServer, DispatchDatagram(d) PROVE Goal
  <2> DEFINE b == m_udpEndpointToClientID[d.from]
  <2>1. d.from \in DOMAIN m_udpEndpointToClientID /\ m_clients' = Dispatch(m_clients, b, d.msg, "UDP")
    BY <1>7 DEF DispatchDatagram
  <2>2. d.msg \in Message
    BY <1>1 DEF ToServerDatagram
  <2>3. c \in DOMAIN m_clients
    BY <1>1, <2>1, <2>2, DispatchTyped
  <2>4. /\ \A m \in ToSet(m_clients'[c].udpOutbox) :
             m \in ToSet(m_clients[c].udpOutbox) \/ m.type = "Pong"
        /\ \A m \in ToSet(m_clients'[c].inbox) :
             m \in ToSet(m_clients[c].inbox) \/ (m = d.msg /\ c = b /\ m.type # "Ping")
    <3>1. m_clients \in [DOMAIN m_clients -> NetworkClientRecord]
      BY <1>1
    <3> DEFINE msg == d.msg
    <3> HIDE DEF b, msg
    <3>2. /\ \A m \in ToSet(Dispatch(m_clients, b, msg, "UDP")[c].udpOutbox) :
               m \in ToSet(m_clients[c].udpOutbox) \/ m.type = "Pong"
          /\ \A m \in ToSet(Dispatch(m_clients, b, msg, "UDP")[c].inbox) :
               m \in ToSet(m_clients[c].inbox) \/ (m = msg /\ c = b /\ m.type # "Ping")
      <4>1. msg \in Message
        BY <2>2 DEF msg
      <4> QED BY <2>3, <3>1, <4>1, Dispatched
    <3> QED BY <2>1, <3>2 DEF msg
  <2> QED BY <2>1, <2>3, <2>4
<1>8. ASSUME NEW d \in udpToServer, HandleUDPBind(d) PROVE Goal
  <2>1. PICK b \in ClientsWithToken(d.msg.token) :
          m_clients' = [m_clients EXCEPT ![b].udpEndpoint = d.from,
                                         ![b].status = "Connected",
                                         ![b].tcpOutbox = Append(@, UDPBindAck)]
    BY <1>8 DEF HandleUDPBind
  <2>2. c \in DOMAIN m_clients /\ b \in DOMAIN m_clients
    BY <2>1 DEF ClientsWithToken
  <2>3. m_clients'[c].udpOutbox = m_clients[c].udpOutbox /\ m_clients'[c].inbox = m_clients[c].inbox
    BY <1>1, <2>1, <2>2 DEF NetworkClientRecord
  <2> QED BY <1>3, <2>2, <2>3
<1>9. ASSUME PumpSend PROVE Goal
  <2>1. c \in DOMAIN m_clients
        /\ m_clients'[c] = [m_clients[c] EXCEPT !.tcpOutbox = <<>>, !.udpOutbox = <<>>]
    BY <1>9 DEF PumpSend
  <2>2. m_clients'[c].udpOutbox = <<>> /\ m_clients'[c].inbox = m_clients[c].inbox
    BY <1>1, <2>1 DEF NetworkClientRecord
  <2> QED BY <1>2, <2>1, <2>2
<1>10. ASSUME NEW b \in toRemove, RemoveDisconnected(b) PROVE Goal
  <2>1. c \in DOMAIN m_clients /\ m_clients'[c] = m_clients[c]
    BY <1>10 DEF RemoveDisconnected
  <2> QED BY <1>3, <2>1
<1>11. ASSUME ~GameWork, ~NetworkServerStep PROVE Goal
  <2>1. m_clients' = m_clients
    BY <1>11, TablesFrame
  <2> QED BY <1>3, <2>1
<1>12. ASSUME m_clients' = m_clients PROVE Goal
  BY <1>3, <1>12
<1>13. NetworkServerStep =>
          \/ AcceptConnection \/ PumpSend \/ m_clients' = m_clients
          \/ \E b \in DOMAIN m_clients : ReceiveTCP(b)
          \/ \E d \in udpToServer : DispatchDatagram(d) \/ HandleUDPBind(d)
          \/ \E b \in toRemove : RemoveDisconnected(b)
  BY DEF NetworkServerStep, IgnoreDatagram, CollectDisconnected, serverVars
<1> HIDE DEF Goal
<1>14. Goal
  BY <1>4, <1>5, <1>6, <1>7, <1>8, <1>9, <1>10, <1>11, <1>12, <1>13
<1> QED BY <1>14 DEF Goal

(* A datagram on its way to a process was on its way or in an outbox. *)
LEMMA DatagramsFrame ==
    ASSUME [Next]_vars, NEW d \in udpToClient'
    PROVE  d \in udpToClient \/ \E c \in DOMAIN m_clients : d.msg \in ToSet(m_clients[c].udpOutbox)
<1>1. CASE PumpSend
  <2>1. d \in udpToClient \/ d \in SentDatagrams
    BY <1>1 DEF PumpSend
  <2>2. d \in SentDatagrams => \E c \in DOMAIN m_clients : d.msg \in ToSet(m_clients[c].udpOutbox)
    BY DEF SentDatagrams
  <2> QED BY <2>1, <2>2
<1>2. CASE ~PumpSend
  <2>1. ServerStep => udpToClient' = udpToClient
    BY <1>2 DEF ServerStep, GameServerStep, Accept, AcceptConnection, PumpReceiveTCP, ReceiveTCP, PumpReceiveUDP,
                DispatchDatagram, HandleUDPBind, IgnoreDatagram, TakeDatagram, Send, Cleanup, CollectDisconnected,
                RemoveClient, RemoveDisconnected, OnClientConnected, OnClientDisconnected, Update,
                transportVars, udpVars
  <2>2. ASSUME NEW q \in Process, ClientStep(q) PROVE udpToClient' \subseteq udpToClient
    BY <2>2 DEF ClientStep, GameClientStep, Handshaking, Start, TakeBindRequest, PollBindRequest,
                TakeBindAck, PollBindAck, TakeTCP, End, Exit, ClientReceiveTCP, ReceiveFromServer,
                ClientReceiveUDP, ReceiveDatagram, EndPoll, EndFrame, ClientPumpSend, transportVars, udpVars
  <2>3. NetworkStep => udpToClient' = udpToClient
    BY DEF NetworkStep, ServerDisconnect, udpVars
  <2>4. UNCHANGED vars => udpToClient' = udpToClient
    BY DEF vars, networkVars, transportVars, udpVars
  <2> QED BY <2>1, <2>2, <2>3, <2>4 DEF Next
<1> QED BY <1>1, <1>2

LEMMA ToClientDatagramsNext ==
    ASSUME SessionInvariant, [Next]_vars, NEW d \in udpToClient'
    PROVE  d.msg.type \in {"PlayerStateUpdate", "Pong"}
BY DatagramsFrame DEF SessionInvariant, PlayersInvariant, Datagrams

(* What a client sends is of the player it was given. *)
LEMMA ToServerDatagramsNext ==
    ASSUME SessionInvariant, [Next]_vars, NEW d \in udpToServer', d.msg.type \notin {"UDPBind", "Ping"}
    PROVE  /\ d.msg.type = "PlayerStateUpdate"
           /\ \E p \in Process : d.from = EndpointOf[p] /\ OwnPlayer(p, d.msg.playerID)'
<1>1. CASE d \in udpToServer
  <2>1. /\ d.msg.type = "PlayerStateUpdate"
        /\ \E p \in Process : d.from = EndpointOf[p] /\ OwnPlayer(p, d.msg.playerID)
    BY <1>1 DEF SessionInvariant, PlayersInvariant, Datagrams
  <2>2. PICK p \in Process : d.from = EndpointOf[p] /\ OwnPlayer(p, d.msg.playerID)
    BY <2>1
  <2>3. OwnPlayer(p, d.msg.playerID)'
    <3> DEFINE id == d.msg.playerID
    <3>1. OwnPlayer(p, id)
      BY <2>2
    <3> HIDE DEF id
    <3>2. OwnPlayer(p, id)'
      BY <3>1, OwnPlayerKept
    <3> QED BY <3>2 DEF id
  <2> QED BY <2>1, <2>2, <2>3
<1>2. ASSUME NEW p \in Process, NEW shoots \in BOOLEAN, NEW withPing \in BOOLEAN,
             EndFrame(p, shoots, withPing), d \notin udpToServer
      PROVE  /\ d.msg.type = "PlayerStateUpdate"
             /\ d.from = EndpointOf[p] /\ OwnPlayer(p, d.msg.playerID)'
  <2>1. PICK id \in Nat : id = m_localPlayerID[p]
    BY <1>2 DEF EndFrame, SessionInvariant, PlayersInvariant, TypeOK, GameClientTypeOK
  <2>2. OwnPlayer(p, id)
    BY <2>1, ShotAssumption DEF SessionInvariant, PlayersInvariant, LocalPlayer
  <2> DEFINE ping == Ping(m_nextPingSeq[p])
             update == <<PlayerStateUpdate(id)>>
             over == WithPing(update, p, withPing, "UDP")
             both == {PlayerStateUpdate(id), ping}
  <2>3. udpToServer' = udpToServer \cup {[from |-> EndpointOf[p], msg |-> over[i]] : i \in 1 .. Len(over)}
    <3> DEFINE overUDP == WithPing(UpdateOf(p), p, withPing, "UDP")
    <3>1. /\ NetworkTypeOK /\ SpawnOf(p, shoots) \in Seq(AppMessage) /\ UpdateOf(p) \in Seq(AppMessage)
          /\ ClientPumpSend(p, SpawnOf(p, shoots), UpdateOf(p), withPing)
      BY <1>2, SessionTyped, FrameSends
    <3>2. udpToServer' = udpToServer \cup
            {[from |-> EndpointOf[p], msg |-> overUDP[i]] : i \in 1 .. Len(overUDP)}
      BY <3>1, PumpSendAdds
    <3>3. UpdateOf(p) = update
      BY <2>1 DEF UpdateOf
    <3> QED BY <3>2, <3>3
  <2>4. \A i \in 1 .. Len(over) : over[i] \in both
    <3>1. over \in {update, Append(update, ping)}
      BY DEF WithPing
    <3>2. update \in Seq(both) /\ ping \in both
      OBVIOUS
    <3> HIDE DEF update, over, ping, both
    <3>3. over \in Seq(both)
      BY <3>1, <3>2
    <3> QED BY <3>3
  <2>5. ping.type = "Ping"
    BY DEF Ping
  <2> HIDE DEF over, ping, update
  <2>6. d = [from |-> EndpointOf[p], msg |-> PlayerStateUpdate(id)]
    <3>1. PICK i \in 1 .. Len(over) : d = [from |-> EndpointOf[p], msg |-> over[i]]
      BY <1>2, <2>3
    <3>2. d.msg = over[i] /\ d.msg.type # "Ping"
      BY <3>1
    <3> QED BY <2>4, <2>5, <3>1, <3>2
  <2>7. OwnPlayer(p, id)'
    BY <2>2, OwnPlayerKept
  <2>8. d.msg.type = "PlayerStateUpdate" /\ d.msg.playerID = id /\ d.from = EndpointOf[p]
    BY <2>6 DEF PlayerStateUpdate
  <2> QED BY <2>7, <2>8
<1>3. ASSUME d \notin udpToServer 
      PROVE  \E p \in Process, shoots, withPing \in BOOLEAN : EndFrame(p, shoots, withPing)
  <2>1. ServerStep => udpToServer' \subseteq udpToServer
    BY DEF ServerStep, GameServerStep, Accept, AcceptConnection, PumpReceiveTCP, ReceiveTCP, PumpReceiveUDP,
           DispatchDatagram, HandleUDPBind, IgnoreDatagram, TakeDatagram, Send, PumpSend, Cleanup,
           CollectDisconnected, RemoveClient, RemoveDisconnected, OnClientConnected, OnClientDisconnected,
           Update, transportVars, udpVars
  <2>2. ASSUME NEW q \in Process, PollBindAck(q) PROVE FALSE
    <3>1. d = [from |-> EndpointOf[q], msg |-> UDPBind(bindToken[q])]
      BY <1>3, <2>2 DEF PollBindAck
    <3> QED BY <3>1 DEF UDPBind
  <2>3. ASSUME NEW q \in Process, ClientStep(q)
        PROVE  \/ PollBindAck(q) \/ udpToServer' = udpToServer
               \/ \E shoots, withPing \in BOOLEAN : EndFrame(q, shoots, withPing)
    BY <2>3 DEF ClientStep, GameClientStep, Handshaking, Start, TakeBindRequest, PollBindRequest,
                TakeBindAck, TakeTCP, End, Exit, ClientReceiveTCP, ReceiveFromServer,
                ClientReceiveUDP, ReceiveDatagram, EndPoll, transportVars, udpVars
  <2>4. NetworkStep => udpToServer' = udpToServer
    BY DEF NetworkStep, ServerDisconnect, udpVars
  <2>5. UNCHANGED vars => udpToServer' = udpToServer
    BY DEF vars, networkVars, transportVars, udpVars
  <2> QED BY <1>3, <2>1, <2>2, <2>3, <2>4, <2>5 DEF Next
<1> QED BY <1>1, <1>2, <1>3

LEMMA DatagramsNext ==
    ASSUME SessionInvariant, [Next]_vars
    PROVE  Datagrams'
<1>1. ASSUME NEW c \in DOMAIN m_clients', NEW m \in ToSet(m_clients'[c].udpOutbox)
      PROVE  m.type \in {"PlayerStateUpdate", "Pong"}
  <2>1. m \in Relayed => m.type = "PlayerStateUpdate"
    BY DEF Relayed, Updates
  <2> QED BY <1>1, <2>1, ClientQueuesFrame DEF SessionInvariant, PlayersInvariant, Datagrams
<1> QED BY <1>1, ToClientDatagramsNext, ToServerDatagramsNext DEF Datagrams

(* A client that has a player keeps it as long as it is there. *)
LEMMA TableKept ==
    ASSUME SessionInvariant, [Next]_vars, NEW c \in DOMAIN m_clients', c \in DOMAIN m_clientIDToPlayerID
    PROVE  c \in DOMAIN m_clientIDToPlayerID' /\ m_clientIDToPlayerID'[c] = m_clientIDToPlayerID[c]
<1> DEFINE table == m_clientIDToPlayerID
           b == callback.client
<1>1. CASE OnClientConnected
  <2>1. table' = [a \in DOMAIN table \cup {b} |-> IF a = b THEN m_nextPlayerID ELSE table[a]]
    BY <1>1 DEF OnClientConnected
  <2>2. b \notin DOMAIN table
    BY <1>1 DEF OnClientConnected, SessionInvariant, PlayersInvariant, CallbackState
  <2> QED BY <2>1, <2>2
<1>2. CASE OnClientDisconnected
  <2>1. table' = [a \in DOMAIN table \ {b} |-> table[a]] \/ table' = table
    BY <1>2 DEF OnClientDisconnected
  <2>2. b \notin DOMAIN m_clients' 
    BY <1>2, GameWorkFrame
       DEF GameWork, OnClientDisconnected, SessionInvariant, PlayersInvariant, CallbackState
  <2> QED BY <2>1, <2>2
<1>3. CASE ~OnClientConnected /\ ~OnClientDisconnected
  <2>1. table' = table
    BY <1>3, TablesFrame DEF GameWork, Update, gameVars
  <2> QED BY <2>1
<1> QED BY <1>1, <1>2, <1>3

(* The endpoint a datagram is from is that of the client's process. *)
LEMMA SenderIsClient ==
    ASSUME SessionInvariant, NEW p \in Process, NEW c, EndpointOf[p] \in DOMAIN m_udpEndpointToClientID,
           m_udpEndpointToClientID[EndpointOf[p]] = c
    PROVE  c \in DOMAIN m_clients /\ connID[p] = c
<1>1. BindingInvariant
  BY DEF SessionInvariant
<1>2. c \in DOMAIN m_clients /\ m_clients[c].udpEndpoint = EndpointOf[p]
  BY <1>1 DEF BindingInvariant, EndpointMapConsistent
<1>3. m_clients[c].tcpConnection \in Process
  BY <1>1, <1>2 DEF BindingInvariant, NetworkTypeOK, ServerTypeOK, NetworkClientRecord
<1>4. EndpointOf[p] = EndpointOf[m_clients[c].tcpConnection]
  <2>1. EndpointOf[p] # NoEndpoint
    BY EndpointAssumption, NoEndpointAssumption
  <2> QED BY <1>1, <1>2, <2>1 DEF BindingInvariant, BoundToProcess
<1>5. p = m_clients[c].tcpConnection
  BY <1>3, <1>4, DistinctEndpoints
<1> QED BY <1>1, <1>2, <1>5 DEF BindingInvariant, ClientsIdentified

LEMMA FromProcessNext ==
    ASSUME SessionInvariant, [Next]_vars
    PROVE  FromProcess'
<1>1. ASSUME NEW c \in DOMAIN m_clients', NEW m \in ToSet(m_clients'[c].inbox),
             m.type \notin {"ProjectileSpawn", "UDPBind"}
      PROVE  /\ m.type = "PlayerStateUpdate" /\ c \in DOMAIN m_clientIDToPlayerID'
             /\ m.playerID = m_clientIDToPlayerID'[c]
  <2>1. CASE c \in DOMAIN m_clients /\ m \in ToSet(m_clients[c].inbox)
    <3>1. /\ m.type = "PlayerStateUpdate" /\ c \in DOMAIN m_clientIDToPlayerID
          /\ m.playerID = m_clientIDToPlayerID[c]
      BY <1>1, <2>1 DEF SessionInvariant, PlayersInvariant, FromProcess
    <3> QED BY <3>1, TableKept
  <2>2. ASSUME NEW d \in udpToServer, m = d.msg, d.from \in DOMAIN m_udpEndpointToClientID,
               m_udpEndpointToClientID[d.from] = c, m.type # "Ping"
        PROVE  /\ m.type = "PlayerStateUpdate" /\ c \in DOMAIN m_clientIDToPlayerID'
               /\ m.playerID = m_clientIDToPlayerID'[c]
    <3>1. m.type = "PlayerStateUpdate"
      BY <1>1, <2>2 DEF SessionInvariant, PlayersInvariant, Datagrams
    <3>2. PICK p \in Process : d.from = EndpointOf[p] /\ OwnPlayer(p, m.playerID)
      BY <1>1, <2>2 DEF SessionInvariant, PlayersInvariant, Datagrams
    <3>3. c \in DOMAIN m_clients /\ connID[p] = c
      BY <2>2, <3>2, SenderIsClient
    <3>4. c \in DOMAIN m_clientIDToPlayerID /\ m_clientIDToPlayerID[c] = m.playerID
      BY <3>2, <3>3 DEF OwnPlayer, ClientOf, Bound, PlayerOf
    <3> QED BY <3>1, <3>4, TableKept
  <2> QED BY <1>1, <2>1, <2>2, ClientQueuesFrame
<1> QED BY <1>1, ToServerNext DEF FromProcess

-----------------------------------------------------------------------------
(* The game of a client *)

LEMMA AppliedTyped ==
    ASSUME NEW game, DOMAIN game \subseteq Nat, game \in [DOMAIN game -> 1 .. MaxHealth],
           NEW msg \in Message,
           msg.type \in {"PlayerHealthUpdate", "PlayerRespawned"} => msg.health \in 1 .. MaxHealth
    PROVE  /\ DOMAIN ApplyIncomingMessage(game, msg) \subseteq Nat
           /\ ApplyIncomingMessage(game, msg) \in [DOMAIN ApplyIncomingMessage(game, msg) -> 1 .. MaxHealth]
           /\ \A id \in DOMAIN game :
                (msg.type = "PlayerLeft" => msg.playerID # id) => id \in DOMAIN ApplyIncomingMessage(game, msg)
<1> DEFINE after == ApplyIncomingMessage(game, msg)
<1>1. game \in AllGames /\ msg \in GameMessages
  BY AllGamesAre DEF GameMessages
<1>2. after \in AllGames
  BY <1>1, AppliedGame
<1>3. ASSUME NEW id \in DOMAIN game, msg.type = "PlayerLeft" => msg.playerID # id PROVE id \in DOMAIN after
  <2>1. ~Removes(msg, id)
    BY <1>3 DEF Removes
  <2> QED BY <1>1, <1>3, <2>1, Applied DEF About, SameOf
<1> QED BY <1>2, <1>3, AllGamesAre

(* What a process applies is a message it was sent: its own player is not among
   those that left, and healths are in range. *)
LEMMA ReceivedTyped ==
    ASSUME SessionInvariant, NEW p \in Process, NEW msg, Apply(p, msg),
           \/ ClientReceiveTCP(p) /\ msg = Head(toClient[p])
           \/ \E d \in udpToClient : msg = d.msg
    PROVE  /\ msg \in Message
           /\ msg.type \in {"PlayerHealthUpdate", "PlayerRespawned"} => msg.health \in 1 .. MaxHealth
           /\ msg.type = "PlayerLeft" => msg.playerID # m_localPlayerID[p]
<1>1. CASE ClientReceiveTCP(p) /\ msg = Head(toClient[p])
  <2>1. msg \in ToSet(ToCome(p)) /\ msg \in Message
    BY <1>1, FirstHeard DEF ClientReceiveTCP, ReceiveFromServer, TakeTCP
  <2> QED BY <2>1 DEF SessionInvariant, PlayersInvariant, ToProcess
<1>2. CASE \E d \in udpToClient : msg = d.msg
  <2>1. msg.type \in {"PlayerStateUpdate", "Pong"} /\ msg \in Message
    BY <1>2, SessionTyped
       DEF SessionInvariant, PlayersInvariant, Datagrams, NetworkTypeOK, TransportTypeOK, ToClientDatagram
  <2> QED BY <2>1
<1> QED BY <1>1, <1>2

LEMMA AppliedInGame ==
    ASSUME SessionInvariant, NEW p \in Process, NEW msg, Apply(p, msg),
           \/ ClientReceiveTCP(p) /\ msg = Head(toClient[p])
           \/ \E d \in udpToClient : msg = d.msg
    PROVE  /\ m_localPlayerID' \in [Process -> Nat \cup {NoPlayer}]
           /\ DOMAIN view' = Process
           /\ \A q \in Process : /\ DOMAIN view'[q] \subseteq Nat
                                 /\ view'[q] \in [DOMAIN view'[q] -> 1 .. MaxHealth]
           /\ inGame[p] => m_localPlayerID'[p] \in DOMAIN view'[p]
<1>1. GameClientTypeOK
  BY DEF SessionInvariant, PlayersInvariant, TypeOK
<1>2. /\ msg \in Message
      /\ msg.type \in {"PlayerHealthUpdate", "PlayerRespawned"} => msg.health \in 1 .. MaxHealth
      /\ msg.type = "PlayerLeft" => msg.playerID # m_localPlayerID[p]
  BY ReceivedTyped
<1>3. CASE msg.type = "AssignLocalPlayerID" /\ ~inGame[p]
  <2>1. m_localPlayerID' = [m_localPlayerID EXCEPT ![p] = msg.playerID] /\ view' = view
    BY <1>3 DEF Apply
  <2>2. msg.playerID \in Nat
    BY <1>2, <1>3 DEF Message, NetMessage, AppMessage
  <2> QED BY <1>1, <1>3, <2>1, <2>2 DEF GameClientTypeOK
<1>4. CASE ~(msg.type = "AssignLocalPlayerID" /\ ~inGame[p])
  <2>1. view' = [view EXCEPT ![p] = ApplyIncomingMessage(view[p], msg)] /\ m_localPlayerID' = m_localPlayerID
    BY <1>4 DEF Apply
  <2>2. /\ DOMAIN ApplyIncomingMessage(view[p], msg) \subseteq Nat
        /\ ApplyIncomingMessage(view[p], msg) \in [DOMAIN ApplyIncomingMessage(view[p], msg) -> 1 .. MaxHealth]
        /\ \A id \in DOMAIN view[p] : (msg.type = "PlayerLeft" => msg.playerID # id)
                                        => id \in DOMAIN ApplyIncomingMessage(view[p], msg)
    BY <1>1, <1>2, AppliedTyped DEF GameClientTypeOK
  <2>3. inGame[p] => m_localPlayerID[p] \in DOMAIN view[p]
    BY DEF SessionInvariant, PlayersInvariant, LocalPlayer
  <2> QED BY <1>1, <1>2, <2>1, <2>2, <2>3 DEF GameClientTypeOK
<1> QED BY <1>3, <1>4

LEMMA AddedLocal ==
    ASSUME SessionInvariant, NEW p \in Process, EndPoll(p)
    PROVE  /\ m_localPlayerID' = m_localPlayerID
           /\ inGame' \in [Process -> BOOLEAN]
           /\ DOMAIN view' = Process
           /\ \A q \in Process : /\ DOMAIN view'[q] \subseteq Nat
                                 /\ view'[q] \in [DOMAIN view'[q] -> 1 .. MaxHealth]
           /\ inGame'[p] => m_localPlayerID[p] \in DOMAIN view'[p]
<1>1. GameClientTypeOK
  BY DEF SessionInvariant, PlayersInvariant, TypeOK
<1>2. CASE m_localPlayerID[p] = NoPlayer
  BY <1>1, <1>2 DEF EndPoll, GameClientTypeOK
<1>3. CASE m_localPlayerID[p] # NoPlayer
  <2> DEFINE after == AddPlayer(view[p], m_localPlayerID[p])
  <2>1. /\ inGame' = [inGame EXCEPT ![p] = TRUE] /\ view' = [view EXCEPT ![p] = after]
        /\ m_localPlayerID' = m_localPlayerID
    BY <1>3 DEF EndPoll
  <2>2. /\ DOMAIN after \subseteq Nat /\ after \in [DOMAIN after -> 1 .. MaxHealth]
        /\ m_localPlayerID[p] \in DOMAIN after
    <3>1. MaxHealth \in 1 .. MaxHealth /\ m_localPlayerID[p] \in Nat
      BY <1>1, <1>3, HealthAssumption DEF GameClientTypeOK
    <3> QED BY <1>1, <3>1 DEF AddPlayer, GameClientTypeOK
  <2> HIDE DEF after
  <2> QED BY <1>1, <2>1, <2>2 DEF GameClientTypeOK
<1> QED BY <1>2, <1>3

LEMMA GameClientTypeNext ==
    ASSUME SessionInvariant, [Next]_vars
    PROVE  GameClientTypeOK'
<1>1. GameClientTypeOK
  BY DEF SessionInvariant, PlayersInvariant, TypeOK
<1>2. ASSUME NEW p \in Process, ClientReceiveTCP(p) PROVE GameClientTypeOK'
  <2>1. Apply(p, Head(toClient[p])) /\ UNCHANGED <<inGame, reading, m_nextProjectileID>>
    BY <1>2 DEF ClientReceiveTCP
  <2> QED BY <1>1, <1>2, <2>1, AppliedInGame DEF GameClientTypeOK
<1>3. ASSUME NEW p \in Process, NEW d \in udpToClient, ClientReceiveUDP(p, d) PROVE GameClientTypeOK'
  <2>1. /\ Apply(p, d.msg) /\ UNCHANGED <<inGame, m_nextProjectileID>>
        /\ reading' = [reading EXCEPT ![p] = "UDP"]
    BY <1>3 DEF ClientReceiveUDP
  <2> QED BY <1>1, <2>1, AppliedInGame DEF GameClientTypeOK
<1>4. ASSUME NEW p \in Process, EndPoll(p) PROVE GameClientTypeOK'
  <2>1. UNCHANGED m_nextProjectileID /\ reading' = [reading EXCEPT ![p] = "TCP"]
    BY <1>4 DEF EndPoll
  <2> QED BY <1>1, <1>4, <2>1, AddedLocal DEF GameClientTypeOK
<1>5. ASSUME NEW p \in Process, NEW shoots \in BOOLEAN, NEW withPing \in BOOLEAN, EndFrame(p, shoots, withPing)
      PROVE  GameClientTypeOK'
  BY <1>1, <1>5 DEF EndFrame, GameClientTypeOK
<1>6. ASSUME NEW p \in Process, End(p) PROVE GameClientTypeOK'
  <2>1. /\ m_localPlayerID' = [m_localPlayerID EXCEPT ![p] = NoPlayer]
        /\ inGame' = [inGame EXCEPT ![p] = FALSE]
        /\ reading' = [reading EXCEPT ![p] = "TCP"]
        /\ view' = [view EXCEPT ![p] = <<>>] /\ m_nextProjectileID' = m_nextProjectileID
    BY <1>6 DEF End
  <2>2. DOMAIN <<>> = {} /\ <<>> \in [DOMAIN <<>> -> 1 .. MaxHealth]
    OBVIOUS
  <2> QED BY <1>1, <2>1, <2>2 DEF GameClientTypeOK
<1>7. UNCHANGED gameClientVars => GameClientTypeOK'
  BY <1>1 DEF gameClientVars, GameClientTypeOK
<1> QED BY <1>2, <1>3, <1>4, <1>5, <1>6, <1>7
        DEF Next, ServerStep, ClientStep, GameClientStep, Handshaking, NetworkStep, vars

LEMMA LocalPlayerNext ==
    ASSUME SessionInvariant, [Next]_vars
    PROVE  LocalPlayer'
<1>1. LocalPlayer /\ GameClientTypeOK
  BY DEF SessionInvariant, PlayersInvariant, TypeOK
<1>2. ASSUME NEW p \in Process, m_localPlayerID'[p] # NoPlayer
      PROVE  OwnPlayer(p, m_localPlayerID[p])'
  <2>1. PICK id : id = m_localPlayerID'[p]
    OBVIOUS
  <2>2. CASE id = m_localPlayerID[p]
    <3>1. OwnPlayer(p, id)
      BY <1>1, <1>2, <2>1, <2>2 DEF LocalPlayer
    <3>2. OwnPlayer(p, id)'
      BY <3>1, OwnPlayerKept
    <3> QED BY <2>1, <3>2
  <2>3. CASE AssignLocalPlayerID(id) \in ToSet(ToCome(p))
    <3>1. AssignLocalPlayerID(id).type = "AssignLocalPlayerID" /\ AssignLocalPlayerID(id).playerID = id
      BY DEF AssignLocalPlayerID
    <3>2. OwnPlayer(p, AssignLocalPlayerID(id).playerID)
      BY <2>3, <3>1 DEF SessionInvariant, PlayersInvariant, ToProcess
    <3>3. OwnPlayer(p, id)
      BY <3>1, <3>2
    <3>4. OwnPlayer(p, id)'
      BY <3>3, OwnPlayerKept
    <3> QED BY <2>1, <3>4
  <2> QED BY <1>2, <2>1, <2>2, <2>3, LocalFrame
<1>3. ASSUME NEW p \in Process, inGame'[p] PROVE m_localPlayerID'[p] \in DOMAIN view'[p]
  <2>1. inGame[p] => m_localPlayerID[p] \in DOMAIN view[p]
    BY <1>1 DEF LocalPlayer
  <2>2. ASSUME ClientReceiveTCP(p) PROVE m_localPlayerID'[p] \in DOMAIN view'[p]
    <3>1. Apply(p, Head(toClient[p])) /\ inGame' = inGame
      BY <2>2 DEF ClientReceiveTCP
    <3> QED BY <1>3, <2>2, <3>1, AppliedInGame
  <2>3. ASSUME NEW d \in udpToClient, ClientReceiveUDP(p, d) PROVE m_localPlayerID'[p] \in DOMAIN view'[p]
    <3>1. Apply(p, d.msg) /\ inGame' = inGame
      BY <2>3 DEF ClientReceiveUDP
    <3> QED BY <1>3, <3>1, AppliedInGame
  <2>4. ASSUME EndPoll(p) PROVE m_localPlayerID'[p] \in DOMAIN view'[p]
    BY <1>3, <2>4, AddedLocal
  <2>5. ASSUME End(p) PROVE FALSE
    BY <1>1, <1>3, <2>5 DEF End, GameClientTypeOK
  <2>6. ASSUME Handshaking(p) \/ \E shoots, withPing \in BOOLEAN : EndFrame(p, shoots, withPing)
        PROVE  m_localPlayerID'[p] \in DOMAIN view'[p]
    BY <1>3, <2>1, <2>6 DEF Handshaking, EndFrame, gameClientVars
  <2>7. ClientStep(p) => m_localPlayerID'[p] \in DOMAIN view'[p]
    BY <2>2, <2>3, <2>4, <2>5, <2>6 DEF ClientStep, GameClientStep
  <2> QED BY <1>3, <2>1, <2>7, GameClientFrame
<1> QED BY <1>2, <1>3 DEF LocalPlayer

-----------------------------------------------------------------------------
LEMMA SessionInit == Init => SessionInvariant
<1> SUFFICES ASSUME Init PROVE SessionInvariant
  OBVIOUS
<1> USE DEF Init, NetworkInit, TransportInit, ServerInit, ClientInit, GameServerInit, GameClientInit
<1>1. BindingInvariant
  BY BindingInit
<1>2. NoneDisconnected
  BY DEF NoneDisconnected
<1>3. /\ DOMAIN <<>> = {} /\ ToSet(<<>>) = {} /\ <<>> \o <<>> = <<>>
      /\ \A S : <<>> \in [DOMAIN <<>> -> S]
  BY DEF ToSet
<1>4. GameServerTypeOK
  BY <1>3 DEF GameServerTypeOK, Tick
<1>5. GameClientTypeOK
  BY <1>3 DEF GameClientTypeOK
<1>6. TypeOK
  BY <1>1, <1>4, <1>5 DEF TypeOK, BindingInvariant
<1>7. CallbackState
  BY <1>3 DEF CallbackState, NoCallback, ConnectedClients
<1>8. PlayerTable
  BY <1>3, FS_EmptySet DEF PlayerTable
<1>9. \A p \in Process : ToCome(p) = <<>>
  BY <1>3 DEF ToCome
<1>10. ToProcess
  BY <1>3, <1>9 DEF ToProcess
<1>11. Datagrams /\ FromProcess
  BY <1>3 DEF Datagrams, FromProcess
<1>12. LocalPlayer
  BY DEF LocalPlayer
<1> QED BY <1>1, <1>2, <1>6, <1>7, <1>8, <1>10, <1>11, <1>12 DEF SessionInvariant, PlayersInvariant

LEMMA SessionNext == SessionInvariant /\ [Next]_vars => SessionInvariant'
<1> SUFFICES ASSUME SessionInvariant, [Next]_vars PROVE SessionInvariant'
  OBVIOUS
<1>1. BindingInvariant' /\ NoneDisconnected'
  BY SessionTyped, StepIsNetworkStep, BindingNext, NoneDisconnectedNext DEF SessionInvariant
<1>2. TypeOK'
  BY <1>1, GameServerTypeNext, GameClientTypeNext DEF TypeOK, BindingInvariant
<1> QED BY <1>1, <1>2, CallbackStateNext, PlayerTableNext, ToProcessNext, DatagramsNext, FromProcessNext,
           LocalPlayerNext DEF SessionInvariant, PlayersInvariant

(* Spec => []SessionInvariant: the invariant the theorems rest on. *)
THEOREM SessionCorrect == Spec => []SessionInvariant
<1> QED BY SessionInit, SessionNext, PTL DEF Spec

(* GameServer and GameClient use their NetworkServer and NetworkClient as any
   application may: every step of the game is one Network allows, so that what
   is proved of NetworkSpec, the handshake and the bindings, holds in the game. *)
THEOREM Implements == Spec => ImplementsNetwork
<1>1. Init => NetworkInit
  BY DEF Init
<1>2. SessionInvariant /\ [Next]_vars => [NetworkNext]_networkVars
  BY StepIsNetworkStep
<1> QED BY <1>1, <1>2, SessionCorrect, PTL DEF Spec, ImplementsNetwork, NetworkSpec

(* Exactly the bound clients have a player in the server's game, one each
   (onClientConnected, onClientDisconnected, applyIncomingMessage). *)
THEOREM OnePlayerEach == Spec => []OnePlayerPerClient
<1>1. SessionInvariant => OnePlayerPerClient
  <2> SUFFICES ASSUME SessionInvariant, callback = NoCallback
               PROVE  /\ DOMAIN m_clientIDToPlayerID = ConnectedClients
                      /\ DOMAIN players = {m_clientIDToPlayerID[c] : c \in DOMAIN m_clientIDToPlayerID}
                      /\ \A c, d \in DOMAIN m_clientIDToPlayerID :
                           m_clientIDToPlayerID[c] = m_clientIDToPlayerID[d] => c = d
    BY DEF OnePlayerPerClient
  <2>1. DOMAIN m_clientIDToPlayerID = ConnectedClients
    BY DEF SessionInvariant, PlayersInvariant, CallbackState, NoCallback
  <2> QED BY <2>1 DEF SessionInvariant, PlayersInvariant, PlayerTable
<1> QED BY <1>1, SessionCorrect, PTL

(* In the game a process has its own player, the one the server gave it: the
   frame loop of GameClient::run never dereferences a missing player. *)
THEOREM LocalPlayerStays == Spec => []LocalPlayerPresent
<1>1. SessionInvariant => LocalPlayerPresent
  <2> SUFFICES ASSUME SessionInvariant, NEW p \in Process, inGame[p]
               PROVE  /\ m_localPlayerID[p] \in DOMAIN view[p]
                      /\ Bound(p) => m_localPlayerID[p] = PlayerOf(p)
    BY DEF LocalPlayerPresent
  <2>1. m_localPlayerID[p] \in DOMAIN view[p] /\ DOMAIN view[p] \subseteq Nat
    BY DEF SessionInvariant, PlayersInvariant, LocalPlayer, TypeOK, GameClientTypeOK
  <2>2. m_localPlayerID[p] # NoPlayer
    BY <2>1, ShotAssumption
  <2> QED BY <2>1, <2>2 DEF SessionInvariant, PlayersInvariant, LocalPlayer, OwnPlayer
<1> QED BY <1>1, SessionCorrect, PTL

-----------------------------------------------------------------------------
(* Who is told what, and when: the invariant behind RemotePlayersAgree *)

WholeInvariant == SessionInvariant /\ InboxInvariant /\ HandshakeInvariant /\ AgreementInvariant

LEMMA PlayersGivenOut ==
    ASSUME SessionInvariant
    PROVE  /\ m_nextPlayerID \in Nat /\ DOMAIN players \subseteq Nat
           /\ \A q \in DOMAIN players : q < m_nextPlayerID
           /\ \A c \in DOMAIN m_clientIDToPlayerID : m_clientIDToPlayerID[c] \in DOMAIN players
BY SessionTyped DEF SessionInvariant, PlayersInvariant, PlayerTable, ServerTyped, GameServerTypeOK

(* The players of the server's game, and how many it has made. *)
LEMMA PlayersFrame ==
    ASSUME SessionInvariant, [Next]_vars
    PROVE  /\ m_nextPlayerID' \in {m_nextPlayerID, m_nextPlayerID + 1}
           /\ DOMAIN players' \subseteq DOMAIN players \cup {m_nextPlayerID}
           /\ OnClientConnected => /\ players' = AddPlayer(players, m_nextPlayerID)
                                   /\ m_nextPlayerID' = m_nextPlayerID + 1
           /\ OnClientDisconnected => /\ DOMAIN players' \subseteq DOMAIN players
                                      /\ callback.client \in DOMAIN m_clientIDToPlayerID =>
                                           players' = RemovePlayer(players, m_clientIDToPlayerID[callback.client])
                                      /\ callback.client \notin DOMAIN m_clientIDToPlayerID => players' = players
<1>1. CASE OnClientConnected
  <2>1. ~OnClientDisconnected
    BY <1>1 DEF OnClientConnected, OnClientDisconnected
  <2> QED BY <1>1, <2>1 DEF OnClientConnected, AddPlayer
<1>2. CASE OnClientDisconnected
  <2>1. ~OnClientConnected
    BY <1>2 DEF OnClientConnected, OnClientDisconnected
  <2> QED BY <1>2, <2>1 DEF OnClientDisconnected, RemovePlayer
<1>3. CASE Update /\ ~OnClientConnected /\ ~OnClientDisconnected
  <2>1. players' \in Games(DOMAIN players) /\ m_nextPlayerID' = m_nextPlayerID
    BY <1>3, SessionTyped, UpdateTyped DEF Update
  <2> QED BY <1>3, <2>1 DEF Games
<1>4. CASE ~GameWork
  BY <1>4, TablesFrame DEF GameWork, gameVars
<1> QED BY <1>1, <1>2, <1>3, <1>4 DEF GameWork

LEMMA NumberedKept ==
    ASSUME SessionInvariant, [Next]_vars, NEW m \in Message, Numbered(m)
    PROVE  Numbered(m)'
<1>1. m.type \in {"AssignLocalPlayerID", "PlayerStateUpdate", "PlayerJoined", "PlayerHealthUpdate",
                  "PlayerRespawned"} => m.playerID \in Nat
  BY DEF Message, NetMessage, AppMessage
<1> QED BY <1>1, PlayersGivenOut, PlayersFrame DEF Numbered

LEMMA NewsNumbered ==
    ASSUME SessionInvariant, [Next]_vars, NEW p \in Process, NEW m, GameNews(p, m)
    PROVE  Numbered(m)'
<1>1. /\ m_nextPlayerID \in Nat /\ DOMAIN players \subseteq Nat
      /\ \A q \in DOMAIN players : q < m_nextPlayerID
      /\ m_nextPlayerID' \in {m_nextPlayerID, m_nextPlayerID + 1}
      /\ OnClientConnected => m_nextPlayerID' = m_nextPlayerID + 1
  BY PlayersGivenOut, PlayersFrame
<1>2. ASSUME m \in Introductions \cup HealthsOf(DOMAIN players) PROVE m.playerID \in DOMAIN players
  BY <1>2 DEF Introductions, HealthsOf, PlayerStateUpdate
<1>3. CASE OnClientConnected
           /\ m \in {AssignLocalPlayerID(m_nextPlayerID), PlayerJoined(m_nextPlayerID)} \cup Introductions
  <2>1. /\ AssignLocalPlayerID(m_nextPlayerID).playerID = m_nextPlayerID
        /\ PlayerJoined(m_nextPlayerID).playerID = m_nextPlayerID
    BY DEF AssignLocalPlayerID, PlayerJoined
  <2>2. m.playerID = m_nextPlayerID \/ m.playerID \in DOMAIN players
    BY <1>2, <1>3, <2>1
  <2> QED BY <1>1, <1>3, <2>2 DEF Numbered
<1>4. CASE OnClientDisconnected /\ m = PlayerLeft(m_clientIDToPlayerID[callback.client])
  BY <1>4 DEF PlayerLeft, Numbered
<1>5. CASE Update /\ m \in Spawns \cup HealthsOf(DOMAIN players)
  <2>1. m \in Spawns => m.type = "ProjectileSpawn"
    BY DEF Spawns
  <2>2. m \in HealthsOf(DOMAIN players) => m.playerID < m_nextPlayerID'
    BY <1>1, <1>2
  <2> QED BY <1>5, <2>1, <2>2 DEF Numbered
<1> QED BY <1>3, <1>4, <1>5 DEF GameNews

(* What a process does to its copy of the game. *)
LEMMA ViewFrame ==
    ASSUME SessionInvariant, [Next]_vars, NEW p \in Process
    PROVE  \/ view'[p] = view[p] /\ ~ClientReceiveTCP(p)
           \/ End(p) /\ DOMAIN view'[p] = {} /\ phase'[p] = "exited"
           \/ ClientReceiveTCP(p) /\ view'[p] = ApplyIncomingMessage(view[p], Head(toClient[p]))
           \/ \E d \in udpToClient : /\ ClientReceiveUDP(p, d) /\ ~ClientReceiveTCP(p)
                                     /\ view'[p] = ApplyIncomingMessage(view[p], d.msg)
           \/ /\ EndPoll(p) /\ m_localPlayerID[p] # NoPlayer /\ ~ClientReceiveTCP(p)
              /\ view'[p] = AddPlayer(view[p], m_localPlayerID[p])
<1>1. GameClientTypeOK /\ NetworkTypeOK
  BY SessionTyped DEF SessionInvariant, PlayersInvariant, TypeOK
<1>2. ASSUME NEW msg, Apply(p, msg) PROVE view'[p] = ApplyIncomingMessage(view[p], msg)
  <2>1. msg.type = "AssignLocalPlayerID" => ApplyIncomingMessage(view[p], msg) = view[p]
    BY DEF ApplyIncomingMessage
  <2>2. DOMAIN view = Process
    BY <1>1 DEF GameClientTypeOK
  <2> QED BY <1>2, <2>1, <2>2 DEF Apply
<1>3. CASE ClientReceiveTCP(p)
  BY <1>2, <1>3 DEF ClientReceiveTCP
<1>4. CASE ~ClientReceiveTCP(p) /\ ClientStep(p)
  <2>1. CASE End(p)
    <3>1. view' = [view EXCEPT ![p] = <<>>] /\ phase' = [phase EXCEPT ![p] = "exited"]
      BY <2>1 DEF End, Exit
    <3>2. view'[p] = <<>> /\ DOMAIN <<>> = {} /\ phase'[p] = "exited"
      BY <1>1, <3>1 DEF GameClientTypeOK, NetworkTypeOK, ClientTypeOK
    <3> QED BY <2>1, <3>2
  <2>2. CASE \E d \in udpToClient : ClientReceiveUDP(p, d)
    BY <1>2, <1>4, <2>2 DEF ClientReceiveUDP
  <2>3. CASE EndPoll(p)
    BY <1>1, <1>4, <2>3 DEF EndPoll, GameClientTypeOK
  <2>4. CASE Handshaking(p) \/ \E shoots, withPing \in BOOLEAN : EndFrame(p, shoots, withPing)
    BY <1>4, <2>4 DEF Handshaking, EndFrame, gameClientVars
  <2> QED BY <1>4, <2>1, <2>2, <2>3, <2>4 DEF ClientStep, GameClientStep
<1> QED BY <1>3, <1>4, GameClientFrame

LEMMA AppliedDomain ==
    ASSUME NEW game \in AllGames, NEW msg \in GameMessages, NEW id \in DOMAIN ApplyIncomingMessage(game, msg)
    PROVE  id \in DOMAIN game \/ Adds(msg, id)
BY Applied DEF About, SameOf

(* What a process has to read, as the game takes it. *)
LEMMA ComingToGame ==
    ASSUME SessionInvariant, [Next]_vars, NEW p \in Process
    PROVE  /\ ToCome(p) \in Seq(GameMessages) /\ view[p] \in AllGames
           /\ \A d \in udpToClient : d.msg \in GameMessages
<1>1. ToCome(p) \in Seq(Message) /\ GameClientTypeOK
  BY ComingTyped DEF SessionInvariant, PlayersInvariant, TypeOK
<1>2. ASSUME NEW i \in 1 .. Len(ToCome(p)) PROVE ToCome(p)[i] \in GameMessages
  <2>1. ToCome(p)[i] \in ToSet(ToCome(p)) /\ ToCome(p)[i] \in Message
    BY <1>1, ElementsOf
  <2> QED BY <2>1 DEF SessionInvariant, PlayersInvariant, ToProcess, GameMessages
<1>3. view[p] \in AllGames
  BY <1>1, AllGamesAre DEF GameClientTypeOK
<1>4. ASSUME NEW d \in udpToClient PROVE d.msg \in GameMessages
  <2>1. d.msg \in Message
    BY SessionTyped DEF NetworkTypeOK, TransportTypeOK, ToClientDatagram
  <2> QED BY <2>1 DEF SessionInvariant, PlayersInvariant, Datagrams, GameMessages
<1>5. ToCome(p) \in Seq(GameMessages)
  <2> DEFINE s == ToCome(p)
  <2>1. s \in Seq(Message) /\ \A i \in 1 .. Len(s) : s[i] \in GameMessages
    BY <1>1, <1>2
  <2> HIDE DEF s
  <2>2. s \in Seq(GameMessages)
    BY <2>1
  <2> QED BY <2>2 DEF s
<1> QED BY <1>3, <1>4, <1>5

LEMMA GivenOutNext ==
    ASSUME SessionInvariant, GivenOut, [Next]_vars
    PROVE  GivenOut'
<1>1. /\ m_nextPlayerID \in Nat /\ m_nextPlayerID' \in {m_nextPlayerID, m_nextPlayerID + 1}
      /\ DOMAIN players \subseteq Nat /\ \A q \in DOMAIN players : q < m_nextPlayerID
  BY PlayersGivenOut, PlayersFrame
<1>2. ASSUME NEW p \in Process, NEW m \in ToSet(ToCome(p)') PROVE Numbered(m)'
  <2>1. m \in Message
    BY ComingTyped, ElementsOf
  <2>2. CASE m \in ToSet(ToCome(p))
    BY <2>1, <2>2, NumberedKept DEF GivenOut
  <2>3. CASE m.type \in {"UDPBindRequest", "UDPBindAck", "Pong"}
    BY <2>3 DEF Numbered
  <2> QED BY <2>2, <2>3, HeardFrame, NewsNumbered
<1>3. ASSUME NEW p \in Process, NEW id \in DOMAIN view'[p] PROVE id < m_nextPlayerID'
  <2>1. /\ view[p] \in AllGames /\ \A d \in udpToClient : d.msg \in GameMessages
        /\ ToCome(p) \in Seq(GameMessages)
    BY ComingToGame
  <2>2. \A i \in DOMAIN view[p] : i \in Nat /\ i < m_nextPlayerID
    BY <2>1, AllGamesAre DEF GivenOut
  <2>3. ASSUME NEW msg \in GameMessages, Numbered(msg), view'[p] = ApplyIncomingMessage(view[p], msg)
        PROVE  id \in Nat /\ id < m_nextPlayerID
    <3>1. id \in DOMAIN view[p] \/ Adds(msg, id)
      BY <2>1, <2>3, AppliedDomain
    <3>2. Adds(msg, id) => id \in Nat /\ id < m_nextPlayerID
      BY <2>3 DEF Adds, Numbered, GameMessages, Message, NetMessage, AppMessage
    <3> QED BY <2>2, <3>1, <3>2
  <2>4. CASE ClientReceiveTCP(p) /\ view'[p] = ApplyIncomingMessage(view[p], Head(toClient[p]))
    <3>1. Head(toClient[p]) \in ToSet(ToCome(p))
      BY <2>4, FirstHeard DEF ClientReceiveTCP, ReceiveFromServer, TakeTCP
    <3>2. Head(toClient[p]) \in GameMessages /\ Numbered(Head(toClient[p]))
      BY <2>1, <3>1 DEF GivenOut, ToSet
    <3> QED BY <1>1, <2>3, <2>4, <3>2
  <2>5. ASSUME NEW d \in udpToClient, view'[p] = ApplyIncomingMessage(view[p], d.msg) PROVE id < m_nextPlayerID'
    BY <1>1, <2>1, <2>3, <2>5 DEF GivenOut
  <2>6. CASE m_localPlayerID[p] # NoPlayer /\ view'[p] = AddPlayer(view[p], m_localPlayerID[p])
    <3>1. m_localPlayerID[p] < m_nextPlayerID /\ m_localPlayerID[p] \in Nat
      BY <2>6 DEF GivenOut, SessionInvariant, PlayersInvariant, TypeOK, GameClientTypeOK
    <3>2. id \in DOMAIN view[p] \/ id = m_localPlayerID[p]
      BY <2>6 DEF AddPlayer
    <3> QED BY <1>1, <2>2, <3>1, <3>2
  <2> QED BY <1>1, <2>2, <2>4, <2>5, <2>6, ViewFrame
<1>4. ASSUME NEW p \in Process, m_localPlayerID'[p] # NoPlayer PROVE m_localPlayerID'[p] < m_nextPlayerID'
  <2> DEFINE id == m_localPlayerID'[p]
             a == AssignLocalPlayerID(id)
  <2>1. CASE id = m_localPlayerID[p]
    <3>1. id \in Nat /\ id < m_nextPlayerID
      BY <1>4, <2>1 DEF GivenOut, SessionInvariant, PlayersInvariant, TypeOK, GameClientTypeOK
    <3> QED BY <1>1, <3>1
  <2>2. CASE a \in ToSet(ToCome(p))
    <3>1. a.type = "AssignLocalPlayerID" /\ a.playerID = id
      BY DEF AssignLocalPlayerID
    <3> HIDE DEF a
    <3>2. a.playerID < m_nextPlayerID /\ a \in Message
      BY <2>2, <3>1, ComingTyped, ElementsOf DEF GivenOut, Numbered
    <3>3. a.playerID \in Nat
      BY <3>1, <3>2 DEF Message, NetMessage, AppMessage
    <3> QED BY <1>1, <3>1, <3>2, <3>3
  <2> QED BY <1>4, <2>1, <2>2, LocalFrame
<1>5. ASSUME NEW c \in DOMAIN m_clients, NEW m \in ToSet(m_clients[c].udpOutbox) PROVE m \in Message /\ Numbered(m)
  <2>1. m_clients[c].udpOutbox \in Seq(Message)
    BY SessionTyped, QueuesTyped DEF NetworkTypeOK, ServerTypeOK
  <2> QED BY <2>1, ElementsOf DEF GivenOut
<1>6. ASSUME NEW d \in udpToClient' PROVE Numbered(d.msg)'
  <2>1. ASSUME d \in udpToClient PROVE Numbered(d.msg) /\ d.msg \in Message
    BY <2>1, SessionTyped DEF GivenOut, NetworkTypeOK, TransportTypeOK, ToClientDatagram
  <2>2. PICK m \in Message : m = d.msg /\ Numbered(m)
    BY <1>5, <2>1, DatagramsFrame
  <2>3. Numbered(m)'
    BY <2>2, NumberedKept
  <2> QED BY <2>2, <2>3
<1>7. ASSUME NEW c \in DOMAIN m_clients', NEW m \in ToSet(m_clients'[c].udpOutbox) PROVE Numbered(m)'
  <2>1. CASE m \in Relayed
    BY <1>1, <2>1 DEF Relayed, Numbered
  <2>2. CASE c \in DOMAIN m_clients /\ m \in ToSet(m_clients[c].udpOutbox)
    BY <1>5, <2>2, NumberedKept
  <2>3. CASE m.type = "Pong"
    BY <2>3 DEF Numbered
  <2> QED BY <2>1, <2>2, <2>3, ClientQueuesFrame
<1> QED BY <1>2, <1>3, <1>4, <1>6, <1>7 DEF GivenOut

LEMMA LeftIsGoneNext ==
    ASSUME SessionInvariant, LeftIsGone, [Next]_vars
    PROVE  LeftIsGone'
<1> SUFFICES ASSUME NEW p \in Process, NEW m \in ToSet(ToCome(p)'), m.type = "PlayerLeft"
             PROVE  m.playerID \notin DOMAIN players'
  BY DEF LeftIsGone
<1>1. /\ m_nextPlayerID \in Nat /\ DOMAIN players' \subseteq DOMAIN players \cup {m_nextPlayerID}
  BY PlayersGivenOut, PlayersFrame
<1>2. CASE m \in ToSet(ToCome(p))
  <2>1. m.playerID \notin DOMAIN players /\ m.playerID < m_nextPlayerID
    BY <1>2 DEF LeftIsGone, SessionInvariant, PlayersInvariant, ToProcess
  <2> QED BY <1>1, <2>1
<1>3. CASE GameNews(p, m)
  <2>1. /\ OnClientDisconnected /\ callback.client \in DOMAIN m_clientIDToPlayerID
        /\ m.playerID = m_clientIDToPlayerID[callback.client]
    BY <1>3, NewsTold
  <2> QED BY <2>1, PlayersFrame DEF RemovePlayer
<1> QED BY <1>2, <1>3, HeardFrame

LEMMA JustBoundNext ==
    ASSUME SessionInvariant, JustBound, [Next]_vars
    PROVE  JustBound'
<1> SUFFICES ASSUME callback'.kind = "connect"
             PROVE  LET outbox == m_clients'[callback'.client].tcpOutbox
                    IN outbox # <<>> /\ outbox[Len(outbox)] = UDPBindAck
  BY DEF JustBound
<1>1. BindingInvariant /\ NetworkTypeOK /\ [NetworkNext]_networkVars
  BY SessionTyped, StepIsNetworkStep DEF SessionInvariant
<1>2. ASSUME NEW c \in DOMAIN m_clients, c \notin ConnectedClients, ConnectedClients' = ConnectedClients \cup {c},
             callback' = [kind |-> "connect", client |-> c]
      PROVE  LET outbox == m_clients'[callback'.client].tcpOutbox
             IN outbox # <<>> /\ outbox[Len(outbox)] = UDPBindAck
  <2> DEFINE old == m_clients[c].tcpOutbox
             outbox == Append(old, UDPBindAck)
  <2>1. c \in DOMAIN m_clients' /\ m_clients[c].status # "Connected" /\ m_clients'[c].status = "Connected"
    BY <1>2 DEF ConnectedClients
  <2>2. m_clients'[c].tcpOutbox = outbox
    BY <1>1, <2>1, BecomesConnected
  <2>3. old \in Seq(Message) /\ UDPBindAck \in Message
    BY <1>1, QueuesTyped, MessagesTyped DEF NetworkTypeOK, ServerTypeOK
  <2>4. outbox # <<>> /\ outbox[Len(outbox)] = UDPBindAck
    <3> HIDE DEF old
    <3> QED BY <2>3
  <2> QED BY <1>2, <2>2, <2>4
<1>3. CASE callback' = callback
  <2>1. callback # NoCallback /\ callback.kind = "connect"
    BY <1>3 DEF NoCallback
  <2>2. ~GameWork
    <3>1. OnClientConnected \/ OnClientDisconnected => callback' = NoCallback
      BY DEF OnClientConnected, OnClientDisconnected
    <3>2. ~Update
      BY <2>1 DEF Update, ServerIdle
    <3> QED BY <1>3, <2>1, <3>1, <3>2 DEF GameWork
  <2>3. ~NetworkServerStep
    BY <2>1 DEF NetworkServerStep, AcceptConnection, ReceiveTCP, DispatchDatagram, HandleUDPBind, IgnoreDatagram,
                TakeDatagram, PumpSend, CollectDisconnected, RemoveDisconnected, ServerIdle
  <2>4. m_clients' = m_clients
    BY <2>2, <2>3, TablesFrame
  <2> QED BY <1>3, <2>1, <2>4 DEF JustBound
<1>4. CASE callback' # callback
  <2>1. callback' # NoCallback
    BY DEF NoCallback
  <2> QED BY <1>2, <1>4, <2>1, ConnectedFrame
<1> QED BY <1>3, <1>4
-----------------------------------------------------------------------------
(* What a process keeps of what is to come *)

KeptOf(ph, msgs) ==
    IF ph = "connected" THEN msgs
    ELSE LET acks == {i \in 1 .. Len(msgs) : msgs[i].type = "UDPBindAck"}
         IN SubSeq(msgs, CHOOSE i \in acks : \A j \in acks : i <= j, Len(msgs))

LEMMA KeptIs == \A p : Kept(p) = KeptOf(phase[p], ToCome(p))
BY DEF Kept, KeptOf

LEMMA KeptIsNext == \A p : Kept(p)' = KeptOf(phase'[p], ToCome(p)')
BY DEF Kept, KeptOf

(* The only acknowledgement is the i-th message. *)
AckAt(msgs, i) ==
    /\ i \in 1 .. Len(msgs)
    /\ \A j \in 1 .. Len(msgs) : msgs[j].type = "UDPBindAck" <=> j = i

LEMMA OneAck ==
    ASSUME NEW msgs \in Seq(GameMessages),
           AtMostOne({i \in 1 .. Len(msgs) : msgs[i].type = "UDPBindAck"}),
           {i \in 1 .. Len(msgs) : msgs[i].type = "UDPBindAck"} # {}
    PROVE  \E i : AckAt(msgs, i)
BY DEF AtMostOne, AckAt

LEMMA KeptFrom ==
    ASSUME NEW msgs \in Seq(GameMessages), NEW i, AckAt(msgs, i), NEW ph, ph # "connected"
    PROVE  KeptOf(ph, msgs) = SubSeq(msgs, i, Len(msgs))
<1> DEFINE acks == {j \in 1 .. Len(msgs) : msgs[j].type = "UDPBindAck"}
<1>1. acks = {i} /\ i \in Nat
  BY DEF AckAt
<1> HIDE DEF acks
<1>2. (CHOOSE j \in acks : \A k \in acks : j <= k) = i
  BY <1>1
<1> QED BY <1>2 DEF KeptOf, acks

(* Cutting off the front of a sequence, and adding to its end. *)
LEMMA CutAppended ==
    ASSUME NEW S, NEW s \in Seq(S), NEW t \in Seq(S), NEW i \in 1 .. Len(s)
    PROVE  SubSeq(s \o t, i, Len(s \o t)) = SubSeq(s, i, Len(s)) \o t
<1>1. Len(s) \in Nat /\ Len(t) \in Nat /\ s \o t \in Seq(S) /\ Len(s \o t) = Len(s) + Len(t)
      /\ SubSeq(s, i, Len(s)) \in Seq(S)
  BY LenProperties, ConcatProperties, SubSeqProperties
<1>2. CASE t = <<>>
  <2>1. s \o t = s /\ SubSeq(s, i, Len(s)) \o t = SubSeq(s, i, Len(s))
    BY <1>1, <1>2, ConcatEmptySeq
  <2> QED BY <2>1
<1>3. CASE t # <<>>
  <2> DEFINE all == s \o t
             n   == Len(s)
             k   == Len(all)
  <2>0. Len(t) >= 1
    BY <1>1, <1>3
  <2>1. SubSeq(all, i, n) = SubSeq(s, i, n)
    BY <1>1, SubSeqOfConcat1
  <2>2. SubSeq(all, n + 1, k) = SubSeq(t, 1, Len(t))
    <3>1. n + 1 \in n + 1 .. n + Len(t) /\ k \in n + 1 .. n + Len(t) /\ n + 1 - n = 1 /\ k - n = Len(t)
      BY <1>1, <2>0
    <3>2. SubSeq(all, n + 1, k) = SubSeq(t, n + 1 - n, k - n)
      BY <3>1, SubSeqOfConcat2
    <3> QED BY <3>1, <3>2
  <2>3. SubSeq(t, 1, Len(t)) = t
    BY SubSeqFull
  <2>4. SubSeq(all, i, n) \o SubSeq(all, n + 1, k) = SubSeq(all, i, k)
    <3> HIDE DEF all
    <3>1. i \in 1 .. Len(all) + 1 /\ n \in i - 1 .. Len(all) /\ k \in n .. Len(all) /\ all \in Seq(S)
      BY <1>1 DEF all
    <3> QED BY <3>1, ConcatAdjacentSubSeq
  <2> QED BY <2>1, <2>2, <2>3, <2>4
<1> QED BY <1>2, <1>3

LEMMA KeptAppended ==
    ASSUME NEW msgs \in Seq(GameMessages), NEW more \in Seq(GameMessages), NEW i, AckAt(msgs \o more, i),
           i <= Len(msgs), NEW ph
    PROVE  KeptOf(ph, msgs \o more) = KeptOf(ph, msgs) \o more
<1> DEFINE all == msgs \o more
<1>1. /\ all \in Seq(GameMessages) /\ Len(all) = Len(msgs) + Len(more) /\ Len(msgs) \in Nat /\ Len(more) \in Nat
      /\ i \in 1 .. Len(msgs)
      /\ \A j \in 1 .. Len(msgs) : j \in 1 .. Len(all) /\ all[j] = msgs[j]
  BY DEF AckAt
<1>2. AckAt(msgs, i)
  BY <1>1 DEF AckAt
<1>3. CASE ph = "connected"
  BY <1>3 DEF KeptOf
<1>4. CASE ph # "connected"
  <2>1. SubSeq(all, i, Len(all)) = SubSeq(msgs, i, Len(msgs)) \o more
    BY <1>1, CutAppended
  <2> HIDE DEF all
  <2>2. KeptOf(ph, all) = SubSeq(all, i, Len(all)) /\ KeptOf(ph, msgs) = SubSeq(msgs, i, Len(msgs))
    BY <1>1, <1>2, <1>4, KeptFrom DEF all
  <2> QED BY <2>1, <2>2 DEF all
<1> QED BY <1>3, <1>4

LEMMA KeptDropped ==
    ASSUME NEW msgs \in Seq(GameMessages), NEW i, AckAt(msgs, i), i # 1, NEW ph, ph # "connected"
    PROVE  KeptOf(ph, Tail(msgs)) = KeptOf(ph, msgs)
<1> DEFINE rest == Tail(msgs)
<1>1. msgs # <<>> /\ i \in 1 .. Len(msgs) /\ i - 1 \in 1 .. Len(msgs) - 1
  BY DEF AckAt
<1>2. rest \in Seq(GameMessages) /\ Len(rest) = Len(msgs) - 1 /\ Len(msgs) \in Nat
      /\ \A j \in 1 .. Len(rest) : j + 1 \in 1 .. Len(msgs) /\ rest[j] = msgs[j + 1]
  BY <1>1
<1>3. SubSeq(rest, i - 1, Len(rest)) = SubSeq(msgs, i, Len(msgs))
  BY <1>1, <1>2
<1> HIDE DEF rest
<1>4. AckAt(rest, i - 1)
  BY <1>1, <1>2 DEF AckAt
<1>5. KeptOf(ph, rest) = SubSeq(rest, i - 1, Len(rest)) /\ KeptOf(ph, msgs) = SubSeq(msgs, i, Len(msgs))
  BY <1>2, <1>4, KeptFrom
<1> QED BY <1>3, <1>5 DEF rest

LEMMA KeptFirst ==
    ASSUME NEW msgs \in Seq(GameMessages), AckAt(msgs, 1), NEW ph
    PROVE  KeptOf(ph, msgs) = msgs
<1>1. SubSeq(msgs, 1, Len(msgs)) = msgs
  OBVIOUS
<1> QED BY <1>1, KeptFrom DEF KeptOf

(* What is kept is among what is to come. *)
LEMMA KeptAmong ==
    ASSUME NEW msgs \in Seq(GameMessages), NEW ph,
           ph # "connected" => \E i : AckAt(msgs, i)
    PROVE  /\ KeptOf(ph, msgs) \in Seq(GameMessages)
           /\ \A k \in 1 .. Len(KeptOf(ph, msgs)) : \E j \in 1 .. Len(msgs) : KeptOf(ph, msgs)[k] = msgs[j]
<1>1. CASE ph = "connected"
  BY <1>1 DEF KeptOf
<1>2. CASE ph # "connected"
  <2>1. PICK i : AckAt(msgs, i)
    BY <1>2
  <2>2. i \in 1 .. Len(msgs) /\ Len(msgs) \in Nat
    BY <2>1 DEF AckAt
  <2> DEFINE kept == SubSeq(msgs, i, Len(msgs))
  <2>3. /\ kept \in Seq(GameMessages)
        /\ \A k \in 1 .. Len(kept) : i + k - 1 \in 1 .. Len(msgs) /\ kept[k] = msgs[i + k - 1]
    BY <2>2
  <2>4. KeptOf(ph, msgs) = kept
    BY <1>2, <2>1, KeptFrom
  <2> HIDE DEF kept
  <2> QED BY <2>3, <2>4
<1> QED BY <1>1, <1>2

-----------------------------------------------------------------------------
(* Whom the server tells of the game *)

LEMMA BoundIsConnected ==
    ASSUME SessionInvariant, NEW c \in DOMAIN m_clients, c \in DOMAIN m_clientIDToPlayerID
    PROVE  m_clients[c].status = "Connected"
<1>1. callback \in Callback
  BY SessionTyped DEF NetworkTypeOK, ServerTypeOK
<1>2. c \in ConnectedClients
  BY <1>1 DEF SessionInvariant, PlayersInvariant, CallbackState, Callback
<1> QED BY <1>2 DEF ConnectedClients

LEMMA AckToCome ==
    ASSUME SessionInvariant, HandshakeInvariant, [Next]_vars, NEW p \in Process, Linked(p), phase[p] = "waitAck",
           m_clients[connID[p]].status = "Connected"
    PROVE  \E i : AckAt(ToCome(p), i)
<1>1. ToCome(p) \in Seq(GameMessages)
  BY ComingToGame
<1>2. AtMostOne(Places(p, "UDPBindAck")) /\ Places(p, "UDPBindAck") # {}
  BY DEF HandshakeInvariant, AckOnItsWay
<1> QED BY <1>1, <1>2, OneAck DEF Places

(* A process follows the game from the connect callback of its client on. *)
LEMMA FollowsFrame ==
    ASSUME WholeInvariant, [Next]_vars, NEW p \in Process, Follows(p)'
    PROVE  /\ Linked(p) /\ connID'[p] = connID[p] /\ connID[p] \in DOMAIN m_clients'
           /\ \/ /\ OnClientConnected /\ callback.client = ClientOf(p)
                 /\ phase'[p] = phase[p] /\ phase[p] \in {"waitAck", "connected"}
                 /\ PlayerOf(p)' = m_nextPlayerID
              \/ /\ ~(OnClientConnected /\ callback.client = ClientOf(p))
                 /\ Follows(p) /\ PlayerOf(p)' = PlayerOf(p)
<1> DEFINE c == connID[p]
           table == m_clientIDToPlayerID
<1>1. /\ SessionInvariant /\ BindingInvariant /\ InboxInvariant /\ HandshakeInvariant
      /\ NetworkTypeOK /\ [NetworkNext]_networkVars /\ m_nextClientID \notin DOMAIN m_clients /\ 0 \notin DOMAIN m_clients
  BY SessionTyped, StepIsNetworkStep
     DEF WholeInvariant, SessionInvariant, BindingInvariant, ClientsIdentified, NetworkTypeOK, ServerTypeOK
<1>2. /\ Linked(p)' /\ connID'[p] \in DOMAIN m_clients' /\ connID'[p] \in DOMAIN table'
      /\ phase'[p] \in {"waitAck", "connected"}
  BY DEF Follows, Alive, Bound, ClientOf, Linked
<1>3. Linked(p)
  <2>1. SUFFICES ASSUME AcceptConnection, p = Head(m_newConnections) PROVE FALSE
    BY <1>1, <1>2, LinkedFrame
  <2>2. callback = NoCallback /\ connID' = [connID EXCEPT ![p] = m_nextClientID]
    BY <2>1 DEF AcceptConnection, ServerIdle
  <2>3. connID'[p] = m_nextClientID
    BY <1>1, <2>2 DEF NetworkTypeOK, TransportTypeOK
  <2>4. table' = table
    <3>1. ~OnClientConnected /\ ~OnClientDisconnected
      BY <2>2 DEF OnClientConnected, OnClientDisconnected, NoCallback
    <3> QED BY <3>1, TablesFrame DEF GameWork, Update, gameVars
  <2>5. DOMAIN table = ConnectedClients
    BY <1>1, <2>2 DEF SessionInvariant, PlayersInvariant, CallbackState, NoCallback
  <2> QED BY <1>1, <1>2, <2>3, <2>4, <2>5 DEF ConnectedClients
<1>4. c \in DOMAIN m_clients /\ connID'[p] = c
  <2>1. c \in DOMAIN m_clients
    BY <1>3 DEF Linked
  <2>2. c # 0
    BY <1>1, <2>1
  <2> QED BY <1>1, <2>1, <2>2, ConnIDKept DEF BindingInvariant
<1>5. CASE OnClientConnected /\ callback.client = ClientOf(p)
  <2>1. phase' = phase
    BY <1>1, <1>5, GameWorkFrame DEF GameWork, clientVars
  <2>2. table'[c] = m_nextPlayerID
    BY <1>5 DEF OnClientConnected, ClientOf
  <2> QED BY <1>2, <1>3, <1>4, <1>5, <2>1, <2>2 DEF PlayerOf, ClientOf
<1>6. CASE ~(OnClientConnected /\ callback.client = ClientOf(p))
  <2>1. c \in DOMAIN table /\ table'[c] = table[c]
    <3>1. CASE OnClientConnected
      <4>1. table' = [b \in DOMAIN table \cup {callback.client} |->
                        IF b = callback.client THEN m_nextPlayerID ELSE table[b]]
        BY <3>1 DEF OnClientConnected
      <4>2. c # callback.client
        BY <1>6, <3>1 DEF ClientOf
      <4> QED BY <1>2, <1>4, <4>1, <4>2
    <3>2. CASE OnClientDisconnected
      <4>1. table' = [b \in DOMAIN table \ {callback.client} |-> table[b]] \/ table' = table
        BY <3>2 DEF OnClientDisconnected
      <4> QED BY <1>2, <1>4, <4>1
    <3>3. CASE ~OnClientConnected /\ ~OnClientDisconnected
      <4>1. table' = table
        BY <3>3, TablesFrame DEF GameWork, Update, gameVars
      <4> QED BY <1>2, <1>4, <4>1
    <3> QED BY <3>1, <3>2, <3>3
  <2>2. m_clients[c].status = "Connected"
    BY <1>1, <1>4, <2>1, BoundIsConnected
  <2>3. phase[p] \in {"waitAck", "connected"}
    <3>1. phase[p] # "waitRequest"
      BY <1>1, <1>4, <2>2 DEF HandshakeInvariant, BoundAfterRequest
    <3> QED BY <1>1, <1>2, <3>1, PhaseStep
  <2> QED BY <1>2, <1>3, <1>4, <1>6, <2>1, <2>3 DEF Follows, Alive, Bound, PlayerOf, ClientOf, Linked
<1> QED BY <1>2, <1>3, <1>4, <1>5, <1>6
-----------------------------------------------------------------------------
(* How a process comes to follow the game, and goes on *)

LEMMA WholeFrame ==
    ASSUME WholeInvariant, [Next]_vars
    PROVE  /\ SessionInvariant' /\ InboxInvariant' /\ HandshakeInvariant'
           /\ GivenOut' /\ LeftIsGone' /\ JustBound'
<1>1. SessionInvariant' /\ [NetworkNext]_networkVars /\ BindingInvariant
  BY SessionNext, StepIsNetworkStep DEF WholeInvariant, SessionInvariant
<1>2. InboxInvariant' /\ HandshakeInvariant'
  BY <1>1, InboxNext, HandshakeNext DEF WholeInvariant
<1>3. GivenOut' /\ LeftIsGone' /\ JustBound'
  BY GivenOutNext, LeftIsGoneNext, JustBoundNext DEF WholeInvariant, AgreementInvariant
<1> QED BY <1>1, <1>2, <1>3

LEMMA NewsAreGameMessages ==
    ASSUME SessionInvariant
    PROVE  /\ Introductions \subseteq GameMessages /\ Snapshot \in Seq(GameMessages)
           /\ \A id \in Nat : /\ AssignLocalPlayerID(id) \in GameMessages /\ PlayerJoined(id) \in GameMessages
                              /\ PlayerLeft(id) \in GameMessages
           /\ UDPBindAck \in GameMessages
           /\ \A id, q : ~About(UDPBindAck, q) /\ ~About(AssignLocalPlayerID(id), q)
<1>1. DOMAIN players \subseteq Nat /\ m_nextPlayerID \in Nat /\ players \in Games(DOMAIN players)
  BY PlayersGivenOut, SessionTyped DEF ServerTyped, GameServerTypeOK, Games
<1>2. Introductions \subseteq GameMessages
  <2>1. \A id \in Nat : PlayerStateUpdate(id) \in GameMessages
    BY GameMessagesTyped, KindsAreMessages DEF GameMessages, PlayerStateUpdate
  <2>2. HealthsOf(DOMAIN players) \subseteq GameMessages
    BY HealthsAreGameMessages DEF HealthsOf
  <2> QED BY <1>1, <2>1, <2>2 DEF Introductions
<1>3. Snapshot \in Seq(GameMessages)
  <2>1. Snapshot \in Seq(Introductions)
    BY <1>1, SnapshotTyped
  <2> HIDE DEF Snapshot
  <2> QED BY <1>2, <2>1
<1>4. \A id \in Nat : /\ AssignLocalPlayerID(id) \in GameMessages /\ PlayerJoined(id) \in GameMessages
                      /\ PlayerLeft(id) \in GameMessages
  BY GameMessagesTyped, KindsAreMessages DEF GameMessages, AssignLocalPlayerID, PlayerJoined, PlayerLeft
<1>5. UDPBindAck \in GameMessages
  BY MessagesTyped DEF GameMessages, UDPBindAck
<1>6. \A id, q : ~About(UDPBindAck, q) /\ ~About(AssignLocalPlayerID(id), q)
  BY DEF About, Adds, Removes, SetsHealth, UDPBindAck, AssignLocalPlayerID
<1> QED BY <1>2, <1>3, <1>4, <1>5, <1>6

(* What is added to what is to come is added to what is kept of it. *)
LEMMA KeptGrows ==
    ASSUME HandshakeInvariant', NEW p \in Process, ToCome(p) \in Seq(GameMessages), phase'[p] = phase[p],
           phase[p] # "connected" => \E i : AckAt(ToCome(p), i),
           NEW more \in Seq(GameMessages), ToCome(p)' = ToCome(p) \o more
    PROVE  Kept(p)' = Kept(p) \o more
<1> DEFINE msgs == ToCome(p)
           all  == msgs \o more
<1>1. CASE phase[p] = "connected"
  BY <1>1, KeptIs, KeptIsNext DEF KeptOf
<1>2. CASE phase[p] # "connected"
  <2>1. PICK i : AckAt(msgs, i)
    BY <1>2
  <2>2. AtMostOne({j \in 1 .. Len(all) : all[j].type = "UDPBindAck"})
    <3>1. AtMostOne(Places(p, "UDPBindAck")')
      BY DEF HandshakeInvariant, AckOnItsWay, AtMostOne
    <3> QED BY <3>1 DEF Places, AtMostOne
  <2>3. /\ i \in 1 .. Len(msgs) /\ i \in 1 .. Len(all) /\ all[i] = msgs[i] /\ msgs[i].type = "UDPBindAck"
    <3> HIDE DEF msgs
    <3>1. msgs \in Seq(GameMessages)
      BY DEF msgs
    <3> QED BY <2>1, <3>1 DEF AckAt
  <2> HIDE DEF all
  <2>4. AckAt(all, i)
    BY <2>2, <2>3 DEF AckAt, AtMostOne
  <2>5. KeptOf(phase[p], all) = KeptOf(phase[p], msgs) \o more
    <3> HIDE DEF msgs
    <3>1. msgs \in Seq(GameMessages) /\ AckAt(msgs \o more, i) /\ i <= Len(msgs)
      BY <2>3, <2>4 DEF msgs, all
    <3>2. KeptOf(phase[p], msgs \o more) = KeptOf(phase[p], msgs) \o more
      BY <3>1, KeptAppended
    <3> QED BY <3>2 DEF all
  <2> QED BY <2>5, KeptIs, KeptIsNext DEF all
<1> QED BY <1>1, <1>2

(* The sequences of one and of two messages. *)
LEMMA SubSeqOne ==
    ASSUME NEW S, NEW s \in Seq(S), NEW n \in 1 .. Len(s)
    PROVE  SubSeq(s, n, n) = <<s[n]>>
<1>1. SubSeq(s, n, n) = <<s[n]>> \o SubSeq(s, n + 1, n)
  BY SubSeqRecursiveFirst, LenProperties
<1>2. SubSeq(s, n + 1, n) = <<>>
  BY SubSeqEmpty, LenProperties
<1>3. <<s[n]>> \o <<>> = <<s[n]>>
  BY ConcatEmptySeq, ElementOfSeq
<1> QED BY <1>1, <1>2, <1>3

LEMMA PairOf ==
    ASSUME NEW S, NEW a \in S, NEW b \in S
    PROVE  <<a>> \o <<b>> = <<a, b>>
<1>1. <<a>> \in Seq(S) /\ <<b>> \in Seq(S) /\ <<a, b>> \in Seq(S)
  OBVIOUS
<1>2. Len(<<a>>) = 1 /\ Len(<<b>>) = 1 /\ Len(<<a, b>>) = 2
  OBVIOUS
<1> DEFINE ab == <<a>> \o <<b>>
<1>3. ab \in Seq(S) /\ Len(ab) = 2 /\ ab[1] = a /\ ab[2] = b
  BY <1>1, <1>2
<1> HIDE DEF ab
<1>4. ab = <<a, b>>
  BY <1>1, <1>2, <1>3, SeqEqual
<1> QED BY <1>4 DEF ab

LEMMA ThreeParts ==
    \A r, s, t \in Seq(Message) : (r \o s) \o t = r \o (s \o t)
BY ConcatAssociative

(* The connect callback tells its client everything. *)
LEMMA NewPlayerFollows ==
    ASSUME WholeInvariant, [Next]_vars, NEW p \in Process, OnClientConnected, callback.client = ClientOf(p),
           Linked(p), phase[p] \in {"waitAck", "connected"},
           NEW q \in DOMAIN players' \ {m_nextPlayerID}
    PROVE  Agrees(view'[p], Kept(p)', q, players'[q])
<1> DEFINE c    == connID[p]
           next == m_nextPlayerID
           box  == m_clients[c].tcpOutbox
           read == toClient[p]
           msgs == ToCome(p)
           own  == AssignLocalPlayerID(next)
           news == <<own>> \o Snapshot
<1>1. /\ SessionInvariant /\ HandshakeInvariant /\ JustBound /\ c \in DOMAIN m_clients /\ c = callback.client
      /\ callback.kind = "connect" /\ HandshakeInvariant' /\ next \in Nat
      /\ NetworkTypeOK /\ ServerTyped
  BY WholeFrame, SessionTyped, PlayersGivenOut
     DEF WholeInvariant, AgreementInvariant, OnClientConnected, Linked, ClientOf
<1>2. /\ msgs \in Seq(GameMessages) /\ view[p] \in AllGames
  BY <1>1, ComingToGame
<1>3. /\ UNCHANGED <<transportVars, clientVars, gameClientVars>>
      /\ DOMAIN m_clients' = DOMAIN m_clients
  BY <1>1, GameWorkFrame DEF GameWork
<1>4. toClient' = toClient /\ phase' = phase /\ view' = view /\ connID' = connID
  BY <1>3 DEF transportVars, tcpVars, clientVars, gameClientVars
<1>5. box \in Seq(Message) /\ read \in Seq(Message)
  BY <1>1, QueuesTyped DEF NetworkTypeOK, ServerTypeOK, TransportTypeOK
<1>6. own \in GameMessages /\ Snapshot \in Seq(GameMessages) /\ UDPBindAck \in GameMessages
      /\ \A b : ~About(own, b) /\ ~About(UDPBindAck, b)
  BY <1>1, NewsAreGameMessages
<1>7. m_clients'[c].tcpOutbox = box \o news
  BY <1>1, OnClientConnectedTells
<1>8. msgs = read \o box
  BY <1>1 DEF ToCome
<1> HIDE DEF own
<1>9. news \in Seq(GameMessages) /\ news \in Seq(Message)
  <2>1. GameMessages \subseteq Message
    BY DEF GameMessages
  <2> HIDE DEF Snapshot
  <2> QED BY <1>6, <2>1
<1>10. ToCome(p)' = msgs \o news
  <2>1. ToCome(p)' = read \o (box \o news)
    BY <1>1, <1>3, <1>4, <1>7 DEF ToCome
  <2> HIDE DEF news, msgs, box, read
  <2>2. read \in Seq(Message) /\ box \in Seq(Message) /\ news \in Seq(Message)
    BY <1>5, <1>9
  <2>3. (read \o box) \o news = read \o (box \o news)
    BY <2>2, ThreeParts
  <2> QED BY <1>8, <2>1, <2>3 DEF msgs
<1>11. AckAt(msgs, Len(msgs))
  <2>1. box # <<>> /\ box[Len(box)] = UDPBindAck
    BY <1>1 DEF JustBound
  <2>2. Len(msgs) \in 1 .. Len(msgs) /\ msgs[Len(msgs)] = UDPBindAck
    <3> HIDE DEF box, read
    <3> QED BY <1>5, <1>8, <2>1
  <2>3. AtMostOne(Places(p, "UDPBindAck"))
    BY <1>1 DEF HandshakeInvariant, AckOnItsWay
  <2>4. UDPBindAck.type = "UDPBindAck"
    BY DEF UDPBindAck
  <2> QED BY <2>2, <2>3, <2>4 DEF AckAt, Places, AtMostOne
<1>12. phase[p] = "waitAck"
  <2>1. Places(p, "UDPBindAck") # {}
    BY <1>11 DEF Places, AckAt
  <2> QED BY <1>1, <2>1 DEF HandshakeInvariant, AckOnItsWay
<1> HIDE DEF news
<1>13. Kept(p)' = Kept(p) \o news
  <2>1. \E i : AckAt(ToCome(p), i)
    BY <1>11
  <2> QED BY <1>1, <1>2, <1>4, <1>9, <1>10, <2>1, KeptGrows
<1>14. Kept(p) = <<UDPBindAck>>
  <2>1. KeptOf(phase[p], msgs) = SubSeq(msgs, Len(msgs), Len(msgs))
    BY <1>2, <1>11, <1>12, KeptFrom
  <2>2. Len(msgs) \in 1 .. Len(msgs) /\ msgs[Len(msgs)] = UDPBindAck
    <3>1. box # <<>> /\ box[Len(box)] = UDPBindAck
      BY <1>1 DEF JustBound
    <3> HIDE DEF box, read
    <3> QED BY <1>5, <1>8, <3>1
  <2>3. SubSeq(msgs, Len(msgs), Len(msgs)) = <<UDPBindAck>>
    <3> HIDE DEF msgs
    <3>1. SubSeq(msgs, Len(msgs), Len(msgs)) = <<msgs[Len(msgs)]>>
      BY <1>2, <2>2, SubSeqOne
    <3> QED BY <2>2, <3>1
  <2> QED BY <2>1, <2>3, KeptIs
<1>15. Kept(p)' = <<UDPBindAck, own>> \o Snapshot
  <2> HIDE DEF Snapshot
  <2>1. <<UDPBindAck>> \o (<<own>> \o Snapshot) = (<<UDPBindAck>> \o <<own>>) \o Snapshot
    <3>1. <<UDPBindAck>> \in Seq(GameMessages) /\ <<own>> \in Seq(GameMessages)
      BY <1>6
    <3> QED BY <1>6, <3>1, ConcatAssociative
  <2>2. <<UDPBindAck>> \o <<own>> = <<UDPBindAck, own>>
    BY <1>6, PairOf
  <2> QED BY <1>13, <1>14, <2>1, <2>2 DEF news
<1>16. q \in DOMAIN players /\ players'[q] = players[q]
  <2>1. players' = AddPlayer(players, next)
    BY <1>1, PlayersFrame
  <2> QED BY <2>1 DEF AddPlayer
<1>17. Agrees(view[p], <<UDPBindAck, own>> \o Snapshot, q, players[q])
  <2> DEFINE pre == <<UDPBindAck, own>>
  <2>1. pre \in Seq(GameMessages) /\ \A k \in 1 .. Len(pre) : ~About(pre[k], q)
    BY <1>6
  <2>2. GameServerTypeOK /\ \A id \in DOMAIN players : id < m_nextPlayerID
    BY <1>1, PlayersGivenOut DEF ServerTyped
  <2> HIDE DEF pre
  <2>3. Agrees(view[p], pre \o Snapshot, q, players[q])
    BY <1>2, <1>16, <2>1, <2>2, SnapshotAgrees
  <2> QED BY <2>3 DEF pre
<1> QED BY <1>4, <1>15, <1>16, <1>17

-----------------------------------------------------------------------------
(* Reading: from the acknowledgement on, what is read is applied *)

LEMMA ReadsTCP ==
    ASSUME SessionInvariant, [Next]_vars, NEW p \in Process, TakeTCP(p), phase'[p] # "exited"
    PROVE  /\ players' = players
           /\ phase[p] = "connected" => view'[p] = ApplyIncomingMessage(view[p], Head(toClient[p]))
           /\ phase[p] # "connected" => view'[p] = view[p]
<1>1. /\ NetworkTypeOK /\ toClient \in [Process -> Seq(Message)] /\ phase \in [Process -> Phase]
      /\ \A c \in DOMAIN m_clients : m_clients[c] \in NetworkClientRecord
  BY SessionTyped DEF NetworkTypeOK, TransportTypeOK, ClientTypeOK, ServerTypeOK
<1>2. /\ toClient'[p] # toClient[p] /\ Len(toClient'[p]) < Len(toClient[p])
      /\ toClient' # toClient /\ udpToClient' = udpToClient
  BY <1>1 DEF TakeTCP, udpVars
<1>3. ~GameWork
  BY <1>2, GameWorkFrame DEF transportVars, tcpVars
<1>4. phase[p] = "connected" => ClientReceiveTCP(p)
  <2>1. SUFFICES ASSUME phase[p] = "connected" PROVE ClientReceiveTCP(p)
    OBVIOUS
  <2>2. CASE ServerStep
    <3>1. toClient'[p] = toClient[p] \/ PumpSend
      BY <1>3, <2>2
         DEF ServerStep, GameServerStep, GameWork, Accept, PumpReceiveTCP, PumpReceiveUDP, Send, Cleanup, RemoveClient,
             AcceptConnection, ReceiveTCP, DispatchDatagram, HandleUDPBind, IgnoreDatagram, CollectDisconnected,
             RemoveDisconnected, transportVars, tcpVars
    <3>2. Written(p) \in Seq(Message)
      BY <1>1, NoMessages, QueuesTyped DEF Written
    <3>3. PumpSend => toClient'[p] = toClient[p] \o Written(p)
      BY DEF PumpSend
    <3>4. /\ Len(toClient[p]) <= Len(toClient[p] \o Written(p))
          /\ Len(toClient[p]) \in Nat /\ Len(toClient[p] \o Written(p)) \in Nat
      BY <1>1, <3>2
    <3> QED BY <1>2, <3>1, <3>3, <3>4
  <2>3. ASSUME NEW q \in Process, ClientStep(q) PROVE ClientReceiveTCP(p)
    <3>1. CASE Handshaking(q)
      BY <1>1, <1>2, <2>1, <3>1
         DEF Handshaking, Start, TakeBindRequest, PollBindRequest, TakeBindAck, PollBindAck, TakeTCP, transportVars, tcpVars
    <3>2. CASE End(q)
      <4>1. q = p
        BY <1>1, <1>2, <3>2 DEF End, Exit
      <4> QED BY <1>1, <3>2, <4>1 DEF End, Exit
    <3>3. CASE ClientReceiveTCP(q)
      <4>1. q = p
        BY <1>1, <1>2, <3>3 DEF ClientReceiveTCP, ReceiveFromServer, TakeTCP
      <4> QED BY <3>3, <4>1
    <3>4. CASE \/ (\E d \in udpToClient : ClientReceiveUDP(q, d)) \/ EndPoll(q)
               \/ \E shoots, withPing \in BOOLEAN : EndFrame(q, shoots, withPing)
      BY <1>2, <3>4
         DEF ClientReceiveUDP, ReceiveDatagram, EndPoll, EndFrame, ClientPumpSend, transportVars, tcpVars
    <3> QED BY <2>3, <3>1, <3>2, <3>3, <3>4 DEF ClientStep, GameClientStep
  <2>4. CASE NetworkStep \/ UNCHANGED vars
    BY <1>2, <2>4 DEF NetworkStep, ServerDisconnect, vars, networkVars, transportVars, tcpVars
  <2> QED BY <2>2, <2>3, <2>4 DEF Next
<1>5. players' = players
  BY <1>3, TablesFrame DEF gameVars
<1>6. phase[p] = "connected" => view'[p] = ApplyIncomingMessage(view[p], Head(toClient[p]))
  <2>1. ClientReceiveTCP(p) => /\ ~End(p)
                               /\ \A d \in udpToClient : ~ClientReceiveUDP(p, d)
                               /\ ~EndPoll(p)
    BY <1>1, <1>2 DEF End, Exit, ClientReceiveUDP, ReceiveDatagram, EndPoll, transportVars, tcpVars, ClientReceiveTCP,
                      ReceiveFromServer, clientVars
  <2> QED BY <1>4, <2>1, ViewFrame
<1>7. phase[p] # "connected" => view'[p] = view[p]
  BY ViewFrame DEF ClientReceiveTCP, ReceiveFromServer, ClientReceiveUDP, ReceiveDatagram, EndPoll
<1> QED BY <1>5, <1>6, <1>7

(* Of what a process that follows has to read, it keeps all from a place on. *)
LEMMA KeptTyped ==
    ASSUME SessionInvariant, HandshakeInvariant, [Next]_vars, NEW p \in Process, Follows(p)
    PROVE  /\ phase[p] # "connected" => \E i : AckAt(ToCome(p), i)
           /\ Kept(p) \in Seq(GameMessages)
           /\ \A k \in 1 .. Len(Kept(p)) : Kept(p)[k] \in ToSet(ToCome(p))
<1>1. /\ Linked(p) /\ connID[p] \in DOMAIN m_clientIDToPlayerID /\ phase[p] \in {"waitAck", "connected"}
      /\ connID[p] \in DOMAIN m_clients /\ ToCome(p) \in Seq(GameMessages)
  BY ComingToGame DEF Follows, Alive, Bound, ClientOf, Linked
<1>2. phase[p] # "connected" => \E i : AckAt(ToCome(p), i)
  BY <1>1, BoundIsConnected, AckToCome
<1>3. /\ KeptOf(phase[p], ToCome(p)) \in Seq(GameMessages)
      /\ \A k \in 1 .. Len(KeptOf(phase[p], ToCome(p))) :
           \E j \in 1 .. Len(ToCome(p)) : KeptOf(phase[p], ToCome(p))[k] = ToCome(p)[j]
  <2> DEFINE msgs == ToCome(p)
             ph   == phase[p]
  <2>1. msgs \in Seq(GameMessages) /\ (ph # "connected" => \E i : AckAt(msgs, i))
    BY <1>1, <1>2
  <2> HIDE DEF msgs, ph
  <2>2. /\ KeptOf(ph, msgs) \in Seq(GameMessages)
        /\ \A k \in 1 .. Len(KeptOf(ph, msgs)) : \E j \in 1 .. Len(msgs) : KeptOf(ph, msgs)[k] = msgs[j]
    BY <2>1, KeptAmong
  <2> QED BY <2>2 DEF msgs, ph
<1>4. ToSet(ToCome(p)) = {ToCome(p)[j] : j \in 1 .. Len(ToCome(p))}
  BY <1>1 DEF ToSet
<1> QED BY <1>2, <1>3, <1>4, KeptIs

LEMMA ReaderFollows ==
    ASSUME WholeInvariant, [Next]_vars, NEW p \in Process, Follows(p), TakeTCP(p),
           phase'[p] \in {"waitAck", "connected"}, NEW q \in DOMAIN players \ {PlayerOf(p)}
    PROVE  players' = players /\ Agrees(view'[p], Kept(p)', q, players[q])
<1> DEFINE msgs == ToCome(p)
           head == Head(toClient[p])
<1>1. /\ SessionInvariant /\ HandshakeInvariant /\ LeftIsGone /\ BindingInvariant /\ NoneDisconnected
      /\ [NetworkNext]_networkVars /\ NetworkTypeOK /\ phase[p] \in {"waitAck", "connected"}
      /\ Agrees(view[p], Kept(p), q, players[q])
  BY SessionTyped, StepIsNetworkStep
     DEF WholeInvariant, AgreementInvariant, SessionInvariant, CopiesFollow, Follows
<1>2. /\ msgs \in Seq(GameMessages) /\ msgs # <<>> /\ view[p] \in AllGames
      /\ ToCome(p)' = Tail(msgs) /\ Head(msgs) = head
  BY <1>1, ComingToGame, ReadFrame
<1>3. /\ phase[p] # "connected" => \E i : AckAt(msgs, i)
      /\ Kept(p) \in Seq(GameMessages) /\ Kept(p) = KeptOf(phase[p], msgs)
      /\ Kept(p)' = KeptOf(phase'[p], Tail(msgs))
  BY <1>1, <1>2, KeptTyped, KeptIs, KeptIsNext
<1>4. \/ phase'[p] = phase[p] /\ (phase[p] = "waitAck" => head.type # "UDPBindAck")
      \/ phase[p] = "waitAck" /\ head.type = "UDPBindAck" /\ phase'[p] = "connected"
  BY <1>1, PhaseStep
<1>5. /\ players' = players
      /\ phase[p] = "connected" => view'[p] = ApplyIncomingMessage(view[p], head)
      /\ phase[p] # "connected" => view'[p] = view[p]
  BY <1>1, ReadsTCP
<1>6. ~Removes(head, q)
  <2>1. head \in ToSet(msgs)
    BY <1>1, FirstHeard DEF TakeTCP
  <2> QED BY <1>1, <2>1 DEF LeftIsGone, Removes
<1> HIDE DEF msgs, head
<1>7. CASE phase[p] = "connected"
  <2>1. Kept(p) = msgs /\ Kept(p)' = Tail(msgs)
    BY <1>3, <1>4, <1>7 DEF KeptOf
  <2>2. Agrees(ApplyIncomingMessage(view[p], Head(msgs)), Tail(msgs), q, players[q])
    BY <1>1, <1>2, <1>6, <2>1, AgreesRead
  <2> QED BY <1>2, <1>5, <1>7, <2>1, <2>2
<1>8. CASE phase[p] = "waitAck" /\ head.type = "UDPBindAck" /\ phase'[p] = "connected"
  <2>1. AckAt(msgs, 1)
    <3>1. PICK i : AckAt(msgs, i)
      BY <1>3, <1>8
    <3>2. 1 \in 1 .. Len(msgs) /\ msgs[1].type = "UDPBindAck"
      BY <1>2, <1>8
    <3> QED BY <3>1, <3>2 DEF AckAt
  <2>2. Kept(p) = msgs /\ Kept(p)' = Tail(msgs)
    BY <1>2, <1>3, <1>8, <2>1, KeptFirst DEF KeptOf
  <2>3. Agrees(ApplyIncomingMessage(view[p], Head(msgs)), Tail(msgs), q, players[q])
    BY <1>1, <1>2, <1>6, <2>2, AgreesRead
  <2>4. ApplyIncomingMessage(view[p], head) = view[p]
    BY <1>8 DEF ApplyIncomingMessage
  <2> QED BY <1>2, <1>5, <1>8, <2>2, <2>3, <2>4
<1>9. CASE phase[p] = "waitAck" /\ head.type # "UDPBindAck" /\ phase'[p] = phase[p]
  <2>1. PICK i : AckAt(msgs, i)
    BY <1>3, <1>9
  <2>2. i # 1
    BY <1>2, <1>9, <2>1 DEF AckAt
  <2>3. Kept(p)' = Kept(p)
    BY <1>2, <1>3, <1>9, <2>1, <2>2, KeptDropped
  <2> QED BY <1>1, <1>5, <1>9, <2>3
<1> QED BY <1>1, <1>4, <1>7, <1>8, <1>9

-----------------------------------------------------------------------------
(* Being told: what is added to what is to come is what happens in the game *)

(* The messages told are those that turn the game into the next one, or that a
   player joins. *)
Tells(more, game, after, next) ==
    /\ \A q \in DOMAIN game \cap DOMAIN after : SameOf(ApplyAll(game, more), after, q)
    /\ \A q \in DOMAIN after \ DOMAIN game :
         q = next /\ after[q] = MaxHealth /\ more = <<PlayerJoined(next)>>

Silent == {m \in GameMessages : \A id : ~About(m, id)}

LEMMA SilentTells ==
    ASSUME NEW game \in AllGames, NEW more \in Seq(Silent), NEW next
    PROVE  more \in Seq(GameMessages) /\ Tells(more, game, game, next)
<1>1. more \in Seq(GameMessages) /\ \A k \in 1 .. Len(more) : \A id : ~About(more[k], id)
  BY DEF Silent
<1>2. ASSUME NEW q PROVE SameOf(ApplyAll(game, more), game, q)
  <2>1. SameOf(game, ApplyAll(game, more), q)
    BY <1>1, ApplyAllOther
  <2> QED BY <2>1 DEF SameOf
<1> QED BY <1>1, <1>2 DEF Tells

LEMMA QuietTells ==
    ASSUME SessionInvariant, [Next]_vars, NEW p \in Process, Linked(p), Linked(p)', ~TakeTCP(p), ~GameWork,
           phase'[p] # "exited"
    PROVE  \E more \in Seq(Silent) : ToCome(p)' = ToCome(p) \o more
<1>1. BindingInvariant /\ NoneDisconnected /\ NetworkTypeOK /\ [NetworkNext]_networkVars
  BY SessionTyped, StepIsNetworkStep DEF SessionInvariant
<1>2. ~Queues
  BY TablesFrame DEF Queues
<1>3. ToCome(p) \in Seq(Message) /\ ToCome(p)' \in Seq(Message)
  BY ComingTyped
<1> DEFINE old == ToCome(p)
           new == ToCome(p)'
<1>4. PICK m \in Nat : /\ Shifted(old, new, 0, m) /\ m = Len(old)
                       /\ \A i \in m + 1 .. Len(new) : News(p, new[i])
  <2>1. PICK k, m \in Nat :
             /\ Shifted(ToCome(p), ToCome(p)', k, m)
             /\ \A i \in m + 1 .. Len(ToCome(p)') :
                  \/ ToCome(p)'[i] \in AppMessage /\ Queues
                  \/ i = m + 1 /\ i = Len(ToCome(p)') /\ News(p, ToCome(p)'[i])
             /\ k = 0 \/ (k = 1 /\ TakeTCP(p)) \/ phase'[p] = "exited"
             /\ k + m = Len(ToCome(p)) \/ ~Linked(p) \/ ~Linked(p)'
    BY <1>1, ToComeFrame
  <2>2. k = 0 /\ m = Len(ToCome(p))
    BY <2>1
  <2> QED BY <1>2, <2>1, <2>2
<1>5. ASSUME NEW i \in Len(old) + 1 .. Len(new) PROVE new[i] \in Silent
  <2>1. new[i] \in Message
    BY <1>3
  <2>2. new[i].type \in {"UDPBindRequest", "UDPBindAck", "Pong"}
    <3>1. News(p, new[i])
      BY <1>4
    <3> HIDE DEF new
    <3> QED BY <3>1 DEF News, Asked, Acknowledged, Answered, UDPBindRequest, UDPBindAck, Pong
  <2> HIDE DEF new
  <2> QED BY <2>1, <2>2 DEF Silent, GameMessages, About, Adds, Removes, SetsHealth
<1> HIDE DEF old, new
<1>6. old \in Seq(Message) /\ new \in Seq(Message)
  BY <1>3 DEF old, new
<1>7. Grows(old, new, Silent)
  <2>1. Len(old) \in Nat /\ Len(new) \in Nat /\ Len(old) <= Len(new) /\ \A i \in 1 .. Len(old) : new[i] = old[i]
    BY <1>4, <1>6 DEF Shifted
  <2>2. \A i \in 1 .. Len(new) : ~(i <= Len(old)) => i \in Len(old) + 1 .. Len(new)
    BY <2>1
  <2>3. \A i \in 1 .. Len(new) : i <= Len(old) => i \in 1 .. Len(old)
    BY <2>1
  <2> QED BY <1>5, <1>6, <2>1, <2>2, <2>3 DEF Grows
<1>8. \E more \in Seq(Silent) : new = old \o more
  BY <1>6, <1>7, GrowsBy
<1> QED BY <1>8 DEF old, new

LEMMA GameTells ==
    ASSUME SessionInvariant, [Next]_vars, NEW p \in Process, Linked(p), GameWork,
           ~(OnClientConnected /\ callback.client = ClientOf(p))
    PROVE  \E more \in Seq(GameMessages) :
             ToCome(p)' = ToCome(p) \o more /\ Tells(more, players, players', m_nextPlayerID)
<1> DEFINE c    == connID[p]
           next == m_nextPlayerID
           box  == m_clients[c].tcpOutbox
           read == toClient[p]
<1>1. /\ NetworkTypeOK /\ ServerTyped /\ UpdatesKnown /\ c \in DOMAIN m_clients /\ next \in Nat
      /\ players \in AllGames /\ box \in Seq(Message) /\ read \in Seq(Message)
  <2>1. NetworkTypeOK /\ ServerTyped /\ UpdatesKnown /\ c \in DOMAIN m_clients
    BY SessionTyped DEF Linked
  <2>2. next \in Nat /\ players \in AllGames
    BY <2>1, PlayersGivenOut, AllGamesAre DEF ServerTyped, GameServerTypeOK
  <2>3. box \in Seq(Message) /\ read \in Seq(Message)
    BY <2>1, QueuesTyped DEF NetworkTypeOK, ServerTypeOK, TransportTypeOK
  <2> QED BY <2>1, <2>2, <2>3
<1>2. /\ toClient' = toClient /\ connID' = connID /\ DOMAIN m_clients' = DOMAIN m_clients
  BY GameWorkFrame DEF transportVars, tcpVars
<1>3. ASSUME NEW more \in Seq(GameMessages), m_clients'[c].tcpOutbox = box \o more
      PROVE  ToCome(p)' = ToCome(p) \o more
  <2>1. ToCome(p)' = read \o (box \o more) /\ ToCome(p) = read \o box
    BY <1>1, <1>2, <1>3 DEF ToCome
  <2>2. more \in Seq(Message)
    BY DEF GameMessages
  <2> HIDE DEF box, read
  <2>3. (read \o box) \o more = read \o (box \o more)
    BY <1>1, <2>2, ThreeParts
  <2> QED BY <2>1, <2>3
<1>4. SUFFICES \E more \in Seq(GameMessages) :
                 m_clients'[c].tcpOutbox = box \o more /\ Tells(more, players, players', next)
  BY <1>3
<1>5. CASE OnClientConnected
  <2> DEFINE joined == PlayerJoined(next)
  <2>1. m_clients'[c].tcpOutbox = box \o <<joined>>
    BY <1>1, <1>5, OnClientConnectedTells DEF ClientOf
  <2>2. joined \in GameMessages /\ <<joined>> \in Seq(GameMessages)
    BY <1>1, NewsAreGameMessages
  <2>3. players' = AddPlayer(players, next)
    BY <1>5, PlayersFrame
  <2>4. ApplyIncomingMessage(players, joined) = players'
    BY <2>3 DEF ApplyIncomingMessage, PlayerJoined
  <2>5. ApplyAll(players, <<joined>>) = players'
    <3> HIDE DEF joined
    <3> QED BY <1>1, <2>2, <2>4, ApplyAllOne
  <2>6. \A q \in DOMAIN players' \ DOMAIN players : q = next /\ players'[q] = MaxHealth
    BY <2>3 DEF AddPlayer
  <2>7. Tells(<<joined>>, players, players', next)
    BY <2>5, <2>6 DEF Tells, SameOf
  <2> QED BY <2>1, <2>2, <2>7
<1>6. CASE OnClientDisconnected /\ callback.client \in DOMAIN m_clientIDToPlayerID
  <2> DEFINE id   == m_clientIDToPlayerID[callback.client]
             left == PlayerLeft(id)
  <2>1. c # callback.client
    BY <1>1, <1>6 DEF OnClientDisconnected, SessionInvariant, PlayersInvariant, CallbackState
  <2>2. m_clients'[c].tcpOutbox = box \o <<left>>
    BY <1>1, <1>6, <2>1, OnClientDisconnectedTells
  <2>3. id \in Nat
    BY <1>6, PlayersGivenOut
  <2>4. left \in GameMessages /\ <<left>> \in Seq(GameMessages)
    BY <2>3, NewsAreGameMessages
  <2>5. players' = RemovePlayer(players, id)
    BY <1>6, PlayersFrame
  <2>6. ApplyIncomingMessage(players, left) = players'
    BY <2>5 DEF ApplyIncomingMessage, PlayerLeft
  <2>7. ApplyAll(players, <<left>>) = players'
    <3> HIDE DEF left
    <3> QED BY <1>1, <2>4, <2>6, ApplyAllOne
  <2>8. DOMAIN players' \subseteq DOMAIN players
    BY <2>5 DEF RemovePlayer
  <2>9. Tells(<<left>>, players, players', next)
    BY <2>7, <2>8 DEF Tells, SameOf
  <2> QED BY <2>2, <2>4, <2>9
<1>7. CASE OnClientDisconnected /\ callback.client \notin DOMAIN m_clientIDToPlayerID
  <2>1. m_clients' = m_clients /\ players' = players
    BY <1>7 DEF OnClientDisconnected
  <2>2. <<>> \in Seq(GameMessages) /\ m_clients'[c].tcpOutbox = box \o <<>>
    BY <1>1, <2>1, ConcatEmptySeq
  <2>3. <<>> \in Seq(Silent)
    OBVIOUS
  <2> QED BY <1>1, <2>1, <2>2, <2>3, SilentTells
<1>8. CASE Update
  <2>1. PICK hits \in Seq(HealthsOf(DOMAIN players)) :
          /\ players' = ApplyAll(players, hits)
          /\ \A b \in DOMAIN m_clients : \E spawns \in Seq(Spawns) :
               m_clients'[b].tcpOutbox = m_clients[b].tcpOutbox \o (spawns \o hits)
    BY <1>1, <1>8, UpdateTells
  <2>2. PICK spawns \in Seq(Spawns) : m_clients'[c].tcpOutbox = box \o (spawns \o hits)
    BY <1>1, <2>1
  <2>3. hits \in Seq(GameMessages) /\ spawns \in Seq(GameMessages) /\ spawns \o hits \in Seq(GameMessages)
        /\ \A k \in 1 .. Len(spawns) : \A id : ~About(spawns[k], id)
    BY HealthsAreGameMessages DEF HealthsOf
  <2>4. DOMAIN players' \subseteq DOMAIN players
    BY <1>1, <1>8, UpdateTyped DEF Games
  <2>5. /\ ApplyAll(players, spawns) \in AllGames
        /\ ApplyAll(players, spawns \o hits) = ApplyAll(ApplyAll(players, spawns), hits)
    BY <1>1, <2>3, ApplyAllAppended
  <2>6. ASSUME NEW q PROVE SameOf(ApplyAll(players, spawns \o hits), players', q)
    <3>1. SameOf(players, ApplyAll(players, spawns), q)
      BY <1>1, <2>3, ApplyAllOther
    <3>2. SameOf(ApplyAll(players, hits), ApplyAll(ApplyAll(players, spawns), hits), q)
      BY <1>1, <2>3, <2>5, <3>1, ApplyAllSame
    <3> QED BY <2>1, <2>5, <3>2 DEF SameOf
  <2>7. Tells(spawns \o hits, players, players', next)
    BY <2>4, <2>6 DEF Tells
  <2> QED BY <2>2, <2>3, <2>7
<1> QED BY <1>5, <1>6, <1>7, <1>8 DEF GameWork

LEMMA Told ==
    ASSUME SessionInvariant, [Next]_vars, NEW p \in Process, Linked(p), Linked(p)', ~TakeTCP(p),
           phase'[p] # "exited", ~(OnClientConnected /\ callback.client = ClientOf(p))
    PROVE  \E more \in Seq(GameMessages) :
             ToCome(p)' = ToCome(p) \o more /\ Tells(more, players, players', m_nextPlayerID)
<1>1. CASE GameWork
  BY <1>1, GameTells
<1>2. CASE ~GameWork
  <2>1. PICK more \in Seq(Silent) : ToCome(p)' = ToCome(p) \o more
    BY <1>2, QuietTells
  <2>2. players' = players /\ players \in AllGames
    BY <1>2, TablesFrame, SessionTyped, PlayersGivenOut, AllGamesAre DEF gameVars, ServerTyped, GameServerTypeOK
  <2> QED BY <2>1, <2>2, SilentTells
<1> QED BY <1>1, <1>2

LEMMA ListenerFollows ==
    ASSUME WholeInvariant, [Next]_vars, NEW p \in Process, Follows(p), Linked(p)', ~TakeTCP(p),
           phase'[p] \in {"waitAck", "connected"}, ~(OnClientConnected /\ callback.client = ClientOf(p)),
           NEW q \in DOMAIN players' \ {PlayerOf(p)}
    PROVE  /\ Agrees(view[p], Kept(p)', q, players'[q])
           /\ Kept(p)' \in Seq(GameMessages)
           /\ \A k \in 1 .. Len(Kept(p)') : ~Removes(Kept(p)'[k], q)
<1> DEFINE kept == Kept(p)
           next == m_nextPlayerID
<1>1. /\ SessionInvariant /\ HandshakeInvariant /\ HandshakeInvariant' /\ GivenOut /\ LeftIsGone'
      /\ NetworkTypeOK /\ [NetworkNext]_networkVars /\ Linked(p)
      /\ \A b \in DOMAIN players \ {PlayerOf(p)} : Agrees(view[p], kept, b, players[b])
  BY WholeFrame, SessionTyped, StepIsNetworkStep
     DEF WholeInvariant, AgreementInvariant, CopiesFollow, Follows, Alive, ClientOf, Linked
<1>2. /\ kept \in Seq(GameMessages) /\ \A k \in 1 .. Len(kept) : kept[k] \in ToSet(ToCome(p))
      /\ phase[p] # "connected" => \E i : AckAt(ToCome(p), i)
      /\ ToCome(p) \in Seq(GameMessages) /\ view[p] \in AllGames
  BY <1>1, KeptTyped, ComingToGame
<1>3. phase'[p] = phase[p]
  BY <1>1, PhaseStep
<1>4. PICK more \in Seq(GameMessages) :
        ToCome(p)' = ToCome(p) \o more /\ Tells(more, players, players', next)
  BY <1>1, Told
<1>5. Kept(p)' = kept \o more
  BY <1>1, <1>2, <1>3, <1>4, KeptGrows
<1> HIDE DEF kept
<1>6. kept \o more \in Seq(GameMessages)
  BY <1>2
<1>7. ASSUME NEW k \in 1 .. Len(kept \o more) PROVE ~Removes((kept \o more)[k], q)
  <2> DEFINE old == ToCome(p)
  <2>1. (kept \o more)[k] \in ToSet(old \o more)
    <3>1. old \in Seq(GameMessages) /\ old \o more \in Seq(GameMessages)
      BY <1>2
    <3> HIDE DEF old
    <3>2. /\ \A j \in 1 .. Len(old) : j \in 1 .. Len(old \o more) /\ (old \o more)[j] = old[j]
          /\ \A j \in 1 .. Len(more) : j + Len(old) \in 1 .. Len(old \o more) /\ (old \o more)[j + Len(old)] = more[j]
      BY <3>1
    <3>3. CASE k <= Len(kept)
      <4>1. k \in 1 .. Len(kept) /\ (kept \o more)[k] = kept[k]
        BY <1>2, <1>7, <3>3
      <4>2. PICK j \in 1 .. Len(old) : kept[k] = old[j]
        BY <1>2, <3>1, <4>1 DEF ToSet, old
      <4> QED BY <3>1, <3>2, <4>1, <4>2 DEF ToSet
    <3>4. CASE ~(k <= Len(kept))
      <4>1. k - Len(kept) \in 1 .. Len(more) /\ (kept \o more)[k] = more[k - Len(kept)]
        BY <1>2, <1>7, <3>4
      <4>2. PICK j \in 1 .. Len(more) : (kept \o more)[k] = more[j]
        BY <4>1
      <4>3. j + Len(old) \in 1 .. Len(old \o more) /\ (old \o more)[j + Len(old)] = more[j]
        BY <3>2
      <4> DEFINE n   == j + Len(old)
                 all == old \o more
      <4> HIDE DEF n
      <4>4. n \in 1 .. Len(all) /\ (kept \o more)[k] = all[n] /\ all \in Seq(GameMessages)
        BY <3>1, <4>2, <4>3 DEF n
      <4> HIDE DEF all
      <4>5. all[n] \in ToSet(all)
        BY <4>4 DEF ToSet
      <4> QED BY <4>4, <4>5 DEF all
    <3> QED BY <3>3, <3>4
  <2>2. (kept \o more)[k] \in ToSet(ToCome(p)')
    BY <1>4, <2>1
  <2> QED BY <1>1, <2>2 DEF LeftIsGone, Removes
<1>8. Agrees(view[p], kept \o more, q, players'[q])
  <2>1. players \in AllGames /\ next \in Nat
    BY <1>1, SessionTyped, PlayersGivenOut, AllGamesAre DEF ServerTyped, GameServerTypeOK
  <2>2. CASE q \in DOMAIN players
    <3>1. Agrees(view[p], kept, q, players[q])
      BY <1>1, <2>2
    <3>2. SameOf(ApplyAll(players, more), players', q) /\ q \in DOMAIN players'
      BY <1>4, <2>2 DEF Tells
    <3> DEFINE after == players'
               known == view[p]
    <3> HIDE DEF after, known
    <3>3. Agrees(known, kept \o more, q, after[q])
      <4>1. SameOf(ApplyAll(players, more), after, q) /\ q \in DOMAIN after /\ known \in AllGames
            /\ Agrees(known, kept, q, players[q])
        BY <1>2, <3>1, <3>2 DEF after, known
      <4> QED BY <1>2, <2>1, <2>2, <4>1, AgreesTold
    <3> QED BY <3>3 DEF after, known
  <2>3. CASE q \notin DOMAIN players
    <3>1. q = next /\ players'[q] = MaxHealth /\ more = <<PlayerJoined(next)>>
      BY <1>4, <2>3 DEF Tells
    <3>2. next \notin DOMAIN view[p]
      BY <1>1, <2>1 DEF GivenOut
    <3>3. ASSUME NEW k \in 1 .. Len(kept) PROVE ~Adds(kept[k], next) /\ ~SetsHealth(kept[k], next)
      <4>1. Numbered(kept[k])
        BY <1>1, <1>2 DEF GivenOut
      <4> QED BY <2>1, <4>1 DEF Numbered, Adds, SetsHealth
    <3>4. Agrees(view[p], kept \o <<PlayerJoined(next)>>, next, MaxHealth)
      BY <1>2, <2>1, <3>2, <3>3, AgreesJoined
    <3> QED BY <3>1, <3>4
  <2> QED BY <2>2, <2>3
<1> QED BY <1>5, <1>6, <1>7, <1>8

LEMMA CopiesFollowNext ==
    ASSUME WholeInvariant, [Next]_vars
    PROVE  CopiesFollow'
<1> SUFFICES ASSUME NEW p \in Process, Follows(p)', NEW q \in DOMAIN players' \ {PlayerOf(p)'}
             PROVE  Agrees(view'[p], Kept(p)', q, players'[q])
  BY DEF CopiesFollow
<1>1. SessionInvariant /\ HandshakeInvariant /\ phase'[p] \in {"waitAck", "connected"} /\ Linked(p)'
  BY DEF WholeInvariant, Follows, Alive, ClientOf, Linked
<1>2. CASE OnClientConnected /\ callback.client = ClientOf(p)
  <2>1. Linked(p) /\ phase[p] \in {"waitAck", "connected"} /\ PlayerOf(p)' = m_nextPlayerID
    BY <1>2, FollowsFrame
  <2> QED BY <1>2, <2>1, NewPlayerFollows
<1>3. CASE ~(OnClientConnected /\ callback.client = ClientOf(p))
  <2>1. Follows(p) /\ PlayerOf(p)' = PlayerOf(p)
    BY <1>3, FollowsFrame
  <2>2. CASE TakeTCP(p)
    <3>1. players' = players
      BY <1>1, <2>2, ReadsTCP
    <3> QED BY <1>1, <2>1, <2>2, <3>1, ReaderFollows
  <2>3. CASE ~TakeTCP(p)
    <3> DEFINE kept   == Kept(p)'
               health == players'[q]
               known  == view[p]
    <3>1. /\ Agrees(known, kept, q, health)
          /\ kept \in Seq(GameMessages) /\ \A k \in 1 .. Len(kept) : ~Removes(kept[k], q)
      BY <1>1, <1>3, <2>1, <2>3, ListenerFollows
    <3>2. known \in AllGames
      BY <1>1, ComingToGame
    <3>3. CASE view'[p] = known
      BY <3>1, <3>3
    <3>4. ASSUME NEW id \in Nat, view'[p] = AddPlayer(known, id) PROVE Agrees(view'[p], kept, q, health)
      <4> HIDE DEF kept, health, known
      <4> QED BY <3>1, <3>2, <3>4, AgreesAdded
    <3>5. ASSUME NEW d \in udpToClient, view'[p] = ApplyIncomingMessage(known, d.msg)
          PROVE  Agrees(view'[p], kept, q, health)
      <4>1. d.msg.type \in {"PlayerStateUpdate", "Pong"} /\ d.msg \in Message
        BY <1>1, SessionTyped
           DEF SessionInvariant, PlayersInvariant, Datagrams, NetworkTypeOK, TransportTypeOK, ToClientDatagram
      <4>2. ASSUME d.msg.type = "PlayerStateUpdate"
            PROVE  d.msg.playerID \in Nat /\ view'[p] = AddPlayer(known, d.msg.playerID)
        BY <3>5, <4>1, <4>2, KindsAreMessages DEF ApplyIncomingMessage
      <4>3. d.msg.type = "Pong" => view'[p] = known
        BY <3>5 DEF ApplyIncomingMessage
      <4> QED BY <3>3, <3>4, <4>1, <4>2, <4>3
    <3>6. CASE m_localPlayerID[p] # NoPlayer /\ view'[p] = AddPlayer(known, m_localPlayerID[p])
      <4>1. m_localPlayerID[p] \in Nat
        BY <1>1, <3>6 DEF SessionInvariant, PlayersInvariant, TypeOK, GameClientTypeOK
      <4> QED BY <3>4, <3>6, <4>1
    <3>7. ~ClientReceiveTCP(p)
      BY <2>3 DEF ClientReceiveTCP, ReceiveFromServer
    <3>8. \/ view'[p] = known
          \/ \E d \in udpToClient : view'[p] = ApplyIncomingMessage(known, d.msg)
          \/ m_localPlayerID[p] # NoPlayer /\ view'[p] = AddPlayer(known, m_localPlayerID[p])
      BY <1>1, <3>7, ViewFrame
    <3> QED BY <3>3, <3>5, <3>6, <3>8
  <2> QED BY <2>2, <2>3
<1> QED BY <1>2, <1>3

-----------------------------------------------------------------------------
(* The invariant holds, and remote players agree *)

LEMMA AgreementInit ==
    ASSUME Init
    PROVE  AgreementInvariant
<1>1. ASSUME NEW p \in Process PROVE ToCome(p) = <<>> /\ view[p] = <<>> /\ m_localPlayerID[p] = NoPlayer
  <2>1. toClient[p] = <<>> /\ m_clients = <<>> /\ DOMAIN m_clients = {}
    BY DEF Init, NetworkInit, TransportInit, ServerInit
  <2>2. <<>> \o <<>> = <<>>
    BY ConcatEmptySeq
  <2> QED BY <2>1, <2>2 DEF Init, ToCome, GameClientInit
<1>2. udpToClient = {} /\ DOMAIN m_clients = {} /\ callback.kind = "none" /\ DOMAIN <<>> = {} /\ ToSet(<<>>) = {}
  BY DEF Init, NetworkInit, TransportInit, ServerInit, NoCallback, ToSet
<1>3. GivenOut
  BY <1>1, <1>2 DEF GivenOut
<1>4. LeftIsGone
  BY <1>1, <1>2 DEF LeftIsGone
<1>5. JustBound
  BY <1>2 DEF JustBound
<1>6. CopiesFollow
  BY <1>2 DEF CopiesFollow, Follows, Alive
<1> QED BY <1>3, <1>4, <1>5, <1>6 DEF AgreementInvariant

LEMMA WholeNext == WholeInvariant /\ [Next]_vars => WholeInvariant'
BY WholeFrame, CopiesFollowNext DEF WholeInvariant, AgreementInvariant

(* The invariant of the whole program: that of the network, that of the
   handshake, whose player each message is about, and who is told what. *)
THEOREM WholeCorrect == Spec => []WholeInvariant
<1>1. Init => WholeInvariant
  <2> SUFFICES ASSUME Init PROVE WholeInvariant
    OBVIOUS
  <2>1. NetworkInit
    BY DEF Init
  <2> QED BY <2>1, SessionInit, InboxInit, HandshakeInit, AgreementInit DEF WholeInvariant
<1> QED BY <1>1, WholeNext, PTL DEF Spec

LEMMA WholeAgrees == WholeInvariant => GameInvariant /\ RemotePlayersAgree
<1>1. WholeInvariant => GameInvariant
  BY DEF WholeInvariant, SessionInvariant, GameInvariant
<1>2. WholeInvariant => RemotePlayersAgree
  BY DEF WholeInvariant, AgreementInvariant, CopiesFollow, Follows, RemotePlayersAgree, WillKnow, Agrees
<1> QED BY <1>1, <1>2

(* What the runs check of it: every state of the program, of any size, keeps its
   players, its messages and its clients' copies of the game in step. *)
THEOREM GameInvariantHolds == Spec => []GameInvariant
<1> QED BY WholeAgrees, WholeCorrect, PTL

(* A process that is bound misses no other player and no hit on one: the
   snapshot of onClientConnected, the broadcasts after it and what the handshake
   drops come, once read, to the players and healths of the server. *)
THEOREM RemotePlayersFollow == Spec => []RemotePlayersAgree
<1> QED BY WholeAgrees, WholeCorrect, PTL

-----------------------------------------------------------------------------
(* A game that goes on *)

(* The state in which one run begins, part by part. *)
LateJoinAssumption == p1 \in Process /\ MaxPolls # 0

LEMMA LateJoinState ==
    ASSUME LateJoinAssumption, MCLateJoinInit
    PROVE  /\ DOMAIN m_clients = {FirstClientID} /\ m_clients \in [DOMAIN m_clients -> NetworkClientRecord]
           /\ m_clients[FirstClientID].status = "Connected"
           /\ m_clients[FirstClientID].udpToken = TokenFor(FirstClientID)
           /\ m_clients[FirstClientID].tcpConnection = p1
           /\ m_clients[FirstClientID].udpEndpoint = EndpointOf[p1]
           /\ m_clients[FirstClientID].tcpOutbox = <<>>
           /\ m_clients[FirstClientID].udpOutbox = <<>>
           /\ m_clients[FirstClientID].inbox = <<>>
           /\ DOMAIN m_udpEndpointToClientID = {EndpointOf[p1]}
           /\ m_udpEndpointToClientID[EndpointOf[p1]] = FirstClientID
           /\ DOMAIN m_clientIDToPlayerID = {FirstClientID} /\ m_clientIDToPlayerID[FirstClientID] = 0
           /\ DOMAIN players = {0} /\ players[0] \in 1 .. MaxHealth /\ players = [q \in {0} |-> players[0]]
           /\ \A p \in Process : ToCome(p) = <<>>
           /\ FirstClientID \in Nat \ {0} /\ EndpointOf[p1] \in Endpoint /\ EndpointOf[p1] # NoEndpoint
<1>1. /\ DOMAIN m_clients = {FirstClientID}
      /\ m_clients[FirstClientID] =
           [status |-> "Connected", udpToken |-> TokenFor(FirstClientID), tcpConnection |-> p1,
            udpEndpoint |-> EndpointOf[p1], tcpOutbox |-> <<>>, udpOutbox |-> <<>>, inbox |-> <<>>]
      /\ m_clients = [c \in {FirstClientID} |-> m_clients[c]]
  BY DEF MCLateJoinInit
<1>2. FirstClientID \in Nat \ {0} /\ TokenFor(FirstClientID) \in Nat
  BY DEF FirstClientID, TokenFor
<1>3. EndpointOf[p1] \in Endpoint /\ EndpointOf[p1] # NoEndpoint
  BY EndpointAssumption, NoEndpointAssumption DEF LateJoinAssumption
<1>4. m_clients[FirstClientID] \in NetworkClientRecord
  BY <1>1, <1>2, <1>3 DEF NetworkClientRecord, Status, LateJoinAssumption
<1>5. m_clients \in [DOMAIN m_clients -> NetworkClientRecord]
  BY <1>1, <1>4
<1>6. DOMAIN m_udpEndpointToClientID = {EndpointOf[p1]} /\ m_udpEndpointToClientID[EndpointOf[p1]] = FirstClientID
  BY DEF MCLateJoinInit
<1>7. DOMAIN m_clientIDToPlayerID = {FirstClientID} /\ m_clientIDToPlayerID[FirstClientID] = 0
  BY DEF MCLateJoinInit
<1>8. DOMAIN players = {0} /\ players[0] = HealthAfterHit(MaxHealth) /\ players = [q \in {0} |-> players[0]]
  BY DEF MCLateJoinInit
<1>9. HealthAfterHit(MaxHealth) \in 1 .. MaxHealth
  BY HealthAssumption DEF HealthAfterHit
<1>10. ASSUME NEW p \in Process PROVE ToCome(p) = <<>>
  <2>1. toClient[p] = <<>>
    BY DEF MCLateJoinInit
  <2>2. connID[p] \in DOMAIN m_clients => m_clients[connID[p]].tcpOutbox = <<>>
    BY <1>1
  <2>3. <<>> \o <<>> = <<>>
    BY ConcatEmptySeq
  <2> QED BY <2>1, <2>2, <2>3 DEF ToCome
<1> QED BY <1>1, <1>2, <1>3, <1>5, <1>6, <1>7, <1>8, <1>9, <1>10

LEMMA LateJoinBindings ==
    ASSUME LateJoinAssumption, MCLateJoinInit
    PROVE  BindingInvariant
<1> USE LateJoinState DEF LateJoinAssumption
<1>0. /\ connID = [p \in Process |-> IF p = p1 THEN FirstClientID ELSE 0]
      /\ phase = [p \in Process |-> IF p = p1 THEN "connected" ELSE "off"]
      /\ m_newConnections = <<>> /\ udpToServer = {} /\ toRemove = {} /\ m_nextClientID = FirstClientID + 2
      /\ toClient = [p \in Process |-> <<>>]
  BY DEF MCLateJoinInit
<1>1. TransportTypeOK
  BY DEF MCLateJoinInit, TransportTypeOK
<1>2. ServerTypeOK
  <2>1. m_udpEndpointToClientID \in [DOMAIN m_udpEndpointToClientID -> Nat]
    BY DEF MCLateJoinInit
  <2>2. callback \in Callback
    BY DEF MCLateJoinInit, Callback, NoCallback
  <2> QED BY <1>0, <2>1, <2>2 DEF ServerTypeOK
<1>3. ClientTypeOK
  <2>1. TokenFor(FirstClientID) \in Nat /\ 0 \in 0 .. MaxPolls /\ 1 \in 0 .. MaxPolls
    BY PollAssumption DEF TokenFor
  <2> QED BY <2>1 DEF MCLateJoinInit, ClientTypeOK, Phase
<1>4. Identities
  BY <1>0 DEF Identities
<1>5. ClientsIdentified
  BY <1>0 DEF ClientsIdentified
<1>6. Tokens
  BY <1>0 DEF Tokens
<1>7. BoundToProcess /\ EndpointMapConsistent
  BY <1>0 DEF BoundToProcess, EndpointMapConsistent
<1> QED BY <1>1, <1>2, <1>3, <1>4, <1>5, <1>6, <1>7 DEF BindingInvariant, NetworkTypeOK

LEMMA LateJoinPlayers ==
    ASSUME LateJoinAssumption, MCLateJoinInit
    PROVE  PlayersInvariant
<1> USE LateJoinState DEF LateJoinAssumption
<1>0. /\ connID = [p \in Process |-> IF p = p1 THEN FirstClientID ELSE 0]
      /\ toServer = [p \in Process |-> <<>>] /\ udpToServer = {} /\ udpToClient = {} /\ callback = NoCallback
      /\ m_projectiles = {} /\ m_nextPlayerID = 2 /\ tick = "accept"
      /\ m_localPlayerID = [p \in Process |-> IF p = p1 THEN 0 ELSE NoPlayer]
      /\ inGame = [p \in Process |-> p = p1]
      /\ view = [p \in Process |-> IF p = p1 THEN players ELSE <<>>]
      /\ reading = [p \in Process |-> "TCP"] /\ m_nextProjectileID = [p \in Process |-> 0]
      /\ DOMAIN <<>> = {} /\ ToSet(<<>>) = {} /\ \A S : <<>> \in [DOMAIN <<>> -> S]
  BY DEF MCLateJoinInit, ToSet
<1>1. GameServerTypeOK
  <2>1. players \in [DOMAIN players -> 1 .. MaxHealth]
    OBVIOUS
  <2>2. m_clientIDToPlayerID \in [DOMAIN m_clientIDToPlayerID -> Nat]
    BY DEF MCLateJoinInit
  <2> QED BY <1>0, <2>1, <2>2 DEF GameServerTypeOK, Tick
<1>2. GameClientTypeOK
  <2>1. players \in [DOMAIN players -> 1 .. MaxHealth] /\ DOMAIN players \subseteq Nat
    OBVIOUS
  <2> QED BY <1>0, <2>1 DEF GameClientTypeOK
<1>3. TypeOK
  BY <1>1, <1>2, LateJoinBindings DEF TypeOK, BindingInvariant
<1>4. CallbackState
  BY <1>0 DEF CallbackState, NoCallback, ConnectedClients
<1>5. PlayerTable
  BY <1>0, FS_EmptySet DEF PlayerTable
<1>6. ToProcess
  BY <1>0 DEF ToProcess
<1>7. Datagrams /\ FromProcess
  BY <1>0 DEF Datagrams, FromProcess
<1>8. LocalPlayer
  BY <1>0, ShotAssumption DEF LocalPlayer, OwnPlayer, ClientOf, Bound, PlayerOf
<1> QED BY <1>3, <1>4, <1>5, <1>6, <1>7, <1>8 DEF PlayersInvariant

LEMMA LateJoinAgreement ==
    ASSUME LateJoinAssumption, MCLateJoinInit
    PROVE  AgreementInvariant
<1> USE LateJoinState DEF LateJoinAssumption
<1>0. /\ connID = [p \in Process |-> IF p = p1 THEN FirstClientID ELSE 0]
      /\ udpToClient = {} /\ callback.kind = "none" /\ m_nextPlayerID = 2
      /\ m_localPlayerID = [p \in Process |-> IF p = p1 THEN 0 ELSE NoPlayer]
      /\ view = [p \in Process |-> IF p = p1 THEN players ELSE <<>>]
      /\ DOMAIN <<>> = {} /\ ToSet(<<>>) = {}
  BY DEF MCLateJoinInit, NoCallback, ToSet
<1>1. GivenOut
  BY <1>0, ShotAssumption DEF GivenOut
<1>2. LeftIsGone /\ JustBound
  BY <1>0 DEF LeftIsGone, JustBound
<1>3. ASSUME NEW p \in Process, Follows(p) PROVE DOMAIN players \ {PlayerOf(p)} = {}
  BY <1>0, <1>3 DEF Follows, Bound, PlayerOf, ClientOf
<1>4. CopiesFollow
  BY <1>3 DEF CopiesFollow
<1> QED BY <1>1, <1>2, <1>4 DEF AgreementInvariant

LEMMA LateJoinHandshakes ==
    ASSUME LateJoinAssumption, MCLateJoinInit
    PROVE  InboxInvariant /\ HandshakeInvariant
<1> USE LateJoinState DEF LateJoinAssumption
<1>0. /\ connID = [p \in Process |-> IF p = p1 THEN FirstClientID ELSE 0]
      /\ phase = [p \in Process |-> IF p = p1 THEN "connected" ELSE "off"]
      /\ toServer = [p \in Process |-> <<>>] /\ toClient = [p \in Process |-> <<>>] /\ udpToServer = {}
  BY DEF MCLateJoinInit
<1>1. ~HasAck(<<>>)
  BY DEF HasAck
<1>2. IsBound(p1)
  BY <1>0 DEF IsBound
<1>3. InboxInvariant
  BY <1>0, <1>1, <1>2 DEF InboxInvariant, AckFollowsBinding, InboxOnlyFromConnected
<1>4. NoneDisconnected
  BY DEF NoneDisconnected
<1>5. ASSUME NEW p \in Process PROVE Places(p, "UDPBindRequest") = {} /\ Places(p, "UDPBindAck") = {}
  BY DEF Places
<1>6. ASSUME NEW p \in Process PROVE RequestOnItsWay(p) /\ AckOnItsWay(p) /\ BoundAfterRequest(p)
  BY <1>0, <1>5 DEF RequestOnItsWay, AckOnItsWay, BoundAfterRequest, AtMostOne
<1> QED BY <1>3, <1>4, <1>6 DEF HandshakeInvariant

(* The state from which a process joins late is one the invariants allow, and so
   is all that follows from it: snapshot, hits and broadcasts come to the
   server's players and healths there too. *)
THEOREM LateJoinersFollow == ASSUME LateJoinAssumption PROVE MCLateJoinSpec => [](GameInvariant /\ RemotePlayersAgree)
<1>1. MCLateJoinInit => WholeInvariant
  BY LateJoinBindings, LateJoinPlayers, LateJoinAgreement, LateJoinHandshakes
     DEF WholeInvariant, SessionInvariant, HandshakeInvariant
<1>2. WholeInvariant => GameInvariant /\ RemotePlayersAgree
  BY WholeAgrees
<1> QED BY <1>1, <1>2, WholeNext, PTL DEF MCLateJoinSpec
=============================================================================
