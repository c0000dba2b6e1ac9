--------------------------- MODULE NetworkServer ---------------------------
(* The NetworkServer class of src/game/network_server.h.  One thread, the game
   thread, calls its methods; the io_context thread only moves messages and
   closes connections underneath (module Transports), so each loop iteration
   of a method is one step. *)
EXTENDS Transports, FiniteSets, TLC, SequencesExt

CONSTANT NoEndpoint     \* the empty std::optional<endpoint>

ASSUME NoEndpointAssumption == NoEndpoint \notin Endpoint

VARIABLES m_clients,                \* ClientID -> NetworkClient, for the clients present
          m_nextClientID,
          m_udpEndpointToClientID,  \* endpoint -> ClientID, for the endpoints bound
          callback,                 \* the callback into the layer above that is running
          toRemove                  \* what cleanupDisconnectedClients has still to remove

serverVars == <<m_clients, m_nextClientID, m_udpEndpointToClientID, callback, toRemove>>

Status == {"Disconnected", "BindingUDP", "Connected"}

NetworkClientRecord ==
    [status: Status, udpToken: Nat, tcpConnection: Process,
     udpEndpoint: Endpoint \cup {NoEndpoint},
     tcpOutbox: Seq(Message), udpOutbox: Seq(Message), inbox: Seq(Message)]

Callback == [kind: {"none", "connect", "disconnect"}, client: Nat]
NoCallback == [kind |-> "none", client |-> 0]

(* ClientIDs start above every other number the protocol uses. *)
FirstClientID == 10000

TokenFor(c) == c + 100

ServerTypeOK ==
    /\ DOMAIN m_clients \subseteq Nat \ {0}
    /\ m_clients \in [DOMAIN m_clients -> NetworkClientRecord]
    /\ m_nextClientID \in Nat
    /\ DOMAIN m_udpEndpointToClientID \subseteq Endpoint
    /\ m_udpEndpointToClientID \in [DOMAIN m_udpEndpointToClientID -> Nat]
    /\ callback \in Callback
    /\ toRemove \subseteq Nat

ServerInit ==
    /\ m_clients = <<>>
    /\ m_nextClientID = FirstClientID
    /\ m_udpEndpointToClientID = <<>>
    /\ callback = NoCallback
    /\ toRemove = {}

(* The game thread is inside neither a callback nor the removal loop. *)
ServerIdle == callback = NoCallback /\ toRemove = {}

-----------------------------------------------------------------------------
(* Outboxes and inboxes, as functions of the clients *)

\* Mutant: queued at the wrong end.
QueueTCPAtFront(clients, C, msgs) ==
    [c \in DOMAIN clients |->
        IF c \in C THEN [clients[c] EXCEPT !.tcpOutbox = msgs \o @] ELSE clients[c]]

QueueTCP(clients, C, msgs) ==
    [c \in DOMAIN clients |->
        IF c \in C THEN [clients[c] EXCEPT !.tcpOutbox = @ \o msgs] ELSE clients[c]]

QueueUDP(clients, C, msgs) ==
    [c \in DOMAIN clients |->
        IF c \in C THEN [clients[c] EXCEPT !.udpOutbox = @ \o msgs] ELSE clients[c]]

QueueMessages(clients, C, msgs, transport) ==
    IF transport = "TCP" THEN QueueTCP(clients, C, msgs) ELSE QueueUDP(clients, C, msgs)

(* dispatchIncomingMessage: a ping is answered on the transport it came by, any
   other message waits in the client's inbox. *)
Dispatch(clients, target, msg, transport) ==
    IF msg.type = "Ping"
    THEN QueueMessages(clients, {target}, <<Pong(msg.seq)>>, transport)
    ELSE [c \in DOMAIN clients |->
            IF c = target THEN [clients[c] EXCEPT !.inbox = Append(@, msg)] ELSE clients[c]]

-----------------------------------------------------------------------------
\* Mutant: the request is made after m_nextClientID went up.
NewClientAskedWithNextToken(p) ==
    [status        |-> "BindingUDP",
     udpToken      |-> TokenFor(m_nextClientID),
     tcpConnection |-> p,
     udpEndpoint   |-> NoEndpoint,
     tcpOutbox     |-> <<UDPBindRequest(TokenFor(m_nextClientID + 1))>>,
     udpOutbox     |-> <<>>,
     inbox         |-> <<>>]

(* addNetworkClient and initiateUDPBind *)
NewClient(p) ==
    [status        |-> "BindingUDP",
     udpToken      |-> TokenFor(m_nextClientID),
     tcpConnection |-> p,
     udpEndpoint   |-> NoEndpoint,
     tcpOutbox     |-> <<UDPBindRequest(TokenFor(m_nextClientID))>>,
     udpOutbox     |-> <<>>,
     inbox         |-> <<>>]

(* One turn of acceptConnections. *)
AcceptConnection ==
    /\ ServerIdle
    /\ m_newConnections # <<>>
    /\ LET p == Head(m_newConnections) IN
        /\ connID' = [connID EXCEPT ![p] = m_nextClientID]
        /\ m_clients' = [c \in DOMAIN m_clients \cup {m_nextClientID} |->
                            IF c = m_nextClientID THEN NewClient(p) ELSE m_clients[c]]
    /\ m_newConnections' = Tail(m_newConnections)
    /\ m_nextClientID' = m_nextClientID + 1
    /\ UNCHANGED <<serverOpen, clientOpen, toServer, toClient, udpVars,
                   m_udpEndpointToClientID, callback, toRemove>>

(* One turn of the TCP loop of pumpReceive; a closed connection is still read. *)
ReceiveTCP(c) ==
    /\ ServerIdle
    /\ c \in DOMAIN m_clients
    /\ LET p == m_clients[c].tcpConnection IN
        /\ toServer[p] # <<>>
        /\ toServer' = [toServer EXCEPT ![p] = Tail(@)]
        /\ m_clients' = Dispatch(m_clients, c, Head(toServer[p]), "TCP")
    /\ UNCHANGED <<m_newConnections, connID, serverOpen, clientOpen, toClient, udpVars,
                   m_nextClientID, m_udpEndpointToClientID, callback, toRemove>>

(* One turn of the UDP loop of pumpReceive, by sender and message. *)
TakeDatagram(d) ==
    /\ ServerIdle
    /\ d \in udpToServer
    /\ udpToServer' = udpToServer \ {d}

(* The sender is bound to a client: m_clients[it->second] is that client as
   long as the endpoint map names clients that are present. *)
DispatchDatagram(d) ==
    /\ TakeDatagram(d)
    /\ d.from \in DOMAIN m_udpEndpointToClientID
    /\ m_clients' = Dispatch(m_clients, m_udpEndpointToClientID[d.from], d.msg, "UDP")
    /\ UNCHANGED <<tcpVars, udpToClient, udpOpen,
                   m_nextClientID, m_udpEndpointToClientID, callback, toRemove>>

ClientsWithToken(token) == {c \in DOMAIN m_clients : m_clients[c].udpToken = token}

\* Mutant: pumpReceive looks for a UDPBind before it looks the sender up.
HandleAnyUDPBind(d) ==
    /\ TakeDatagram(d)
    /\ d.msg.type = "UDPBind"
    /\ \E c \in ClientsWithToken(d.msg.token) :
        /\ m_clients' = [m_clients EXCEPT ![c].udpEndpoint = d.from,
                                          ![c].status = "Connected",
                                          ![c].tcpOutbox = Append(@, UDPBindAck)]
        /\ m_udpEndpointToClientID' =
             [e \in DOMAIN m_udpEndpointToClientID \cup {d.from} |->
                IF e = d.from THEN c ELSE m_udpEndpointToClientID[e]]
        /\ callback' = [kind |-> "connect", client |-> c]
    /\ UNCHANGED <<tcpVars, udpToClient, udpOpen, m_nextClientID, toRemove>>

(* handleUDPBind for a token in use: whatever the client's status was, it is
   now bound to the sender, and the connect callback runs. *)
HandleUDPBind(d) ==
    /\ TakeDatagram(d)
    /\ d.from \notin DOMAIN m_udpEndpointToClientID
    /\ d.msg.type = "UDPBind"
    /\ \E c \in ClientsWithToken(d.msg.token) :
        /\ m_clients' = [m_clients EXCEPT ![c].udpEndpoint = d.from,
                                          ![c].status = "Connected",
                                          ![c].tcpOutbox = Append(@, UDPBindAck)]
        /\ m_udpEndpointToClientID' =
             [e \in DOMAIN m_udpEndpointToClientID \cup {d.from} |->
                IF e = d.from THEN c ELSE m_udpEndpointToClientID[e]]
        /\ callback' = [kind |-> "connect", client |-> c]
    /\ UNCHANGED <<tcpVars, udpToClient, udpOpen, m_nextClientID, toRemove>>

(* An unknown sender with anything else, or with a token nobody has. *)
IgnoreDatagram(d) ==
    /\ TakeDatagram(d)
    /\ d.from \notin DOMAIN m_udpEndpointToClientID
    /\ d.msg.type = "UDPBind" => ClientsWithToken(d.msg.token) = {}
    /\ UNCHANGED <<tcpVars, udpToClient, udpOpen, serverVars>>

(* consumeIncomingMessages: the caller gets m_clients[c].inbox. *)
Consumed(clients, c) == [clients EXCEPT ![c].inbox = <<>>]

-----------------------------------------------------------------------------
\* Mutant: only a Connected client can be written to, as it is for UDP.
WrittenIfConnected(p) ==
    IF /\ connID[p] \in DOMAIN m_clients
       /\ m_clients[connID[p]].status = "Connected"
       /\ serverOpen[p] /\ clientOpen[p]
    THEN m_clients[connID[p]].tcpOutbox
    ELSE <<>>

(* What pumpSend writes to the connection of process p: the TCP outbox of the
   client that has it (TCPConnection::m_id says which), if it can send. *)
Written(p) ==
    IF /\ connID[p] \in DOMAIN m_clients
       /\ m_clients[connID[p]].status # "Disconnected"
       /\ serverOpen[p] /\ clientOpen[p]
    THEN m_clients[connID[p]].tcpOutbox
    ELSE <<>>

\* Mutant: as for TCP, any client that is not Disconnected can be sent to.
SentDatagramsToAll ==
    UNION {{[to |-> m_clients[c].udpEndpoint, msg |-> m] : m \in ToSet(m_clients[c].udpOutbox)} :
             c \in {b \in DOMAIN m_clients : udpOpen /\ m_clients[b].status # "Disconnected"}}

SentDatagrams ==
    UNION {{[to |-> m_clients[c].udpEndpoint, msg |-> m] : m \in ToSet(m_clients[c].udpOutbox)} :
             c \in {b \in DOMAIN m_clients : udpOpen /\ m_clients[b].status = "Connected"}}

(* pumpSend: every outbox is flushed and cleared, sent or not. *)
PumpSend ==
    /\ ServerIdle
    /\ toClient' = [p \in Process |-> toClient[p] \o Written(p)]
    /\ udpToClient' = udpToClient \cup SentDatagrams
    /\ m_clients' = [c \in DOMAIN m_clients |->
                        [m_clients[c] EXCEPT !.tcpOutbox = <<>>, !.udpOutbox = <<>>]]
    /\ UNCHANGED <<m_newConnections, connID, serverOpen, clientOpen, toServer,
                   udpToServer, udpOpen,
                   m_nextClientID, m_udpEndpointToClientID, callback, toRemove>>

-----------------------------------------------------------------------------
(* cleanupDisconnectedClients: the list is made first, from one look at each
   connection, and then worked off. *)
\* Mutant: only the status counts.
MarkedDisconnected ==
    IF ~udpOpen
    THEN DOMAIN m_clients
    ELSE {c \in DOMAIN m_clients : m_clients[c].status = "Disconnected"}

Disconnected ==
    IF ~udpOpen
    THEN DOMAIN m_clients
    ELSE {c \in DOMAIN m_clients : \/ ~serverOpen[m_clients[c].tcpConnection]
                                   \/ m_clients[c].status = "Disconnected"}

CollectDisconnected ==
    /\ ServerIdle
    /\ toRemove' = Disconnected
    /\ UNCHANGED <<transportVars, m_clients, m_nextClientID, m_udpEndpointToClientID, callback>>

\* Mutant: the endpoint stays in the map.
RemoveKeepingEndpoint(c) ==
    /\ callback = NoCallback
    /\ c \in toRemove
    /\ toRemove' = toRemove \ {c}
    /\ m_clients' = [b \in DOMAIN m_clients \ {c} |-> m_clients[b]]
    /\ toServer' = [toServer EXCEPT ![m_clients[c].tcpConnection] = <<>>]
    /\ callback' = [kind |-> "disconnect", client |-> c]
    /\ UNCHANGED <<m_newConnections, connID, serverOpen, clientOpen, toClient, udpVars,
                   m_nextClientID, m_udpEndpointToClientID>>

(* removeNetworkClient, then the disconnect callback for a client that is gone.
   Its connection goes with it, and what the connection had not delivered. *)
RemoveDisconnected(c) ==
    /\ callback = NoCallback
    /\ c \in toRemove
    /\ toRemove' = toRemove \ {c}
    /\ m_clients' = [b \in DOMAIN m_clients \ {c} |-> m_clients[b]]
    /\ m_udpEndpointToClientID' =
         [e \in DOMAIN m_udpEndpointToClientID \ {m_clients[c].udpEndpoint} |->
            m_udpEndpointToClientID[e]]
    /\ toServer' = [toServer EXCEPT ![m_clients[c].tcpConnection] = <<>>]
    /\ callback' = [kind |-> "disconnect", client |-> c]
    /\ UNCHANGED <<m_newConnections, connID, serverOpen, clientOpen, toClient, udpVars,
                   m_nextClientID>>
=============================================================================
