--------------------------- MODULE Network_proofs ---------------------------
(* Proofs about NetworkSpec, for any number of processes and endpoints and any
   bounds.  First types, then the inductive invariant BindingInvariant; then why
   the server need not check who it hears from: whatever reaches an inbox is from
   a client that is bound, although the connection was open before and closes at
   any point; then the order of the messages of the handshake and of pings. *)
EXTENDS Network, SequenceTheorems, TLAPS

(* The messages the network layer makes are messages. *)
LEMMA MessagesTyped ==
    /\ \A t \in Nat : UDPBindRequest(t) \in Message /\ UDPBind(t) \in Message
    /\ \A s \in Nat : Ping(s) \in Message /\ Pong(s) \in Message
    /\ UDPBindAck \in Message
    /\ \A m \in Message : m.type = "Ping" => m.seq \in Nat
    /\ \A m \in Message : m.type \in {"UDPBind", "UDPBindRequest"} => m.token \in Nat
    /\ \A m \in AppMessage : m \in Message /\ m.type \notin {"UDPBind", "UDPBindRequest"}
BY DEF Message, NetMessage, AppMessage, UDPBindRequest, UDPBind, UDPBindAck, Ping, Pong

(* Replacing a queue of a client keeps it typed. *)
LEMMA QueueReplaced ==
    ASSUME NEW r \in NetworkClientRecord, NEW msgs \in Seq(Message)
    PROVE  /\ [r EXCEPT !.tcpOutbox = msgs] \in NetworkClientRecord
           /\ [r EXCEPT !.udpOutbox = msgs] \in NetworkClientRecord
           /\ [r EXCEPT !.inbox = msgs] \in NetworkClientRecord
BY DEF NetworkClientRecord

(* A queue that was cleared holds none. *)
LEMMA NoMessages == <<>> \in Seq(Message)
OBVIOUS

(* The queues of a client hold messages. *)
LEMMA QueuesTyped ==
    ASSUME NEW r \in NetworkClientRecord
    PROVE  /\ r.tcpOutbox \in Seq(Message)
           /\ r.udpOutbox \in Seq(Message)
           /\ r.inbox \in Seq(Message)
BY DEF NetworkClientRecord

(* Queueing typed messages keeps the client table typed, and its clients. *)
LEMMA QueueMessagesTyped ==
    ASSUME NEW clients, clients \in [DOMAIN clients -> NetworkClientRecord],
           NEW msgs \in Seq(Message), NEW C, NEW transport
    PROVE  /\ DOMAIN QueueMessages(clients, C, msgs, transport) = DOMAIN clients
           /\ QueueMessages(clients, C, msgs, transport) \in [DOMAIN clients -> NetworkClientRecord]
<1>1. ASSUME NEW c \in DOMAIN clients
      PROVE  /\ [clients[c] EXCEPT !.tcpOutbox = @ \o msgs] \in NetworkClientRecord
             /\ [clients[c] EXCEPT !.udpOutbox = @ \o msgs] \in NetworkClientRecord
  <2>1. clients[c] \in NetworkClientRecord
    OBVIOUS
  <2>2. clients[c].tcpOutbox \in Seq(Message) /\ clients[c].udpOutbox \in Seq(Message)
    BY <2>1, QueuesTyped
  <2>3. /\ clients[c].tcpOutbox \o msgs \in Seq(Message)
        /\ clients[c].udpOutbox \o msgs \in Seq(Message)
    BY <2>2
  <2> QED BY <2>1, <2>3, QueueReplaced
<1>2. \A c \in DOMAIN clients : clients[c] \in NetworkClientRecord
  OBVIOUS
<1>3. CASE transport = "TCP"
  <2>1. QueueMessages(clients, C, msgs, transport) = QueueTCP(clients, C, msgs)
    BY <1>3 DEF QueueMessages
  <2> QED BY <1>1, <1>2, <2>1 DEF QueueTCP
<1>4. CASE transport # "TCP"
  <2>1. QueueMessages(clients, C, msgs, transport) = QueueUDP(clients, C, msgs)
    BY <1>4 DEF QueueMessages
  <2> QED BY <1>1, <1>2, <2>1 DEF QueueUDP
<1> QED BY <1>3, <1>4

(* dispatchIncomingMessage keeps the client table typed, and its clients. *)
LEMMA DispatchTyped ==
    ASSUME NEW clients, clients \in [DOMAIN clients -> NetworkClientRecord],
           NEW msg \in Message, NEW target, NEW transport
    PROVE  /\ DOMAIN Dispatch(clients, target, msg, transport) = DOMAIN clients
           /\ Dispatch(clients, target, msg, transport) \in [DOMAIN clients -> NetworkClientRecord]
<1>1. CASE msg.type = "Ping"
  <2>1. Pong(msg.seq) \in Message
    BY <1>1, MessagesTyped
  <2>2. <<Pong(msg.seq)>> \in Seq(Message)
    BY <2>1
  <2>3. Dispatch(clients, target, msg, transport) =
          QueueMessages(clients, {target}, <<Pong(msg.seq)>>, transport)
    BY <1>1 DEF Dispatch
  <2>4. \A C, msgs :
          msgs \in Seq(Message) =>
            /\ DOMAIN QueueMessages(clients, C, msgs, transport) = DOMAIN clients
            /\ QueueMessages(clients, C, msgs, transport)
                 \in [DOMAIN clients -> NetworkClientRecord]
    BY QueueMessagesTyped
  <2> QED BY <2>2, <2>3, <2>4, Zenon
<1>2. CASE msg.type # "Ping"
  <2>1. ASSUME NEW c \in DOMAIN clients
        PROVE  [clients[c] EXCEPT !.inbox = Append(@, msg)] \in NetworkClientRecord
    <3>1. clients[c] \in NetworkClientRecord
      OBVIOUS
    <3>2. clients[c].inbox \in Seq(Message)
      BY <3>1, QueuesTyped
    <3>3. Append(clients[c].inbox, msg) \in Seq(Message)
      BY <3>2
    <3> QED BY <3>1, <3>3, QueueReplaced
  <2> QED BY <1>2, <2>1 DEF Dispatch
<1> QED BY <1>1, <1>2

-----------------------------------------------------------------------------
(* Types *)

(* The initial state is typed. *)
LEMMA TypeInit == NetworkInit => NetworkTypeOK
BY EndpointAssumption, PollAssumption
   DEF NetworkInit, TransportInit, ServerInit, ClientInit, NetworkTypeOK, TransportTypeOK, ServerTypeOK,
       ClientTypeOK, FirstClientID, NoCallback, Callback, Phase

(* A client bound by status is bound to an endpoint: only such a client is sent
   datagrams, so that every datagram has an address. *)
LEMMA DatagramsTyped ==
    ASSUME NetworkTypeOK, EndpointMapConsistent
    PROVE  SentDatagrams \subseteq ToClientDatagram
<1>1. ASSUME NEW c \in DOMAIN m_clients, m_clients[c].status = "Connected",
             NEW m \in ToSet(m_clients[c].udpOutbox)
      PROVE  [to |-> m_clients[c].udpEndpoint, msg |-> m] \in ToClientDatagram
  <2>1. m_clients[c].udpEndpoint \in Endpoint
    BY <1>1 DEF EndpointMapConsistent, NetworkTypeOK, ServerTypeOK
  <2>2. m_clients[c].udpOutbox \in Seq(Message)
    BY QueuesTyped DEF NetworkTypeOK, ServerTypeOK
  <2>3. m \in Message
    BY <2>2 DEF ToSet
  <2> QED BY <2>1, <2>3 DEF ToClientDatagram
<1> QED BY <1>1 DEF SentDatagrams

(* The server's steps keep the types; pumpSend needs bound clients to have an
   endpoint, and a turn of acceptConnections a positive identifier. *)
LEMMA TypeServerStep ==
    ASSUME NetworkTypeOK, Identities, EndpointMapConsistent, NetworkServerStep,
           UNCHANGED clientVars
    PROVE  NetworkTypeOK'
<1>1. TransportTypeOK /\ ServerTypeOK
  BY DEF NetworkTypeOK
<1>2. ClientTypeOK'
  BY DEF NetworkTypeOK, ClientTypeOK, clientVars
<1>3. /\ m_clients \in [DOMAIN m_clients -> NetworkClientRecord]
      /\ DOMAIN m_clients \subseteq Nat \ {0}
  BY <1>1 DEF ServerTypeOK
<1>4. \A c \in DOMAIN m_clients : m_clients[c] \in NetworkClientRecord
  BY <1>3
<1>5. CASE AcceptConnection
  <2>1. NewClient(Head(m_newConnections)) \in NetworkClientRecord
    BY <1>1, <1>5, MessagesTyped
       DEF AcceptConnection, NewClient, NetworkClientRecord, TokenFor, Status,
           TransportTypeOK, ServerTypeOK
  <2>2. m_nextClientID \in Nat \ {0}
    BY <1>1 DEF ServerTypeOK, Identities, FirstClientID
  <2>3. /\ DOMAIN m_clients' = DOMAIN m_clients \cup {m_nextClientID}
        /\ m_clients' \in [DOMAIN m_clients \cup {m_nextClientID} -> NetworkClientRecord]
    BY <1>3, <1>5, <2>1 DEF AcceptConnection
  <2>4. /\ m_newConnections' \in Seq(Process)
        /\ connID' \in [Process -> Nat]
    BY <1>1, <1>5 DEF AcceptConnection, TransportTypeOK, ServerTypeOK
  <2>5. TransportTypeOK'
    BY <1>1, <1>5, <2>4 DEF AcceptConnection, TransportTypeOK, udpVars
  <2>6. ServerTypeOK'
    <3>1. /\ m_nextClientID' = m_nextClientID + 1
          /\ UNCHANGED <<m_udpEndpointToClientID, callback, toRemove>>
      BY <1>5 DEF AcceptConnection
    <3>2. DOMAIN m_clients' \subseteq Nat \ {0}
      BY <1>3, <2>2, <2>3
    <3>3. m_clients' \in [DOMAIN m_clients' -> NetworkClientRecord]
      BY <2>3
    <3> QED BY <1>1, <2>2, <3>1, <3>2, <3>3 DEF ServerTypeOK
  <2> QED BY <1>2, <2>5, <2>6 DEF NetworkTypeOK
<1>6. ASSUME NEW c \in DOMAIN m_clients, ReceiveTCP(c)
      PROVE  NetworkTypeOK'
  <2> DEFINE q == m_clients[c].tcpConnection
  <2>1. q \in Process
    BY <1>4 DEF NetworkClientRecord
  <2>2. Head(toServer[q]) \in Message /\ Tail(toServer[q]) \in Seq(Message)
    BY <1>1, <1>6, <2>1 DEF ReceiveTCP, TransportTypeOK
  <2>3. m_clients' = Dispatch(m_clients, c, Head(toServer[q]), "TCP")
    BY <1>6 DEF ReceiveTCP
  <2>4. /\ DOMAIN m_clients' = DOMAIN m_clients
        /\ m_clients' \in [DOMAIN m_clients -> NetworkClientRecord]
    <3> DEFINE msg == Head(toServer[q])
    <3> HIDE DEF msg
    <3>1. msg \in Message
      BY <2>2 DEF msg
    <3>2. /\ DOMAIN Dispatch(m_clients, c, msg, "TCP") = DOMAIN m_clients
          /\ Dispatch(m_clients, c, msg, "TCP") \in [DOMAIN m_clients -> NetworkClientRecord]
      BY <1>3, <3>1, DispatchTyped
    <3> QED BY <2>3, <3>2 DEF msg
  <2>5. TransportTypeOK'
    BY <1>1, <1>6, <2>1, <2>2 DEF ReceiveTCP, TransportTypeOK, udpVars
  <2>6. ServerTypeOK'
    BY <1>1, <1>6, <2>4 DEF ReceiveTCP, ServerTypeOK
  <2> QED BY <1>2, <2>5, <2>6 DEF NetworkTypeOK
<1>7. ASSUME NEW d \in udpToServer, DispatchDatagram(d)
      PROVE  NetworkTypeOK'
  <2>1. d.msg \in Message
    BY <1>1 DEF TransportTypeOK, ToServerDatagram
  <2>2. m_clients' = Dispatch(m_clients, m_udpEndpointToClientID[d.from], d.msg, "UDP")
    BY <1>7 DEF DispatchDatagram
  <2>3. /\ DOMAIN m_clients' = DOMAIN m_clients
        /\ m_clients' \in [DOMAIN m_clients -> NetworkClientRecord]
    <3> DEFINE target == m_udpEndpointToClientID[d.from]
               msg == d.msg
    <3> HIDE DEF target, msg
    <3>1. msg \in Message
      BY <2>1 DEF msg
    <3>2. /\ DOMAIN Dispatch(m_clients, target, msg, "UDP") = DOMAIN m_clients
          /\ Dispatch(m_clients, target, msg, "UDP")
               \in [DOMAIN m_clients -> NetworkClientRecord]
      BY <1>3, <3>1, DispatchTyped
    <3> QED BY <2>2, <3>2 DEF target, msg
  <2>4. TransportTypeOK'
    BY <1>1, <1>7 DEF DispatchDatagram, TakeDatagram, TransportTypeOK, tcpVars
  <2>5. ServerTypeOK'
    BY <1>1, <1>7, <2>3 DEF DispatchDatagram, ServerTypeOK
  <2> QED BY <1>2, <2>4, <2>5 DEF NetworkTypeOK
<1>8. ASSUME NEW d \in udpToServer, HandleUDPBind(d)
      PROVE  NetworkTypeOK'
  <2>1. d.from \in Endpoint
    BY <1>1 DEF TransportTypeOK, ToServerDatagram
  <2>2. PICK c \in DOMAIN m_clients :
          /\ m_clients' = [m_clients EXCEPT ![c].udpEndpoint = d.from,
                                            ![c].status = "Connected",
                                            ![c].tcpOutbox = Append(@, UDPBindAck)]
          /\ m_udpEndpointToClientID' =
               [e \in DOMAIN m_udpEndpointToClientID \cup {d.from} |->
                  IF e = d.from THEN c ELSE m_udpEndpointToClientID[e]]
          /\ callback' = [kind |-> "connect", client |-> c]
    BY <1>8 DEF HandleUDPBind, ClientsWithToken
  <2> DEFINE queue == Append(m_clients[c].tcpOutbox, UDPBindAck)
             bound == [m_clients[c] EXCEPT !.udpEndpoint = d.from,
                                           !.status = "Connected",
                                           !.tcpOutbox = queue]
  <2>3. m_clients[c].tcpOutbox \in Seq(Message) /\ UDPBindAck \in Message
    BY <1>4, QueuesTyped, MessagesTyped
  <2>4. queue \in Seq(Message)
    BY <2>3
  <2>5. m_clients' = [m_clients EXCEPT ![c] = bound]
    BY <1>3, <2>2
  <2> HIDE DEF queue
  <2>6. bound \in NetworkClientRecord
    BY <1>4, <2>1, <2>4 DEF NetworkClientRecord, Status
  <2> HIDE DEF bound
  <2>7. /\ DOMAIN m_clients' = DOMAIN m_clients
        /\ m_clients' \in [DOMAIN m_clients -> NetworkClientRecord]
    BY <1>3, <2>5, <2>6
  <2>8. TransportTypeOK'
    BY <1>1, <1>8 DEF HandleUDPBind, TakeDatagram, TransportTypeOK, tcpVars
  <2>9. c \in Nat
    BY <1>3
  <2>10. ServerTypeOK'
    BY <1>1, <1>8, <2>1, <2>2, <2>7, <2>9 DEF HandleUDPBind, ServerTypeOK, Callback
  <2> QED BY <1>2, <2>8, <2>10 DEF NetworkTypeOK
<1>9. ASSUME NEW d \in udpToServer, IgnoreDatagram(d)
      PROVE  NetworkTypeOK'
  BY <1>1, <1>2, <1>9
     DEF IgnoreDatagram, TakeDatagram, tcpVars, serverVars, NetworkTypeOK, TransportTypeOK, ServerTypeOK
<1>10. CASE PumpSend
  <2>1. ASSUME NEW p \in Process
        PROVE  toClient[p] \o Written(p) \in Seq(Message)
    <3>1. Written(p) \in Seq(Message)
      BY <1>4, QueuesTyped DEF Written
    <3> QED BY <1>1, <3>1 DEF TransportTypeOK
  <2>2. udpToClient' \subseteq ToClientDatagram
    BY <1>1, <1>10, DatagramsTyped DEF PumpSend, TransportTypeOK
  <2>3. \A c \in DOMAIN m_clients :
          [m_clients[c] EXCEPT !.tcpOutbox = <<>>, !.udpOutbox = <<>>] \in NetworkClientRecord
    BY <1>4, NoMessages DEF NetworkClientRecord
  <2>4. /\ DOMAIN m_clients' = DOMAIN m_clients
        /\ m_clients' \in [DOMAIN m_clients -> NetworkClientRecord]
    BY <1>10, <2>3 DEF PumpSend
  <2>5. TransportTypeOK'
    BY <1>1, <1>10, <2>1, <2>2 DEF PumpSend, TransportTypeOK
  <2>6. ServerTypeOK'
    BY <1>1, <1>10, <2>4 DEF PumpSend, ServerTypeOK
  <2> QED BY <1>2, <2>5, <2>6 DEF NetworkTypeOK
<1>11. CASE CollectDisconnected
  <2>1. toRemove' \subseteq Nat
    BY <1>3, <1>11 DEF CollectDisconnected, Disconnected
  <2> QED
    BY <1>1, <1>2, <1>11, <2>1
       DEF CollectDisconnected, transportVars, tcpVars, udpVars, NetworkTypeOK, TransportTypeOK,
           ServerTypeOK
<1>12. ASSUME NEW c \in toRemove, RemoveDisconnected(c)
       PROVE  NetworkTypeOK'
  <2>1. /\ DOMAIN m_clients' = DOMAIN m_clients \ {c}
        /\ m_clients' \in [DOMAIN m_clients \ {c} -> NetworkClientRecord]
    BY <1>3, <1>12 DEF RemoveDisconnected
  <2>2. /\ DOMAIN m_udpEndpointToClientID' \subseteq DOMAIN m_udpEndpointToClientID
        /\ m_udpEndpointToClientID' \in [DOMAIN m_udpEndpointToClientID' -> Nat]
    BY <1>1, <1>12 DEF RemoveDisconnected, ServerTypeOK
  <2>3. toServer' \in [Process -> Seq(Message)]
    <3>1. toServer \in [Process -> Seq(Message)]
      BY <1>1 DEF TransportTypeOK
    <3>2. toServer' = [toServer EXCEPT ![m_clients[c].tcpConnection] = <<>>]
      BY <1>12 DEF RemoveDisconnected
    <3> QED BY <3>1, <3>2, NoMessages
  <2>4. callback' \in Callback /\ toRemove' \subseteq Nat
    BY <1>1, <1>12 DEF RemoveDisconnected, ServerTypeOK, Callback
  <2>5. TransportTypeOK'
    BY <1>1, <1>12, <2>3 DEF RemoveDisconnected, TransportTypeOK, udpVars
  <2>6. ServerTypeOK'
    BY <1>1, <1>3, <1>12, <2>1, <2>2, <2>4 DEF RemoveDisconnected, ServerTypeOK
  <2> QED BY <1>2, <2>5, <2>6 DEF NetworkTypeOK
<1> QED
  BY <1>5, <1>6, <1>7, <1>8, <1>9, <1>10, <1>11, <1>12 DEF NetworkServerStep
(* What the server's application queues and consumes keeps the types. *)
LEMMA TypeServerApplication ==
    ASSUME NetworkTypeOK, ServerApplication
    PROVE  NetworkTypeOK'
<1>1. TransportTypeOK' /\ ClientTypeOK'
  BY DEF ServerApplication, NetworkTypeOK, TransportTypeOK, ClientTypeOK,
         transportVars, tcpVars, udpVars, clientVars
<1>2. ServerTypeOK'
  BY DEF ServerApplication, NetworkTypeOK, ServerTypeOK, NoCallback, Callback
<1> QED BY <1>1, <1>2 DEF NetworkTypeOK

(* The steps of NetworkClient keep the types: a token is read from a message. *)
LEMMA TypeClientStep ==
    ASSUME NetworkTypeOK, NEW p \in Process, NetworkClientStep(p), UNCHANGED serverVars
    PROVE  NetworkTypeOK'
<1>1. TransportTypeOK /\ ClientTypeOK
  BY DEF NetworkTypeOK
<1>2. ServerTypeOK'
  BY DEF NetworkTypeOK, ServerTypeOK, serverVars
<1>3. CASE Start(p)
  BY <1>1, <1>2, <1>3
     DEF Start, NetworkTypeOK, TransportTypeOK, ClientTypeOK, Phase, udpVars
<1>4. ASSUME toClient[p] # <<>>
      PROVE  Head(toClient[p]) \in Message /\ Tail(toClient[p]) \in Seq(Message)
  BY <1>1, <1>4 DEF TransportTypeOK
<1>5. ASSUME TakeTCP(p) PROVE TransportTypeOK'
  BY <1>1, <1>4, <1>5 DEF TakeTCP, TransportTypeOK, udpVars
<1>6. CASE TakeBindRequest(p)
  <2>1. Head(toClient[p]).type = "UDPBindRequest" => Head(toClient[p]).token \in Nat
    BY <1>4, <1>6, MessagesTyped DEF TakeBindRequest, TakeTCP
  <2>2. ClientTypeOK'
    BY <1>1, <1>6, <2>1, PollAssumption DEF TakeBindRequest, ClientTypeOK, Phase
  <2> QED BY <1>2, <1>5, <1>6, <2>2 DEF TakeBindRequest, NetworkTypeOK
<1>7. CASE PollBindRequest(p)
  BY <1>1, <1>2, <1>7, PollAssumption
     DEF PollBindRequest, NetworkTypeOK, TransportTypeOK, ClientTypeOK, transportVars, tcpVars, udpVars
<1>8. CASE TakeBindAck(p)
  <2>1. ClientTypeOK'
    BY <1>1, <1>8 DEF TakeBindAck, ClientTypeOK, Phase
  <2> QED BY <1>2, <1>5, <1>8, <2>1 DEF TakeBindAck, NetworkTypeOK
<1>9. CASE PollBindAck(p)
  <2>1. [from |-> EndpointOf[p], msg |-> UDPBind(bindToken[p])] \in ToServerDatagram
    BY <1>1, EndpointAssumption, MessagesTyped DEF ClientTypeOK, ToServerDatagram
  <2>2. TransportTypeOK'
    BY <1>1, <1>9, <2>1 DEF PollBindAck, TransportTypeOK, tcpVars
  <2>3. ClientTypeOK'
    BY <1>1, <1>9, PollAssumption DEF PollBindAck, ClientTypeOK
  <2> QED BY <1>2, <2>2, <2>3 DEF NetworkTypeOK
<1>10. CASE Exit(p)
  BY <1>1, <1>2, <1>10, NoMessages
     DEF Exit, NetworkTypeOK, TransportTypeOK, ClientTypeOK, Phase
<1>11. CASE ReceiveFromServer(p)
  BY <1>1, <1>2, <1>5, <1>11 DEF ReceiveFromServer, NetworkTypeOK, ClientTypeOK, clientVars
<1>12. ASSUME NEW d \in udpToClient, ReceiveDatagram(p, d)
       PROVE  NetworkTypeOK'
  BY <1>1, <1>2, <1>12
     DEF ReceiveDatagram, NetworkTypeOK, TransportTypeOK, ClientTypeOK, clientVars, tcpVars
<1> QED
  BY <1>3, <1>6, <1>7, <1>8, <1>9, <1>10, <1>11, <1>12 DEF NetworkClientStep

(* What a client's application sends keeps the types, and so does its ping. *)
LEMMA TypeClientApplication ==
    ASSUME NetworkTypeOK, NEW p \in Process, NEW withPing \in BOOLEAN, ClientApplication(p, withPing)
    PROVE  NetworkTypeOK'
<1>1. ServerTypeOK' /\ ClientTypeOK'
  BY DEF ClientApplication, NetworkTypeOK, ServerTypeOK, ClientTypeOK, serverVars
<1>2. AppMessage \subseteq Message /\ Ping(m_nextPingSeq[p]) \in Message
  BY MessagesTyped DEF NetworkTypeOK, ClientTypeOK
<1>3. udpToServer' \ udpToServer \subseteq
        [from: {EndpointOf[p]}, msg: AppMessage \cup {Ping(m_nextPingSeq[p])}]
  BY DEF ClientApplication
<1>4. udpToServer' \ udpToServer \subseteq ToServerDatagram
  BY <1>2, <1>3, EndpointAssumption DEF ToServerDatagram
<1>5. TransportTypeOK'
  BY <1>4 DEF ClientApplication, NetworkTypeOK, TransportTypeOK
<1> QED BY <1>1, <1>5 DEF NetworkTypeOK

(* Disconnects and the closed socket keep the types. *)
LEMMA TypeTransportStep ==
    ASSUME NetworkTypeOK, TransportStep, UNCHANGED <<serverVars, clientVars>>
    PROVE  NetworkTypeOK'
<1>1. ServerTypeOK' /\ ClientTypeOK'
  BY DEF NetworkTypeOK, ServerTypeOK, ClientTypeOK, serverVars, clientVars
<1>2. TransportTypeOK'
  BY DEF NetworkTypeOK, TransportTypeOK, TransportStep, ServerDisconnect, ClientDisconnect, UDPClose,
         tcpVars, udpVars
<1> QED BY <1>1, <1>2 DEF NetworkTypeOK

(* Types are kept, given what the identifiers and the endpoint map promise:
   identifiers are positive, and a connected client has an endpoint. *)
LEMMA TypeNext ==
    ASSUME NetworkTypeOK, Identities, EndpointMapConsistent, [NetworkNext]_networkVars
    PROVE  NetworkTypeOK'
<1>1. CASE NetworkServerStep /\ UNCHANGED clientVars
  BY <1>1, TypeServerStep
<1>2. CASE ServerApplication
  BY <1>2, TypeServerApplication
<1>3. ASSUME NEW p \in Process, NetworkClientStep(p), UNCHANGED serverVars
      PROVE  NetworkTypeOK'
  BY <1>3, TypeClientStep
<1>4. ASSUME NEW p \in Process, NEW withPing \in BOOLEAN, ClientApplication(p, withPing)
      PROVE  NetworkTypeOK'
  BY <1>4, TypeClientApplication
<1>5. CASE TransportStep /\ UNCHANGED <<serverVars, clientVars>>
  BY <1>5, TypeTransportStep
<1>6. CASE UNCHANGED networkVars
  BY <1>6 DEF networkVars, transportVars, tcpVars, udpVars, serverVars, clientVars,
              NetworkTypeOK, TransportTypeOK, ServerTypeOK, ClientTypeOK
<1> QED BY <1>1, <1>2, <1>3, <1>4, <1>5, <1>6 DEF NetworkNext
-----------------------------------------------------------------------------
(* pumpSend of a client *)

(* Messages for a transport, and the ping after them if it goes by that one. *)
WithPing(msgs, p, withPing, transport) ==
    IF withPing /\ PingTransport = transport THEN Append(msgs, Ping(m_nextPingSeq[p])) ELSE msgs

(* What it adds to the two queues to the server: what it was given, and perhaps
   a ping at the end of one of them. *)
LEMMA PumpSendAdds ==
    ASSUME NetworkTypeOK, NEW p \in Process, NEW tcpMsgs \in Seq(AppMessage), NEW udpMsgs \in Seq(AppMessage),
           NEW withPing \in BOOLEAN, ClientPumpSend(p, tcpMsgs, udpMsgs, withPing)
    PROVE  LET overTCP == WithPing(tcpMsgs, p, withPing, "TCP")
               overUDP == WithPing(udpMsgs, p, withPing, "UDP")
           IN /\ overTCP \in Seq(Message) /\ overUDP \in Seq(Message)
              /\ toServer' = [toServer EXCEPT ![p] = IF clientOpen[p] /\ serverOpen[p] THEN @ \o overTCP ELSE @]
              /\ udpToServer' = udpToServer \cup
                   {[from |-> EndpointOf[p], msg |-> overUDP[i]] : i \in 1 .. Len(overUDP)}
<1> DEFINE overTCP == WithPing(tcpMsgs, p, withPing, "TCP")
           overUDP == WithPing(udpMsgs, p, withPing, "UDP")
           ping == IF withPing THEN <<Ping(m_nextPingSeq[p])>> ELSE <<>>
           tcp  == IF PingTransport = "TCP" THEN tcpMsgs \o ping ELSE tcpMsgs
           udp  == IF PingTransport = "UDP" THEN udpMsgs \o ping ELSE udpMsgs
<1>1. Ping(m_nextPingSeq[p]) \in Message /\ tcpMsgs \in Seq(Message) /\ udpMsgs \in Seq(Message)
  <2>1. AppMessage \subseteq Message
    BY MessagesTyped
  <2> QED BY <2>1, MessagesTyped DEF NetworkTypeOK, ClientTypeOK
<1>2. /\ toServer' = [toServer EXCEPT ![p] = IF clientOpen[p] /\ serverOpen[p] THEN @ \o tcp ELSE @]
      /\ udpToServer' = udpToServer \cup {[from |-> EndpointOf[p], msg |-> udp[i]] : i \in 1 .. Len(udp)}
  BY DEF ClientPumpSend
<1>3. \A msgs \in Seq(Message) : msgs \o ping = IF withPing THEN Append(msgs, Ping(m_nextPingSeq[p])) ELSE msgs
  BY <1>1
<1> HIDE DEF ping
<1>4. tcp = overTCP /\ udp = overUDP
  BY <1>1, <1>3 DEF WithPing
<1>5. overTCP \in Seq(Message) /\ overUDP \in Seq(Message)
  BY <1>1 DEF WithPing
<1> HIDE DEF tcp, udp, overTCP, overUDP
<1>6. toServer' = [toServer EXCEPT ![p] = IF clientOpen[p] /\ serverOpen[p] THEN @ \o overTCP ELSE @]
  BY <1>2, <1>4
<1>7. udpToServer' = udpToServer \cup {[from |-> EndpointOf[p], msg |-> overUDP[i]] : i \in 1 .. Len(overUDP)}
  BY <1>2, <1>4
<1> QED BY <1>5, <1>6, <1>7 DEF overTCP, overUDP

(* It is a step Network allows an application. *)
LEMMA PumpSendIsApplication ==
    ASSUME NetworkTypeOK, NEW p \in Process, NEW tcpMsgs \in Seq(AppMessage), NEW udpMsgs \in Seq(AppMessage),
           NEW withPing \in BOOLEAN, ClientPumpSend(p, tcpMsgs, udpMsgs, withPing), UNCHANGED serverVars
    PROVE  ClientApplication(p, withPing)
<1> DEFINE ping  == Ping(m_nextPingSeq[p])
           overTCP == WithPing(tcpMsgs, p, withPing, "TCP")
           overUDP == WithPing(udpMsgs, p, withPing, "UDP")
           byTCP == withPing /\ PingTransport = "TCP" /\ clientOpen[p] /\ serverOpen[p]
           byUDP == withPing /\ PingTransport = "UDP"
           old == toServer[p]
           new == toServer'[p]
<1>1. /\ overTCP \in Seq(Message) /\ overUDP \in Seq(Message)
      /\ toServer' = [toServer EXCEPT ![p] = IF clientOpen[p] /\ serverOpen[p] THEN @ \o overTCP ELSE @]
      /\ udpToServer' = udpToServer \cup
           {[from |-> EndpointOf[p], msg |-> overUDP[i]] : i \in 1 .. Len(overUDP)}
  BY PumpSendAdds
<1>2. toServer \in [Process -> Seq(Message)] /\ old \in Seq(Message) /\ ping \in Message
  BY MessagesTyped DEF NetworkTypeOK, TransportTypeOK, ClientTypeOK
<1>3. /\ toServer' \in [Process -> Seq(Message)]
      /\ \A q \in Process \ {p} : toServer'[q] = toServer[q]
      /\ new = IF clientOpen[p] /\ serverOpen[p] THEN old \o overTCP ELSE old
  <2>1. old \o overTCP \in Seq(Message)
    BY <1>1, <1>2
  <2> QED BY <1>1, <1>2, <2>1
<1>4. byTCP => ExtendedWithPing(old, new, ping)
  <2> SUFFICES ASSUME byTCP PROVE ExtendedWithPing(old, new, ping)
    OBVIOUS
  <2>1. new = old \o Append(tcpMsgs, ping)
    BY <1>3 DEF WithPing
  <2> HIDE DEF old, new, ping
  <2>2. tcpMsgs \in Seq(Message) /\ Len(tcpMsgs) \in Nat
    <3>1. AppMessage \subseteq Message
      BY MessagesTyped
    <3> QED BY <3>1
  <2>3. /\ new \in Seq(Message) /\ Len(new) = Len(old) + Len(tcpMsgs) + 1 /\ Len(old) \in Nat
        /\ new[Len(new)] = ping
    BY <1>2, <2>1, <2>2
  <2>4. ASSUME NEW i \in 1 .. Len(new) - 1
        PROVE  IF i <= Len(old) THEN new[i] = old[i] ELSE new[i] \in AppMessage
    <3>1. i > Len(old) => new[i] = tcpMsgs[i - Len(old)] /\ i - Len(old) \in 1 .. Len(tcpMsgs)
      BY <1>2, <2>1, <2>2, <2>3
    <3>2. i <= Len(old) => new[i] = old[i]
      BY <1>2, <2>1, <2>2, <2>3
    <3> QED BY <2>3, <3>1, <3>2
  <2> QED BY <2>2, <2>3, <2>4 DEF ExtendedWithPing
<1>5. ~byTCP => Extended(old, new)
  <2>1. ~byTCP => new \in {old, old \o tcpMsgs}
    BY <1>3 DEF WithPing
  <2>2. new \in Seq(Message) /\ tcpMsgs \in Seq(Message)
    <3>1. AppMessage \subseteq Message
      BY MessagesTyped
    <3>2. new \in Seq(Message)
      BY <1>3
    <3>3. tcpMsgs \in Seq(Message)
      BY <3>1
    <3> QED BY <3>2, <3>3
  <2> HIDE DEF old, new, byTCP
  <2>3. Extended(old, old)
    BY <1>2 DEF Extended
  <2>4. new = old \o tcpMsgs => Extended(old, new)
    <3> SUFFICES ASSUME new = old \o tcpMsgs PROVE Extended(old, new)
      OBVIOUS
    <3>1. Len(new) = Len(old) + Len(tcpMsgs) /\ Len(old) \in Nat /\ Len(tcpMsgs) \in Nat
      BY <1>2, <2>2
    <3>2. ASSUME NEW i \in 1 .. Len(new), i > Len(old)
          PROVE  new[i] = tcpMsgs[i - Len(old)] /\ i - Len(old) \in 1 .. Len(tcpMsgs)
      BY <1>2, <2>2, <3>1, <3>2
    <3>3. ASSUME NEW i \in 1 .. Len(new), i <= Len(old) PROVE new[i] = old[i]
      BY <1>2, <2>2, <3>1, <3>3
    <3> QED BY <2>2, <3>1, <3>2, <3>3 DEF Extended
  <2> QED BY <2>1, <2>3, <2>4
<1>6. \A i \in 1 .. Len(overUDP) : overUDP[i] \in AppMessage \cup (IF byUDP THEN {ping} ELSE {})
  <2>1. byUDP => \A i \in 1 .. Len(Append(udpMsgs, ping)) : Append(udpMsgs, ping)[i] \in AppMessage \cup {ping}
    <3>1. Append(udpMsgs, ping) \in Seq(AppMessage \cup {ping})
      <4>1. udpMsgs \in Seq(AppMessage \cup {ping})
        OBVIOUS
      <4> QED BY <4>1
    <3> QED BY <3>1
  <2> QED BY <2>1 DEF WithPing
<1>7. byUDP => [from |-> EndpointOf[p], msg |-> ping] \in udpToServer'
  <2>1. byUDP => Len(overUDP) \in 1 .. Len(overUDP) /\ overUDP[Len(overUDP)] = ping
    <3>1. AppMessage \subseteq Message
      BY MessagesTyped
    <3>2. udpMsgs \in Seq(Message)
      BY <3>1
    <3>3. byUDP => overUDP = Append(udpMsgs, ping)
      BY DEF WithPing
    <3>4. /\ Len(Append(udpMsgs, ping)) \in 1 .. Len(Append(udpMsgs, ping))
          /\ Append(udpMsgs, ping)[Len(Append(udpMsgs, ping))] = ping
      BY <1>2, <3>2
    <3> HIDE DEF overUDP, byUDP, ping
    <3> QED BY <3>3, <3>4
  <2> QED BY <1>1, <2>1
<1>8. udpToServer \subseteq udpToServer'
      /\ udpToServer' \ udpToServer \subseteq
           [from: {EndpointOf[p]}, msg: AppMessage \cup (IF byUDP THEN {ping} ELSE {})]
  <2> HIDE DEF overUDP, byUDP, ping
  <2> QED BY <1>1, <1>6
<1>9. /\ phase[p] = "connected"
      /\ withPing => PingsSent < MaxPings
      /\ m_nextPingSeq' = [m_nextPingSeq EXCEPT ![p] = IF withPing THEN @ + 1 ELSE @]
      /\ UNCHANGED <<m_newConnections, connID, serverOpen, clientOpen, toClient,
                     udpToClient, udpOpen, serverVars, phase, bindToken, elapsed>>
  BY DEF ClientPumpSend
<1> HIDE DEF overTCP, overUDP
<1> QED BY <1>3, <1>4, <1>5, <1>7, <1>8, <1>9 DEF ClientApplication

-----------------------------------------------------------------------------
(* What a step leaves alone *)

(* Identifiers change when a connection is accepted, and the processes that have
   not started are fewer after Start. *)
LEMMA IdentityFrame ==
    ASSUME NetworkTypeOK, [NetworkNext]_networkVars
    PROVE  \/ AcceptConnection /\ UNCHANGED phase
           \/ \E p \in Process : Start(p) /\ UNCHANGED m_nextClientID
           \/ /\ UNCHANGED <<m_newConnections, connID, m_nextClientID>>
              /\ \A p \in Process : phase'[p] = "off" <=> phase[p] = "off"
<1> DEFINE Kept == /\ UNCHANGED <<m_newConnections, connID, m_nextClientID>>
                   /\ \A p \in Process : phase'[p] = "off" <=> phase[p] = "off"
<1>1. CASE NetworkServerStep /\ UNCHANGED clientVars
  BY <1>1 DEF NetworkServerStep, ReceiveTCP, DispatchDatagram, HandleUDPBind, IgnoreDatagram, PumpSend,
              CollectDisconnected, RemoveDisconnected, transportVars, tcpVars, serverVars, clientVars
<1>2. CASE ServerApplication
  BY <1>2 DEF ServerApplication,
              transportVars, tcpVars, clientVars
<1>3. ASSUME NEW p \in Process, NetworkClientStep(p), UNCHANGED serverVars
      PROVE  Kept \/ (Start(p) /\ UNCHANGED m_nextClientID)
  <2>1. phase \in [Process -> Phase]
    BY DEF NetworkTypeOK, ClientTypeOK
  <2> QED
    BY <1>3, <2>1
       DEF NetworkClientStep, TakeBindRequest, PollBindRequest, TakeBindAck, PollBindAck, Exit, Running,
           ReceiveFromServer, ReceiveDatagram, TakeTCP,
           transportVars, tcpVars, serverVars, clientVars
<1>4. ASSUME NEW p \in Process, NEW withPing \in BOOLEAN, ClientApplication(p, withPing)
      PROVE  Kept
  BY <1>4 DEF ClientApplication, serverVars, clientVars
<1>5. CASE TransportStep /\ UNCHANGED <<serverVars, clientVars>>
  BY <1>5 DEF TransportStep, ServerDisconnect, ClientDisconnect, UDPClose,
              tcpVars, serverVars, clientVars
<1>6. CASE UNCHANGED networkVars
  BY <1>6 DEF networkVars, transportVars, tcpVars, serverVars, clientVars
<1> QED BY <1>1, <1>2, <1>3, <1>4, <1>5, <1>6 DEF NetworkNext

(* Queues come and go without touching what identifies a client and what it is
   bound to. *)
LEMMA QueueKeepsBinding ==
    ASSUME NEW r \in NetworkClientRecord, NEW a, NEW b
    PROVE  /\ SameBinding([r EXCEPT !.tcpOutbox = a], r)
           /\ SameBinding([r EXCEPT !.udpOutbox = a], r)
           /\ SameBinding([r EXCEPT !.inbox = a], r)
           /\ SameBinding([r EXCEPT !.tcpOutbox = a, !.udpOutbox = b], r)
           /\ SameBinding(r, r)
BY DEF NetworkClientRecord, SameBinding

(* On either transport, queueing leaves identity and binding alone. *)
LEMMA QueueMessagesKeepsBinding ==
    ASSUME NEW clients, clients \in [DOMAIN clients -> NetworkClientRecord],
           NEW msgs, NEW C, NEW transport, NEW c \in DOMAIN clients
    PROVE  SameBinding(QueueMessages(clients, C, msgs, transport)[c], clients[c])
<1>1. clients[c] \in NetworkClientRecord
  OBVIOUS
<1>2. CASE transport = "TCP"
  <2>1. QueueMessages(clients, C, msgs, transport) = QueueTCP(clients, C, msgs)
    BY <1>2 DEF QueueMessages
  <2> QED BY <1>1, <2>1, QueueKeepsBinding DEF QueueTCP
<1>3. CASE transport # "TCP"
  <2>1. QueueMessages(clients, C, msgs, transport) = QueueUDP(clients, C, msgs)
    BY <1>3 DEF QueueMessages
  <2> QED BY <1>1, <2>1, QueueKeepsBinding DEF QueueUDP
<1> QED BY <1>2, <1>3

(* So does dispatching a message that was received. *)
LEMMA DispatchKeepsBinding ==
    ASSUME NEW clients, clients \in [DOMAIN clients -> NetworkClientRecord],
           NEW msg, NEW target, NEW transport, NEW c \in DOMAIN clients
    PROVE  SameBinding(Dispatch(clients, target, msg, transport)[c], clients[c])
<1>1. clients[c] \in NetworkClientRecord
  OBVIOUS
<1>2. CASE msg.type = "Ping"
  <2> DEFINE C == {target}
             msgs == <<Pong(msg.seq)>>
  <2>1. Dispatch(clients, target, msg, transport) = QueueMessages(clients, C, msgs, transport)
    BY <1>2 DEF Dispatch
  <2> HIDE DEF C, msgs
  <2> QED BY <2>1, QueueMessagesKeepsBinding
<1>3. CASE msg.type # "Ping"
  BY <1>1, <1>3, QueueKeepsBinding DEF Dispatch
<1> QED BY <1>2, <1>3
(* Four kinds of step change bindings, or who is to lose one. *)
LEMMA BindingFrame ==
    ASSUME NetworkTypeOK, [NetworkNext]_networkVars
    PROVE  \/ AcceptConnection
           \/ \E d \in udpToServer : HandleUDPBind(d)
           \/ \E c \in toRemove : RemoveDisconnected(c)
           \/ /\ UNCHANGED m_udpEndpointToClientID
              /\ DOMAIN m_clients' = DOMAIN m_clients
              /\ \A c \in DOMAIN m_clients : SameBinding(m_clients'[c], m_clients[c])
              /\ toRemove' \in {toRemove, Disconnected}
<1> DEFINE Same == /\ UNCHANGED m_udpEndpointToClientID
                   /\ DOMAIN m_clients' = DOMAIN m_clients
                   /\ \A c \in DOMAIN m_clients : SameBinding(m_clients'[c], m_clients[c])
                   /\ toRemove' \in {toRemove, Disconnected}
<1>1. m_clients \in [DOMAIN m_clients -> NetworkClientRecord]
  BY DEF NetworkTypeOK, ServerTypeOK
<1>2. \A c \in DOMAIN m_clients : m_clients[c] \in NetworkClientRecord
  BY <1>1
<1>3. \A c \in DOMAIN m_clients : SameBinding(m_clients[c], m_clients[c])
  BY DEF SameBinding
<1>4. UNCHANGED <<m_clients, m_udpEndpointToClientID, toRemove>> => Same
  BY <1>3
<1>5. ASSUME NEW c \in DOMAIN m_clients, ReceiveTCP(c)
      PROVE  Same
  <2> DEFINE msg == Head(toServer[m_clients[c].tcpConnection])
  <2>1. m_clients' = Dispatch(m_clients, c, msg, "TCP")
    BY <1>5 DEF ReceiveTCP
  <2> HIDE DEF msg
  <2>2. \A b \in DOMAIN m_clients : SameBinding(m_clients'[b], m_clients[b])
    BY <1>1, <2>1, DispatchKeepsBinding
  <2>3. DOMAIN m_clients' = DOMAIN m_clients
    BY <2>1 DEF Dispatch, QueueMessages, QueueTCP, QueueUDP
  <2> QED BY <1>5, <2>2, <2>3 DEF ReceiveTCP
<1>6. ASSUME NEW d \in udpToServer, DispatchDatagram(d)
      PROVE  Same
  <2> DEFINE target == m_udpEndpointToClientID[d.from]
             msg == d.msg
  <2>1. m_clients' = Dispatch(m_clients, target, msg, "UDP")
    BY <1>6 DEF DispatchDatagram
  <2> HIDE DEF target, msg
  <2>2. \A b \in DOMAIN m_clients : SameBinding(m_clients'[b], m_clients[b])
    BY <1>1, <2>1, DispatchKeepsBinding
  <2>3. DOMAIN m_clients' = DOMAIN m_clients
    BY <2>1 DEF Dispatch, QueueMessages, QueueTCP, QueueUDP
  <2> QED BY <1>6, <2>2, <2>3 DEF DispatchDatagram
<1>7. ASSUME NEW d \in udpToServer, IgnoreDatagram(d)
      PROVE  Same
  BY <1>4, <1>7 DEF IgnoreDatagram, serverVars
<1>8. CASE PumpSend
  <2>1. m_clients' = [c \in DOMAIN m_clients |->
                        [m_clients[c] EXCEPT !.tcpOutbox = <<>>, !.udpOutbox = <<>>]]
    BY <1>8 DEF PumpSend
  <2>2. \A c \in DOMAIN m_clients : SameBinding(m_clients'[c], m_clients[c])
    BY <1>2, <2>1, QueueKeepsBinding
  <2> QED BY <1>8, <2>1, <2>2 DEF PumpSend
<1>9. CASE CollectDisconnected
  BY <1>3, <1>9 DEF CollectDisconnected
<1>10. CASE ServerApplication
  BY <1>10 DEF ServerApplication, Used
<1>13. CASE UNCHANGED serverVars
  BY <1>4, <1>13 DEF serverVars
<1>14. CASE NetworkServerStep
  BY <1>5, <1>6, <1>7, <1>8, <1>9, <1>14 DEF NetworkServerStep
<1>16. ASSUME NEW p \in Process, NEW withPing \in BOOLEAN, ClientApplication(p, withPing)
       PROVE  UNCHANGED serverVars
  BY <1>16 DEF ClientApplication
<1> QED BY <1>10, <1>13, <1>14, <1>16 DEF NetworkNext, networkVars

-----------------------------------------------------------------------------
(* The inductive invariant, part by part *)

(* The initial state satisfies the inductive invariant. *)
LEMMA BindingInit == NetworkInit => BindingInvariant
<1> SUFFICES ASSUME NetworkInit PROVE BindingInvariant
  OBVIOUS
<1>1. NetworkTypeOK
  BY TypeInit
<1>2. Identities
  BY DEF NetworkInit, TransportInit, ServerInit, ClientInit, Identities, FirstClientID
<1>3. ClientsIdentified /\ BoundToProcess /\ EndpointMapConsistent
  BY DEF NetworkInit, TransportInit, ServerInit, ClientsIdentified, BoundToProcess, EndpointMapConsistent
<1>4. Tokens
  BY DEF NetworkInit, TransportInit, ServerInit, ClientInit, Tokens
<1> QED BY <1>1, <1>2, <1>3, <1>4 DEF BindingInvariant

(* Client identifiers stay unique: only acceptConnections gives one out, a fresh
   one, to a connection that leaves the listener's queue with it. *)
LEMMA IdentitiesNext ==
    ASSUME NetworkTypeOK, Identities, [NetworkNext]_networkVars
    PROVE  Identities'
<1>1. /\ m_newConnections \in Seq(Process)
      /\ connID \in [Process -> Nat]
      /\ m_nextClientID \in Nat
      /\ phase \in [Process -> Phase]
  BY DEF NetworkTypeOK, TransportTypeOK, ServerTypeOK, ClientTypeOK
<1>2. CASE AcceptConnection /\ UNCHANGED phase
  <2> DEFINE p == Head(m_newConnections)
  <2>1. /\ m_newConnections # <<>>
        /\ connID' = [connID EXCEPT ![p] = m_nextClientID]
        /\ m_newConnections' = Tail(m_newConnections)
        /\ m_nextClientID' = m_nextClientID + 1
    BY <1>2 DEF AcceptConnection
  <2>2. /\ p \in Process
        /\ p = m_newConnections[1]
        /\ connID[p] = 0 /\ phase[p] # "off"
    BY <1>1, <2>1 DEF Identities
  <2>3. /\ Len(m_newConnections') = Len(m_newConnections) - 1
        /\ \A i \in 1 .. Len(m_newConnections') :
             /\ i + 1 \in 1 .. Len(m_newConnections)
             /\ m_newConnections'[i] = m_newConnections[i + 1]
             /\ m_newConnections'[i] # p
    BY <1>1, <2>1, <2>2 DEF Identities
  <2> HIDE DEF p
  <2>4. \A i \in 1 .. Len(m_newConnections') :
          /\ m_newConnections'[i] \in Process
          /\ connID'[m_newConnections'[i]] = 0 /\ phase'[m_newConnections'[i]] # "off"
    BY <1>1, <1>2, <2>1, <2>3 DEF Identities
  <2>5. \A i, j \in 1 .. Len(m_newConnections') :
          m_newConnections'[i] = m_newConnections'[j] => i = j
    BY <1>1, <2>3 DEF Identities
  <2>6. /\ FirstClientID <= m_nextClientID'
        /\ \A q \in Process : connID'[q] < m_nextClientID'
        /\ \A q, r \in Process : connID'[q] = connID'[r] /\ connID'[q] # 0 => q = r
        /\ \A q \in Process : phase'[q] = "off" => connID'[q] = 0
    BY <1>1, <1>2, <2>1, <2>2 DEF Identities, FirstClientID
  <2> QED BY <2>4, <2>5, <2>6 DEF Identities
<1>3. ASSUME NEW p \in Process, Start(p), UNCHANGED m_nextClientID
      PROVE  Identities'
  <2>1. /\ phase[p] = "off"
        /\ phase' = [phase EXCEPT ![p] = "waitRequest"]
        /\ m_newConnections' = Append(m_newConnections, p)
        /\ connID' = connID
    BY <1>3 DEF Start
  <2>2. \A i \in 1 .. Len(m_newConnections) : m_newConnections[i] \in Process /\ m_newConnections[i] # p
    BY <1>1, <2>1 DEF Identities
  <2>3. /\ Len(m_newConnections') = Len(m_newConnections) + 1
        /\ \A i \in 1 .. Len(m_newConnections) : m_newConnections'[i] = m_newConnections[i]
        /\ m_newConnections'[Len(m_newConnections) + 1] = p
        /\ Len(m_newConnections) \in Nat
    BY <1>1, <2>1
  <2>4. \A i \in 1 .. Len(m_newConnections') :
          connID'[m_newConnections'[i]] = 0 /\ phase'[m_newConnections'[i]] # "off"
    BY <1>1, <2>1, <2>2, <2>3 DEF Identities
  <2>5. \A i, j \in 1 .. Len(m_newConnections') :
          m_newConnections'[i] = m_newConnections'[j] => i = j
    BY <2>2, <2>3 DEF Identities
  <2> QED BY <1>1, <1>3, <2>1, <2>4, <2>5 DEF Identities
<1>4. CASE /\ UNCHANGED <<m_newConnections, connID, m_nextClientID>>
           /\ \A p \in Process : phase'[p] = "off" <=> phase[p] = "off"
  BY <1>1, <1>4 DEF Identities
<1> QED BY <1>2, <1>3, <1>4, IdentityFrame

(* A connection keeps the identifier it was given. *)
LEMMA ConnIDKept ==
    ASSUME NetworkTypeOK, Identities, [NetworkNext]_networkVars, NEW p \in Process, connID[p] # 0
    PROVE  connID'[p] = connID[p]
<1>1. CASE AcceptConnection
  <2>1. /\ connID' = [connID EXCEPT ![Head(m_newConnections)] = m_nextClientID]
        /\ m_newConnections \in Seq(Process) /\ m_newConnections # <<>>
        /\ connID \in [Process -> Nat]
    BY <1>1 DEF AcceptConnection, NetworkTypeOK, TransportTypeOK
  <2>2. connID[Head(m_newConnections)] = 0
    BY <2>1 DEF Identities
  <2> QED BY <2>1, <2>2
<1>2. CASE UNCHANGED connID
  BY <1>2
<1> QED BY <1>1, <1>2, IdentityFrame DEF Start
(* Clients other than a new one were there before, on the same connection and
   with the same token. *)
LEMMA ClientsFrame ==
    ASSUME NetworkTypeOK, [NetworkNext]_networkVars, ~AcceptConnection, NEW c \in DOMAIN m_clients'
    PROVE  /\ c \in DOMAIN m_clients
           /\ m_clients'[c].udpToken = m_clients[c].udpToken
           /\ m_clients'[c].tcpConnection = m_clients[c].tcpConnection
<1>1. /\ m_clients \in [DOMAIN m_clients -> NetworkClientRecord]
      /\ \A b \in DOMAIN m_clients : m_clients[b] \in NetworkClientRecord
  BY DEF NetworkTypeOK, ServerTypeOK
<1>2. ASSUME NEW d \in udpToServer, HandleUDPBind(d)
      PROVE  /\ c \in DOMAIN m_clients
             /\ m_clients'[c].udpToken = m_clients[c].udpToken
             /\ m_clients'[c].tcpConnection = m_clients[c].tcpConnection
  <2>1. PICK b \in DOMAIN m_clients :
          m_clients' = [m_clients EXCEPT ![b].udpEndpoint = d.from,
                                         ![b].status = "Connected",
                                         ![b].tcpOutbox = Append(@, UDPBindAck)]
    BY <1>2 DEF HandleUDPBind, ClientsWithToken
  <2> QED BY <1>1, <2>1 DEF NetworkClientRecord
<1>3. ASSUME NEW b \in toRemove, RemoveDisconnected(b)
      PROVE  c \in DOMAIN m_clients /\ m_clients'[c] = m_clients[c]
  BY <1>3 DEF RemoveDisconnected
<1> QED BY <1>2, <1>3, BindingFrame DEF SameBinding

(* Every client keeps the token and the connection addNetworkClient gave it. *)
LEMMA ClientsIdentifiedNext ==
    ASSUME NetworkTypeOK, Identities, ClientsIdentified, [NetworkNext]_networkVars
    PROVE  ClientsIdentified'
<1>1. /\ m_nextClientID \in Nat
      /\ DOMAIN m_clients \subseteq Nat
      /\ connID \in [Process -> Nat]
      /\ \A c \in DOMAIN m_clients : m_clients[c].tcpConnection \in Process
  BY DEF NetworkTypeOK, TransportTypeOK, ServerTypeOK, NetworkClientRecord
<1>2. \A c \in DOMAIN m_clients : c # 0 /\ connID[m_clients[c].tcpConnection] # 0
  BY <1>1 DEF ClientsIdentified, FirstClientID
<1>3. CASE AcceptConnection
  <2> DEFINE p == Head(m_newConnections)
  <2>1. /\ connID' = [connID EXCEPT ![p] = m_nextClientID]
        /\ m_nextClientID' = m_nextClientID + 1
        /\ m_newConnections # <<>>
        /\ m_clients' = [c \in DOMAIN m_clients \cup {m_nextClientID} |->
                            IF c = m_nextClientID THEN NewClient(p) ELSE m_clients[c]]
    BY <1>3 DEF AcceptConnection
  <2>2. p \in Process /\ connID[p] = 0
    BY <2>1 DEF Identities, NetworkTypeOK, TransportTypeOK
  <2>3. /\ NewClient(p).udpToken = TokenFor(m_nextClientID)
        /\ NewClient(p).tcpConnection = p
    BY DEF NewClient
  <2> HIDE DEF p
  <2>4. FirstClientID <= m_nextClientID
    BY DEF Identities
  <2> QED BY <1>1, <1>2, <2>1, <2>2, <2>3, <2>4 DEF ClientsIdentified, FirstClientID
<1>4. CASE ~AcceptConnection
  <2>1. m_nextClientID' = m_nextClientID
    BY <1>4, IdentityFrame
  <2> SUFFICES ASSUME NEW c \in DOMAIN m_clients'
               PROVE  /\ FirstClientID <= c /\ c < m_nextClientID
                      /\ m_clients'[c].udpToken = TokenFor(c)
                      /\ connID'[m_clients'[c].tcpConnection] = c
    BY <2>1 DEF ClientsIdentified
  <2>2. /\ c \in DOMAIN m_clients
        /\ m_clients'[c].udpToken = m_clients[c].udpToken
        /\ m_clients'[c].tcpConnection = m_clients[c].tcpConnection
    BY <1>4, ClientsFrame
  <2>3. connID'[m_clients[c].tcpConnection] = connID[m_clients[c].tcpConnection]
    BY <1>1, <1>2, <2>2, ConnIDKept
  <2> QED BY <2>2, <2>3 DEF ClientsIdentified
<1> QED BY <1>3, <1>4

(* A token is as good as the identity of the sender: a UDPBind that names a client
   comes from the process of that client. *)
LEMMA BindIsOwn ==
    ASSUME NetworkTypeOK, Identities, ClientsIdentified, Tokens,
           NEW d \in udpToServer, d.msg.type = "UDPBind",
           NEW c \in ClientsWithToken(d.msg.token)
    PROVE  c \in DOMAIN m_clients /\ d.from = EndpointOf[m_clients[c].tcpConnection]
<1>1. PICK p \in Process : d.from = EndpointOf[p] /\ OwnToken(p, d.msg.token)
  BY DEF Tokens
<1>2. /\ c \in DOMAIN m_clients
      /\ m_clients[c].udpToken = d.msg.token
  BY DEF ClientsWithToken
<1>3. c \in Nat /\ m_clients[c].tcpConnection \in Process /\ connID[p] \in Nat
  BY <1>2 DEF NetworkTypeOK, TransportTypeOK, ServerTypeOK, NetworkClientRecord
<1>4. /\ m_clients[c].udpToken = TokenFor(c)
      /\ connID[m_clients[c].tcpConnection] = c
  BY <1>2 DEF ClientsIdentified
<1>5. connID[p] # 0 /\ d.msg.token = TokenFor(connID[p])
  BY <1>1 DEF OwnToken
<1>6. c = connID[p]
  <2>1. \A i, j \in Nat : TokenFor(i) = TokenFor(j) => i = j
    BY DEF TokenFor
  <2>2. TokenFor(c) = TokenFor(connID[p])
    BY <1>2, <1>4, <1>5
  <2> QED BY <1>3, <2>1, <2>2
<1>7. p = m_clients[c].tcpConnection
  BY <1>3, <1>4, <1>5, <1>6 DEF Identities
<1> QED BY <1>1, <1>2, <1>7

(* A datagram that binds finds its client unbound: were it bound already, it
   would be to the same endpoint, and the sender would be known. *)
LEMMA BindsOnce ==
    ASSUME BindingInvariant, NEW d \in udpToServer, HandleUDPBind(d),
           NEW c \in ClientsWithToken(d.msg.token)
    PROVE  m_clients[c].status # "Connected" /\ m_clients[c].udpEndpoint = NoEndpoint
<1>1. d.msg.type = "UDPBind" /\ d.from \notin DOMAIN m_udpEndpointToClientID
  BY DEF HandleUDPBind
<1>2. c \in DOMAIN m_clients /\ d.from = EndpointOf[m_clients[c].tcpConnection]
  BY <1>1, BindIsOwn DEF BindingInvariant
<1>3. m_clients[c].udpEndpoint \in {NoEndpoint, d.from}
  BY <1>2 DEF BindingInvariant, BoundToProcess
<1>4. NoEndpoint \notin DOMAIN m_udpEndpointToClientID
  BY NoEndpointAssumption DEF BindingInvariant, NetworkTypeOK, ServerTypeOK
<1> QED BY <1>1, <1>2, <1>3, <1>4 DEF BindingInvariant, EndpointMapConsistent

(* A client is only ever bound to the endpoint of the process at the other end
   of its connection: that process is the only one to send its token. *)
LEMMA BoundToProcessNext ==
    ASSUME BindingInvariant, [NetworkNext]_networkVars
    PROVE  BoundToProcess'
<1>1. NetworkTypeOK /\ Identities /\ ClientsIdentified /\ Tokens /\ BoundToProcess
  BY DEF BindingInvariant
<1>2. \A c \in DOMAIN m_clients : m_clients[c] \in NetworkClientRecord
  BY <1>1 DEF NetworkTypeOK, ServerTypeOK
<1>3. CASE AcceptConnection
  <2>1. NewClient(Head(m_newConnections)).udpEndpoint = NoEndpoint
    BY DEF NewClient
  <2> QED BY <1>1, <1>3, <2>1 DEF AcceptConnection, BoundToProcess, ServerIdle
<1>4. ASSUME NEW d \in udpToServer, HandleUDPBind(d)
      PROVE  BoundToProcess'
  <2>1. PICK c \in ClientsWithToken(d.msg.token) :
          m_clients' = [m_clients EXCEPT ![c].udpEndpoint = d.from,
                                         ![c].status = "Connected",
                                         ![c].tcpOutbox = Append(@, UDPBindAck)]
    BY <1>4 DEF HandleUDPBind
  <2>2. c \in DOMAIN m_clients /\ d.from = EndpointOf[m_clients[c].tcpConnection]
    BY <1>1, <1>4, BindIsOwn DEF HandleUDPBind
  <2>3. /\ DOMAIN m_clients' = DOMAIN m_clients
        /\ m_clients'[c].udpEndpoint = d.from
        /\ m_clients'[c].tcpConnection = m_clients[c].tcpConnection
        /\ \A b \in DOMAIN m_clients : b # c => m_clients'[b] = m_clients[b]
    BY <1>2, <2>1, <2>2 DEF NetworkClientRecord
  <2> QED BY <1>1, <1>4, <2>2, <2>3 DEF HandleUDPBind, BoundToProcess
<1>5. ASSUME NEW c \in toRemove, RemoveDisconnected(c)
      PROVE  BoundToProcess'
  BY <1>1, <1>5 DEF RemoveDisconnected, BoundToProcess
<1>6. CASE /\ DOMAIN m_clients' = DOMAIN m_clients
           /\ \A c \in DOMAIN m_clients : SameBinding(m_clients'[c], m_clients[c])
           /\ toRemove' \in {toRemove, Disconnected}
  BY <1>1, <1>6 DEF BoundToProcess, SameBinding, Disconnected
<1> QED BY <1>1, <1>3, <1>4, <1>5, <1>6, BindingFrame

(* The endpoint map and the client table change together, in handleUDPBind and
   in removeNetworkClient. *)
LEMMA EndpointMapConsistentNext ==
    ASSUME BindingInvariant, [NetworkNext]_networkVars
    PROVE  EndpointMapConsistent'
<1>1. NetworkTypeOK /\ Identities /\ ClientsIdentified /\ Tokens /\ BoundToProcess /\ EndpointMapConsistent
  BY DEF BindingInvariant
<1>2. /\ m_clients \in [DOMAIN m_clients -> NetworkClientRecord]
      /\ \A c \in DOMAIN m_clients : m_clients[c] \in NetworkClientRecord
      /\ DOMAIN m_clients \subseteq Nat
      /\ NoEndpoint \notin DOMAIN m_udpEndpointToClientID
  BY <1>1, NoEndpointAssumption DEF NetworkTypeOK, ServerTypeOK
<1>3. CASE AcceptConnection
  <2> DEFINE new == NewClient(Head(m_newConnections))
  <2>1. /\ m_clients' = [c \in DOMAIN m_clients \cup {m_nextClientID} |->
                            IF c = m_nextClientID THEN new ELSE m_clients[c]]
        /\ UNCHANGED m_udpEndpointToClientID
    BY <1>3 DEF AcceptConnection
  <2>2. new.status = "BindingUDP" /\ new.udpEndpoint = NoEndpoint
    BY DEF NewClient
  <2> HIDE DEF new
  <2>3. m_nextClientID \notin DOMAIN m_clients
    BY <1>1, <1>2 DEF ClientsIdentified, NetworkTypeOK, ServerTypeOK
  <2> QED BY <1>1, <2>1, <2>2, <2>3 DEF EndpointMapConsistent
<1>4. ASSUME NEW d \in udpToServer, HandleUDPBind(d)
      PROVE  EndpointMapConsistent'
  <2>1. PICK c \in ClientsWithToken(d.msg.token) :
          /\ m_clients' = [m_clients EXCEPT ![c].udpEndpoint = d.from,
                                            ![c].status = "Connected",
                                            ![c].tcpOutbox = Append(@, UDPBindAck)]
          /\ m_udpEndpointToClientID' =
               [e \in DOMAIN m_udpEndpointToClientID \cup {d.from} |->
                  IF e = d.from THEN c ELSE m_udpEndpointToClientID[e]]
    BY <1>4 DEF HandleUDPBind
  <2>2. c \in DOMAIN m_clients
    BY DEF ClientsWithToken
  <2>3. m_clients[c].status # "Connected" /\ m_clients[c].udpEndpoint = NoEndpoint
    BY <1>4, BindsOnce
  <2>4. /\ DOMAIN m_clients' = DOMAIN m_clients
        /\ m_clients'[c].udpEndpoint = d.from
        /\ m_clients'[c].status = "Connected"
        /\ \A b \in DOMAIN m_clients : b # c => m_clients'[b] = m_clients[b]
    BY <1>2, <2>1, <2>2 DEF NetworkClientRecord
  <2>5. /\ DOMAIN m_udpEndpointToClientID' = DOMAIN m_udpEndpointToClientID \cup {d.from}
        /\ m_udpEndpointToClientID'[d.from] = c
        /\ \A e \in DOMAIN m_udpEndpointToClientID :
             e # d.from => m_udpEndpointToClientID'[e] = m_udpEndpointToClientID[e]
    BY <2>1
  <2>6. d.from \notin DOMAIN m_udpEndpointToClientID
    BY <1>4 DEF HandleUDPBind
  <2> QED BY <1>1, <1>2, <2>2, <2>3, <2>4, <2>5, <2>6 DEF EndpointMapConsistent
<1>5. ASSUME NEW c \in toRemove, RemoveDisconnected(c)
      PROVE  EndpointMapConsistent'
  <2>1. /\ DOMAIN m_clients' = DOMAIN m_clients \ {c}
        /\ \A b \in DOMAIN m_clients \ {c} : m_clients'[b] = m_clients[b]
        /\ DOMAIN m_udpEndpointToClientID' =
             DOMAIN m_udpEndpointToClientID \ {m_clients[c].udpEndpoint}
        /\ \A e \in DOMAIN m_udpEndpointToClientID' :
             m_udpEndpointToClientID'[e] = m_udpEndpointToClientID[e]
    BY <1>5 DEF RemoveDisconnected
  <2>2. c \in DOMAIN m_clients
    BY <1>1 DEF BoundToProcess
  <2>3. \A e \in DOMAIN m_udpEndpointToClientID :
          e = m_clients[c].udpEndpoint <=> m_udpEndpointToClientID[e] = c
    BY <1>1, <1>2, <2>2 DEF EndpointMapConsistent
  <2> QED BY <1>1, <2>1, <2>2, <2>3 DEF EndpointMapConsistent
<1>6. CASE /\ UNCHANGED m_udpEndpointToClientID
           /\ DOMAIN m_clients' = DOMAIN m_clients
           /\ \A c \in DOMAIN m_clients : SameBinding(m_clients'[c], m_clients[c])
  BY <1>1, <1>6 DEF EndpointMapConsistent, SameBinding
<1> QED BY <1>1, <1>3, <1>4, <1>5, <1>6, BindingFrame
-----------------------------------------------------------------------------
(* Tokens *)

NoRequests(msgs) == \A i \in 1 .. Len(msgs) : msgs[i].type # "UDPBindRequest"

RequestsFor(msgs, token) ==
    \A i \in 1 .. Len(msgs) : msgs[i].type = "UDPBindRequest" => msgs[i].token = token

(* Requests for a token followed by requests for the same token, or by none. *)
LEMMA RequestsAppended ==
    ASSUME NEW old \in Seq(Message), NEW msgs \in Seq(Message), NEW token,
           RequestsFor(old, token), RequestsFor(msgs, token)
    PROVE  RequestsFor(old \o msgs, token)
<1>1. /\ Len(old \o msgs) = Len(old) + Len(msgs)
      /\ Len(old) \in Nat /\ Len(msgs) \in Nat
      /\ \A i \in 1 .. Len(old) : (old \o msgs)[i] = old[i]
  OBVIOUS
<1>2. ASSUME NEW i \in 1 .. Len(old \o msgs), i \notin 1 .. Len(old)
      PROVE  i - Len(old) \in 1 .. Len(msgs) /\ (old \o msgs)[i] = msgs[i - Len(old)]
  BY <1>1, <1>2
<1> QED BY <1>1, <1>2 DEF RequestsFor

(* What a queue operation may do to the TCP outbox of every client. *)
Queued(clients, after) ==
    \A c \in DOMAIN clients : \A token :
        RequestsFor(clients[c].tcpOutbox, token) => RequestsFor(after[c].tcpOutbox, token)

(* What queueing puts into TCP outboxes: its messages, after what is there. *)
LEMMA QueueMessagesQueues ==
    ASSUME NEW clients, clients \in [DOMAIN clients -> NetworkClientRecord],
           NEW msgs \in Seq(Message), NoRequests(msgs), NEW C, NEW transport
    PROVE  Queued(clients, QueueMessages(clients, C, msgs, transport))
<1> DEFINE after == QueueMessages(clients, C, msgs, transport)
<1> SUFFICES ASSUME NEW c \in DOMAIN clients, NEW token,
                    RequestsFor(clients[c].tcpOutbox, token)
             PROVE  RequestsFor(after[c].tcpOutbox, token)
  BY DEF Queued
<1>1. clients[c] \in NetworkClientRecord
  OBVIOUS
<1>2. RequestsFor(clients[c].tcpOutbox \o msgs, token)
  BY <1>1, QueuesTyped, RequestsAppended DEF NoRequests, RequestsFor
<1>3. CASE transport = "TCP"
  <2>1. after = QueueTCP(clients, C, msgs)
    BY <1>3 DEF QueueMessages
  <2>2. [clients[c] EXCEPT !.tcpOutbox = clients[c].tcpOutbox \o msgs].tcpOutbox
          = clients[c].tcpOutbox \o msgs
    BY <1>1 DEF NetworkClientRecord
  <2>3. after[c].tcpOutbox \in {clients[c].tcpOutbox, clients[c].tcpOutbox \o msgs}
    BY <2>1, <2>2 DEF QueueTCP
  <2> QED BY <1>2, <2>3
<1>4. CASE transport # "TCP"
  <2>1. after = QueueUDP(clients, C, msgs)
    BY <1>4 DEF QueueMessages
  <2>2. [clients[c] EXCEPT !.udpOutbox = clients[c].udpOutbox \o msgs].tcpOutbox
          = clients[c].tcpOutbox
    BY <1>1 DEF NetworkClientRecord
  <2>3. after[c].tcpOutbox = clients[c].tcpOutbox
    BY <2>1, <2>2 DEF QueueUDP
  <2> QED BY <2>3
<1> QED BY <1>3, <1>4

(* What dispatching puts into TCP outboxes: at most a pong. *)
LEMMA DispatchQueues ==
    ASSUME NEW clients, clients \in [DOMAIN clients -> NetworkClientRecord],
           NEW msg \in Message, NEW target, NEW transport
    PROVE  Queued(clients, Dispatch(clients, target, msg, transport))
<1>1. CASE msg.type = "Ping"
  <2> DEFINE C == {target}
             msgs == <<Pong(msg.seq)>>
  <2>1. Dispatch(clients, target, msg, transport) = QueueMessages(clients, C, msgs, transport)
    BY <1>1 DEF Dispatch
  <2>2. msgs \in Seq(Message)
    BY <1>1, MessagesTyped
  <2>3. NoRequests(msgs)
    BY DEF NoRequests, Pong
  <2> HIDE DEF C, msgs
  <2> QED BY <2>1, <2>2, <2>3, QueueMessagesQueues
<1>2. CASE msg.type # "Ping"
  <2> DEFINE after == Dispatch(clients, target, msg, transport)
  <2>1. ASSUME NEW c \in DOMAIN clients
        PROVE  after[c].tcpOutbox = clients[c].tcpOutbox
    <3>1. clients[c] \in NetworkClientRecord
      OBVIOUS
    <3>2. [clients[c] EXCEPT !.inbox = Append(clients[c].inbox, msg)].tcpOutbox
            = clients[c].tcpOutbox
      BY <3>1 DEF NetworkClientRecord
    <3> QED BY <1>2, <3>2 DEF Dispatch
  <2> QED BY <2>1 DEF Queued
<1> QED BY <1>1, <1>2
(* No TCP outbox ever holds a request with another client's token. *)
LEMMA OutboxTokensNext ==
    ASSUME BindingInvariant, [NetworkNext]_networkVars, NEW c \in DOMAIN m_clients'
    PROVE  RequestsFor(m_clients'[c].tcpOutbox, TokenFor(c))
<1>1. /\ m_clients \in [DOMAIN m_clients -> NetworkClientRecord]
      /\ \A b \in DOMAIN m_clients : m_clients[b] \in NetworkClientRecord
  BY DEF BindingInvariant, NetworkTypeOK, ServerTypeOK
<1>2. \A b \in DOMAIN m_clients : RequestsFor(m_clients[b].tcpOutbox, TokenFor(b))
  BY DEF BindingInvariant, Tokens, RequestsFor
<1>3. ASSUME DOMAIN m_clients' = DOMAIN m_clients, Queued(m_clients, m_clients')
      PROVE  RequestsFor(m_clients'[c].tcpOutbox, TokenFor(c))
  BY <1>2, <1>3 DEF Queued
<1>4. CASE UNCHANGED m_clients
  BY <1>2, <1>4
<1>5. CASE AcceptConnection
  <2>1. RequestsFor(NewClient(Head(m_newConnections)).tcpOutbox, TokenFor(m_nextClientID))
    BY DEF NewClient, RequestsFor, UDPBindRequest
  <2> QED BY <1>2, <1>5, <2>1 DEF AcceptConnection
<1>6. ASSUME NEW b \in DOMAIN m_clients, ReceiveTCP(b)
      PROVE  RequestsFor(m_clients'[c].tcpOutbox, TokenFor(c))
  <2> DEFINE msg == Head(toServer[m_clients[b].tcpConnection])
  <2>1. m_clients' = Dispatch(m_clients, b, msg, "TCP")
    BY <1>6 DEF ReceiveTCP
  <2>2. msg \in Message
    <3>1. m_clients[b].tcpConnection \in Process
      BY <1>1 DEF NetworkClientRecord
    <3> QED BY <1>6, <3>1 DEF ReceiveTCP, BindingInvariant, NetworkTypeOK, TransportTypeOK
  <2>3. DOMAIN m_clients' = DOMAIN m_clients
    BY <2>1 DEF Dispatch, QueueMessages, QueueTCP, QueueUDP
  <2> HIDE DEF msg
  <2>4. Queued(m_clients, m_clients')
    BY <1>1, <2>1, <2>2, DispatchQueues
  <2> QED BY <1>3, <2>3, <2>4
<1>7. ASSUME NEW d \in udpToServer, DispatchDatagram(d)
      PROVE  RequestsFor(m_clients'[c].tcpOutbox, TokenFor(c))
  <2> DEFINE target == m_udpEndpointToClientID[d.from]
             msg == d.msg
  <2>1. m_clients' = Dispatch(m_clients, target, msg, "UDP")
    BY <1>7 DEF DispatchDatagram
  <2>2. msg \in Message
    BY DEF BindingInvariant, NetworkTypeOK, TransportTypeOK, ToServerDatagram
  <2> HIDE DEF target, msg
  <2>3. DOMAIN m_clients' = DOMAIN m_clients
    BY <2>1 DEF Dispatch, QueueMessages, QueueTCP, QueueUDP
  <2>4. Queued(m_clients, m_clients')
    BY <1>1, <2>1, <2>2, DispatchQueues
  <2> QED BY <1>3, <2>3, <2>4
<1>8. ASSUME NEW d \in udpToServer, HandleUDPBind(d)
      PROVE  RequestsFor(m_clients'[c].tcpOutbox, TokenFor(c))
  <2>1. PICK b \in DOMAIN m_clients :
          m_clients' = [m_clients EXCEPT ![b].udpEndpoint = d.from,
                                         ![b].status = "Connected",
                                         ![b].tcpOutbox = Append(@, UDPBindAck)]
    BY <1>8 DEF HandleUDPBind, ClientsWithToken
  <2> DEFINE queue == m_clients[b].tcpOutbox
  <2>2. queue \in Seq(Message) /\ RequestsFor(queue, TokenFor(b))
    BY <1>1, <1>2, QueuesTyped
  <2>3. m_clients'[b].tcpOutbox = Append(queue, UDPBindAck)
    BY <1>1, <2>1 DEF NetworkClientRecord
  <2> HIDE DEF queue
  <2>4. RequestsFor(Append(queue, UDPBindAck), TokenFor(b))
    BY <2>2 DEF RequestsFor, UDPBindAck
  <2>5. DOMAIN m_clients' = DOMAIN m_clients /\ (c # b => m_clients'[c] = m_clients[c])
    BY <1>1, <2>1
  <2> QED BY <1>2, <2>3, <2>4, <2>5
<1>9. CASE PumpSend
  <2>1. c \in DOMAIN m_clients /\ m_clients'[c].tcpOutbox = <<>>
    BY <1>1, <1>9 DEF PumpSend, NetworkClientRecord
  <2> QED BY <2>1 DEF RequestsFor
<1>10. ASSUME NEW b \in toRemove, RemoveDisconnected(b)
       PROVE  RequestsFor(m_clients'[c].tcpOutbox, TokenFor(c))
  BY <1>2, <1>10 DEF RemoveDisconnected
<1>11. CASE ServerApplication
  <2>1. c \in DOMAIN m_clients /\ Extended(m_clients[c].tcpOutbox, m_clients'[c].tcpOutbox)
    BY <1>11 DEF ServerApplication, Used
  <2> QED BY <1>2, <2>1, MessagesTyped DEF Extended, RequestsFor
<1>13. CASE NetworkServerStep
  BY <1>4, <1>5, <1>6, <1>7, <1>8, <1>9, <1>10, <1>13
     DEF NetworkServerStep, IgnoreDatagram, CollectDisconnected, serverVars
<1>15. CASE UNCHANGED serverVars
  BY <1>4, <1>15 DEF serverVars
<1>16. ASSUME NEW p \in Process, NEW withPing \in BOOLEAN, ClientApplication(p, withPing)
       PROVE  UNCHANGED serverVars
  BY <1>16 DEF ClientApplication
<1> QED BY <1>11, <1>13, <1>15, <1>16 DEF NetworkNext, networkVars

(* What is in flight to a process: it grows at the end with what pumpSend writes
   and is read from the front, or dropped. *)
LEMMA ToClientFrame ==
    ASSUME NetworkTypeOK, [NetworkNext]_networkVars, NEW p \in Process
    PROVE  \/ toClient'[p] = toClient[p]
           \/ toClient[p] # <<>> /\ toClient'[p] = Tail(toClient[p])
           \/ toClient'[p] = <<>>
           \/ toClient'[p] = toClient[p] \o Written(p)
<1>1. toClient \in [Process -> Seq(Message)]
  BY DEF NetworkTypeOK, TransportTypeOK
<1>2. CASE NetworkServerStep
  BY <1>2 DEF NetworkServerStep, AcceptConnection, ReceiveTCP, DispatchDatagram, HandleUDPBind,
              IgnoreDatagram, PumpSend, CollectDisconnected, RemoveDisconnected,
              transportVars, tcpVars
<1>3. CASE ServerApplication
  BY <1>3 DEF ServerApplication,
              transportVars, tcpVars
<1>4. ASSUME NEW q \in Process, NetworkClientStep(q)
      PROVE  \/ toClient' = toClient
             \/ toClient[q] # <<>> /\ toClient' = [toClient EXCEPT ![q] = Tail(@)]
             \/ toClient' = [toClient EXCEPT ![q] = <<>>]
  BY <1>4 DEF NetworkClientStep, Start, TakeBindRequest, PollBindRequest, TakeBindAck, PollBindAck, Exit,
              ReceiveFromServer, ReceiveDatagram, TakeTCP, transportVars, tcpVars
<1>5. ASSUME NEW q \in Process, NEW withPing \in BOOLEAN, ClientApplication(q, withPing)
      PROVE  toClient' = toClient
  BY <1>5 DEF ClientApplication
<1>6. CASE TransportStep
  BY <1>6 DEF TransportStep, ServerDisconnect, ClientDisconnect, UDPClose, tcpVars
<1>7. CASE UNCHANGED networkVars
  BY <1>7 DEF networkVars, transportVars, tcpVars
<1> QED BY <1>1, <1>2, <1>3, <1>4, <1>5, <1>6, <1>7 DEF NetworkNext

(* What is under way to a process carries its own token: pumpSend only moves
   there what the outbox of its client held. *)
LEMMA ToClientTokensNext ==
    ASSUME BindingInvariant, [NetworkNext]_networkVars, NEW p \in Process, NEW i \in 1 .. Len(toClient'[p]),
           toClient'[p][i].type = "UDPBindRequest"
    PROVE  connID'[p] # 0 /\ toClient'[p][i].token = TokenFor(connID'[p])
<1>1. /\ toClient[p] \in Seq(Message)
      /\ \A c \in DOMAIN m_clients : c # 0 /\ m_clients[c] \in NetworkClientRecord
  BY DEF BindingInvariant, NetworkTypeOK, TransportTypeOK, ServerTypeOK
<1>2. \A j \in 1 .. Len(toClient[p]) :
        toClient[p][j].type = "UDPBindRequest" =>
            connID[p] # 0 /\ toClient[p][j].token = TokenFor(connID[p])
  BY DEF BindingInvariant, Tokens, OwnToken
<1>3. SUFFICES connID[p] # 0 /\ toClient'[p][i].token = TokenFor(connID[p])
  BY ConnIDKept DEF BindingInvariant
<1>4. CASE toClient'[p] = toClient[p]
  BY <1>2, <1>4
<1>5. CASE toClient[p] # <<>> /\ toClient'[p] = Tail(toClient[p])
  <2>1. i + 1 \in 1 .. Len(toClient[p]) /\ toClient'[p][i] = toClient[p][i + 1]
    BY <1>1, <1>5
  <2> QED BY <1>2, <2>1
<1>6. CASE toClient'[p] = <<>>
  BY <1>6
<1>7. CASE toClient'[p] = toClient[p] \o Written(p)
  <2>1. CASE connID[p] \in DOMAIN m_clients
    <3>1. connID[p] # 0
      BY <1>1, <2>1
    <3>2. RequestsFor(toClient[p], TokenFor(connID[p]))
      BY <1>2 DEF RequestsFor
    <3>3. Written(p) \in Seq(Message) /\ RequestsFor(Written(p), TokenFor(connID[p]))
      BY <1>1, <2>1, QueuesTyped DEF Written, RequestsFor, BindingInvariant, Tokens
    <3>4. RequestsFor(toClient[p] \o Written(p), TokenFor(connID[p]))
      BY <1>1, <3>2, <3>3, RequestsAppended
    <3> QED BY <1>7, <3>1, <3>4 DEF RequestsFor
  <2>2. CASE connID[p] \notin DOMAIN m_clients
    <3>1. toClient'[p] = toClient[p]
      BY <1>1, <1>7, <2>2 DEF Written
    <3> QED BY <1>4, <3>1
  <2> QED BY <2>1, <2>2
<1> QED BY <1>4, <1>5, <1>6, <1>7, ToClientFrame DEF BindingInvariant
(* The token a process waits with is the one it read from its connection. *)
LEMMA BindTokenNext ==
    ASSUME BindingInvariant, [NetworkNext]_networkVars, NEW p \in Process, phase'[p] = "waitAck"
    PROVE  connID'[p] # 0 /\ bindToken'[p] = TokenFor(connID'[p])
<1>1. /\ phase \in [Process -> Phase]
      /\ bindToken \in [Process -> Nat]
      /\ toClient[p] \in Seq(Message)
  BY DEF BindingInvariant, NetworkTypeOK, TransportTypeOK, ClientTypeOK
<1>2. SUFFICES connID[p] # 0 /\ bindToken'[p] = TokenFor(connID[p])
  BY ConnIDKept DEF BindingInvariant
<1>3. CASE phase[p] = "waitAck" /\ bindToken'[p] = bindToken[p]
  BY <1>3 DEF BindingInvariant, Tokens, OwnToken
<1>4. CASE TakeBindRequest(p) /\ phase[p] = "waitRequest"
  <2>1. /\ toClient[p] # <<>>
        /\ Head(toClient[p]).type = "UDPBindRequest"
        /\ bindToken' = [bindToken EXCEPT ![p] = Head(toClient[p]).token]
    BY <1>1, <1>4 DEF TakeBindRequest, TakeTCP
  <2>2. 1 \in 1 .. Len(toClient[p]) /\ Head(toClient[p]) = toClient[p][1]
    BY <1>1, <2>1
  <2> QED BY <1>1, <2>1, <2>2 DEF BindingInvariant, Tokens, OwnToken
<1>5. CASE UNCHANGED <<phase, bindToken>>
  BY <1>3, <1>5
<1>6. ASSUME NEW q \in Process, NetworkClientStep(q)
      PROVE  \/ UNCHANGED <<phase, bindToken>>
             \/ bindToken'[p] = bindToken[p] /\ phase[p] = "waitAck"
             \/ TakeBindRequest(p) /\ phase[p] = "waitRequest"
  BY <1>1, <1>6
     DEF NetworkClientStep, Start, TakeBindRequest, PollBindRequest, TakeBindAck, PollBindAck, Exit,
         ReceiveFromServer, ReceiveDatagram, clientVars
<1>7. ASSUME NEW q \in Process, NEW withPing \in BOOLEAN, ClientApplication(q, withPing)
      PROVE  UNCHANGED <<phase, bindToken>>
  BY <1>7 DEF ClientApplication, clientVars
<1>8. CASE ServerApplication
  BY <1>5, <1>8 DEF ServerApplication, clientVars
<1>9. CASE UNCHANGED clientVars
  BY <1>5, <1>9 DEF clientVars
<1> QED BY <1>3, <1>4, <1>5, <1>6, <1>7, <1>8, <1>9 DEF NetworkNext, networkVars

(* Only a process that waits for the acknowledgement sends a UDPBind. *)
LEMMA DatagramFrame ==
    ASSUME NetworkTypeOK, [NetworkNext]_networkVars, NEW d \in udpToServer', d \notin udpToServer,
           d.msg.type = "UDPBind"
    PROVE  \E p \in Process : /\ phase[p] = "waitAck"
                              /\ d = [from |-> EndpointOf[p], msg |-> UDPBind(bindToken[p])]
<1>1. /\ NetworkServerStep => udpToServer' \subseteq udpToServer
      /\ ServerApplication => udpToServer' \subseteq udpToServer
      /\ TransportStep => udpToServer' \subseteq udpToServer
      /\ UNCHANGED networkVars => udpToServer' \subseteq udpToServer
  BY DEF NetworkServerStep, AcceptConnection, ReceiveTCP, DispatchDatagram, HandleUDPBind, IgnoreDatagram,
         TakeDatagram, PumpSend, CollectDisconnected, RemoveDisconnected,
         ServerApplication,
         TransportStep, ServerDisconnect, ClientDisconnect, UDPClose,
         networkVars, transportVars, udpVars
<1>3. ASSUME NEW p \in Process, NetworkClientStep(p)
      PROVE  /\ phase[p] = "waitAck"
             /\ d = [from |-> EndpointOf[p], msg |-> UDPBind(bindToken[p])]
  BY <1>3
     DEF NetworkClientStep, Start, TakeBindRequest, PollBindRequest, TakeBindAck, PollBindAck, Exit,
         ReceiveFromServer, ReceiveDatagram, TakeTCP, transportVars, udpVars
<1>4. ASSUME NEW p \in Process, NEW withPing \in BOOLEAN, ClientApplication(p, withPing)
      PROVE  FALSE
  <2>1. d.msg \in AppMessage \cup {Ping(m_nextPingSeq[p])}
    BY <1>4 DEF ClientApplication
  <2> QED BY <2>1, MessagesTyped DEF Ping
<1> QED BY <1>1, <1>3, <1>4 DEF NetworkNext

(* Wherever a token is after a step, it is that of the right client; a UDPBind
   in flight outlives its client, and its token with it. *)
LEMMA TokensNext ==
    ASSUME BindingInvariant, [NetworkNext]_networkVars
    PROVE  Tokens'
<1>1. \A p \in Process : \A i \in 1 .. Len(toClient'[p]) :
        toClient'[p][i].type = "UDPBindRequest" =>
            connID'[p] # 0 /\ toClient'[p][i].token = TokenFor(connID'[p])
  BY ToClientTokensNext
<1>2. \A c \in DOMAIN m_clients' : \A i \in 1 .. Len(m_clients'[c].tcpOutbox) :
        m_clients'[c].tcpOutbox[i].type = "UDPBindRequest" =>
            m_clients'[c].tcpOutbox[i].token = TokenFor(c)
  BY OutboxTokensNext DEF RequestsFor
<1>3. \A p \in Process :
        phase'[p] = "waitAck" => connID'[p] # 0 /\ bindToken'[p] = TokenFor(connID'[p])
  BY BindTokenNext
<1>4. ASSUME NEW d \in udpToServer', d.msg.type = "UDPBind"
      PROVE  \E p \in Process : /\ d.from = EndpointOf[p]
                                /\ connID'[p] # 0 /\ d.msg.token = TokenFor(connID'[p])
  <2>1. \E p \in Process : /\ d.from = EndpointOf[p]
                           /\ connID[p] # 0 /\ d.msg.token = TokenFor(connID[p])
    <3>1. CASE d \in udpToServer
      BY <1>4, <3>1 DEF BindingInvariant, Tokens, OwnToken
    <3>2. CASE d \notin udpToServer
      <4>1. PICK p \in Process :
              /\ phase[p] = "waitAck"
              /\ d = [from |-> EndpointOf[p], msg |-> UDPBind(bindToken[p])]
        BY <1>4, <3>2, DatagramFrame DEF BindingInvariant
      <4>2. d.from = EndpointOf[p] /\ d.msg.token = bindToken[p]
        BY <4>1 DEF UDPBind
      <4> QED BY <4>1, <4>2 DEF BindingInvariant, Tokens, OwnToken
    <3> QED BY <3>1, <3>2
  <2> QED BY <2>1, ConnIDKept DEF BindingInvariant
<1> QED BY <1>1, <1>2, <1>3, <1>4 DEF Tokens, OwnToken

(* The inductive step: every part of the invariant is preserved. *)
LEMMA BindingNext == BindingInvariant /\ [NetworkNext]_networkVars => BindingInvariant'
<1> SUFFICES ASSUME BindingInvariant, [NetworkNext]_networkVars PROVE BindingInvariant'
  OBVIOUS
<1>1. NetworkTypeOK'
  BY TypeNext DEF BindingInvariant
<1>2. Identities' /\ ClientsIdentified'
  BY IdentitiesNext, ClientsIdentifiedNext DEF BindingInvariant
<1>3. Tokens' /\ BoundToProcess' /\ EndpointMapConsistent'
  BY TokensNext, BoundToProcessNext, EndpointMapConsistentNext
<1> QED BY <1>1, <1>2, <1>3 DEF BindingInvariant

-----------------------------------------------------------------------------
(* The theorems *)

(* The binding invariant of the UDP handshake holds in every state, whatever the
   processes, the endpoints they share, and the bounds. *)
THEOREM BindingCorrect == NetworkSpec => []BindingInvariant
BY BindingInit, BindingNext, PTL DEF NetworkSpec

(* Every variable of NetworkServer, NetworkClient and the transports keeps its
   type; above all, a datagram is only ever sent to a real endpoint. *)
THEOREM TypeCorrect == NetworkSpec => []NetworkTypeOK
BY BindingCorrect, PTL DEF BindingInvariant

(* handleUDPBind, removeNetworkClient and the receive loop keep the endpoint map
   and the client table in step. *)
THEOREM EndpointMapCorrect == NetworkSpec => []EndpointMapConsistent
BY BindingCorrect, PTL DEF BindingInvariant

(* Within any one step the connect callback starts only for a client that was not
   connected: no retry of a UDPBind makes it run again. *)
LEMMA ConnectStep ==
    ASSUME BindingInvariant, [NetworkNext]_networkVars, NEW c \in DOMAIN m_clients,
           callback' = [kind |-> "connect", client |-> c], callback' # callback
    PROVE  m_clients[c].status # "Connected"
<1>1. PICK d \in udpToServer : HandleUDPBind(d)
  <2>1. CASE NetworkServerStep
    BY <2>1 DEF NetworkServerStep, AcceptConnection, ReceiveTCP, DispatchDatagram, IgnoreDatagram,
                PumpSend, CollectDisconnected, RemoveDisconnected, serverVars
  <2>2. CASE ServerApplication
    BY <2>2 DEF ServerApplication, NoCallback
  <2>3. UNCHANGED serverVars => UNCHANGED callback
    BY DEF serverVars
  <2>4. \A p \in Process, withPing \in BOOLEAN : ClientApplication(p, withPing) => UNCHANGED serverVars
    BY DEF ClientApplication
  <2> QED BY <2>1, <2>2, <2>3, <2>4 DEF NetworkNext, networkVars
<1>2. PICK b \in ClientsWithToken(d.msg.token) : callback' = [kind |-> "connect", client |-> b]
  BY <1>1 DEF HandleUDPBind
<1>3. b = c
  BY <1>2
<1> QED BY <1>1, <1>2, <1>3, BindsOnce

(* The connect callback, which gives a client its player, runs for it once. *)
THEOREM ConnectsOnce == NetworkSpec => ConnectOnce
<1> DEFINE Step == \A c \in DOMAIN m_clients :
                     callback' = [kind |-> "connect", client |-> c] /\ callback' # callback
                        => m_clients[c].status # "Connected"
<1>1. BindingInvariant /\ [NetworkNext]_networkVars => Step
  BY ConnectStep
<1>2. BindingInvariant /\ [NetworkNext]_networkVars => [Step]_networkVars
  BY <1>1
<1> QED BY <1>2, BindingCorrect, PTL DEF NetworkSpec, ConnectOnce

-----------------------------------------------------------------------------
(* The inductive invariant, on top of BindingInvariant *)

HasAck(msgs) == \E i \in 1 .. Len(msgs) : msgs[i].type = "UDPBindAck"

(* The client of process p is bound, or it was and has been removed. *)
IsBound(p) ==
    /\ connID[p] # 0
    /\ connID[p] \in DOMAIN m_clients => m_clients[connID[p]].status = "Connected"

(* The acknowledgement is made when the client is bound, and nothing is sent
   before it is read. *)
AckFollowsBinding ==
    /\ \A p \in Process : phase[p] = "connected" => IsBound(p)
    /\ \A p \in Process : HasAck(toClient[p]) => IsBound(p)
    /\ \A p \in Process : toServer[p] # <<>> => IsBound(p)
    /\ \A c \in DOMAIN m_clients :
         HasAck(m_clients[c].tcpOutbox) => m_clients[c].status = "Connected"

InboxInvariant == AckFollowsBinding /\ InboxOnlyFromConnected

LEMMA InboxInit == NetworkInit => InboxInvariant
BY DEF NetworkInit, TransportInit, ServerInit, ClientInit, InboxInvariant, AckFollowsBinding,
       InboxOnlyFromConnected, HasAck

-----------------------------------------------------------------------------
(* A client that is bound stays bound until it is removed. *)
LEMMA BoundKept ==
    ASSUME BindingInvariant, [NetworkNext]_networkVars, NEW p \in Process, IsBound(p)
    PROVE  IsBound(p)'
<1>1. /\ \A b \in DOMAIN m_clients : m_clients[b] \in NetworkClientRecord
      /\ connID[p] \in Nat /\ m_nextClientID \in Nat /\ connID[p] < m_nextClientID
      /\ connID[p] # 0
  BY DEF BindingInvariant, NetworkTypeOK, ServerTypeOK, TransportTypeOK, Identities, IsBound
<1>2. connID'[p] = connID[p]
  BY <1>1, ConnIDKept DEF BindingInvariant
<1> DEFINE c == connID[p]
<1>3. SUFFICES ASSUME c \in DOMAIN m_clients' PROVE m_clients'[c].status = "Connected"
  BY <1>1, <1>2 DEF IsBound
<1>4. CASE AcceptConnection
  <2>1. c # m_nextClientID
    BY <1>1
  <2>2. c \in DOMAIN m_clients /\ m_clients'[c] = m_clients[c]
    <3> HIDE DEF c
    <3> QED BY <1>3, <1>4, <2>1 DEF AcceptConnection
  <2> QED BY <2>2 DEF IsBound
<1>5. ASSUME NEW d \in udpToServer, HandleUDPBind(d) PROVE m_clients'[c].status = "Connected"
  <2>1. PICK b \in DOMAIN m_clients :
          m_clients' = [m_clients EXCEPT ![b].udpEndpoint = d.from,
                                         ![b].status = "Connected",
                                         ![b].tcpOutbox = Append(@, UDPBindAck)]
    BY <1>5 DEF HandleUDPBind, ClientsWithToken
  <2>2. c \in DOMAIN m_clients
    BY <1>3, <2>1
  <2>3. m_clients[c].status = "Connected"
    BY <2>2 DEF IsBound
  <2> HIDE DEF c
  <2> QED BY <1>1, <2>1, <2>2, <2>3 DEF NetworkClientRecord
<1>6. ASSUME NEW b \in toRemove, RemoveDisconnected(b) PROVE m_clients'[c].status = "Connected"
  <2>1. c \in DOMAIN m_clients /\ m_clients'[c] = m_clients[c]
    BY <1>3, <1>6 DEF RemoveDisconnected
  <2> QED BY <2>1 DEF IsBound
<1>7. CASE /\ DOMAIN m_clients' = DOMAIN m_clients
           /\ \A b \in DOMAIN m_clients : SameBinding(m_clients'[b], m_clients[b])
  BY <1>3, <1>7 DEF IsBound, SameBinding
<1> QED BY <1>4, <1>5, <1>6, <1>7, BindingFrame DEF BindingInvariant

-----------------------------------------------------------------------------
(* What reaches the server's process p was sent after the handshake. *)
LEMMA ToServerFrame ==
    ASSUME NetworkTypeOK, [NetworkNext]_networkVars, NEW p \in Process, toServer'[p] # <<>>
    PROVE  toServer[p] # <<>> \/ phase[p] = "connected"
<1>1. toServer \in [Process -> Seq(Message)]
  BY DEF NetworkTypeOK, TransportTypeOK
<1>2. ASSUME NEW c \in DOMAIN m_clients, ReceiveTCP(c) PROVE toServer[p] # <<>>
  BY <1>1, <1>2 DEF ReceiveTCP
<1>3. ASSUME NEW c \in toRemove, RemoveDisconnected(c) PROVE toServer[p] # <<>>
  BY <1>1, <1>3 DEF RemoveDisconnected
<1>4. CASE NetworkServerStep
  BY <1>2, <1>3, <1>4
     DEF NetworkServerStep, AcceptConnection, DispatchDatagram, HandleUDPBind,
         IgnoreDatagram, PumpSend, CollectDisconnected, transportVars, tcpVars
<1>5. CASE ServerApplication
  BY <1>5 DEF ServerApplication,
              transportVars, tcpVars
<1>6. ASSUME NEW q \in Process, NetworkClientStep(q)
      PROVE  toServer' = toServer
  BY <1>6 DEF NetworkClientStep, Start, TakeBindRequest, PollBindRequest, TakeBindAck, PollBindAck, Exit,
              ReceiveFromServer, ReceiveDatagram, TakeTCP, transportVars, tcpVars
<1>7. ASSUME NEW q \in Process, NEW withPing \in BOOLEAN, ClientApplication(q, withPing)
      PROVE  phase[q] = "connected" /\ (p # q => toServer'[p] = toServer[p])
  BY <1>1, <1>7 DEF ClientApplication
<1>8. CASE TransportStep
  BY <1>8 DEF TransportStep, ServerDisconnect, ClientDisconnect, UDPClose, tcpVars
<1>9. CASE UNCHANGED networkVars
  BY <1>9 DEF networkVars, transportVars, tcpVars
<1> QED BY <1>4, <1>5, <1>6, <1>7, <1>8, <1>9 DEF NetworkNext

(* A process is connected when it has read the acknowledgement. *)
LEMMA PhaseFrame ==
    ASSUME NetworkTypeOK, [NetworkNext]_networkVars, NEW p \in Process, phase'[p] = "connected"
    PROVE  phase[p] = "connected" \/ HasAck(toClient[p])
<1>1. toClient \in [Process -> Seq(Message)] /\ phase \in [Process -> Phase]
  BY DEF NetworkTypeOK, TransportTypeOK, ClientTypeOK
<1>2. ASSUME NEW q \in Process, TakeBindAck(q)
      PROVE  phase[p] = "connected" \/ HasAck(toClient[p])
  <2>1. CASE p # q
    BY <1>1, <1>2, <2>1 DEF TakeBindAck
  <2>2. CASE p = q
    <3>1. toClient[p] # <<>>
          /\ phase' = [phase EXCEPT ![p] =
                         IF Head(toClient[p]).type = "UDPBindAck" THEN "connected" ELSE @]
      BY <1>2, <2>2 DEF TakeBindAck, TakeTCP
    <3>2. toClient[p][1].type = "UDPBindAck" \/ phase[p] = "connected"
      BY <1>1, <3>1
    <3>3. 1 \in 1 .. Len(toClient[p])
      BY <1>1, <3>1
    <3> QED BY <3>2, <3>3 DEF HasAck
  <2> QED BY <2>1, <2>2
<1>3. ASSUME NEW q \in Process, Start(q) \/ TakeBindRequest(q) \/ Exit(q) PROVE phase[p] = "connected"
  BY <1>1, <1>3 DEF Start, TakeBindRequest, Exit
<1>4. ASSUME NEW q \in Process, NetworkClientStep(q)
      PROVE  phase[p] = "connected" \/ HasAck(toClient[p])
  BY <1>2, <1>3, <1>4 DEF NetworkClientStep, PollBindRequest, PollBindAck, ReceiveFromServer,
                          ReceiveDatagram, clientVars
<1>5. ASSUME NEW q \in Process, NEW withPing \in BOOLEAN, ClientApplication(q, withPing) PROVE phase' = phase
  BY <1>5 DEF ClientApplication, clientVars
<1>6. CASE ServerApplication
  BY <1>6 DEF ServerApplication, clientVars
<1>7. CASE UNCHANGED clientVars
  BY <1>7 DEF clientVars
<1> QED BY <1>4, <1>5, <1>6, <1>7 DEF NetworkNext, networkVars

(* An acknowledgement on its way to p was there before, or in its client's outbox. *)
LEMMA AckFrame ==
    ASSUME NetworkTypeOK, [NetworkNext]_networkVars, NEW p \in Process, HasAck(toClient'[p])
    PROVE  HasAck(toClient[p]) \/ HasAck(Written(p))
<1>1. toClient[p] \in Seq(Message)
  BY DEF NetworkTypeOK, TransportTypeOK
<1>2. PICK i \in 1 .. Len(toClient'[p]) : toClient'[p][i].type = "UDPBindAck"
  BY DEF HasAck
<1>3. CASE toClient'[p] = toClient[p]
  BY <1>3
<1>4. CASE toClient[p] # <<>> /\ toClient'[p] = Tail(toClient[p])
  <2>1. i + 1 \in 1 .. Len(toClient[p]) /\ toClient'[p][i] = toClient[p][i + 1]
    BY <1>1, <1>2, <1>4
  <2> QED BY <1>2, <2>1 DEF HasAck
<1>5. CASE toClient'[p] = <<>>
  BY <1>2, <1>5
<1>6. CASE toClient'[p] = toClient[p] \o Written(p)
  <2>1. Written(p) \in Seq(Message)
    <3>1. \A c \in DOMAIN m_clients : m_clients[c] \in NetworkClientRecord
      BY DEF NetworkTypeOK, ServerTypeOK
    <3> QED BY <3>1, NoMessages, QueuesTyped DEF Written
  <2>2. CASE i \in 1 .. Len(toClient[p])
    <3>1. toClient'[p][i] = toClient[p][i]
      BY <1>1, <1>6, <2>1, <2>2
    <3> QED BY <1>2, <2>2, <3>1 DEF HasAck
  <2>3. CASE i \notin 1 .. Len(toClient[p])
    <3> DEFINE k == i - Len(toClient[p])
    <3>1. k \in 1 .. Len(Written(p)) /\ toClient'[p][i] = Written(p)[k]
      BY <1>1, <1>2, <1>6, <2>1, <2>3
    <3> HIDE DEF k
    <3> QED BY <1>2, <3>1 DEF HasAck
  <2> QED BY <2>2, <2>3
<1> QED BY <1>3, <1>4, <1>5, <1>6, ToClientFrame

-----------------------------------------------------------------------------
(* Outboxes and inboxes *)

(* Queues that got no acknowledgement, and no message but for the client target. *)
QuietBut(clients, after, target) ==
    \A c \in DOMAIN clients :
        /\ HasAck(after[c].tcpOutbox) => HasAck(clients[c].tcpOutbox)
        /\ c # target /\ after[c].inbox # <<>> => clients[c].inbox # <<>>

LEMMA NoAckAppended ==
    ASSUME NEW old \in Seq(Message), NEW msgs \in Seq(Message), ~HasAck(msgs), HasAck(old \o msgs)
    PROVE  HasAck(old)
<1>1. PICK i \in 1 .. Len(old \o msgs) : (old \o msgs)[i].type = "UDPBindAck"
  BY DEF HasAck
<1>2. CASE i \in 1 .. Len(old)
  BY <1>1, <1>2 DEF HasAck
<1>3. CASE i \notin 1 .. Len(old)
  <2> DEFINE k == i - Len(old)
  <2>1. k \in 1 .. Len(msgs) /\ (old \o msgs)[i] = msgs[k]
    BY <1>1, <1>3
  <2> HIDE DEF k
  <2> QED BY <1>1, <2>1 DEF HasAck
<1> QED BY <1>2, <1>3

LEMMA QueueMessagesQuiet ==
    ASSUME NEW clients, clients \in [DOMAIN clients -> NetworkClientRecord],
           NEW msgs \in Seq(Message), ~HasAck(msgs), NEW C, NEW transport, NEW target
    PROVE  QuietBut(clients, QueueMessages(clients, C, msgs, transport), target)
<1> DEFINE after == QueueMessages(clients, C, msgs, transport)
<1> SUFFICES ASSUME NEW c \in DOMAIN clients
             PROVE  /\ HasAck(after[c].tcpOutbox) => HasAck(clients[c].tcpOutbox)
                    /\ after[c].inbox = clients[c].inbox
  BY DEF QuietBut
<1>1. clients[c] \in NetworkClientRecord
  OBVIOUS
<1>2. CASE transport = "TCP"
  <2>1. after = QueueTCP(clients, C, msgs)
    BY <1>2 DEF QueueMessages
  <2>2. /\ [clients[c] EXCEPT !.tcpOutbox = clients[c].tcpOutbox \o msgs].tcpOutbox
             = clients[c].tcpOutbox \o msgs
        /\ [clients[c] EXCEPT !.tcpOutbox = clients[c].tcpOutbox \o msgs].inbox = clients[c].inbox
    BY <1>1 DEF NetworkClientRecord
  <2>3. /\ after[c].tcpOutbox \in {clients[c].tcpOutbox, clients[c].tcpOutbox \o msgs}
        /\ after[c].inbox = clients[c].inbox
    BY <2>1, <2>2 DEF QueueTCP
  <2>4. clients[c].tcpOutbox \in Seq(Message)
    BY <1>1, QueuesTyped
  <2> QED BY <2>3, <2>4, NoAckAppended
<1>3. CASE transport # "TCP"
  <2>1. after = QueueUDP(clients, C, msgs)
    BY <1>3 DEF QueueMessages
  <2>2. /\ [clients[c] EXCEPT !.udpOutbox = clients[c].udpOutbox \o msgs].tcpOutbox
             = clients[c].tcpOutbox
        /\ [clients[c] EXCEPT !.udpOutbox = clients[c].udpOutbox \o msgs].inbox = clients[c].inbox
    BY <1>1 DEF NetworkClientRecord
  <2>3. after[c].tcpOutbox = clients[c].tcpOutbox /\ after[c].inbox = clients[c].inbox
    BY <2>1, <2>2 DEF QueueUDP
  <2> QED BY <2>3
<1> QED BY <1>2, <1>3

LEMMA DispatchQuiet ==
    ASSUME NEW clients, clients \in [DOMAIN clients -> NetworkClientRecord],
           NEW msg \in Message, NEW target, NEW transport
    PROVE  QuietBut(clients, Dispatch(clients, target, msg, transport), target)
<1>1. CASE msg.type = "Ping"
  <2> DEFINE C == {target}
             msgs == <<Pong(msg.seq)>>
  <2>1. Dispatch(clients, target, msg, transport) = QueueMessages(clients, C, msgs, transport)
    BY <1>1 DEF Dispatch
  <2>2. msgs \in Seq(Message) /\ ~HasAck(msgs)
    BY <1>1, MessagesTyped DEF HasAck, Pong
  <2> HIDE DEF C, msgs
  <2> QED BY <2>1, <2>2, QueueMessagesQuiet
<1>2. CASE msg.type # "Ping"
  <2> DEFINE after == Dispatch(clients, target, msg, transport)
  <2>1. ASSUME NEW c \in DOMAIN clients
        PROVE  /\ after[c].tcpOutbox = clients[c].tcpOutbox
               /\ c # target => after[c].inbox = clients[c].inbox
    <3>1. clients[c] \in NetworkClientRecord
      OBVIOUS
    <3>2. [clients[c] EXCEPT !.inbox = Append(clients[c].inbox, msg)].tcpOutbox
            = clients[c].tcpOutbox
      BY <3>1 DEF NetworkClientRecord
    <3> QED BY <1>2, <3>2 DEF Dispatch
  <2> QED BY <2>1 DEF QuietBut
<1> QED BY <1>1, <1>2

-----------------------------------------------------------------------------
(* What the invariant says of one client. *)
ClientQuiet(clients, c) ==
    HasAck(clients[c].tcpOutbox) \/ clients[c].inbox # <<>> => clients[c].status = "Connected"

(* A dispatch to a client that is bound. *)
LEMMA DispatchStep ==
    ASSUME BindingInvariant, \A b \in DOMAIN m_clients : ClientQuiet(m_clients, b),
           NEW msg \in Message, NEW transport, NEW target \in DOMAIN m_clients,
           m_clients[target].status = "Connected",
           m_clients' = Dispatch(m_clients, target, msg, transport),
           NEW c \in DOMAIN m_clients'
    PROVE  ClientQuiet(m_clients', c)
<1>1. m_clients \in [DOMAIN m_clients -> NetworkClientRecord]
  BY DEF BindingInvariant, NetworkTypeOK, ServerTypeOK
<1>2. DOMAIN m_clients' = DOMAIN m_clients
  BY DEF Dispatch, QueueMessages, QueueTCP, QueueUDP
<1>3. QuietBut(m_clients, m_clients', target)
  BY <1>1, DispatchQuiet
<1>4. SameBinding(m_clients'[c], m_clients[c])
  BY <1>1, <1>2, DispatchKeepsBinding
<1> QED BY <1>2, <1>3, <1>4 DEF QuietBut, SameBinding, ClientQuiet

LEMMA ClientQuietNext ==
    ASSUME BindingInvariant, InboxInvariant, [NetworkNext]_networkVars, NEW c \in DOMAIN m_clients'
    PROVE  ClientQuiet(m_clients', c)
<1>1. /\ m_clients \in [DOMAIN m_clients -> NetworkClientRecord]
      /\ \A b \in DOMAIN m_clients : m_clients[b] \in NetworkClientRecord
  BY DEF BindingInvariant, NetworkTypeOK, ServerTypeOK
<1>2. \A b \in DOMAIN m_clients : ClientQuiet(m_clients, b)
  BY DEF InboxInvariant, AckFollowsBinding, InboxOnlyFromConnected, ClientQuiet
<1>3. CASE UNCHANGED m_clients
  BY <1>2, <1>3 DEF ClientQuiet
<1>4. CASE AcceptConnection
  <2>1. NewClient(Head(m_newConnections)).inbox = <<>>
        /\ ~HasAck(NewClient(Head(m_newConnections)).tcpOutbox)
    BY DEF NewClient, HasAck, UDPBindRequest
  <2> QED BY <1>2, <1>4, <2>1 DEF AcceptConnection, ClientQuiet
<1>5. ASSUME NEW b \in DOMAIN m_clients, ReceiveTCP(b) PROVE ClientQuiet(m_clients', c)
  <2> DEFINE p == m_clients[b].tcpConnection
             msg == Head(toServer[p])
  <2>1. m_clients' = Dispatch(m_clients, b, msg, "TCP") /\ toServer[p] # <<>>
    BY <1>5 DEF ReceiveTCP
  <2>2. p \in Process /\ connID[p] = b
    BY <1>1 DEF NetworkClientRecord, BindingInvariant, ClientsIdentified
  <2>3. msg \in Message
    BY <2>1, <2>2 DEF BindingInvariant, NetworkTypeOK, TransportTypeOK
  <2>4. m_clients[b].status = "Connected"
    BY <2>1, <2>2 DEF InboxInvariant, AckFollowsBinding, IsBound
  <2> HIDE DEF p, msg
  <2> QED BY <1>2, <2>1, <2>3, <2>4, DispatchStep
<1>6. ASSUME NEW d \in udpToServer, DispatchDatagram(d) PROVE ClientQuiet(m_clients', c)
  <2> DEFINE target == m_udpEndpointToClientID[d.from]
             msg == d.msg
  <2>1. m_clients' = Dispatch(m_clients, target, msg, "UDP")
        /\ d.from \in DOMAIN m_udpEndpointToClientID
    BY <1>6 DEF DispatchDatagram
  <2>2. msg \in Message /\ d.from \in Endpoint
    BY DEF BindingInvariant, NetworkTypeOK, TransportTypeOK, ToServerDatagram
  <2>3. target \in DOMAIN m_clients /\ m_clients[target].udpEndpoint = d.from
    BY <2>1 DEF BindingInvariant, EndpointMapConsistent
  <2>4. m_clients[target].status = "Connected"
    BY <2>2, <2>3, NoEndpointAssumption DEF BindingInvariant, EndpointMapConsistent
  <2> HIDE DEF target, msg
  <2> QED BY <1>2, <2>1, <2>2, <2>3, <2>4, DispatchStep
<1>7. ASSUME NEW d \in udpToServer, HandleUDPBind(d) PROVE ClientQuiet(m_clients', c)
  <2>1. PICK b \in DOMAIN m_clients :
          m_clients' = [m_clients EXCEPT ![b].udpEndpoint = d.from,
                                         ![b].status = "Connected",
                                         ![b].tcpOutbox = Append(@, UDPBindAck)]
    BY <1>7 DEF HandleUDPBind, ClientsWithToken
  <2>2. CASE c = b
    <3>1. m_clients'[c].status = "Connected"
      BY <1>1, <2>1, <2>2 DEF NetworkClientRecord
    <3> QED BY <3>1 DEF ClientQuiet
  <2>3. CASE c # b
    <3>1. c \in DOMAIN m_clients /\ m_clients'[c] = m_clients[c]
      BY <1>1, <2>1, <2>3
    <3> QED BY <1>2, <3>1 DEF ClientQuiet
  <2> QED BY <2>2, <2>3
<1>8. CASE PumpSend
  <2>1. m_clients' = [b \in DOMAIN m_clients |->
                        [m_clients[b] EXCEPT !.tcpOutbox = <<>>, !.udpOutbox = <<>>]]
    BY <1>8 DEF PumpSend
  <2>2. /\ c \in DOMAIN m_clients /\ m_clients'[c].tcpOutbox = <<>>
        /\ m_clients'[c].inbox = m_clients[c].inbox /\ m_clients'[c].status = m_clients[c].status
    BY <1>1, <2>1 DEF NetworkClientRecord
  <2> QED BY <1>2, <2>2 DEF ClientQuiet, HasAck
<1>9. ASSUME NEW b \in toRemove, RemoveDisconnected(b) PROVE ClientQuiet(m_clients', c)
  BY <1>2, <1>9 DEF RemoveDisconnected, ClientQuiet
<1>10. CASE ServerApplication
  <2>1. /\ c \in DOMAIN m_clients /\ Extended(m_clients[c].tcpOutbox, m_clients'[c].tcpOutbox)
        /\ m_clients'[c].status = m_clients[c].status
        /\ m_clients'[c].inbox \in {m_clients[c].inbox, <<>>}
    BY <1>10 DEF ServerApplication, Used, SameBinding
  <2>2. HasAck(m_clients'[c].tcpOutbox) => HasAck(m_clients[c].tcpOutbox)
    BY <2>1 DEF HasAck, Extended, AppMessage
  <2> QED BY <1>2, <2>1, <2>2 DEF ClientQuiet
<1>12. CASE NetworkServerStep
  BY <1>3, <1>4, <1>5, <1>6, <1>7, <1>8, <1>9, <1>12
     DEF NetworkServerStep, IgnoreDatagram, CollectDisconnected, serverVars
<1>14. CASE UNCHANGED serverVars
  BY <1>3, <1>14 DEF serverVars
<1>15. ASSUME NEW p \in Process, NEW withPing \in BOOLEAN, ClientApplication(p, withPing)
       PROVE  UNCHANGED serverVars
  BY <1>15 DEF ClientApplication, clientVars
<1> QED BY <1>10, <1>12, <1>14, <1>15 DEF NetworkNext, networkVars

LEMMA InboxNext == BindingInvariant /\ InboxInvariant /\ [NetworkNext]_networkVars => InboxInvariant'
<1> SUFFICES ASSUME BindingInvariant, InboxInvariant, [NetworkNext]_networkVars PROVE InboxInvariant'
  OBVIOUS
<1>1. NetworkTypeOK
  BY DEF BindingInvariant
<1>2. ASSUME NEW p \in Process, phase'[p] = "connected" PROVE IsBound(p)'
  <2>1. IsBound(p)
    BY <1>1, <1>2, PhaseFrame DEF InboxInvariant, AckFollowsBinding
  <2> QED BY <2>1, BoundKept
<1>3. ASSUME NEW p \in Process, HasAck(toClient'[p]) PROVE IsBound(p)'
  <2>1. HasAck(toClient[p]) \/ HasAck(Written(p))
    BY <1>1, <1>3, AckFrame
  <2>2. ASSUME HasAck(Written(p)) PROVE IsBound(p)
    <3>1. connID[p] \in DOMAIN m_clients /\ Written(p) = m_clients[connID[p]].tcpOutbox
      BY <2>2 DEF Written, HasAck
    <3>2. connID[p] # 0
      BY <1>1, <3>1 DEF NetworkTypeOK, ServerTypeOK
    <3> QED BY <2>2, <3>1, <3>2 DEF InboxInvariant, AckFollowsBinding, IsBound
  <2>3. IsBound(p)
    BY <2>1, <2>2 DEF InboxInvariant, AckFollowsBinding
  <2> QED BY <2>3, BoundKept
<1>4. ASSUME NEW p \in Process, toServer'[p] # <<>> PROVE IsBound(p)'
  <2>1. IsBound(p)
    BY <1>1, <1>4, ToServerFrame DEF InboxInvariant, AckFollowsBinding
  <2> QED BY <2>1, BoundKept
<1>5. \A c \in DOMAIN m_clients' : ClientQuiet(m_clients', c)
  BY ClientQuietNext
<1>6. AckFollowsBinding'
  BY <1>2, <1>3, <1>4, <1>5 DEF AckFollowsBinding, HasAck, ClientQuiet
<1>7. InboxOnlyFromConnected'
  BY <1>5 DEF InboxOnlyFromConnected, ClientQuiet
<1> QED BY <1>6, <1>7 DEF InboxInvariant

(* Nothing reaches the application from a client that is not bound.  The server
   does not check the status of the client whose TCP connection it reads
   (network_server.h:153-168): it rests on the client sending nothing before the
   acknowledgement, and on that being queued when the client is bound. *)
THEOREM InboxFromConnected == NetworkSpec => []InboxOnlyFromConnected
<1>1. NetworkInit => InboxInvariant
  BY InboxInit
<1>2. BindingInvariant /\ InboxInvariant /\ [NetworkNext]_networkVars => InboxInvariant'
  BY InboxNext
<1>3. InboxInvariant => InboxOnlyFromConnected
  BY DEF InboxInvariant
<1>4. NetworkSpec => []BindingInvariant
  BY BindingCorrect
<1> QED BY <1>1, <1>2, <1>3, <1>4, PTL DEF NetworkSpec

-----------------------------------------------------------------------------
(* What is still to come to a process, step by step *)

Outbox(p) == IF connID[p] \in DOMAIN m_clients THEN m_clients[connID[p]].tcpOutbox ELSE <<>>

Linked(p) == connID[p] \in DOMAIN m_clients /\ serverOpen[p] /\ clientOpen[p]

(* What the server itself adds to what is to come to p: the request when it
   accepts the connection, the acknowledgement when it binds the client, and the
   answer to a ping it has just read. *)
Asked(p, msg) ==
    /\ AcceptConnection /\ p = Head(m_newConnections)
    /\ msg = UDPBindRequest(TokenFor(m_nextClientID))

Acknowledged(p, msg) ==
    /\ \E d \in udpToServer : HandleUDPBind(d) /\ d.msg.token = TokenFor(connID[p])
    /\ connID[p] \in DOMAIN m_clients
    /\ msg = UDPBindAck

Answered(p, msg) ==
    /\ toServer[p] # <<>> /\ toServer'[p] = Tail(toServer[p])
    /\ Head(toServer[p]).type = "Ping"
    /\ msg = Pong(Head(toServer[p]).seq)

News(p, msg) == Asked(p, msg) \/ Acknowledged(p, msg) \/ Answered(p, msg)

(* A step of the application that changes a client's queues. *)
Queues == ServerApplication /\ ~NetworkServerStep /\ m_clients' # m_clients

OutboxGrows(p) ==
    \/ Outbox(p)' = Outbox(p)
    \/ Queues /\ Extended(Outbox(p), Outbox(p)')
    \/ \E msg \in Message : Outbox(p)' = Append(Outbox(p), msg) /\ News(p, msg)

(* No step sets a client's status to Disconnected. *)
NoneDisconnected == \A c \in DOMAIN m_clients : m_clients[c].status # "Disconnected"

LEMMA OutboxTyped ==
    ASSUME NetworkTypeOK, NEW p \in Process
    PROVE  Outbox(p) \in Seq(Message)
<1>1. \A c \in DOMAIN m_clients : m_clients[c] \in NetworkClientRecord
  BY DEF NetworkTypeOK, ServerTypeOK
<1> QED BY <1>1, NoMessages, QueuesTyped DEF Outbox

LEMMA AcceptFrame ==
    ASSUME BindingInvariant, AcceptConnection, NEW p \in Process
    PROVE  OutboxGrows(p)
<1>1. /\ m_newConnections \in Seq(Process) /\ connID \in [Process -> Nat]
      /\ m_nextClientID \in Nat /\ connID[p] < m_nextClientID
      /\ 0 \notin DOMAIN m_clients
  BY DEF BindingInvariant, NetworkTypeOK, TransportTypeOK, ServerTypeOK, Identities
<1>2. /\ m_newConnections # <<>>
      /\ connID' = [connID EXCEPT ![Head(m_newConnections)] = m_nextClientID]
      /\ m_clients' = [c \in DOMAIN m_clients \cup {m_nextClientID} |->
                         IF c = m_nextClientID THEN NewClient(Head(m_newConnections))
                                               ELSE m_clients[c]]
  BY DEF AcceptConnection
<1>3. CASE p = Head(m_newConnections)
  <2> DEFINE msg == UDPBindRequest(TokenFor(m_nextClientID))
  <2>1. m_newConnections[1] = p /\ 1 \in 1 .. Len(m_newConnections)
    BY <1>1, <1>2, <1>3
  <2>2. connID[p] = 0
    BY <2>1 DEF BindingInvariant, Identities
  <2>3. Outbox(p) = <<>>
    BY <1>1, <2>2 DEF Outbox
  <2>4. connID'[p] = m_nextClientID /\ m_clients'[m_nextClientID] = NewClient(p)
    BY <1>1, <1>2, <1>3
  <2>5. Outbox(p)' = <<msg>>
    BY <1>2, <2>4 DEF Outbox, NewClient
  <2>6. msg \in Message /\ Asked(p, msg)
    BY <1>1, <1>3, MessagesTyped DEF Asked, TokenFor
  <2> HIDE DEF msg
  <2>7. Outbox(p)' = Append(Outbox(p), msg)
    BY <2>3, <2>5
  <2> QED BY <2>6, <2>7 DEF OutboxGrows, News
<1>4. CASE p # Head(m_newConnections)
  <2>1. connID'[p] = connID[p] /\ connID[p] # m_nextClientID
    BY <1>1, <1>2, <1>4
  <2>2. Outbox(p)' = Outbox(p)
    BY <1>2, <2>1 DEF Outbox
  <2> QED BY <2>2 DEF OutboxGrows
<1> QED BY <1>3, <1>4

LEMMA ReceiveFrame ==
    ASSUME BindingInvariant, NEW c \in DOMAIN m_clients, ReceiveTCP(c), NEW p \in Process
    PROVE  OutboxGrows(p)
<1> DEFINE q == m_clients[c].tcpConnection
           msg == Head(toServer[q])
<1>1. /\ \A b \in DOMAIN m_clients : m_clients[b] \in NetworkClientRecord
      /\ toServer \in [Process -> Seq(Message)]
      /\ c # 0
  BY DEF BindingInvariant, NetworkTypeOK, TransportTypeOK, ServerTypeOK
<1>2. q \in Process /\ connID[q] = c
  BY <1>1 DEF BindingInvariant, ClientsIdentified, NetworkClientRecord
<1>3. /\ toServer[q] # <<>> /\ toServer' = [toServer EXCEPT ![q] = Tail(@)]
      /\ m_clients' = Dispatch(m_clients, c, msg, "TCP") /\ connID' = connID
  BY DEF ReceiveTCP
<1>4. msg \in Message
  BY <1>1, <1>2, <1>3
<1>5. CASE msg.type = "Ping" /\ p = q
  <2> DEFINE pong == Pong(msg.seq)
  <2>1. pong \in Message
    BY <1>4, <1>5, MessagesTyped
  <2>2. m_clients' = QueueTCP(m_clients, {c}, <<pong>>)
    BY <1>3, <1>5 DEF Dispatch, QueueMessages
  <2>3. Answered(p, pong)
    BY <1>1, <1>2, <1>3, <1>5 DEF Answered
  <2> HIDE DEF pong
  <2>4. m_clients'[c].tcpOutbox = m_clients[c].tcpOutbox \o <<pong>>
    BY <1>1, <2>2 DEF QueueTCP, NetworkClientRecord
  <2>5. m_clients[c].tcpOutbox \in Seq(Message)
    BY <1>1, QueuesTyped
  <2>6. connID[p] = c /\ connID'[p] = c /\ DOMAIN m_clients' = DOMAIN m_clients
    BY <1>2, <1>3, <1>5, <2>2 DEF QueueTCP
  <2>7. Outbox(p) = m_clients[c].tcpOutbox /\ Outbox(p)' = m_clients'[c].tcpOutbox
    BY <2>6 DEF Outbox
  <2>8. Outbox(p)' = Append(Outbox(p), pong)
    BY <2>4, <2>5, <2>7
  <2> QED BY <2>1, <2>3, <2>8 DEF OutboxGrows, News
<1>6. CASE msg.type # "Ping" \/ p # q
  <2>1. connID[p] = c => p = q
    BY <1>1, <1>2 DEF BindingInvariant, Identities
  <2>2. DOMAIN m_clients' = DOMAIN m_clients
    BY <1>3 DEF Dispatch, QueueMessages, QueueTCP, QueueUDP
  <2>3. ASSUME NEW b \in DOMAIN m_clients, msg.type # "Ping" \/ b # c
        PROVE  m_clients'[b].tcpOutbox = m_clients[b].tcpOutbox
    <3>1. [m_clients[b] EXCEPT !.inbox = Append(@, msg)].tcpOutbox = m_clients[b].tcpOutbox
      BY <1>1 DEF NetworkClientRecord
    <3> HIDE DEF msg
    <3> QED BY <1>3, <2>3, <3>1 DEF Dispatch, QueueMessages, QueueTCP
  <2>4. Outbox(p)' = Outbox(p)
    BY <1>3, <1>6, <2>1, <2>2, <2>3 DEF Outbox
  <2> QED BY <2>4 DEF OutboxGrows
<1> QED BY <1>5, <1>6

LEMMA BindFrame ==
    ASSUME BindingInvariant, NEW d \in udpToServer, HandleUDPBind(d), NEW p \in Process
    PROVE  OutboxGrows(p)
<1>1. \A b \in DOMAIN m_clients : m_clients[b] \in NetworkClientRecord
  BY DEF BindingInvariant, NetworkTypeOK, ServerTypeOK
<1>2. PICK c \in DOMAIN m_clients :
        /\ m_clients[c].udpToken = d.msg.token
        /\ m_clients' = [m_clients EXCEPT ![c].udpEndpoint = d.from,
                                         ![c].status = "Connected",
                                         ![c].tcpOutbox = Append(@, UDPBindAck)]
  BY DEF HandleUDPBind, ClientsWithToken
<1>3. connID' = connID /\ DOMAIN m_clients' = DOMAIN m_clients
  BY <1>2 DEF HandleUDPBind, tcpVars
<1>4. CASE connID[p] = c
  <2>1. d.msg.token = TokenFor(connID[p])
    BY <1>2, <1>4 DEF BindingInvariant, ClientsIdentified
  <2>2. News(p, UDPBindAck)
    BY <1>4, <2>1 DEF News, Acknowledged
  <2>3. m_clients'[c].tcpOutbox = Append(m_clients[c].tcpOutbox, UDPBindAck)
    BY <1>1, <1>2 DEF NetworkClientRecord
  <2>4. Outbox(p)' = Append(Outbox(p), UDPBindAck)
    BY <1>3, <1>4, <2>3 DEF Outbox
  <2> QED BY <2>2, <2>4, MessagesTyped DEF OutboxGrows
<1>5. CASE connID[p] # c
  <2>1. Outbox(p)' = Outbox(p)
    BY <1>2, <1>3, <1>5 DEF Outbox
  <2> QED BY <2>1 DEF OutboxGrows
<1> QED BY <1>4, <1>5

(* An outbox grows at the end, until pumpSend empties it or its client goes. *)
LEMMA OutboxFrame ==
    ASSUME BindingInvariant, [NetworkNext]_networkVars, NEW p \in Process
    PROVE  \/ OutboxGrows(p)
           \/ PumpSend
           \/ Outbox(p)' = <<>> /\ connID'[p] \notin DOMAIN m_clients'
<1>1. /\ \A b \in DOMAIN m_clients : m_clients[b] \in NetworkClientRecord
      /\ connID \in [Process -> Nat]
  BY DEF BindingInvariant, NetworkTypeOK, ServerTypeOK, TransportTypeOK
<1>2. Outbox(p)' = Outbox(p) => OutboxGrows(p)
  BY DEF OutboxGrows
<1>3. ASSUME NEW c \in toRemove, RemoveDisconnected(c)
      PROVE  \/ OutboxGrows(p)
             \/ Outbox(p)' = <<>> /\ connID'[p] \notin DOMAIN m_clients'
  <2>1. connID' = connID /\ m_clients' = [b \in DOMAIN m_clients \ {c} |-> m_clients[b]]
    BY <1>3 DEF RemoveDisconnected
  <2> QED BY <1>2, <2>1 DEF Outbox
<1>4. ASSUME NEW d \in udpToServer, DispatchDatagram(d) PROVE OutboxGrows(p)
  <2> DEFINE target == m_udpEndpointToClientID[d.from]
             msg == d.msg
  <2>1. m_clients' = Dispatch(m_clients, target, msg, "UDP") /\ connID' = connID
    BY <1>4 DEF DispatchDatagram, tcpVars
  <2> HIDE DEF target, msg
  <2>2. DOMAIN m_clients' = DOMAIN m_clients
    BY <2>1 DEF Dispatch, QueueMessages, QueueTCP, QueueUDP
  <2>3. ASSUME NEW b \in DOMAIN m_clients
        PROVE  m_clients'[b].tcpOutbox = m_clients[b].tcpOutbox
    <3>1. /\ [m_clients[b] EXCEPT !.inbox = Append(@, msg)].tcpOutbox = m_clients[b].tcpOutbox
          /\ \A new : [m_clients[b] EXCEPT !.udpOutbox = new].tcpOutbox = m_clients[b].tcpOutbox
      BY <1>1 DEF NetworkClientRecord
    <3> QED BY <2>1, <3>1 DEF Dispatch, QueueMessages, QueueUDP
  <2> QED BY <1>2, <2>1, <2>2, <2>3 DEF Outbox
<1>5. CASE ServerApplication /\ ~NetworkServerStep
  <2>1. /\ connID' = connID /\ DOMAIN m_clients' = DOMAIN m_clients
        /\ \A c \in DOMAIN m_clients : Extended(m_clients[c].tcpOutbox, m_clients'[c].tcpOutbox)
    BY <1>5 DEF ServerApplication, Used, transportVars, tcpVars
  <2> QED BY <1>2, <1>5, <2>1 DEF Outbox, OutboxGrows, Queues
<1>6. CASE UNCHANGED m_clients /\ UNCHANGED connID
  BY <1>2, <1>6 DEF Outbox
<1>7. CASE NetworkServerStep
  BY <1>3, <1>4, <1>6, <1>7, AcceptFrame, ReceiveFrame, BindFrame
     DEF NetworkServerStep, IgnoreDatagram, CollectDisconnected, serverVars, transportVars, tcpVars
<1>8. ASSUME ~NetworkServerStep, ~ServerApplication PROVE UNCHANGED m_clients /\ UNCHANGED connID
  <2>1. UNCHANGED serverVars
    BY <1>8 DEF NetworkNext, networkVars, ClientApplication
  <2>2. ~AcceptConnection
    BY <1>8 DEF NetworkServerStep
  <2>3. UNCHANGED connID
    <3>1. ASSUME NEW q \in Process, NetworkClientStep(q) PROVE UNCHANGED connID
      BY <3>1 DEF NetworkClientStep, Start, TakeBindRequest, PollBindRequest, TakeBindAck, PollBindAck,
                  Exit, ReceiveFromServer, ReceiveDatagram, TakeTCP,
                  transportVars, tcpVars
    <3>2. TransportStep => UNCHANGED connID
      BY DEF TransportStep, ServerDisconnect, ClientDisconnect, UDPClose, tcpVars
    <3> QED BY <1>8, <3>1, <3>2 DEF NetworkNext, networkVars, transportVars, tcpVars, ClientApplication
  <2> QED BY <2>1, <2>3 DEF serverVars
<1> QED BY <1>5, <1>6, <1>7, <1>8

(* What is in flight and what is in the outbox, together. *)
LEMMA ComingFrame ==
    ASSUME BindingInvariant, NoneDisconnected, [NetworkNext]_networkVars, NEW p \in Process
    PROVE  \/ toClient'[p] = toClient[p] /\ OutboxGrows(p)
           \/ /\ toClient'[p] = toClient[p] /\ Outbox(p)' = <<>>
              /\ ~Linked(p) \/ ~Linked(p)'
           \/ toClient'[p] = toClient[p] \o Outbox(p) /\ Outbox(p)' = <<>>
           \/ TakeTCP(p) /\ Outbox(p)' = Outbox(p)
           \/ toClient'[p] = <<>> /\ phase'[p] = "exited" /\ Outbox(p)' = Outbox(p)
<1>1. /\ \A b \in DOMAIN m_clients : m_clients[b] \in NetworkClientRecord
      /\ toClient \in [Process -> Seq(Message)] /\ phase \in [Process -> Phase]
  BY DEF BindingInvariant, NetworkTypeOK, ServerTypeOK, TransportTypeOK, ClientTypeOK
<1>2. CASE PumpSend
  <2>1. /\ toClient'[p] = toClient[p] \o Written(p)
        /\ connID' = connID /\ DOMAIN m_clients' = DOMAIN m_clients
    BY <1>2 DEF PumpSend
  <2>2. Outbox(p)' = <<>>
    BY <1>1, <1>2 DEF PumpSend, Outbox, NetworkClientRecord
  <2>3. CASE Linked(p)
    <3>1. Written(p) = Outbox(p)
      BY <2>3 DEF Written, Outbox, Linked, NoneDisconnected
    <3> QED BY <2>1, <2>2, <3>1
  <2>4. CASE ~Linked(p)
    <3>1. Written(p) = <<>>
      BY <2>4 DEF Written, Linked
    <3> QED BY <1>1, <2>1, <2>2, <2>4, <3>1
  <2> QED BY <2>3, <2>4
<1>3. CASE ~PumpSend /\ toClient'[p] = toClient[p]
  BY <1>3, OutboxFrame DEF Linked
<1>4. ASSUME NEW q \in Process, NetworkClientStep(q)
      PROVE  \/ toClient' = toClient
             \/ TakeTCP(q)
             \/ toClient' = [toClient EXCEPT ![q] = <<>>] /\ phase' = [phase EXCEPT ![q] = "exited"]
  BY <1>4 DEF NetworkClientStep, Start, TakeBindRequest, PollBindRequest, TakeBindAck, PollBindAck, Exit,
              ReceiveFromServer, ReceiveDatagram, transportVars, tcpVars
<1>5. ASSUME NEW q \in Process, NetworkClientStep(q), UNCHANGED serverVars, toClient'[p] # toClient[p]
      PROVE  \/ TakeTCP(p) /\ Outbox(p)' = Outbox(p)
             \/ toClient'[p] = <<>> /\ phase'[p] = "exited" /\ Outbox(p)' = Outbox(p)
  <2>1. q = p
    BY <1>1, <1>4, <1>5 DEF TakeTCP
  <2>2. connID' = connID
    BY <1>5 DEF NetworkClientStep, Start, TakeBindRequest, PollBindRequest, TakeBindAck, PollBindAck, Exit,
                ReceiveFromServer, ReceiveDatagram, TakeTCP, transportVars, tcpVars
  <2>3. Outbox(p)' = Outbox(p)
    BY <1>5, <2>2 DEF Outbox, serverVars
  <2> QED BY <1>1, <1>4, <1>5, <2>1, <2>3
<1>6. CASE ~PumpSend /\ NetworkServerStep
  <2>1. toClient' = toClient
    BY <1>6 DEF NetworkServerStep, AcceptConnection, ReceiveTCP, DispatchDatagram, HandleUDPBind,
              IgnoreDatagram, CollectDisconnected, RemoveDisconnected, transportVars, tcpVars
  <2> QED BY <1>3, <1>6, <2>1
<1>7. TransportStep \/ ServerApplication \/ UNCHANGED networkVars
        \/ (\E q \in Process, withPing \in BOOLEAN : ClientApplication(q, withPing)) => toClient' = toClient
  BY DEF TransportStep, ServerDisconnect, ClientDisconnect, UDPClose, ServerApplication,
         ClientApplication, networkVars, transportVars, tcpVars
<1> QED BY <1>2, <1>3, <1>5, <1>6, <1>7 DEF NetworkNext

(* The first m elements of new are those of old after the first k. *)
Shifted(old, new, k, m) ==
    /\ k \in Nat /\ m \in 0 .. Len(new) /\ k + m <= Len(old)
    /\ \A i \in 1 .. m : new[i] = old[k + i]

(* A queue T, and after it a queue O: O grows, ... *)
LEMMA ShiftedGrown ==
    ASSUME NEW T \in Seq(Message), NEW O \in Seq(Message), NEW O1 \in Seq(Message),
           Len(O) <= Len(O1), \A i \in 1 .. Len(O) : O1[i] = O[i]
    PROVE  Shifted(T \o O, T \o O1, 0, Len(T \o O))
<1>1. ASSUME NEW i \in 1 .. Len(T \o O) PROVE (T \o O1)[i] = (T \o O)[0 + i]
  <2>1. CASE i \in 1 .. Len(T)
    BY <2>1
  <2>2. CASE i \notin 1 .. Len(T)
    <3>1. i - Len(T) \in 1 .. Len(O)
      BY <2>2
    <3> QED BY <2>2, <3>1
  <2> QED BY <2>1, <2>2
<1> QED BY <1>1 DEF Shifted

(* ... is lost, ... *)
LEMMA ShiftedCut ==
    ASSUME NEW T \in Seq(Message), NEW O \in Seq(Message)
    PROVE  Shifted(T \o O, T \o <<>>, 0, Len(T \o <<>>))
BY DEF Shifted

(* ... or moves into T; ... *)
LEMMA ShiftedMoved ==
    ASSUME NEW T \in Seq(Message), NEW O \in Seq(Message)
    PROVE  (T \o O) \o <<>> = T \o O /\ Shifted(T \o O, T \o O, 0, Len(T \o O))
BY DEF Shifted

(* ... the first of T is read, ... *)
LEMMA ShiftedRead ==
    ASSUME NEW T \in Seq(Message), NEW O \in Seq(Message), T # <<>>
    PROVE  /\ Shifted(T \o O, Tail(T) \o O, 1, Len(Tail(T) \o O))
           /\ 1 + Len(Tail(T) \o O) = Len(T \o O)
<1> DEFINE R == Tail(T)
<1>7. R \in Seq(Message)
  OBVIOUS
<1>1. /\ Len(T) \in Nat \ {0} /\ Len(R) = Len(T) - 1
      /\ \A i \in 1 .. Len(R) : R[i] = T[1 + i]
  OBVIOUS
<1> HIDE DEF R
<1>2. Len(R \o O) = Len(R) + Len(O)
  BY <1>7
<1>6. Len(T \o O) = Len(T) + Len(O) /\ Len(O) \in Nat
  OBVIOUS
<1>3. ASSUME NEW i \in 1 .. Len(R \o O) PROVE (R \o O)[i] = (T \o O)[1 + i]
  <2>1. CASE i \in 1 .. Len(R)
    <3>1. (R \o O)[i] = R[i] /\ (T \o O)[1 + i] = T[1 + i]
      BY <1>1, <1>7, <2>1
    <3> QED BY <1>1, <2>1, <3>1
  <2>2. CASE i \notin 1 .. Len(R)
    <3>1. (R \o O)[i] = O[i - Len(R)] /\ (T \o O)[1 + i] = O[1 + i - Len(T)]
      BY <1>1, <1>2, <1>6, <1>7, <2>2
    <3>2. i - Len(R) = 1 + i - Len(T)
      BY <1>1
    <3> QED BY <3>1, <3>2
  <2> QED BY <2>1, <2>2
<1>4. 1 + Len(R \o O) = Len(T \o O) /\ Len(R \o O) \in Nat
  BY <1>1, <1>2, <1>6
<1>5. Shifted(T \o O, R \o O, 1, Len(R \o O))
  BY <1>3, <1>4 DEF Shifted
<1> QED BY <1>4, <1>5 DEF R

(* ... or all of T is dropped. *)
LEMMA ShiftedDropped ==
    ASSUME NEW T \in Seq(Message), NEW O \in Seq(Message)
    PROVE  /\ Shifted(T \o O, <<>> \o O, Len(T), Len(<<>> \o O))
           /\ Len(T) + Len(<<>> \o O) = Len(T \o O)
<1>1. <<>> \o O = O /\ Len(T \o O) = Len(T) + Len(O)
  OBVIOUS
<1>2. \A i \in 1 .. Len(O) : O[i] = (T \o O)[Len(T) + i]
  OBVIOUS
<1>3. Shifted(T \o O, O, Len(T), Len(O))
  BY <1>1, <1>2 DEF Shifted
<1> QED BY <1>1, <1>3

(* A message still to come was to come before, at a place that only moves
   forward, or is one of the application, or is the one piece of news; and while
   the connection is open at both ends nothing is lost but by being read. *)
LEMMA ToComeFrame ==
    ASSUME BindingInvariant, NoneDisconnected, [NetworkNext]_networkVars, NEW p \in Process
    PROVE  \E k, m \in Nat :
             /\ Shifted(ToCome(p), ToCome(p)', k, m)
             /\ \A i \in m + 1 .. Len(ToCome(p)') :
                  \/ ToCome(p)'[i] \in AppMessage /\ Queues
                  \/ i = m + 1 /\ i = Len(ToCome(p)') /\ News(p, ToCome(p)'[i])
             /\ k = 0 \/ (k = 1 /\ TakeTCP(p)) \/ phase'[p] = "exited"
             /\ k + m = Len(ToCome(p)) \/ ~Linked(p) \/ ~Linked(p)'
<1> DEFINE T == toClient[p]
           O == Outbox(p)
           T1 == toClient'[p]
           O1 == Outbox(p)'
<1>1. NetworkTypeOK /\ NetworkTypeOK'
  BY TypeNext DEF BindingInvariant
<1>2. T \in Seq(Message) /\ O \in Seq(Message) /\ T1 \in Seq(Message)
  BY <1>1, OutboxTyped DEF NetworkTypeOK, TransportTypeOK
<1>3. O1 \in Seq(Message)
  <2>1. \A c \in DOMAIN m_clients' : m_clients'[c] \in NetworkClientRecord
    BY <1>1 DEF NetworkTypeOK, ServerTypeOK
  <2> QED BY <2>1, NoMessages, QueuesTyped DEF Outbox
<1>4. ToCome(p) = T \o O /\ ToCome(p)' = T1 \o O1
  BY DEF ToCome, Outbox
<1> HIDE DEF T, O, T1, O1
<1>5. CASE T1 = T /\ Queues /\ Extended(O, O1)
  <2> DEFINE m == Len(T \o O)
  <2>1. Shifted(T \o O, T1 \o O1, 0, m)
    BY <1>2, <1>3, <1>5, ShiftedGrown DEF Extended
  <2>2. ASSUME NEW i \in m + 1 .. Len(T1 \o O1) PROVE (T1 \o O1)[i] \in AppMessage /\ Queues
    <3>1. i - Len(T) \in 1 .. Len(O1) /\ i - Len(T) > Len(O) /\ (T1 \o O1)[i] = O1[i - Len(T)]
      BY <1>2, <1>3, <1>5
    <3> QED BY <1>5, <3>1 DEF Extended
  <2>3. m \in Nat
    BY <1>2
  <2> WITNESS 0 \in Nat, m \in Nat
  <2> QED BY <1>4, <2>1, <2>2, <2>3
<1>6. CASE \E msg \in Message : T1 = T /\ O1 = Append(O, msg) /\ News(p, msg)
  <2>1. PICK msg \in Message : T1 = T /\ O1 = Append(O, msg) /\ News(p, msg)
    BY <1>6
  <2> DEFINE m == Len(T \o O)
  <2>2. Len(O) <= Len(O1) /\ \A i \in 1 .. Len(O) : O1[i] = O[i]
    BY <1>2, <2>1
  <2>3. Shifted(T \o O, T1 \o O1, 0, m)
    <3>1. Shifted(T \o O, T \o O1, 0, m)
      BY <1>2, <1>3, <2>2, ShiftedGrown
    <3> QED BY <2>1, <3>1
  <2>4. Len(T1 \o O1) = m + 1 /\ (T1 \o O1)[m + 1] = msg
    BY <1>2, <1>3, <2>1, <2>2
  <2>5. m \in Nat
    BY <1>2
  <2> HIDE DEF m
  <2> WITNESS 0 \in Nat, m \in Nat
  <2>6. ASSUME NEW i \in m + 1 .. Len(ToCome(p)')
        PROVE  i = m + 1 /\ i = Len(ToCome(p)') /\ News(p, ToCome(p)'[i])
    <3>1. i = m + 1
      BY <1>4, <2>4, <2>5
    <3> QED BY <1>4, <2>1, <2>4, <3>1
  <2>7. 0 + m = Len(ToCome(p))
    BY <1>4, <2>5 DEF m
  <2> QED BY <1>4, <2>3, <2>6, <2>7
<1>7. CASE T1 = T /\ O1 = <<>> /\ (~Linked(p) \/ ~Linked(p)')
  <2> DEFINE m == Len(T1 \o O1)
  <2>1. Shifted(T \o O, T1 \o O1, 0, m)
    BY <1>2, <1>3, <1>7, ShiftedCut
  <2>2. m \in Nat
    BY <1>2, <1>3
  <2> WITNESS 0 \in Nat, m \in Nat
  <2> QED BY <1>4, <1>7, <2>1, <2>2
<1>12. CASE T1 = T /\ O1 = O
  <2> DEFINE m == Len(T \o O)
  <2>1. Shifted(T \o O, T1 \o O1, 0, m) /\ T1 \o O1 = T \o O
    BY <1>2, <1>3, <1>12 DEF Shifted
  <2>2. m \in Nat
    BY <1>2
  <2> WITNESS 0 \in Nat, m \in Nat
  <2> QED BY <1>4, <2>1, <2>2
<1>8. CASE T1 = T \o O /\ O1 = <<>>
  <2> DEFINE m == Len(T \o O)
  <2>1. Shifted(T \o O, T1 \o O1, 0, m) /\ T1 \o O1 = T \o O
    BY <1>2, <1>3, <1>8, ShiftedMoved
  <2>2. m \in Nat
    BY <1>2
  <2> WITNESS 0 \in Nat, m \in Nat
  <2> QED BY <1>4, <2>1, <2>2
<1>9. CASE TakeTCP(p) /\ O1 = O
  <2> DEFINE m == Len(T1 \o O1)
  <2>1. T # <<>> /\ T1 = Tail(T)
    BY <1>1, <1>9 DEF TakeTCP, NetworkTypeOK, TransportTypeOK, T, T1
  <2>2. Shifted(T \o O, T1 \o O1, 1, m) /\ 1 + m = Len(T \o O)
    BY <1>2, <1>3, <1>9, <2>1, ShiftedRead
  <2>3. m \in Nat
    BY <1>2, <1>3
  <2> WITNESS 1 \in Nat, m \in Nat
  <2> QED BY <1>4, <1>9, <2>2, <2>3
<1>10. CASE T1 = <<>> /\ phase'[p] = "exited" /\ O1 = O
  <2> DEFINE m == Len(T1 \o O1)
             k == Len(T)
  <2>1. Shifted(T \o O, T1 \o O1, k, m) /\ k + m = Len(T \o O)
    BY <1>2, <1>3, <1>10, ShiftedDropped
  <2>2. m \in Nat /\ k \in Nat
    BY <1>2, <1>3
  <2> HIDE DEF k
  <2> HIDE DEF m
  <2> USE <2>2
  <2> WITNESS k \in Nat, m \in Nat
  <2> QED BY <1>4, <1>10, <2>1, <2>2 DEF m
<1>11. \/ T1 = T /\ (O1 = O \/ (Queues /\ Extended(O, O1)) \/ \E msg \in Message : O1 = Append(O, msg) /\ News(p, msg))
       \/ T1 = T /\ O1 = <<>> /\ (~Linked(p) \/ ~Linked(p)')
       \/ T1 = T \o O /\ O1 = <<>>
       \/ TakeTCP(p) /\ O1 = O
       \/ T1 = <<>> /\ phase'[p] = "exited" /\ O1 = O
  BY ComingFrame DEF OutboxGrows, T, O, T1, O1
<1> QED BY <1>5, <1>6, <1>7, <1>8, <1>9, <1>10, <1>11, <1>12

-----------------------------------------------------------------------------
(* The handshake: the inductive invariant *)

Places(p, type) == {i \in 1 .. Len(ToCome(p)) : ToCome(p)[i].type = type}

AtMostOne(S) == \A i, j \in S : i = j

(* A process meets the request and the acknowledgement at most once each, in
   this order, and the server binds no client that has not read its request. *)
RequestOnItsWay(p) ==
    /\ AtMostOne(Places(p, "UDPBindRequest"))
    /\ Places(p, "UDPBindRequest") # {} => phase[p] \in {"waitRequest", "exited"}
    /\ phase[p] = "waitRequest" /\ Linked(p) => Places(p, "UDPBindRequest") # {}

AckOnItsWay(p) ==
    /\ AtMostOne(Places(p, "UDPBindAck"))
    /\ Places(p, "UDPBindAck") # {} => phase[p] \in {"waitAck", "exited"}
    /\ phase[p] = "waitAck" /\ Linked(p) /\ m_clients[connID[p]].status = "Connected"
         => Places(p, "UDPBindAck") # {}

BoundAfterRequest(p) ==
    /\ connID[p] = 0 => toClient[p] = <<>>
    /\ phase[p] = "waitRequest" /\ connID[p] \in DOMAIN m_clients
         => m_clients[connID[p]].status # "Connected"
    /\ \A d \in udpToServer :
         d.msg.type = "UDPBind" /\ OwnToken(p, d.msg.token) => phase[p] \notin {"off", "waitRequest"}

HandshakeInvariant ==
    /\ NoneDisconnected
    /\ \A p \in Process : RequestOnItsWay(p) /\ AckOnItsWay(p) /\ BoundAfterRequest(p)

LEMMA HandshakeInit == NetworkInit => HandshakeInvariant
<1> SUFFICES ASSUME NetworkInit PROVE HandshakeInvariant
  OBVIOUS
<1>1. /\ m_clients = <<>> /\ udpToServer = {}
      /\ \A p \in Process : connID[p] = 0 /\ toClient[p] = <<>> /\ phase[p] = "off"
  BY DEF NetworkInit, TransportInit, ServerInit, ClientInit
<1>2. DOMAIN m_clients = {}
  BY <1>1
<1>3. \A p \in Process : Places(p, "UDPBindRequest") = {} /\ Places(p, "UDPBindAck") = {}
  BY <1>1, <1>2 DEF Places, ToCome
<1> QED BY <1>1, <1>2, <1>3
        DEF HandshakeInvariant, NoneDisconnected, RequestOnItsWay, AckOnItsWay, BoundAfterRequest,
            AtMostOne

LEMMA NoneDisconnectedNext ==
    ASSUME NetworkTypeOK, NoneDisconnected, [NetworkNext]_networkVars
    PROVE  NoneDisconnected'
<1>1. \A b \in DOMAIN m_clients : m_clients[b] \in NetworkClientRecord
  BY DEF NetworkTypeOK, ServerTypeOK
<1>2. CASE AcceptConnection
  <2>1. NewClient(Head(m_newConnections)).status # "Disconnected"
    BY DEF NewClient
  <2> QED BY <1>2, <2>1 DEF AcceptConnection, NoneDisconnected
<1>3. ASSUME NEW d \in udpToServer, HandleUDPBind(d) PROVE NoneDisconnected'
  <2>1. PICK b \in DOMAIN m_clients :
          m_clients' = [m_clients EXCEPT ![b].udpEndpoint = d.from,
                                         ![b].status = "Connected",
                                         ![b].tcpOutbox = Append(@, UDPBindAck)]
    BY <1>3 DEF HandleUDPBind, ClientsWithToken
  <2>2. m_clients'[b].status = "Connected"
    BY <1>1, <2>1 DEF NetworkClientRecord
  <2> QED BY <2>1, <2>2 DEF NoneDisconnected
<1>4. ASSUME NEW c \in toRemove, RemoveDisconnected(c) PROVE NoneDisconnected'
  BY <1>4 DEF RemoveDisconnected, NoneDisconnected
<1> QED BY <1>2, <1>3, <1>4, BindingFrame DEF NoneDisconnected, SameBinding

(* The phases of a process, and what it reads in them. *)
LEMMA PhaseStep ==
    ASSUME NetworkTypeOK, [NetworkNext]_networkVars, NEW p \in Process
    PROVE  \/ /\ phase'[p] = phase[p]
              /\ TakeTCP(p) /\ phase[p] = "waitRequest"
                   => Head(toClient[p]).type # "UDPBindRequest"
              /\ TakeTCP(p) /\ phase[p] = "waitAck" => Head(toClient[p]).type # "UDPBindAck"
           \/ Start(p) /\ phase[p] = "off" /\ phase'[p] = "waitRequest"
           \/ /\ TakeTCP(p) /\ Head(toClient[p]).type = "UDPBindRequest"
              /\ phase[p] = "waitRequest" /\ phase'[p] = "waitAck" /\ UNCHANGED serverVars
           \/ /\ TakeTCP(p) /\ Head(toClient[p]).type = "UDPBindAck"
              /\ phase[p] = "waitAck" /\ phase'[p] = "connected"
           \/ phase'[p] = "exited"
<1>1. toClient \in [Process -> Seq(Message)] /\ phase \in [Process -> Phase]
  BY DEF NetworkTypeOK, TransportTypeOK, ClientTypeOK
<1>2. TakeTCP(p) => toClient'[p] # toClient[p] /\ Len(toClient'[p]) < Len(toClient[p])
  BY <1>1 DEF TakeTCP
<1>3. CASE NetworkServerStep /\ UNCHANGED clientVars
  <2>1. toClient'[p] = toClient[p] \/ PumpSend
    BY <1>3 DEF NetworkServerStep, AcceptConnection, ReceiveTCP, DispatchDatagram, HandleUDPBind,
              IgnoreDatagram, CollectDisconnected, RemoveDisconnected, transportVars, tcpVars
  <2>2. PumpSend => ~TakeTCP(p)
    <3>1. Written(p) \in Seq(Message)
      <4>1. \A c \in DOMAIN m_clients : m_clients[c] \in NetworkClientRecord
        BY DEF NetworkTypeOK, ServerTypeOK
      <4> QED BY <4>1, NoMessages, QueuesTyped DEF Written
    <3>2. Len(toClient[p]) <= Len(toClient[p] \o Written(p))
      BY <1>1, <3>1
    <3>3. PumpSend => toClient'[p] = toClient[p] \o Written(p)
      BY DEF PumpSend
    <3>4. Len(toClient[p]) \in Nat /\ Len(toClient[p] \o Written(p)) \in Nat
      BY <1>1, <3>1
    <3> QED BY <1>2, <3>2, <3>3, <3>4
  <2> QED BY <1>2, <1>3, <2>1, <2>2 DEF clientVars
<1>4. ASSUME NEW q \in Process, NetworkClientStep(q), q # p
      PROVE  toClient'[p] = toClient[p] /\ phase'[p] = phase[p]
  BY <1>1, <1>4
     DEF NetworkClientStep, Start, TakeBindRequest, PollBindRequest, TakeBindAck, PollBindAck, Exit,
         ReceiveFromServer, ReceiveDatagram, TakeTCP, transportVars, tcpVars, clientVars
<1>5. CASE Start(p)
  BY <1>1, <1>5 DEF Start
<1>6. CASE TakeBindRequest(p) /\ UNCHANGED serverVars
  BY <1>1, <1>6 DEF TakeBindRequest
<1>7. CASE TakeBindAck(p)
  BY <1>1, <1>7 DEF TakeBindAck
<1>8. CASE Exit(p)
  BY <1>1, <1>8 DEF Exit
<1>9. CASE ReceiveFromServer(p)
  BY <1>1, <1>9 DEF ReceiveFromServer, clientVars
<1>10. TransportStep \/ ServerApplication \/ UNCHANGED networkVars
        \/ (\E q \in Process, withPing \in BOOLEAN : ClientApplication(q, withPing))
        \/ (\E q \in Process : \/ PollBindRequest(q) \/ PollBindAck(q)
                                \/ \E d \in udpToClient : ReceiveDatagram(q, d))
       => toClient' = toClient
  BY DEF TransportStep, ServerDisconnect, ClientDisconnect, UDPClose, ServerApplication,
         ClientApplication, networkVars, transportVars, tcpVars, PollBindRequest, PollBindAck,
         ReceiveDatagram
<1>11. \/ TransportStep /\ UNCHANGED clientVars
       \/ ServerApplication \/ UNCHANGED networkVars
       \/ (\E q \in Process, withPing \in BOOLEAN : ClientApplication(q, withPing))
       \/ (\E q \in Process : \/ PollBindRequest(q) \/ PollBindAck(q)
                               \/ \E d \in udpToClient : ReceiveDatagram(q, d))
       => phase' = phase
  BY DEF ServerApplication, ClientApplication, networkVars, clientVars, PollBindRequest, PollBindAck,
         ReceiveDatagram
<1>12. CASE toClient' = toClient /\ phase' = phase
  BY <1>2, <1>12
<1>13. CASE toClient'[p] = toClient[p] /\ phase'[p] = phase[p]
  BY <1>2, <1>13
<1>14. ASSUME NEW q \in Process, NetworkClientStep(q), UNCHANGED serverVars
       PROVE  \/ q # p
              \/ Start(p) \/ (TakeBindRequest(p) /\ UNCHANGED serverVars) \/ TakeBindAck(p)
              \/ Exit(p) \/ ReceiveFromServer(p)
              \/ toClient' = toClient /\ phase' = phase
  BY <1>10, <1>11, <1>14 DEF NetworkClientStep
<1>15. \/ NetworkServerStep /\ UNCHANGED clientVars
       \/ toClient' = toClient /\ phase' = phase
       \/ \E q \in Process : NetworkClientStep(q) /\ UNCHANGED serverVars
  BY <1>10, <1>11 DEF NetworkNext
<1>16. ASSUME NEW q \in Process, NetworkClientStep(q), UNCHANGED serverVars, q # p
       PROVE  toClient'[p] = toClient[p] /\ phase'[p] = phase[p]
  BY <1>4, <1>16
<1>17. CASE \E q \in Process : NetworkClientStep(q) /\ UNCHANGED serverVars
  BY <1>5, <1>6, <1>7, <1>8, <1>9, <1>12, <1>13, <1>14, <1>16, <1>17
<1> QED BY <1>3, <1>12, <1>15, <1>17

(* Reading takes the first of what is to come. *)
LEMMA ReadFrame ==
    ASSUME BindingInvariant, NoneDisconnected, [NetworkNext]_networkVars, NEW p \in Process, TakeTCP(p)
    PROVE  /\ ToCome(p) \in Seq(Message) /\ ToCome(p) # <<>>
           /\ ToCome(p)' = Tail(ToCome(p)) /\ Head(ToCome(p)) = Head(toClient[p])
<1> DEFINE T == toClient[p]
           O == Outbox(p)
<1>1. T \in Seq(Message) /\ O \in Seq(Message)
  BY OutboxTyped DEF BindingInvariant, NetworkTypeOK, TransportTypeOK
<1>2. T # <<>> /\ toClient'[p] = Tail(T)
  BY DEF TakeTCP, BindingInvariant, NetworkTypeOK, TransportTypeOK
<1>3. ToCome(p) = T \o O /\ ToCome(p)' = toClient'[p] \o Outbox(p)'
  BY DEF ToCome, Outbox
<1>4. Len(toClient'[p]) < Len(T) /\ Len(T) <= Len(T \o O) /\ Len(T) \in Nat /\ Len(T \o O) \in Nat
  BY <1>1, <1>2
<1>5. toClient'[p] # T /\ toClient'[p] # T \o O
  BY <1>4
<1>6. Outbox(p)' = O
  BY <1>5, ComingFrame
<1> HIDE DEF T, O
<1>7. Tail(T \o O) = Tail(T) \o O /\ Head(T \o O) = Head(T) /\ T \o O # <<>> /\ T \o O \in Seq(Message)
  BY <1>1, <1>2
<1>8. Head(T) = Head(toClient[p])
  BY DEF T
<1> QED BY <1>2, <1>3, <1>6, <1>7, <1>8

(* The news of each kind. *)
LEMMA NewsFrame ==
    ASSUME BindingInvariant, InboxInvariant, HandshakeInvariant, [NetworkNext]_networkVars,
           NEW p \in Process, NEW msg, News(p, msg)
    PROVE  /\ msg.type = "UDPBindRequest"
                => Asked(p, msg) /\ connID[p] = 0 /\ phase'[p] \in {"waitRequest", "exited"}
           /\ msg.type = "UDPBindAck"
                => ~IsBound(p) /\ phase'[p] \in {"waitAck", "exited"}
<1>1. /\ \A c \in DOMAIN m_clients : c # 0 /\ m_clients[c] \in NetworkClientRecord
      /\ m_newConnections \in Seq(Process) /\ phase \in [Process -> Phase]
      /\ m_nextClientID \in Nat /\ callback \in Callback
  BY DEF BindingInvariant, NetworkTypeOK, TransportTypeOK, ServerTypeOK, ClientTypeOK
<1>2. AcceptConnection \/ (\E d \in udpToServer : HandleUDPBind(d)) => UNCHANGED phase
  <2>1. AcceptConnection => m_nextClientID' # m_nextClientID
    BY <1>1 DEF AcceptConnection
  <2>2. (\E d \in udpToServer : HandleUDPBind(d)) => callback' \notin {callback, NoCallback}
    BY DEF HandleUDPBind, TakeDatagram, ServerIdle, NoCallback
  <2>3. ASSUME m_nextClientID' # m_nextClientID \/ callback' \notin {callback, NoCallback}
        PROVE  UNCHANGED clientVars
    BY <2>3 DEF NetworkNext, networkVars, serverVars, ServerApplication, ClientApplication
  <2> QED BY <2>1, <2>2, <2>3 DEF clientVars
<1>3. ASSUME Asked(p, msg)
      PROVE  /\ msg.type = "UDPBindRequest" /\ connID[p] = 0
             /\ phase[p] \in {"waitRequest", "exited"}
  <2>1. m_newConnections # <<>> /\ p = m_newConnections[1] /\ 1 \in 1 .. Len(m_newConnections)
    BY <1>1, <1>3 DEF Asked, AcceptConnection
  <2>2. connID[p] = 0 /\ phase[p] # "off"
    BY <2>1 DEF BindingInvariant, Identities
  <2>3. phase[p] # "waitAck" /\ phase[p] # "connected"
    BY <2>2 DEF BindingInvariant, Tokens, OwnToken, InboxInvariant, AckFollowsBinding, IsBound
  <2> QED BY <1>1, <1>3, <2>2, <2>3 DEF Asked, UDPBindRequest, Phase
<1>4. ASSUME Acknowledged(p, msg)
      PROVE  /\ msg.type = "UDPBindAck" /\ ~IsBound(p)
             /\ phase[p] \in {"waitAck", "exited"}
  <2>1. PICK d \in udpToServer : HandleUDPBind(d) /\ d.msg.token = TokenFor(connID[p])
    BY <1>4 DEF Acknowledged
  <2>2. connID[p] \in DOMAIN m_clients /\ connID[p] # 0 /\ d.msg.type = "UDPBind"
    BY <1>1, <1>4, <2>1 DEF Acknowledged, HandleUDPBind
  <2>3. m_clients[connID[p]].status # "Connected"
    <3>1. connID[p] \in ClientsWithToken(d.msg.token)
      BY <2>1, <2>2 DEF ClientsWithToken, BindingInvariant, ClientsIdentified
    <3> QED BY <2>1, <3>1, BindsOnce
  <2>4. phase[p] \notin {"off", "waitRequest"}
    BY <2>1, <2>2 DEF HandshakeInvariant, BoundAfterRequest, OwnToken
  <2>5. phase[p] # "connected"
    BY <2>2, <2>3 DEF InboxInvariant, AckFollowsBinding, IsBound
  <2> QED BY <1>1, <1>4, <2>2, <2>3, <2>4, <2>5 DEF Acknowledged, UDPBindAck, IsBound, Phase
<1>5. Answered(p, msg) => msg.type = "Pong"
  BY DEF Answered, Pong
<1>6. Asked(p, msg) \/ Acknowledged(p, msg) => UNCHANGED phase
  BY <1>2 DEF Asked, Acknowledged
<1> QED BY <1>3, <1>4, <1>5, <1>6 DEF News

(* What a step can do to the places of a type of message. *)
LEMMA PlacesFrame ==
    ASSUME BindingInvariant, NoneDisconnected, [NetworkNext]_networkVars, NEW p \in Process,
           NEW type \in {"UDPBindRequest", "UDPBindAck"},
           AtMostOne(Places(p, type)),
           \A msg : News(p, msg) /\ msg.type = type => Places(p, type) = {}
    PROVE  /\ AtMostOne(Places(p, type)')
           /\ Places(p, type)' # {}
                => \/ Places(p, type) # {} /\ ~(TakeTCP(p) /\ Head(toClient[p]).type = type)
                   \/ \E msg : News(p, msg) /\ msg.type = type
           /\ Places(p, type) # {} /\ Linked(p) /\ Linked(p)' /\ phase'[p] # "exited"
               /\ ~(TakeTCP(p) /\ Head(toClient[p]).type = type)
                => Places(p, type)' # {}
<1> DEFINE old == ToCome(p)
           new == ToCome(p)'
<1>1. PICK k \in Nat, m \in Nat :
             /\ Shifted(old, new, k, m)
             /\ \A i \in m + 1 .. Len(new) :
                  \/ new[i] \in AppMessage
                  \/ i = m + 1 /\ i = Len(new) /\ News(p, new[i])
             /\ k = 0 \/ (k = 1 /\ TakeTCP(p)) \/ phase'[p] = "exited"
             /\ k + m = Len(old) \/ ~Linked(p) \/ ~Linked(p)'
  BY ToComeFrame
<1>2. old \in Seq(Message) /\ new \in Seq(Message)
  <2>1. NetworkTypeOK /\ NetworkTypeOK'
    BY TypeNext DEF BindingInvariant
  <2>2. /\ \A c \in DOMAIN m_clients : m_clients[c].tcpOutbox \in Seq(Message)
        /\ \A c \in DOMAIN m_clients' : m_clients'[c].tcpOutbox \in Seq(Message)
    BY <2>1, QueuesTyped DEF NetworkTypeOK, ServerTypeOK
  <2> QED BY <2>1, <2>2 DEF ToCome, NetworkTypeOK, TransportTypeOK
<1>3. /\ \A i : i \in Places(p, type) <=> i \in 1 .. Len(old) /\ old[i].type = type
      /\ \A i : i \in Places(p, type)' <=> i \in 1 .. Len(new) /\ new[i].type = type
  BY DEF Places
<1> HIDE DEF old, new
<1>4. \A m1 \in AppMessage : m1.type # type
  BY DEF AppMessage
<1>5. ASSUME NEW i \in Places(p, type)', i > m
      PROVE  i = m + 1 /\ News(p, new[i]) /\ new[i].type = type
  BY <1>1, <1>2, <1>3, <1>4, <1>5
<1>6. ASSUME NEW i \in Places(p, type)', i <= m
      PROVE  k + i \in Places(p, type)
  BY <1>1, <1>2, <1>3, <1>6 DEF Shifted
<1>7. \A i \in Places(p, type)' : i \in Nat /\ i >= 1
  BY <1>3
<1>8. AtMostOne(Places(p, type)')
  <2> SUFFICES ASSUME NEW i \in Places(p, type)', NEW j \in Places(p, type)' PROVE i = j
    BY DEF AtMostOne
  <2>1. CASE i > m \/ j > m
    <3>1. Places(p, type) = {}
      BY <1>5, <2>1
    <3>2. i > m /\ j > m
      BY <1>1, <1>6, <1>7, <3>1
    <3> QED BY <1>5, <3>2
  <2>2. CASE i <= m /\ j <= m
    <3>1. k + i = k + j
      BY <1>6, <2>2 DEF AtMostOne
    <3> QED BY <1>1, <1>7, <3>1
  <2> QED BY <1>1, <1>7, <2>1, <2>2
<1>9. ASSUME TakeTCP(p)
      PROVE  /\ old # <<>> /\ Len(old) \in Nat \ {0} /\ Len(new) = Len(old) - 1
             /\ \A j \in 1 .. Len(new) : new[j] = old[j + 1]
             /\ Head(toClient[p]) = old[1]
  <2>1. old # <<>> /\ new = Tail(old) /\ Head(toClient[p]) = Head(old)
    BY <1>9, ReadFrame DEF old, new
  <2> QED BY <1>2, <2>1
<1>10. ASSUME Places(p, type)' # {}
       PROVE  \/ Places(p, type) # {} /\ ~(TakeTCP(p) /\ Head(toClient[p]).type = type)
              \/ \E msg : News(p, msg) /\ msg.type = type
  <2>1. PICK i : i \in Places(p, type)'
    BY <1>10
  <2>2. CASE TakeTCP(p) /\ Head(toClient[p]).type = type
    <3>1. 1 \in Places(p, type)
      BY <1>2, <1>3, <1>9, <2>2
    <3>2. i + 1 \in Places(p, type)
      BY <1>2, <1>3, <1>9, <2>1, <2>2
    <3> QED BY <1>7, <2>1, <3>1, <3>2 DEF AtMostOne
  <2>3. CASE i > m
    BY <1>5, <2>1, <2>3
  <2>4. CASE i <= m
    BY <1>6, <2>1, <2>2, <2>4
  <2> QED BY <1>1, <1>7, <2>1, <2>3, <2>4
<1>11. ASSUME Places(p, type) # {}, Linked(p), Linked(p)', phase'[p] # "exited",
              ~(TakeTCP(p) /\ Head(toClient[p]).type = type)
       PROVE  Places(p, type)' # {}
  <2>1. PICK i : i \in Places(p, type)
    BY <1>11
  <2>2. i \in 1 .. Len(old) /\ old[i].type = type
    BY <1>3, <2>1
  <2>3. CASE TakeTCP(p)
    <3>1. i # 1
      BY <1>9, <1>11, <2>2, <2>3
    <3>2. i - 1 \in 1 .. Len(new) /\ new[i - 1] = old[i]
      <4>1. i - 1 \in 1 .. Len(new) /\ (i - 1) + 1 = i
        BY <1>9, <2>2, <2>3, <3>1
      <4> QED BY <1>9, <2>3, <4>1
    <3> QED BY <1>3, <2>2, <3>2
  <2>4. CASE ~TakeTCP(p)
    <3>1. k = 0 /\ m = Len(old)
      BY <1>1, <1>2, <1>11, <2>4
    <3>2. i \in 1 .. m /\ new[i] = old[i] /\ i \in 1 .. Len(new)
      BY <1>1, <1>2, <2>2, <3>1 DEF Shifted
    <3> QED BY <1>3, <2>2, <3>2
  <2> QED BY <2>3, <2>4
<1> QED BY <1>8, <1>10, <1>11

(* A connection that comes alive for the server does so by being accepted. *)
LEMMA LinkedFrame ==
    ASSUME BindingInvariant, [NetworkNext]_networkVars, NEW p \in Process, ~Linked(p), Linked(p)'
    PROVE  AcceptConnection /\ p = Head(m_newConnections)
<1>1. /\ connID \in [Process -> Nat] /\ m_newConnections \in Seq(Process)
      /\ m_nextClientID \in Nat /\ connID[p] < m_nextClientID
      /\ serverOpen \in [Process -> BOOLEAN] /\ clientOpen \in [Process -> BOOLEAN]
      /\ 0 \notin DOMAIN m_clients /\ 0 \notin DOMAIN m_clients'
  BY TypeNext DEF BindingInvariant, NetworkTypeOK, TransportTypeOK, ServerTypeOK, Identities
<1>2. CASE AcceptConnection
  <2>1. UNCHANGED <<serverOpen, clientOpen>>
    BY <1>2 DEF AcceptConnection
  <2>2. p # Head(m_newConnections) => connID'[p] = connID[p] /\ connID[p] # m_nextClientID
    BY <1>1, <1>2 DEF AcceptConnection
  <2>3. DOMAIN m_clients' = DOMAIN m_clients \cup {m_nextClientID}
    BY <1>2 DEF AcceptConnection
  <2> QED BY <1>2, <2>1, <2>2, <2>3 DEF Linked
<1>3. CASE ~AcceptConnection
  <2>1. connID' = connID /\ DOMAIN m_clients' \subseteq DOMAIN m_clients
    <3>1. DOMAIN m_clients' \subseteq DOMAIN m_clients
      <4>1. \A d \in udpToServer : HandleUDPBind(d) => DOMAIN m_clients' = DOMAIN m_clients
        BY DEF HandleUDPBind
      <4>2. \A c \in toRemove : RemoveDisconnected(c) => DOMAIN m_clients' \subseteq DOMAIN m_clients
        BY DEF RemoveDisconnected
      <4> QED BY <1>3, <4>1, <4>2, BindingFrame DEF BindingInvariant
    <3>2. connID' = connID
      BY <1>3, IdentityFrame DEF BindingInvariant, Start
    <3> QED BY <3>1, <3>2
  <2>2. ASSUME NEW q \in Process, Start(q), q = p PROVE FALSE
    <3>1. connID[p] = 0
      BY <2>2 DEF Start, BindingInvariant, Identities
    <3> QED BY <1>1, <2>1, <3>1 DEF Linked
  <2>3. CASE \E q \in Process : Start(q)
    <3>1. PICK q \in Process : Start(q)
      BY <2>3
    <3>2. q # p
      BY <2>2, <3>1
    <3>3. serverOpen'[p] = serverOpen[p] /\ clientOpen'[p] = clientOpen[p]
      BY <1>1, <3>1, <3>2 DEF Start
    <3> QED BY <2>1, <3>3 DEF Linked
  <2>4. CASE ~\E q \in Process : Start(q)
    <3>1. ASSUME NEW q \in Process, NetworkClientStep(q)
          PROVE  serverOpen' = serverOpen /\ (clientOpen'[p] => clientOpen[p])
      BY <1>1, <2>4, <3>1
         DEF NetworkClientStep, TakeBindRequest, PollBindRequest, TakeBindAck, PollBindAck, Exit,
             ReceiveFromServer, ReceiveDatagram, TakeTCP, transportVars, tcpVars
    <3>2. NetworkServerStep => UNCHANGED <<serverOpen, clientOpen>>
      BY DEF NetworkServerStep, AcceptConnection, ReceiveTCP, DispatchDatagram, HandleUDPBind,
              IgnoreDatagram, PumpSend, CollectDisconnected, RemoveDisconnected, transportVars, tcpVars
    <3>3. ServerApplication \/ UNCHANGED networkVars \/ (\E q \in Process, withPing \in BOOLEAN : ClientApplication(q, withPing))
            => UNCHANGED <<serverOpen, clientOpen>>
      BY DEF ServerApplication, ClientApplication, networkVars, transportVars, tcpVars
    <3>4. TransportStep => (serverOpen'[p] => serverOpen[p]) /\ (clientOpen'[p] => clientOpen[p])
      BY <1>1 DEF TransportStep, ServerDisconnect, ClientDisconnect, UDPClose, tcpVars
    <3>5. (serverOpen'[p] => serverOpen[p]) /\ (clientOpen'[p] => clientOpen[p])
      BY <3>1, <3>2, <3>3, <3>4 DEF NetworkNext
    <3> QED BY <2>1, <3>5 DEF Linked
  <2> QED BY <2>3, <2>4
<1> QED BY <1>2, <1>3

(* A client is bound by the step that queues its acknowledgement. *)
LEMMA BecomesConnected ==
    ASSUME BindingInvariant, [NetworkNext]_networkVars, NEW c \in DOMAIN m_clients,
           c \in DOMAIN m_clients', m_clients[c].status # "Connected", m_clients'[c].status = "Connected"
    PROVE  /\ \E d \in udpToServer : HandleUDPBind(d) /\ d.msg.token = TokenFor(c)
           /\ m_clients'[c].tcpOutbox = Append(m_clients[c].tcpOutbox, UDPBindAck)
<1>1. /\ \A b \in DOMAIN m_clients : m_clients[b] \in NetworkClientRecord /\ b < m_nextClientID
      /\ m_nextClientID \in Nat /\ DOMAIN m_clients \subseteq Nat
  BY DEF BindingInvariant, NetworkTypeOK, ServerTypeOK, ClientsIdentified
<1>2. ~AcceptConnection
  <2>1. c # m_nextClientID
    BY <1>1
  <2> QED BY <2>1 DEF AcceptConnection
<1>3. \A b \in toRemove : ~RemoveDisconnected(b)
  BY DEF RemoveDisconnected
<1>4. PICK d \in udpToServer : HandleUDPBind(d)
  BY <1>2, <1>3, BindingFrame DEF BindingInvariant, SameBinding
<1>5. PICK b \in DOMAIN m_clients :
        /\ m_clients[b].udpToken = d.msg.token
        /\ m_clients' = [m_clients EXCEPT ![b].udpEndpoint = d.from,
                                         ![b].status = "Connected",
                                         ![b].tcpOutbox = Append(@, UDPBindAck)]
  BY <1>4 DEF HandleUDPBind, ClientsWithToken
<1>6. b = c
  BY <1>5
<1>7. m_clients'[c].tcpOutbox = Append(m_clients[c].tcpOutbox, UDPBindAck)
  BY <1>1, <1>5, <1>6 DEF NetworkClientRecord
<1>8. d.msg.token = TokenFor(c)
  BY <1>5, <1>6 DEF BindingInvariant, ClientsIdentified
<1> QED BY <1>4, <1>7, <1>8

(* An acknowledgement to come is for a client that is bound. *)
LEMMA AckBound ==
    ASSUME NetworkTypeOK, AckFollowsBinding, NEW p \in Process, Places(p, "UDPBindAck") # {}
    PROVE  IsBound(p)
<1> DEFINE T == toClient[p]
           O == Outbox(p)
<1>1. T \in Seq(Message) /\ O \in Seq(Message)
  BY OutboxTyped DEF NetworkTypeOK, TransportTypeOK
<1>2. PICK i \in 1 .. Len(T \o O) : (T \o O)[i].type = "UDPBindAck"
  BY DEF Places, ToCome, Outbox
<1> HIDE DEF T, O
<1>3. HasAck(T) \/ HasAck(O)
  <2>1. CASE i \in 1 .. Len(T)
    BY <1>1, <1>2, <2>1 DEF HasAck
  <2>2. CASE i \notin 1 .. Len(T)
    <3>1. i - Len(T) \in 1 .. Len(O) /\ O[i - Len(T)].type = "UDPBindAck"
      BY <1>1, <1>2, <2>2
    <3> QED BY <3>1 DEF HasAck
  <2> QED BY <2>1, <2>2
<1>4. HasAck(T) => IsBound(p)
  BY DEF T, AckFollowsBinding
<1>5. ASSUME HasAck(O) PROVE IsBound(p)
  <2>1. connID[p] \in DOMAIN m_clients /\ O = m_clients[connID[p]].tcpOutbox
    BY <1>5 DEF O, Outbox, HasAck
  <2>2. connID[p] # 0
    BY <2>1 DEF NetworkTypeOK, ServerTypeOK
  <2> QED BY <1>5, <2>1, <2>2 DEF AckFollowsBinding, IsBound
<1> QED BY <1>3, <1>4, <1>5

LEMMA RequestNext ==
    ASSUME BindingInvariant, InboxInvariant, HandshakeInvariant, [NetworkNext]_networkVars,
           NEW p \in Process
    PROVE  RequestOnItsWay(p)'
<1> DEFINE here == Places(p, "UDPBindRequest")
           next == Places(p, "UDPBindRequest")'
           read == TakeTCP(p) /\ Head(toClient[p]).type = "UDPBindRequest"
<1>1. /\ AtMostOne(here)
      /\ here # {} => phase[p] \in {"waitRequest", "exited"}
      /\ phase[p] = "waitRequest" /\ Linked(p) => here # {}
      /\ NoneDisconnected
  BY DEF HandshakeInvariant, RequestOnItsWay
<1>2. \A msg : News(p, msg) /\ msg.type = "UDPBindRequest"
                => here = {} /\ Asked(p, msg) /\ phase'[p] \in {"waitRequest", "exited"}
  <2>1. connID[p] = 0 => here = {}
    <3>1. connID[p] = 0 => toClient[p] = <<>>
      BY DEF HandshakeInvariant, BoundAfterRequest
    <3>2. 0 \notin DOMAIN m_clients
      BY DEF BindingInvariant, NetworkTypeOK, ServerTypeOK
    <3> QED BY <3>1, <3>2 DEF Places, ToCome
  <2> QED BY <2>1, NewsFrame
<1>3. /\ AtMostOne(next)
      /\ next # {} => \/ here # {} /\ ~read
                      \/ \E msg : News(p, msg) /\ msg.type = "UDPBindRequest"
      /\ here # {} /\ Linked(p) /\ Linked(p)' /\ phase'[p] # "exited" /\ ~read => next # {}
  BY <1>1, <1>2, PlacesFrame
<1> HIDE DEF here, next, read
<1>4. NetworkTypeOK
  BY DEF BindingInvariant
<1>5. ASSUME next # {} PROVE phase'[p] \in {"waitRequest", "exited"}
  <2>1. CASE here # {} /\ ~read
    BY <1>1, <1>4, <2>1, PhaseStep DEF read
  <2> QED BY <1>2, <1>3, <1>5, <2>1
<1>6. ASSUME phase'[p] = "waitRequest", Linked(p)' PROVE next # {}
  <2>1. CASE Linked(p)
    <3>1. phase[p] = "waitRequest" /\ ~read
      <4>1. connID[p] # 0
        BY <1>4, <2>1 DEF Linked, NetworkTypeOK, ServerTypeOK
      <4>2. phase[p] # "off"
        BY <4>1 DEF BindingInvariant, Identities
      <4> QED BY <1>4, <1>6, <4>2, PhaseStep DEF read
    <3> QED BY <1>1, <1>3, <1>6, <2>1, <3>1
  <2>2. CASE ~Linked(p)
    <3>1. AcceptConnection /\ p = Head(m_newConnections)
      BY <1>6, <2>2, LinkedFrame DEF BindingInvariant
    <3>2. connID'[p] = m_nextClientID /\ m_clients'[m_nextClientID] = NewClient(p)
          /\ m_nextClientID \in DOMAIN m_clients'
      BY <1>4, <3>1 DEF AcceptConnection, NetworkTypeOK, TransportTypeOK
    <3> DEFINE T == toClient'[p]
               msg == UDPBindRequest(TokenFor(m_nextClientID))
    <3>3. ToCome(p)' = T \o <<msg>>
      BY <3>2 DEF ToCome, NewClient
    <3>4. T \in Seq(Message) /\ msg \in Message
      <4>1. T \in Seq(Message)
        BY TypeNext DEF BindingInvariant, NetworkTypeOK, TransportTypeOK
      <4>2. TokenFor(m_nextClientID) \in Nat
        BY <1>4 DEF NetworkTypeOK, ServerTypeOK, TokenFor
      <4> QED BY <4>1, <4>2, MessagesTyped
    <3>5. msg.type = "UDPBindRequest"
      BY DEF UDPBindRequest
    <3> HIDE DEF T, msg
    <3>6. Len(T) + 1 \in 1 .. Len(T \o <<msg>>) /\ (T \o <<msg>>)[Len(T) + 1] = msg
      BY <3>4
    <3> QED BY <3>3, <3>5, <3>6 DEF next, Places
  <2> QED BY <2>1, <2>2
<1> QED BY <1>3, <1>5, <1>6 DEF RequestOnItsWay, next

LEMMA AckNext ==
    ASSUME BindingInvariant, InboxInvariant, HandshakeInvariant, [NetworkNext]_networkVars,
           NEW p \in Process
    PROVE  AckOnItsWay(p)'
<1> DEFINE here == Places(p, "UDPBindAck")
           next == Places(p, "UDPBindAck")'
           read == TakeTCP(p) /\ Head(toClient[p]).type = "UDPBindAck"
<1>1. /\ AtMostOne(here)
      /\ here # {} => phase[p] \in {"waitAck", "exited"}
      /\ phase[p] = "waitAck" /\ Linked(p) /\ m_clients[connID[p]].status = "Connected" => here # {}
      /\ NoneDisconnected
  BY DEF HandshakeInvariant, AckOnItsWay
<1>2. \A msg : News(p, msg) /\ msg.type = "UDPBindAck"
                => here = {} /\ phase'[p] \in {"waitAck", "exited"}
  <2>1. ~IsBound(p) => here = {}
    BY AckBound DEF InboxInvariant, BindingInvariant
  <2> QED BY <2>1, NewsFrame
<1>3. /\ AtMostOne(next)
      /\ next # {} => \/ here # {} /\ ~read
                      \/ \E msg : News(p, msg) /\ msg.type = "UDPBindAck"
      /\ here # {} /\ Linked(p) /\ Linked(p)' /\ phase'[p] # "exited" /\ ~read => next # {}
  BY <1>1, <1>2, PlacesFrame
<1> HIDE DEF here, next, read
<1>4. NetworkTypeOK
  BY DEF BindingInvariant
<1>5. ASSUME next # {} PROVE phase'[p] \in {"waitAck", "exited"}
  <2>1. CASE here # {} /\ ~read
    BY <1>1, <1>4, <2>1, PhaseStep DEF read
  <2> QED BY <1>2, <1>3, <1>5, <2>1
<1>6. ASSUME phase'[p] = "waitAck", Linked(p)', m_clients'[connID'[p]].status = "Connected"
      PROVE  next # {}
  <2>1. Linked(p)
    <3>1. SUFFICES ASSUME ~Linked(p), AcceptConnection, p = Head(m_newConnections) PROVE FALSE
      BY <1>6, LinkedFrame DEF BindingInvariant
    <3>2. connID'[p] = m_nextClientID /\ m_clients'[m_nextClientID] = NewClient(p)
      BY <1>4, <3>1 DEF AcceptConnection, NetworkTypeOK, TransportTypeOK
    <3> QED BY <1>6, <3>2 DEF NewClient
  <2>2. connID'[p] = connID[p]
    BY <2>1, <1>4, ConnIDKept DEF Linked, NetworkTypeOK, ServerTypeOK, BindingInvariant
  <2>3. CASE m_clients[connID[p]].status = "Connected"
    <3>1. phase[p] = "waitAck" /\ ~read
      <4>1. phase[p] # "waitRequest"
        BY <2>1, <2>3 DEF HandshakeInvariant, BoundAfterRequest, Linked
      <4> QED BY <1>4, <1>6, <4>1, PhaseStep DEF read
    <3> QED BY <1>1, <1>3, <1>6, <2>1, <2>3, <3>1
  <2>4. CASE m_clients[connID[p]].status # "Connected"
    <3> DEFINE T == toClient'[p]
               O == m_clients[connID[p]].tcpOutbox
    <3>1. m_clients'[connID[p]].tcpOutbox = Append(O, UDPBindAck)
      BY <1>6, <2>1, <2>2, <2>4, BecomesConnected DEF Linked
    <3>2. T \in Seq(Message) /\ O \in Seq(Message)
      BY <1>4, <2>1, TypeNext, QueuesTyped
         DEF BindingInvariant, NetworkTypeOK, TransportTypeOK, ServerTypeOK, Linked
    <3>3. ToCome(p)' = T \o Append(O, UDPBindAck)
      BY <1>6, <2>2, <3>1 DEF ToCome, Linked
    <3> HIDE DEF T, O
    <3>4. /\ Len(T) + Len(O) + 1 \in 1 .. Len(T \o Append(O, UDPBindAck))
          /\ (T \o Append(O, UDPBindAck))[Len(T) + Len(O) + 1] = UDPBindAck
      BY <3>2
    <3> QED BY <3>3, <3>4 DEF next, Places, UDPBindAck
  <2> QED BY <2>3, <2>4
<1> QED BY <1>3, <1>5, <1>6 DEF AckOnItsWay, next

LEMMA BoundAfterRequestNext ==
    ASSUME BindingInvariant, InboxInvariant, HandshakeInvariant, [NetworkNext]_networkVars,
           NEW p \in Process
    PROVE  BoundAfterRequest(p)'
<1>1. /\ NetworkTypeOK /\ NetworkTypeOK'
      /\ connID[p] \in Nat /\ m_nextClientID \in Nat /\ connID[p] < m_nextClientID
      /\ 0 \notin DOMAIN m_clients /\ 0 \notin DOMAIN m_clients'
      /\ toClient \in [Process -> Seq(Message)]
  BY TypeNext DEF BindingInvariant, NetworkTypeOK, TransportTypeOK, ServerTypeOK, Identities
<1>2. BoundAfterRequest(p)
  BY DEF HandshakeInvariant
<1>3. connID[p] # 0 => connID'[p] = connID[p]
  BY ConnIDKept DEF BindingInvariant
<1>4. ASSUME connID'[p] = 0 PROVE toClient'[p] = <<>>
  <2>1. connID[p] = 0 /\ toClient[p] = <<>>
    BY <1>2, <1>3, <1>4 DEF BoundAfterRequest
  <2>2. Written(p) = <<>>
    BY <1>1, <2>1 DEF Written
  <2> QED BY <1>1, <2>1, <2>2, ToClientFrame
<1>5. ASSUME phase'[p] = "waitRequest", connID'[p] \in DOMAIN m_clients'
      PROVE  m_clients'[connID'[p]].status # "Connected"
  <2>1. CASE connID[p] = 0
    <3>1. AcceptConnection /\ p = Head(m_newConnections)
      <4>1. connID'[p] # 0
        BY <1>1, <1>5
      <4>2. AcceptConnection
        BY <2>1, <4>1, IdentityFrame DEF BindingInvariant, Start
      <4> QED BY <1>1, <2>1, <4>1, <4>2 DEF AcceptConnection, NetworkTypeOK, TransportTypeOK
    <3>2. connID'[p] = m_nextClientID /\ m_clients'[m_nextClientID] = NewClient(p)
      BY <1>1, <3>1 DEF AcceptConnection, NetworkTypeOK, TransportTypeOK
    <3> QED BY <3>2 DEF NewClient
  <2>2. CASE connID[p] # 0
    <3>1. connID'[p] = connID[p] /\ phase[p] = "waitRequest"
      <4>1. phase[p] # "off"
        BY <2>2 DEF BindingInvariant, Identities
      <4> QED BY <1>1, <1>3, <1>5, <2>2, <4>1, PhaseStep
    <3>2. connID[p] \in DOMAIN m_clients
      <4>1. connID[p] # m_nextClientID
        BY <1>1
      <4>2. DOMAIN m_clients' \subseteq DOMAIN m_clients \cup {m_nextClientID}
        <5>1. AcceptConnection => DOMAIN m_clients' = DOMAIN m_clients \cup {m_nextClientID}
          BY DEF AcceptConnection
        <5>2. \A d \in udpToServer : HandleUDPBind(d) => DOMAIN m_clients' = DOMAIN m_clients
          BY DEF HandleUDPBind
        <5>3. \A c \in toRemove : RemoveDisconnected(c) => DOMAIN m_clients' \subseteq DOMAIN m_clients
          BY DEF RemoveDisconnected
        <5> QED BY <5>1, <5>2, <5>3, BindingFrame DEF BindingInvariant
      <4> QED BY <1>5, <3>1, <4>1, <4>2
    <3>3. m_clients[connID[p]].status # "Connected"
      BY <1>2, <3>1, <3>2 DEF BoundAfterRequest
    <3>4. ASSUME m_clients'[connID[p]].status = "Connected" PROVE FALSE
      <4>1. PICK d \in udpToServer : HandleUDPBind(d) /\ d.msg.token = TokenFor(connID[p])
        BY <1>5, <3>1, <3>2, <3>3, <3>4, BecomesConnected
      <4>2. d.msg.type = "UDPBind"
        BY <4>1 DEF HandleUDPBind
      <4> QED BY <1>2, <2>2, <3>1, <4>1, <4>2 DEF BoundAfterRequest, OwnToken
    <3> QED BY <3>1, <3>4
  <2> QED BY <2>1, <2>2
<1>6. ASSUME NEW d \in udpToServer', d.msg.type = "UDPBind", OwnToken(p, d.msg.token)'
      PROVE  phase'[p] \notin {"off", "waitRequest"}
  <2>1. PICK q \in Process : OwnToken(q, d.msg.token) /\ (d \in udpToServer \/ phase[q] = "waitAck")
    <3>1. CASE d \in udpToServer
      BY <1>6, <3>1 DEF BindingInvariant, Tokens
    <3>2. CASE d \notin udpToServer
      <4>1. PICK q \in Process : /\ phase[q] = "waitAck"
                                /\ d = [from |-> EndpointOf[q], msg |-> UDPBind(bindToken[q])]
        BY <1>1, <1>6, <3>2, DatagramFrame
      <4>2. d.msg.token = bindToken[q]
        BY <4>1 DEF UDPBind
      <4> QED BY <4>1, <4>2 DEF BindingInvariant, Tokens
    <3> QED BY <3>1, <3>2
  <2>2. connID'[q] = connID[q] /\ connID[q] # 0
    BY <2>1, ConnIDKept DEF OwnToken, BindingInvariant
  <2>3. connID'[p] = connID'[q]
    <3>1. connID' \in [Process -> Nat]
      BY <1>1 DEF NetworkTypeOK, TransportTypeOK
    <3> QED BY <1>6, <2>1, <2>2, <3>1 DEF OwnToken, TokenFor
  <2>4. p = q
    <3>1. Identities'
      BY IdentitiesNext DEF BindingInvariant
    <3> QED BY <2>2, <2>3, <3>1 DEF Identities
  <2>5. phase[p] \notin {"off", "waitRequest"}
    BY <1>2, <1>6, <2>1, <2>4 DEF BoundAfterRequest
  <2> QED BY <1>1, <2>5, PhaseStep
<1> QED BY <1>4, <1>5, <1>6 DEF BoundAfterRequest

LEMMA HandshakeNext ==
    ASSUME BindingInvariant, InboxInvariant, HandshakeInvariant, [NetworkNext]_networkVars
    PROVE  HandshakeInvariant'
<1>1. NoneDisconnected'
  BY NoneDisconnectedNext DEF HandshakeInvariant, BindingInvariant
<1>2. ASSUME NEW p \in Process
      PROVE  RequestOnItsWay(p)' /\ AckOnItsWay(p)' /\ BoundAfterRequest(p)'
  BY RequestNext, AckNext, BoundAfterRequestNext
<1> QED BY <1>1, <1>2 DEF HandshakeInvariant

(* The token of a request on its way to a process is that of its client. *)
LEMMA HandshakeInvariantSuffices ==
    ASSUME BindingInvariant, InboxInvariant, HandshakeInvariant
    PROVE  HandshakeCanFinish
<1> SUFFICES ASSUME NEW p \in Process
             PROVE  LET c == connID[p]
                    IN /\ phase[p] = "waitRequest" /\ Linked(p)
                            => \E i \in Handshake(p) : ToCome(p)[i] = UDPBindRequest(TokenFor(c))
                       /\ phase[p] = "waitAck" /\ Linked(p) /\ m_clients[c].status = "Connected"
                            => \E i \in Handshake(p) : Handshake(p) = {i} /\ ToCome(p)[i] = UDPBindAck
                       /\ phase[p] = "connected" => Handshake(p) = {}
  BY DEF HandshakeCanFinish, Linked
<1> DEFINE requests == Places(p, "UDPBindRequest")
           acks == Places(p, "UDPBindAck")
<1>1. RequestOnItsWay(p) /\ AckOnItsWay(p)
  BY DEF HandshakeInvariant
<1>2. Handshake(p) = requests \cup acks
  BY DEF Handshake, Places
<1>3. \A i \in 1 .. Len(ToCome(p)) : ToCome(p)[i] \in Message
  <2>1. ToCome(p) \in Seq(Message)
    BY OutboxTyped DEF BindingInvariant, NetworkTypeOK, TransportTypeOK, ToCome, Outbox
  <2> QED BY <2>1
<1>4. ASSUME phase[p] = "waitRequest", Linked(p)
      PROVE  \E i \in Handshake(p) : ToCome(p)[i] = UDPBindRequest(TokenFor(connID[p]))
  <2>1. PICK i : i \in requests
    BY <1>1, <1>4 DEF RequestOnItsWay
  <2>2. i \in 1 .. Len(ToCome(p)) /\ ToCome(p)[i].type = "UDPBindRequest"
    BY <2>1 DEF Places
  <2>3. ToCome(p)[i].token = TokenFor(connID[p])
    <3> DEFINE T == toClient[p]
               O == m_clients[connID[p]].tcpOutbox
    <3>1. T \in Seq(Message) /\ O \in Seq(Message)
      BY <1>4, QueuesTyped
         DEF BindingInvariant, NetworkTypeOK, TransportTypeOK, ServerTypeOK, Linked
    <3>2. ToCome(p) = T \o O
      BY <1>4 DEF ToCome, Linked
    <3>3. RequestsFor(T, TokenFor(connID[p])) /\ RequestsFor(O, TokenFor(connID[p]))
      BY <1>4 DEF BindingInvariant, Tokens, OwnToken, RequestsFor, Linked
    <3> HIDE DEF T, O
    <3>4. RequestsFor(T \o O, TokenFor(connID[p]))
      BY <3>1, <3>3, RequestsAppended
    <3> QED BY <2>2, <3>2, <3>4 DEF RequestsFor
  <2>4. ToCome(p)[i] = UDPBindRequest(TokenFor(connID[p]))
    BY <1>3, <2>2, <2>3 DEF Message, NetMessage, AppMessage, UDPBindRequest
  <2> QED BY <1>2, <2>1, <2>4
<1>5. ASSUME phase[p] = "waitAck", Linked(p), m_clients[connID[p]].status = "Connected"
      PROVE  \E i \in Handshake(p) : Handshake(p) = {i} /\ ToCome(p)[i] = UDPBindAck
  <2>1. PICK i : i \in acks
    BY <1>1, <1>5 DEF AckOnItsWay
  <2>2. requests = {} /\ acks = {i}
    BY <1>1, <1>5, <2>1 DEF RequestOnItsWay, AckOnItsWay, AtMostOne
  <2>3. i \in 1 .. Len(ToCome(p)) /\ ToCome(p)[i].type = "UDPBindAck"
    BY <2>1 DEF Places
  <2>4. ToCome(p)[i] = UDPBindAck
    BY <1>3, <2>3 DEF Message, NetMessage, AppMessage, UDPBindAck
  <2> HIDE DEF requests, acks
  <2> QED BY <1>2, <2>2, <2>4
<1>6. phase[p] = "connected" => Handshake(p) = {}
  BY <1>1, <1>2 DEF RequestOnItsWay, AckOnItsWay
<1> QED BY <1>4, <1>5, <1>6

(* Neither message of the handshake is ever read and dropped by a process that
   waits for it, although waitForUDPBindRequest and sendUDPBindAndWaitForAck
   throw away whatever else they read (network_client.h:165-253): the request is
   queued before anything else, the acknowledgement after the request was read,
   each once. *)
THEOREM HandshakeCanAlwaysFinish == NetworkSpec => []HandshakeCanFinish
<1>1. NetworkSpec => []BindingInvariant /\ []InboxInvariant
  BY BindingCorrect, InboxInit, InboxNext, PTL DEF NetworkSpec
<1>2. NetworkInit => HandshakeInvariant
  BY HandshakeInit
<1>3. BindingInvariant /\ InboxInvariant /\ HandshakeInvariant /\ [NetworkNext]_networkVars
        => HandshakeInvariant'
  BY HandshakeNext
<1>4. BindingInvariant /\ InboxInvariant /\ HandshakeInvariant => HandshakeCanFinish
  BY HandshakeInvariantSuffices
<1> QED BY <1>1, <1>2, <1>3, <1>4, PTL DEF NetworkSpec

-----------------------------------------------------------------------------
(* Pings and pongs *)

(* The messages of one type have numbers that rise, and stay below bound. *)
Rising(msgs, type, bound) ==
    /\ \A i \in 1 .. Len(msgs) : msgs[i].type = type => msgs[i].seq < bound
    /\ \A i, j \in 1 .. Len(msgs) : i < j => SeqsRise(msgs[i], msgs[j], type, type)

PingInvariant ==
    \A p \in Process :
        /\ Rising(ToCome(p), "Pong", m_nextPingSeq[p])
        /\ Rising(toServer[p], "Ping", m_nextPingSeq[p])
        /\ \A i \in 1 .. Len(ToCome(p)), j \in 1 .. Len(toServer[p]) :
             SeqsRise(ToCome(p)[i], toServer[p][j], "Pong", "Ping")

LEMMA PingInit == NetworkInit => PingInvariant
<1> SUFFICES ASSUME NetworkInit PROVE PingInvariant
  OBVIOUS
<1>1. /\ m_clients = <<>>
      /\ \A p \in Process : connID[p] = 0 /\ toClient[p] = <<>> /\ toServer[p] = <<>>
  BY DEF NetworkInit, TransportInit, ServerInit
<1>2. DOMAIN m_clients = {}
  BY <1>1
<1> QED BY <1>1, <1>2 DEF PingInvariant, Rising, ToCome

(* What the server still has to read from a process was there before, or is one
   of the application's messages, or is the next ping, after them. *)
LEMMA ToReadFrame ==
    ASSUME NetworkTypeOK, [NetworkNext]_networkVars, NEW p \in Process
    PROVE  /\ m_nextPingSeq[p] <= m_nextPingSeq'[p]
           /\ \E k, m \in Nat :
                /\ Shifted(toServer[p], toServer'[p], k, m)
                /\ \A i \in m + 1 .. Len(toServer'[p]) :
                     \/ toServer'[p][i] \in AppMessage
                     \/ /\ i = Len(toServer'[p])
                        /\ toServer'[p][i] = Ping(m_nextPingSeq[p])
                        /\ m_nextPingSeq'[p] = m_nextPingSeq[p] + 1
<1> DEFINE old == toServer[p]
           new == toServer'[p]
           next == m_nextPingSeq[p]
           ping == Ping(next)
           Goal == \E k, m \in Nat :
                /\ Shifted(old, new, k, m)
                /\ \A i \in m + 1 .. Len(new) :
                     \/ new[i] \in AppMessage
                     \/ i = Len(new) /\ new[i] = ping /\ m_nextPingSeq'[p] = next + 1
<1>1. /\ toServer \in [Process -> Seq(Message)] /\ m_nextPingSeq \in [Process -> Nat]
      /\ old \in Seq(Message) /\ next \in Nat
  BY DEF NetworkTypeOK, TransportTypeOK, ClientTypeOK
<1>2. /\ m_nextPingSeq'[p] \in {next, next + 1}
      /\ \/ new = old
         \/ old # <<>> /\ new = Tail(old)
         \/ new = <<>>
         \/ Extended(old, new)
         \/ ExtendedWithPing(old, new, ping) /\ m_nextPingSeq'[p] = next + 1
  <2>1. CASE NetworkServerStep /\ UNCHANGED clientVars
    <3>1. ASSUME NEW c \in DOMAIN m_clients, ReceiveTCP(c)
          PROVE  new = old \/ (old # <<>> /\ new = Tail(old))
      BY <1>1, <3>1 DEF ReceiveTCP
    <3>2. ASSUME NEW c \in toRemove, RemoveDisconnected(c) PROVE new = old \/ new = <<>>
      BY <1>1, <3>2 DEF RemoveDisconnected
    <3>3. AcceptConnection \/ PumpSend \/ CollectDisconnected
          \/ (\E d \in udpToServer : DispatchDatagram(d) \/ HandleUDPBind(d) \/ IgnoreDatagram(d))
          => new = old
      BY DEF AcceptConnection, DispatchDatagram, HandleUDPBind, IgnoreDatagram, PumpSend,
             CollectDisconnected, transportVars, tcpVars
    <3> QED BY <1>1, <2>1, <3>1, <3>2, <3>3 DEF NetworkServerStep, clientVars
  <2>2. ASSUME NEW q \in Process, NEW withPing \in BOOLEAN, ClientApplication(q, withPing)
        PROVE  /\ m_nextPingSeq'[p] \in {next, next + 1}
               /\ \/ new = old \/ Extended(old, new)
                  \/ ExtendedWithPing(old, new, ping) /\ m_nextPingSeq'[p] = next + 1
    BY <1>1, <2>2 DEF ClientApplication
  <2>3. ASSUME NEW q \in Process, NetworkClientStep(q)
        PROVE  new = old /\ m_nextPingSeq'[p] = next
    BY <2>3 DEF NetworkClientStep, Start, TakeBindRequest, PollBindRequest, TakeBindAck, PollBindAck,
                Exit, ReceiveFromServer, ReceiveDatagram, TakeTCP, transportVars, tcpVars, clientVars
  <2>5. \/ ServerApplication \/ UNCHANGED networkVars
        \/ TransportStep /\ UNCHANGED clientVars
        => new = old /\ m_nextPingSeq'[p] = next
    BY DEF ServerApplication, TransportStep, ServerDisconnect, ClientDisconnect, UDPClose,
           networkVars, transportVars, tcpVars, clientVars
  <2> QED BY <2>1, <2>2, <2>3, <2>5 DEF NetworkNext
<1>3. ping \in Message /\ ping = Ping(m_nextPingSeq[p])
  BY <1>1, MessagesTyped
<1> HIDE DEF old, new, ping, next
<1>4. ASSUME new = old PROVE Goal
  <2>1. Shifted(old, new, 0, Len(old)) /\ Len(old) \in Nat
    BY <1>1, <1>4 DEF Shifted
  <2> USE <2>1
  <2> WITNESS 0 \in Nat, Len(old) \in Nat
  <2> QED BY <1>1, <1>4
<1>5. ASSUME old # <<>>, new = Tail(old) PROVE Goal
  <2>1. Shifted(old, new, 1, Len(new)) /\ Len(new) \in Nat
    BY <1>1, <1>5 DEF Shifted
  <2> USE <2>1
  <2> WITNESS 1 \in Nat, Len(new) \in Nat
  <2> QED OBVIOUS
<1>6. ASSUME new = <<>> PROVE Goal
  <2>1. Shifted(old, new, 0, Len(new)) /\ Len(new) = 0
    BY <1>1, <1>6 DEF Shifted
  <2> USE <2>1
  <2> WITNESS 0 \in Nat, Len(new) \in Nat
  <2> QED OBVIOUS
<1>7. ASSUME Extended(old, new) PROVE Goal
  <2>1. Shifted(old, new, 0, Len(old)) /\ Len(old) \in Nat
    BY <1>1, <1>7 DEF Shifted, Extended
  <2>2. \A i \in Len(old) + 1 .. Len(new) : new[i] \in AppMessage
    BY <1>1, <1>7 DEF Extended
  <2> USE <2>1
  <2> WITNESS 0 \in Nat, Len(old) \in Nat
  <2> QED BY <2>2
<1>8. ASSUME ExtendedWithPing(old, new, ping), m_nextPingSeq'[p] = next + 1 PROVE Goal
  <2>1. Shifted(old, new, 0, Len(old)) /\ Len(old) \in Nat
    <3>1. Len(old) \in Nat /\ Len(new) \in Nat /\ Len(old) < Len(new)
      BY <1>1, <1>8 DEF ExtendedWithPing
    <3>2. \A i \in 1 .. Len(old) : new[i] = old[i]
      BY <1>8, <3>1 DEF ExtendedWithPing
    <3> QED BY <3>1, <3>2 DEF Shifted
  <2>2. \A i \in Len(old) + 1 .. Len(new) - 1 : new[i] \in AppMessage
    BY <1>1, <1>8 DEF ExtendedWithPing
  <2>3. \A i \in Len(old) + 1 .. Len(new) :
          new[i] \in AppMessage \/ (i = Len(new) /\ new[i] = ping)
    BY <1>1, <1>8, <2>2 DEF ExtendedWithPing
  <2> USE <2>1
  <2> WITNESS 0 \in Nat, Len(old) \in Nat
  <2> QED BY <1>8, <2>3
<1>9. Goal
  BY <1>2, <1>4, <1>5, <1>6, <1>7, <1>8
<1>10. m_nextPingSeq[p] <= m_nextPingSeq'[p]
  <2>1. next <= m_nextPingSeq'[p]
    BY <1>1, <1>2
  <2> QED BY ONLY <2>1 DEF next
<1>11. \E k, m \in Nat :
          /\ Shifted(toServer[p], toServer'[p], k, m)
          /\ \A i \in m + 1 .. Len(toServer'[p]) :
               \/ toServer'[p][i] \in AppMessage
               \/ /\ i = Len(toServer'[p])
                  /\ toServer'[p][i] = Ping(m_nextPingSeq[p])
                  /\ m_nextPingSeq'[p] = m_nextPingSeq[p] + 1
  BY ONLY <1>9 DEF old, new, next, ping
<1> QED BY ONLY <1>10, <1>11

(* A queue that keeps a part of itself in order, and gets at most one message of
   the type, numbered above all it held, still rises. *)
LEMMA RisingKept ==
    ASSUME NEW old, NEW new, NEW type, NEW bound \in Nat, NEW next \in Nat,
           Len(old) \in Nat, Len(new) \in Nat,
           Rising(old, type, bound), bound <= next,
           \A i \in 1 .. Len(old) : old[i].type = type => old[i].seq \in Nat,
           NEW k \in Nat, NEW m \in Nat, Shifted(old, new, k, m),
           \A i \in m + 1 .. Len(new) : new[i].type = type =>
              /\ i = Len(new) /\ new[i].seq < next /\ new[i].seq \in Nat
              /\ \A j \in 1 .. Len(old) : SeqsRise(old[j], new[i], type, type)
    PROVE  Rising(new, type, next)
<1>1. \A i \in 1 .. m : k + i \in 1 .. Len(old) /\ new[i] = old[k + i]
  BY DEF Shifted
<1>2. ASSUME NEW i \in 1 .. Len(new), new[i].type = type PROVE new[i].seq < next
  <2>1. CASE i <= m
    <3>1. i \in 1 .. m
      BY <2>1
    <3>2. k + i \in 1 .. Len(old) /\ new[i] = old[k + i]
      BY <1>1, <3>1
    <3>3. old[k + i].seq < bound /\ old[k + i].seq \in Nat
      BY <1>2, <3>2 DEF Rising
    <3> QED BY <3>2, <3>3
  <2>2. CASE i > m
    BY <1>2, <2>2
  <2> QED BY <2>1, <2>2
<1>3. ASSUME NEW i \in 1 .. Len(new), NEW j \in 1 .. Len(new), i < j
      PROVE  SeqsRise(new[i], new[j], type, type)
  <2>1. CASE j <= m
    <3>1. i \in 1 .. m /\ j \in 1 .. m
      BY <1>3, <2>1
    <3>2. /\ k + i \in 1 .. Len(old) /\ k + j \in 1 .. Len(old) /\ k + i < k + j
          /\ new[i] = old[k + i] /\ new[j] = old[k + j]
      BY <1>1, <1>3, <3>1
    <3> QED BY <3>2 DEF Rising
  <2>2. CASE j > m /\ i <= m
    <3>1. i \in 1 .. m
      BY <2>2
    <3>2. k + i \in 1 .. Len(old) /\ new[i] = old[k + i]
      BY <1>1, <3>1
    <3>3. ASSUME new[j].type = type PROVE SeqsRise(old[k + i], new[j], type, type)
      <4>1. j \in m + 1 .. Len(new)
        BY <2>2
      <4> QED BY <3>2, <3>3, <4>1
    <3> QED BY <3>2, <3>3 DEF SeqsRise
  <2>3. CASE j > m /\ i > m
    BY <1>3, <2>3 DEF SeqsRise
  <2> QED BY <2>1, <2>2, <2>3
<1> QED BY <1>2, <1>3 DEF Rising

LEMMA PingNext ==
    ASSUME BindingInvariant, NoneDisconnected, PingInvariant, [NetworkNext]_networkVars
    PROVE  PingInvariant'
<1> SUFFICES ASSUME NEW p \in Process
             PROVE  /\ Rising(ToCome(p)', "Pong", m_nextPingSeq'[p])
                    /\ Rising(toServer'[p], "Ping", m_nextPingSeq'[p])
                    /\ \A i \in 1 .. Len(ToCome(p)'), j \in 1 .. Len(toServer'[p]) :
                         SeqsRise(ToCome(p)'[i], toServer'[p][j], "Pong", "Ping")
  BY DEF PingInvariant
<1> DEFINE pongs == ToCome(p)
           pongs1 == ToCome(p)'
           pings == toServer[p]
           pings1 == toServer'[p]
           bound == m_nextPingSeq[p]
           next == m_nextPingSeq'[p]
<1>1. NetworkTypeOK /\ NetworkTypeOK'
  BY TypeNext DEF BindingInvariant
<1>2. /\ pongs \in Seq(Message) /\ pongs1 \in Seq(Message)
      /\ pings \in Seq(Message) /\ pings1 \in Seq(Message)
      /\ bound \in Nat /\ next \in Nat
  <2>1. /\ \A c \in DOMAIN m_clients : m_clients[c].tcpOutbox \in Seq(Message)
        /\ \A c \in DOMAIN m_clients' : m_clients'[c].tcpOutbox \in Seq(Message)
    BY <1>1, QueuesTyped DEF NetworkTypeOK, ServerTypeOK
  <2> QED BY <1>1, <2>1 DEF ToCome, NetworkTypeOK, TransportTypeOK, ClientTypeOK
<1>3. /\ Rising(pongs, "Pong", bound)
      /\ Rising(pings, "Ping", bound)
      /\ \A i \in 1 .. Len(pongs), j \in 1 .. Len(pings) : SeqsRise(pongs[i], pings[j], "Pong", "Ping")
  BY DEF PingInvariant
<1>4. PICK k \in Nat, m \in Nat :
        /\ Shifted(pongs, pongs1, k, m)
        /\ \A i \in m + 1 .. Len(pongs1) :
             \/ pongs1[i] \in AppMessage
             \/ i = m + 1 /\ i = Len(pongs1) /\ News(p, pongs1[i])
  BY ToComeFrame
<1>5. bound <= next
  BY <1>1, ToReadFrame
<1>6. PICK k1 \in Nat, m1 \in Nat :
        /\ Shifted(pings, pings1, k1, m1)
        /\ \A i \in m1 + 1 .. Len(pings1) :
             \/ pings1[i] \in AppMessage
             \/ i = Len(pings1) /\ pings1[i] = Ping(bound) /\ next = bound + 1
  BY <1>1, ToReadFrame
<1>7. ASSUME NEW msg, News(p, msg), msg.type = "Pong"
      PROVE  /\ pings # <<>> /\ pings1 = Tail(pings)
             /\ Head(pings).type = "Ping" /\ msg.seq = Head(pings).seq
  BY <1>7 DEF News, Asked, Acknowledged, Answered, UDPBindRequest, UDPBindAck, Pong
<1>8. /\ \A msg \in AppMessage : msg.type # "Ping" /\ msg.type # "Pong"
      /\ \A msg \in Message : msg.type \in {"Ping", "Pong"} => msg.seq \in Nat
  BY DEF Message, NetMessage, AppMessage
<1> HIDE DEF pongs, pongs1, pings, pings1, bound, next
<1>9. /\ Len(pongs) \in Nat /\ Len(pongs1) \in Nat /\ Len(pings) \in Nat /\ Len(pings1) \in Nat
      /\ \A i \in 1 .. Len(pongs) : pongs[i].type = "Pong" => pongs[i].seq \in Nat
      /\ \A i \in 1 .. Len(pings) : pings[i].type = "Ping" => pings[i].seq \in Nat
  BY <1>2, <1>8
<1>10. ASSUME NEW i \in m + 1 .. Len(pongs1), pongs1[i].type = "Pong"
       PROVE  /\ i = Len(pongs1) /\ i = m + 1 /\ pongs1[i].seq < next /\ pongs1[i].seq \in Nat
              /\ \A j \in 1 .. Len(pongs) : SeqsRise(pongs[j], pongs1[i], "Pong", "Pong")
              /\ \A j \in 1 .. Len(pings1) : SeqsRise(pongs1[i], pings1[j], "Pong", "Ping")
  <2>1. i = Len(pongs1) /\ i = m + 1 /\ News(p, pongs1[i])
    BY <1>4, <1>8, <1>10
  <2>2. /\ pings # <<>> /\ pings1 = Tail(pings)
        /\ Head(pings).type = "Ping" /\ pongs1[i].seq = Head(pings).seq
    BY <1>7, <1>10, <2>1
  <2>3. 1 \in 1 .. Len(pings) /\ pings[1] = Head(pings)
    BY <1>2, <2>2
  <2>4. pongs1[i].seq \in Nat /\ pongs1[i].seq < bound
    BY <1>3, <1>9, <2>2, <2>3 DEF Rising
  <2>5. pongs1[i].seq < next
    BY <1>2, <1>5, <2>4
  <2>6. ASSUME NEW j \in 1 .. Len(pongs) PROVE SeqsRise(pongs[j], pongs1[i], "Pong", "Pong")
    BY <1>3, <2>2, <2>3 DEF SeqsRise
  <2>7. ASSUME NEW j \in 1 .. Len(pings1) PROVE SeqsRise(pongs1[i], pings1[j], "Pong", "Ping")
    <3>1. j + 1 \in 1 .. Len(pings) /\ 1 < j + 1 /\ pings1[j] = pings[j + 1]
      BY <1>2, <2>2
    <3> QED BY <1>3, <2>2, <2>3, <3>1 DEF Rising, SeqsRise
  <2> QED BY <2>1, <2>4, <2>5, <2>6, <2>7
<1>11. Rising(pongs1, "Pong", next)
  BY <1>2, <1>3, <1>4, <1>5, <1>9, <1>10, RisingKept
<1>12. ASSUME NEW i \in m1 + 1 .. Len(pings1), pings1[i].type = "Ping"
       PROVE  i = Len(pings1) /\ pings1[i].seq = bound /\ next = bound + 1
  BY <1>6, <1>8, <1>12 DEF Ping
<1>13. Rising(pings1, "Ping", next)
  <2>1. ASSUME NEW i \in m1 + 1 .. Len(pings1), pings1[i].type = "Ping"
        PROVE  /\ i = Len(pings1) /\ pings1[i].seq < next /\ pings1[i].seq \in Nat
               /\ \A j \in 1 .. Len(pings) : SeqsRise(pings[j], pings1[i], "Ping", "Ping")
    BY <1>2, <1>3, <1>12, <2>1 DEF Rising, SeqsRise
  <2> QED BY <1>2, <1>3, <1>5, <1>6, <1>9, <2>1, RisingKept
<1>14. ASSUME NEW i \in 1 .. Len(pongs1), NEW j \in 1 .. Len(pings1)
       PROVE  SeqsRise(pongs1[i], pings1[j], "Pong", "Ping")
  <2>1. CASE i > m
    BY <1>4, <1>10, <2>1 DEF SeqsRise
  <2>2. CASE i <= m
    <3>1. k + i \in 1 .. Len(pongs) /\ pongs1[i] = pongs[k + i]
      BY <1>4, <2>2 DEF Shifted
    <3>2. CASE j <= m1
      <4>1. k1 + j \in 1 .. Len(pings) /\ pings1[j] = pings[k1 + j]
        BY <1>6, <3>2 DEF Shifted
      <4> QED BY <1>3, <3>1, <4>1
    <3>3. CASE j > m1
      <4>1. pings1[j].type = "Ping" => pings1[j].seq = bound
        BY <1>12, <3>3
      <4> QED BY <1>3, <3>1, <4>1 DEF Rising, SeqsRise
    <3> QED BY <3>2, <3>3
  <2> QED BY <2>1, <2>2
<1> QED BY <1>11, <1>13, <1>14 DEF pongs, pongs1, pings, pings1, bound, next

(* Pings over TCP are answered once each and in order: maybeQueuePing numbers
   them, one connection carries them, and dispatchIncomingMessage answers each
   as it is read (network_client.h:261-297, network_server.h:177-193). *)
THEOREM PingsAnswered == NetworkSpec => []PingsAnsweredInOrder
<1>1. NetworkSpec => []BindingInvariant /\ []InboxInvariant
  BY BindingCorrect, InboxInit, InboxNext, PTL DEF NetworkSpec
<1>2. NetworkInit => PingInvariant /\ NoneDisconnected
  BY PingInit, HandshakeInit DEF HandshakeInvariant
<1>3. BindingInvariant /\ NoneDisconnected /\ [NetworkNext]_networkVars => NoneDisconnected'
  BY NoneDisconnectedNext DEF BindingInvariant
<1>4. BindingInvariant /\ NoneDisconnected /\ PingInvariant /\ [NetworkNext]_networkVars => PingInvariant'
  BY PingNext
<1>5. PingInvariant => PingsAnsweredInOrder
  BY DEF PingInvariant, PingsAnsweredInOrder, Rising
<1> QED BY <1>1, <1>2, <1>3, <1>4, <1>5, PTL DEF NetworkSpec
=============================================================================
