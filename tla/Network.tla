------------------------------ MODULE Network ------------------------------
(* One NetworkServer and its NetworkClients over the transports, under the most
   general application: at any point of the game thread the layer above appends
   what it likes to the outboxes, takes inboxes and returns from callbacks, and
   a client process that is past the handshake sends what it likes, and its
   pings.  NetSession and GameSession put an application in its place. *)
EXTENDS NetworkServer, NetworkClient

networkVars == <<transportVars, serverVars, clientVars>>

NetworkTypeOK ==
    /\ TransportTypeOK
    /\ ServerTypeOK
    /\ ClientTypeOK

NetworkInit ==
    /\ TransportInit
    /\ ServerInit
    /\ ClientInit

-----------------------------------------------------------------------------
(* The application, told by what it leaves of the queues it is given *)

(* after is the queue before with messages of the application added to it. *)
Extended(before, after) ==
    /\ after \in Seq(Message)
    /\ Len(before) <= Len(after)
    /\ \A i \in 1 .. Len(after) :
         IF i <= Len(before) THEN after[i] = before[i] ELSE after[i] \in AppMessage

(* The fields of a client that say who and what it is. *)
SameBinding(new, old) ==
    /\ new.udpToken = old.udpToken
    /\ new.tcpConnection = old.tcpConnection
    /\ new.udpEndpoint = old.udpEndpoint
    /\ new.status = old.status

(* queueOutgoingMessage, queueBroadcast and consumeIncomingMessages, any number
   of each, for one client. *)
Used(old, new) ==
    /\ new \in NetworkClientRecord
    /\ SameBinding(new, old)
    /\ Extended(old.tcpOutbox, new.tcpOutbox)
    /\ Extended(old.udpOutbox, new.udpOutbox)
    /\ new.inbox \in {old.inbox, <<>>}

ServerApplication ==
    /\ m_clients' \in [DOMAIN m_clients -> NetworkClientRecord]
    /\ \A c \in DOMAIN m_clients : Used(m_clients[c], m_clients'[c])
    /\ callback' \in {callback, NoCallback}
    /\ UNCHANGED <<transportVars, clientVars,
                   m_nextClientID, m_udpEndpointToClientID, toRemove>>

(* The same, and ping after them. *)
ExtendedWithPing(before, after, ping) ==
    /\ after \in Seq(Message)
    /\ Len(before) < Len(after)
    /\ after[Len(after)] = ping
    /\ \A i \in 1 .. Len(after) - 1 :
         IF i <= Len(before) THEN after[i] = before[i] ELSE after[i] \in AppMessage

(* A client's pumpSend: what its application queued, then the ping that
   maybeQueuePing adds when the interval has passed. *)
ClientApplication(p, withPing) ==
    LET ping  == Ping(m_nextPingSeq[p])
        byTCP == withPing /\ PingTransport = "TCP" /\ clientOpen[p] /\ serverOpen[p]
        byUDP == withPing /\ PingTransport = "UDP"
    IN /\ phase[p] = "connected"
       /\ withPing => PingsSent < MaxPings
       /\ m_nextPingSeq' = [m_nextPingSeq EXCEPT ![p] = IF withPing THEN @ + 1 ELSE @]
       /\ toServer' \in [Process -> Seq(Message)]
       /\ \A q \in Process \ {p} : toServer'[q] = toServer[q]
       /\ IF byTCP THEN ExtendedWithPing(toServer[p], toServer'[p], ping)
                   ELSE Extended(toServer[p], toServer'[p])
       /\ udpToServer \subseteq udpToServer'
       /\ byUDP => [from |-> EndpointOf[p], msg |-> ping] \in udpToServer'
       /\ udpToServer' \ udpToServer \subseteq
            [from: {EndpointOf[p]}, msg: AppMessage \cup (IF byUDP THEN {ping} ELSE {})]
       /\ UNCHANGED <<m_newConnections, connID, serverOpen, clientOpen, toClient,
                      udpToClient, udpOpen, serverVars, phase, bindToken, elapsed>>

-----------------------------------------------------------------------------
NetworkServerStep ==
    \/ AcceptConnection
    \/ \E c \in DOMAIN m_clients : ReceiveTCP(c)
    \/ \E d \in udpToServer : DispatchDatagram(d) \/ HandleUDPBind(d) \/ IgnoreDatagram(d)
    \/ PumpSend
    \/ CollectDisconnected
    \/ \E c \in toRemove : RemoveDisconnected(c)

NetworkClientStep(p) ==
    \/ Start(p)
    \/ TakeBindRequest(p)
    \/ PollBindRequest(p)
    \/ TakeBindAck(p)
    \/ PollBindAck(p)
    \/ Exit(p)
    \/ ReceiveFromServer(p)
    \/ \E d \in udpToClient : ReceiveDatagram(p, d)

TransportStep ==
    \/ \E p \in Process : ServerDisconnect(p) \/ ClientDisconnect(p)
    \/ UDPClose

NetworkNext ==
    \/ NetworkServerStep /\ UNCHANGED clientVars
    \/ ServerApplication
    \/ \E p \in Process : NetworkClientStep(p) /\ UNCHANGED serverVars
    \/ \E p \in Process, withPing \in BOOLEAN : ClientApplication(p, withPing)
    \/ TransportStep /\ UNCHANGED <<serverVars, clientVars>>

NetworkSpec == NetworkInit /\ [][NetworkNext]_networkVars

-----------------------------------------------------------------------------
(* The endpoint map and the client table describe the same bindings: an
   endpoint maps to a client that is present and was bound to it, and exactly
   the Connected clients are bound.  pumpReceive's m_clients[it->second] and the
   assertion in sendUDPMessage rest on this, across late and repeated UDPBinds,
   port reuse and removals in any order. *)
EndpointMapConsistent ==
    /\ \A e \in DOMAIN m_udpEndpointToClientID :
         /\ m_udpEndpointToClientID[e] \in DOMAIN m_clients
         /\ m_clients[m_udpEndpointToClientID[e]].udpEndpoint = e
    /\ \A c \in DOMAIN m_clients :
         IF m_clients[c].status = "Connected"
         THEN /\ m_clients[c].udpEndpoint \in DOMAIN m_udpEndpointToClientID
              /\ m_udpEndpointToClientID[m_clients[c].udpEndpoint] = c
         ELSE m_clients[c].udpEndpoint = NoEndpoint

(* The connect callback runs for a client at most once: handleUDPBind does not
   look at the status, so this rests on no UDPBind with a client's token ever
   coming from an unbound endpoint after the first. *)
ConnectOnce ==
    [][\A c \in DOMAIN m_clients :
         callback' = [kind |-> "connect", client |-> c] /\ callback' # callback
            => m_clients[c].status # "Connected"]_networkVars

(* What the server has still to tell process p over TCP, in order. *)
ToCome(p) ==
    toClient[p] \o (IF connID[p] \in DOMAIN m_clients
                    THEN m_clients[connID[p]].tcpOutbox ELSE <<>>)

(* Where in it the messages of the handshake are. *)
Handshake(p) ==
    {i \in 1 .. Len(ToCome(p)) : ToCome(p)[i].type \in {"UDPBindRequest", "UDPBindAck"}}

(* The handshake cannot hang on a message that was read and dropped: while a
   process waits for the request, or for the acknowledgement of a client that
   is bound, that message is still to come, as long as the connection is open
   at both ends; and a process past the handshake never meets either again. *)
HandshakeCanFinish ==
    \A p \in Process :
        LET c == connID[p]
            alive == c \in DOMAIN m_clients /\ serverOpen[p] /\ clientOpen[p]
        IN /\ phase[p] = "waitRequest" /\ alive
                => \E i \in Handshake(p) : ToCome(p)[i] = UDPBindRequest(TokenFor(c))
           /\ phase[p] = "waitAck" /\ alive /\ m_clients[c].status = "Connected"
                => \E i \in Handshake(p) : Handshake(p) = {i} /\ ToCome(p)[i] = UDPBindAck
           /\ phase[p] = "connected" => Handshake(p) = {}

(* Nothing reaches the application from a client that is not bound: the server
   does not check, it relies on the client waiting for the acknowledgement. *)
InboxOnlyFromConnected ==
    \A c \in DOMAIN m_clients : m_clients[c].inbox # <<>> => m_clients[c].status = "Connected"

(* Of two messages, one of each type, the first has the smaller number. *)
SeqsRise(m, n, first, second) == m.type = first /\ n.type = second => m.seq < n.seq

(* Pings over TCP are answered once each and in order: the numbers of the pongs
   still to come rise, so do those of the pings still to be read, and every one
   of these is above every one of those. *)
PingsAnsweredInOrder ==
    PingTransport = "TCP" =>
        \A p \in Process :
            LET pongs == ToCome(p)
                pings == toServer[p]
            IN /\ \A i, j \in 1 .. Len(pongs) : i < j => SeqsRise(pongs[i], pongs[j], "Pong", "Pong")
               /\ \A i, j \in 1 .. Len(pings) : i < j => SeqsRise(pings[i], pings[j], "Ping", "Ping")
               /\ \A i \in 1 .. Len(pongs), j \in 1 .. Len(pings) :
                    SeqsRise(pongs[i], pings[j], "Pong", "Ping")

-----------------------------------------------------------------------------
(* The inductive invariant behind EndpointMapConsistent and ConnectOnce: a
   client is identified by its connection, its token by the client, and a
   binding by the endpoint of the process at the other end. *)

(* Client identifiers are given out once, in order, one per connection. *)
Identities ==
    /\ FirstClientID <= m_nextClientID
    /\ \A p \in Process : connID[p] < m_nextClientID
    /\ \A p, q \in Process : connID[p] = connID[q] /\ connID[p] # 0 => p = q
    /\ \A p \in Process : phase[p] = "off" => connID[p] = 0
    /\ \A i \in 1 .. Len(m_newConnections) :
         connID[m_newConnections[i]] = 0 /\ phase[m_newConnections[i]] # "off"
    /\ \A i, j \in 1 .. Len(m_newConnections) :
         m_newConnections[i] = m_newConnections[j] => i = j

ClientsIdentified ==
    \A c \in DOMAIN m_clients :
        /\ FirstClientID <= c /\ c < m_nextClientID
        /\ m_clients[c].udpToken = TokenFor(c)
        /\ connID[m_clients[c].tcpConnection] = c

(* Wherever a token is, it is that of the client whose process it came from or
   goes to. *)
OwnToken(p, token) == connID[p] # 0 /\ token = TokenFor(connID[p])

Tokens ==
    /\ \A p \in Process : \A i \in 1 .. Len(toClient[p]) :
         toClient[p][i].type = "UDPBindRequest" => OwnToken(p, toClient[p][i].token)
    /\ \A c \in DOMAIN m_clients : \A i \in 1 .. Len(m_clients[c].tcpOutbox) :
         m_clients[c].tcpOutbox[i].type = "UDPBindRequest" =>
            m_clients[c].tcpOutbox[i].token = TokenFor(c)
    /\ \A p \in Process : phase[p] = "waitAck" => OwnToken(p, bindToken[p])
    /\ \A d \in udpToServer : d.msg.type = "UDPBind" =>
         \E p \in Process : d.from = EndpointOf[p] /\ OwnToken(p, d.msg.token)

(* A client is bound to nothing but the endpoint of its process. *)
BoundToProcess ==
    /\ \A c \in DOMAIN m_clients :
         m_clients[c].udpEndpoint \in {NoEndpoint, EndpointOf[m_clients[c].tcpConnection]}
    /\ toRemove \subseteq DOMAIN m_clients

BindingInvariant ==
    /\ NetworkTypeOK
    /\ Identities
    /\ ClientsIdentified
    /\ Tokens
    /\ BoundToProcess
    /\ EndpointMapConsistent
=============================================================================
