-------------------------- MODULE NetSession_proofs --------------------------
(* The application that TLC runs on the network layer is one of those Network
   allows, for any messages it may send and however often: what is proved of
   NetworkSpec is proved of it, and so of what its run checks. *)
EXTENDS NetSession, Network_proofs

-----------------------------------------------------------------------------
(* Queues *)

LEMMA SentAreMessages ==
    \A msg \in AppSent : <<msg>> \in Seq(AppMessage) /\ <<msg>> \in Seq(Message)
BY AppSentAssumption DEF Message

(* A queue is extended by what is put at its end, and by nothing. *)
LEMMA ExtendedBy ==
    ASSUME NEW queue \in Seq(Message), NEW msg \in AppMessage
    PROVE  /\ Extended(queue, queue)
           /\ Extended(queue, queue \o <<msg>>)
<1>1. queue \o <<msg>> \in Seq(Message) /\ Len(queue \o <<msg>>) = Len(queue) + 1 /\ Len(queue) \in Nat
  BY DEF Message
<1>2. \A i \in 1 .. Len(queue) + 1 :
        (queue \o <<msg>>)[i] = IF i <= Len(queue) THEN queue[i] ELSE msg
  OBVIOUS
<1> QED BY <1>1, <1>2 DEF Extended

-----------------------------------------------------------------------------
(* The server's application *)

(* A client for whom a message is queued, by either transport. *)
LEMMA QueuedIsUsed ==
    ASSUME NEW old \in NetworkClientRecord, NEW msg \in AppMessage
    PROVE  /\ Used(old, old)
           /\ Used(old, [old EXCEPT !.tcpOutbox = @ \o <<msg>>])
           /\ Used(old, [old EXCEPT !.udpOutbox = @ \o <<msg>>])
           /\ Used(old, [old EXCEPT !.inbox = <<>>])
<1>1. old.tcpOutbox \in Seq(Message) /\ old.udpOutbox \in Seq(Message) /\ <<>> \in Seq(Message)
  BY QueuesTyped
<1>2. /\ Extended(old.tcpOutbox, old.tcpOutbox) /\ Extended(old.tcpOutbox, old.tcpOutbox \o <<msg>>)
      /\ Extended(old.udpOutbox, old.udpOutbox) /\ Extended(old.udpOutbox, old.udpOutbox \o <<msg>>)
  BY <1>1, ExtendedBy
<1>3. old.tcpOutbox \o <<msg>> \in Seq(Message) /\ old.udpOutbox \o <<msg>> \in Seq(Message)
  BY <1>2 DEF Extended
<1>4. /\ [old EXCEPT !.tcpOutbox = @ \o <<msg>>] \in NetworkClientRecord
      /\ [old EXCEPT !.udpOutbox = @ \o <<msg>>] \in NetworkClientRecord
      /\ [old EXCEPT !.inbox = <<>>] \in NetworkClientRecord
  BY <1>1, <1>3, QueueReplaced
<1> DEFINE a == old.tcpOutbox \o <<msg>>
           b == old.udpOutbox \o <<msg>>
<1>5. Extended(old.tcpOutbox, a) /\ Extended(old.udpOutbox, b)
      /\ [old EXCEPT !.tcpOutbox = a] \in NetworkClientRecord /\ [old EXCEPT !.udpOutbox = b] \in NetworkClientRecord
  BY <1>2, <1>4
<1>6. /\ Used(old, [old EXCEPT !.tcpOutbox = a])
      /\ Used(old, [old EXCEPT !.udpOutbox = b])
  <2> HIDE DEF a, b
  <2> QED BY <1>2, <1>5 DEF Used, SameBinding, NetworkClientRecord
<1>7. Used(old, old) /\ Used(old, [old EXCEPT !.inbox = <<>>])
  BY <1>2, <1>4 DEF Used, SameBinding, NetworkClientRecord
<1> QED BY <1>6, <1>7

LEMMA QueueingIsApplication ==
    ASSUME BindingInvariant, NEW C, NEW msg \in AppSent, NEW transport,
           ServerAppQueues(C, msg, transport)
    PROVE  ServerApplication
<1>1. m_clients \in [DOMAIN m_clients -> NetworkClientRecord]
  BY DEF BindingInvariant, NetworkTypeOK, ServerTypeOK
<1>2. m_clients' = QueueMessages(m_clients, C, <<msg>>, transport)
      /\ UNCHANGED <<transportVars, clientVars, m_nextClientID, m_udpEndpointToClientID, callback, toRemove>>
  BY DEF ServerAppQueues
<1>3. DOMAIN m_clients' = DOMAIN m_clients /\ m_clients' \in [DOMAIN m_clients -> NetworkClientRecord]
  <2> DEFINE new == QueueMessages(m_clients, C, <<msg>>, transport)
  <2>1. <<msg>> \in Seq(Message)
    BY SentAreMessages
  <2>2. DOMAIN new = DOMAIN m_clients /\ new \in [DOMAIN m_clients -> NetworkClientRecord]
    BY <1>1, <2>1, QueueMessagesTyped
  <2> HIDE DEF new
  <2>3. m_clients' = new
    BY <1>2 DEF new
  <2> QED BY <2>2, <2>3
<1>4. ASSUME NEW c \in DOMAIN m_clients PROVE Used(m_clients[c], m_clients'[c])
  <2>1. m_clients[c] \in NetworkClientRecord /\ msg \in AppMessage
    BY <1>1, AppSentAssumption
  <2>2. m_clients'[c] \in {m_clients[c], [m_clients[c] EXCEPT !.tcpOutbox = @ \o <<msg>>],
                           [m_clients[c] EXCEPT !.udpOutbox = @ \o <<msg>>]}
    BY <1>2 DEF QueueMessages, QueueTCP, QueueUDP
  <2> QED BY <2>1, <2>2, QueuedIsUsed
<1> QED BY <1>2, <1>3, <1>4 DEF ServerApplication

LEMMA ConsumingIsApplication ==
    ASSUME BindingInvariant, NEW c \in DOMAIN m_clients, ServerAppConsumes(c)
    PROVE  ServerApplication
<1>1. m_clients \in [DOMAIN m_clients -> NetworkClientRecord]
  BY DEF BindingInvariant, NetworkTypeOK, ServerTypeOK
<1>2. m_clients' = [m_clients EXCEPT ![c] = [m_clients[c] EXCEPT !.inbox = <<>>]]
      /\ UNCHANGED <<transportVars, clientVars, m_nextClientID, m_udpEndpointToClientID, callback, toRemove>>
  BY DEF ServerAppConsumes, Consumed
<1>3. ASSUME NEW b \in DOMAIN m_clients PROVE Used(m_clients[b], m_clients'[b])
  <2>1. m_clients[b] \in NetworkClientRecord /\ UDPBindAck \in Message
    BY <1>1, MessagesTyped
  <2>2. m_clients'[b] \in {m_clients[b], [m_clients[b] EXCEPT !.inbox = <<>>]}
    BY <1>1, <1>2
  <2>3. PlayerJoined(0) \in AppMessage
    BY DEF AppMessage, PlayerJoined
  <2> QED BY <2>1, <2>2, <2>3, QueuedIsUsed
<1>4. m_clients' \in [DOMAIN m_clients -> NetworkClientRecord]
  <2>1. DOMAIN m_clients' = DOMAIN m_clients /\ m_clients' = [b \in DOMAIN m_clients |-> m_clients'[b]]
    BY <1>1, <1>2
  <2> QED BY <1>3, <2>1 DEF Used
<1> QED BY <1>2, <1>3, <1>4 DEF ServerApplication

LEMMA ReturningIsApplication ==
    ASSUME BindingInvariant, CallbackReturns
    PROVE  ServerApplication
<1>1. m_clients \in [DOMAIN m_clients -> NetworkClientRecord]
  BY DEF BindingInvariant, NetworkTypeOK, ServerTypeOK
<1>2. m_clients' = m_clients /\ callback' = NoCallback
      /\ UNCHANGED <<transportVars, clientVars, m_nextClientID, m_udpEndpointToClientID, toRemove>>
  BY DEF CallbackReturns
<1>3. PlayerJoined(0) \in AppMessage
  BY DEF AppMessage, PlayerJoined
<1>4. \A c \in DOMAIN m_clients : Used(m_clients[c], m_clients'[c])
  BY <1>1, <1>2, <1>3, QueuedIsUsed
<1> QED BY <1>1, <1>2, <1>4 DEF ServerApplication

-----------------------------------------------------------------------------
(* The application of a client *)

LEMMA SendingIsApplication ==
    ASSUME BindingInvariant, NEW p \in Process, ClientAppStep(p)
    PROVE  \E withPing \in BOOLEAN : ClientApplication(p, withPing)
<1>1. NetworkTypeOK /\ <<>> \in Seq(AppMessage) /\ \A msg \in AppSent : <<msg>> \in Seq(AppMessage)
  BY SentAreMessages DEF BindingInvariant
<1>2. ASSUME NEW msg \in AppSent, NEW transport, NEW withPing \in BOOLEAN,
             ClientAppSends(p, msg, transport, withPing)
      PROVE  ClientApplication(p, withPing)
  <2>1. ClientPumpSend(p, <<msg>>, <<>>, withPing) \/ ClientPumpSend(p, <<>>, <<msg>>, withPing)
    BY <1>2 DEF ClientAppSends
  <2>2. UNCHANGED serverVars
    BY <1>2 DEF ClientAppSends
  <2> QED BY <1>1, <2>1, <2>2, PumpSendIsApplication
<1>3. ASSUME ClientPings(p) PROVE ClientApplication(p, TRUE)
  BY <1>1, <1>3, PumpSendIsApplication DEF ClientPings
<1> QED BY <1>2, <1>3 DEF ClientAppStep

-----------------------------------------------------------------------------
LEMMA StepIsNetworkStep ==
    ASSUME BindingInvariant, [Next]_vars
    PROVE  [NetworkNext]_networkVars
<1>1. CASE NetworkServerStep /\ UNCHANGED <<clientVars, appSends>>
  BY <1>1 DEF NetworkNext
<1>2. CASE ServerAppStep
  <2>1. ServerApplication
    BY <1>2, QueueingIsApplication, ConsumingIsApplication, ReturningIsApplication DEF ServerAppStep
  <2> QED BY <2>1 DEF NetworkNext
<1>3. ASSUME NEW p \in Process, NetworkClientStep(p) /\ UNCHANGED <<serverVars, appSends>>
      PROVE  NetworkNext
  BY <1>3 DEF NetworkNext
<1>4. ASSUME NEW p \in Process, ClientAppStep(p) PROVE NetworkNext
  <2>1. \E withPing \in BOOLEAN : ClientApplication(p, withPing)
    BY <1>4, SendingIsApplication
  <2> QED BY <2>1 DEF NetworkNext
<1>5. CASE TransportStep /\ UNCHANGED <<serverVars, clientVars, appSends>>
  BY <1>5 DEF NetworkNext
<1>6. CASE UNCHANGED vars
  BY <1>6 DEF vars
<1> QED BY <1>1, <1>2, <1>3, <1>4, <1>5, <1>6 DEF Next

LEMMA InvariantKept == Spec => []BindingInvariant
<1>1. Init => BindingInvariant
  BY BindingInit DEF Init
<1>2. BindingInvariant /\ [Next]_vars => BindingInvariant'
  BY StepIsNetworkStep, BindingNext
<1> QED BY <1>1, <1>2, PTL DEF Spec

(* Whatever the application queues, consumes and sends, in callbacks and between
   the server's operations: every behaviour is one of NetworkSpec. *)
THEOREM SessionIsNetwork == Spec => NetworkSpec
<1>1. Init => NetworkInit
  BY DEF Init
<1>2. BindingInvariant /\ [Next]_vars => [NetworkNext]_networkVars
  BY StepIsNetworkStep
<1> QED BY <1>1, <1>2, InvariantKept, PTL DEF Spec, NetworkSpec

(* The handshake, the bindings and the pings are in order in every session
   (NetworkServer, NetworkClient). *)
THEOREM SessionInOrder ==
    Spec => /\ [](BindingInvariant /\ EndpointMapConsistent /\ InboxOnlyFromConnected)
            /\ [](HandshakeCanFinish /\ PingsAnsweredInOrder)
            /\ ConnectOnce
<1> QED BY SessionIsNetwork, BindingCorrect, EndpointMapCorrect, InboxFromConnected,
           HandshakeCanAlwaysFinish, PingsAnswered, ConnectsOnce, PTL
=============================================================================
