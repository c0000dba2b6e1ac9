---------------------------- MODULE UDPTransport ----------------------------
(* UDPTransports that send each other datagrams (src/networking/udp/
   udp_transport.h).  Each has a game thread, which calls sendTo, tryRecv and
   close, and an io_context thread, which runs the handlers of one receive loop.
   A receive is started by one step, completed by the operating system in another,
   and its handler runs in a third. *)
EXTENDS Naturals, Sequences, SequencesExt

CONSTANTS Transport,   \* UDPTransports, each with the endpoint it is bound to
          MaxDatagrams     \* bound on the messages sent, which are numbered from 1

DatagramAssumption == MaxDatagrams \in Nat

VARIABLES opened,        \* openEphemeral or openBound has been called, once
          open,          \* m_socket is open
          recv,          \* where the receive loop of a transport is
          m_recvMsg,     \* m_recvMsg and m_recvSender, which the loop receives into
          udpInMessages,
          deferred,      \* async_send_tos that found the socket's buffer full
          network,       \* datagrams in flight
          udpSent,          \* from where and where to each message was sent
          returned       \* what tryRecv has returned

udpVars == <<opened, open, recv, m_recvMsg, udpInMessages, deferred, network, udpSent, returned>>

Message == 1 .. MaxDatagrams
Junk == 0   \* bytes that are no message

(* id is the number of the send; bytes is the message that the datagram holds. *)
Datagram == [id: Message, from: Transport, to: Transport, bytes: Message \cup {Junk}]

(* not started; waiting for a datagram; completed, with the handler to run:
   "received", "failed", "aborted"; the handler has found the socket open. *)
Stage == {"ended", "waiting", "received", "failed", "aborted", "restarting"}

NoDatagram == <<>>

UDPTypeOK ==
    /\ opened \in [Transport -> BOOLEAN]
    /\ open \in [Transport -> BOOLEAN]
    /\ recv \in [Transport -> Stage]
    /\ m_recvMsg \in [Transport -> Datagram \cup {NoDatagram}]
    /\ udpInMessages \in [Transport -> Seq(Datagram)]
    /\ deferred \in [Transport -> Seq(Datagram)]
    /\ network \subseteq Datagram
    /\ udpSent \in Seq([from: Transport, to: Transport])
    /\ returned \in [Transport -> Seq(Datagram)]

UDPInit ==
    /\ opened = [t \in Transport |-> FALSE]
    /\ open = [t \in Transport |-> FALSE]
    /\ recv = [t \in Transport |-> "ended"]
    /\ m_recvMsg = [t \in Transport |-> NoDatagram]
    /\ udpInMessages = [t \in Transport |-> <<>>]
    /\ deferred = [t \in Transport |-> <<>>]
    /\ network = {}
    /\ udpSent = <<>>
    /\ returned = [t \in Transport |-> <<>>]

-----------------------------------------------------------------------------
(* openEphemeral, openBound *)
Open(t) ==
    /\ ~opened[t]
    /\ opened' = [opened EXCEPT ![t] = TRUE]
    /\ open' = [open EXCEPT ![t] = TRUE]
    /\ recv' = [recv EXCEPT ![t] = "waiting"]
    /\ UNCHANGED <<m_recvMsg, udpInMessages, deferred, network, udpSent, returned>>

(* Datagrams to a closed socket are dropped. *)
OnTheWay(datagrams) == {d \in datagrams : open[d.to]}

(* sendTo: the socket takes the datagram at once, or its buffer is full and the
   send waits; those that come after it then wait behind it. *)
SendTo(t, to) ==
    /\ open[t]
    /\ Len(udpSent) < MaxDatagrams
    /\ udpSent' = Append(udpSent, [from |-> t, to |-> to])
    /\ LET d == [id |-> Len(udpSent'), from |-> t, to |-> to, bytes |-> Len(udpSent')] IN
       \/ /\ deferred[t] = <<>>
          /\ network' = network \cup OnTheWay({d})
          /\ UNCHANGED deferred
       \/ /\ deferred' = [deferred EXCEPT ![t] = Append(@, d)]
          /\ UNCHANGED network
    /\ UNCHANGED <<opened, open, recv, m_recvMsg, udpInMessages, returned>>

(* The socket takes a send that waited, from the buffer of startSend's parameter
   msg, which is gone: the bytes are whatever the stack of the game thread holds
   there by now, a message it has sent since or nothing in particular. *)
SendDeferred(t) ==
    /\ deferred[t] # <<>>
    /\ deferred' = [deferred EXCEPT ![t] = Tail(@)]
    /\ \E bytes \in 1 .. Len(udpSent) \cup {Junk} :
          network' = network \cup OnTheWay({[Head(deferred[t]) EXCEPT !.bytes = bytes]})
    /\ UNCHANGED <<opened, open, recv, m_recvMsg, udpInMessages, udpSent, returned>>

(* A datagram is lost, or the send failed, which is logged and nothing else. *)
Lose(d) ==
    /\ d \in network
    /\ network' = network \ {d}
    /\ UNCHANGED <<opened, open, recv, m_recvMsg, udpInMessages, deferred, udpSent, returned>>

-----------------------------------------------------------------------------
(* The receive that waits completes. *)
Receive(t, d) ==
    /\ recv[t] = "waiting"
    /\ d \in network /\ d.to = t
    /\ network' = network \ {d}
    /\ m_recvMsg' = [m_recvMsg EXCEPT ![t] = d]
    /\ recv' = [recv EXCEPT ![t] = "received"]
    /\ UNCHANGED <<opened, open, udpInMessages, deferred, udpSent, returned>>

ReceiveFails(t) ==
    /\ recv[t] = "waiting"
    /\ recv' = [recv EXCEPT ![t] = "failed"]
    /\ UNCHANGED <<opened, open, m_recvMsg, udpInMessages, deferred, network, udpSent, returned>>

\* Mutants: what m_recvMsg holds is pushed when nothing was received, even before it
\* has held anything; what was received is dropped when the socket is closed.
PushedAlways(t) == Append(udpInMessages[t], m_recvMsg[t])
PushedAgain(t) ==
    IF m_recvMsg[t] = NoDatagram THEN udpInMessages[t] ELSE Append(udpInMessages[t], m_recvMsg[t])
PushedIfOpen(t) ==
    IF recv[t] = "received" /\ open[t] THEN Append(udpInMessages[t], m_recvMsg[t])
                                       ELSE udpInMessages[t]

Pushed(t) ==
    IF recv[t] = "received" THEN Append(udpInMessages[t], m_recvMsg[t]) ELSE udpInMessages[t]

\* Mutant: any error ends the loop.
RestartsUnlessFailed(t) == recv[t] = "received" /\ open[t]

(* Whether the handler, at its end, starts the next receive. *)
Restarts(t) == recv[t] # "aborted" /\ open[t]

(* startRecv's handler, up to the test of is_open. *)
HandleReceive(t) ==
    /\ recv[t] \in {"received", "failed", "aborted"}
    /\ udpInMessages' = [udpInMessages EXCEPT ![t] = Pushed(t)]
    /\ recv' = [recv EXCEPT ![t] = IF Restarts(t) THEN "restarting" ELSE "ended"]
    /\ UNCHANGED <<opened, open, m_recvMsg, deferred, network, udpSent, returned>>

(* startRecv, called by the handler: the game thread may have closed the socket
   since, and the receive then fails at once. *)
StartRecv(t) ==
    /\ recv[t] = "restarting"
    /\ recv' = [recv EXCEPT ![t] = IF open[t] THEN "waiting" ELSE "failed"]
    /\ UNCHANGED <<opened, open, m_recvMsg, udpInMessages, deferred, network, udpSent, returned>>

(* tryRecv *)
TryRecvDatagram(t) ==
    /\ udpInMessages[t] # <<>>
    /\ returned' = [returned EXCEPT ![t] = Append(@, Head(udpInMessages[t]))]
    /\ udpInMessages' = [udpInMessages EXCEPT ![t] = Tail(@)]
    /\ UNCHANGED <<opened, open, recv, m_recvMsg, deferred, network, udpSent>>

(* close: a receive that is complete already keeps its result. *)
Close(t) ==
    /\ open[t]
    /\ open' = [open EXCEPT ![t] = FALSE]
    /\ recv' = [recv EXCEPT ![t] = IF @ = "waiting" THEN "aborted" ELSE @]
    /\ deferred' = [deferred EXCEPT ![t] = <<>>]
    /\ network' = {d \in network : d.to # t}
    /\ UNCHANGED <<opened, m_recvMsg, udpInMessages, udpSent, returned>>

-----------------------------------------------------------------------------
UDPHandler(t) == HandleReceive(t) \/ StartRecv(t)

UDPNext ==
    \/ \E t \in Transport :
          \/ Open(t)
          \/ \E to \in Transport \ {t} : SendTo(t, to)
          \/ SendDeferred(t)
          \/ \E d \in network : Receive(t, d)
          \/ ReceiveFails(t)
          \/ UDPHandler(t)
          \/ TryRecvDatagram(t)
          \/ Close(t)
    \/ \E d \in network : Lose(d)

UDPSpec == UDPInit /\ [][UDPNext]_udpVars

(* The io_context thread never stops and the game loop calls tryRecv in every
   frame. *)
UDPFairness == \A t \in Transport : WF_udpVars(UDPHandler(t)) /\ WF_udpVars(TryRecvDatagram(t))

UDPFairSpec == UDPSpec /\ UDPFairness

-----------------------------------------------------------------------------
HandedOver(t) == returned[t] \o udpInMessages[t]

(* tryRecv returns what was sent to the transport with the endpoint that sent it,
   and no send twice: the loop does not start to receive the next datagram into
   m_recvMsg before it has pushed the last one, nor pushes it again. *)
EachFromItsSender ==
    \A t \in Transport :
        /\ IsInjective([i \in DOMAIN HandedOver(t) |-> HandedOver(t)[i].id])
        /\ \A i \in DOMAIN HandedOver(t) :
              LET d == HandedOver(t)[i] IN udpSent[d.id] = [from |-> d.from, to |-> t]

(* A datagram the socket has given to the receive loop is returned, whether the
   transport is closed in the meantime or not. *)
ReceivedIsReturned ==
    \A t \in Transport, n \in Message :
        (recv[t] = "received" /\ m_recvMsg[t].id = n) ~> (\E i \in DOMAIN returned[t] : returned[t][i].id = n)

(* While the transport is open it comes back to waiting for datagrams, whatever
   errors there were; once it is closed its receive loop ends. *)
LoopFollowsSocket ==
    \A t \in Transport :
        []<>(IF open[t] THEN recv[t] = "waiting" ELSE recv[t] = "ended")

(* The part of it that needs no fairness: the loop of an open transport has not
   ended, nor is it about to, and no receive waits on a closed socket. *)
LoopAlive ==
    \A t \in Transport :
        IF open[t] THEN recv[t] \notin {"ended", "aborted"} ELSE recv[t] # "waiting"

(* What is received is what was sent (src/tests/udp_transport_test.cpp:92). *)
DatagramsIntact ==
    \A t \in Transport : \A i \in DOMAIN returned[t] : returned[t][i].bytes = returned[t][i].id
=============================================================================
