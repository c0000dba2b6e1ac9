--------------------------- MODULE TCPConnection ---------------------------
(* One direction of a connection between two TCPConnections
   (src/networking/tcp/tcp_connection.h): send and the write handlers at one end,
   the read handlers and tryRecv at the other.  Each end has a game thread and an
   io_context thread; an asynchronous operation is started by one step, carried
   out by the operating system in another, and its handler runs in a third. *)
EXTENDS Naturals, Sequences, SequencesExt

CONSTANTS MaxSends,     \* bound on the messages sent, which are numbered from 1
          HeaderOnly    \* those whose header.size is 0

ASSUME SendAssumption == MaxSends \in Nat

VARIABLES sent,           \* messages the game thread has handed to send
          posted,         \* the lambdas posted to m_ioContext, each with its msg
          m_outMessages,
          m_currentMsgOut,
          pending,        \* the async_writes the operating system has not carried out
          written,        \* those whose handler has still to run
          wire,           \* headers and bodies on their way, in order
          taken,          \* what the outstanding async_read has got, before its handler
          m_currentMsgIn, \* the parts of the message being read
          m_inMessages,
          received,       \* what tryRecv has returned
          senderOpen, receiverOpen   \* m_socket; closed together with m_disconnected

senderVars == <<sent, posted, m_outMessages, m_currentMsgOut, pending, written, senderOpen>>
receiverVars == <<taken, m_currentMsgIn, m_inMessages, received, receiverOpen>>
vars == <<senderVars, wire, receiverVars>>

Data == 1 .. MaxSends
Part == [kind: {"header", "body"}, msg: Data]
Nothing == <<>>

HasBody(m) == m \notin HeaderOnly

TypeOK ==
    /\ sent \in 0 .. MaxSends
    /\ posted \in Seq(Data)
    /\ m_outMessages \in Seq(Data)
    /\ m_currentMsgOut \in 0 .. MaxSends
    /\ pending \subseteq {"header", "body"}
    /\ written \subseteq {"header", "body"}
    /\ wire \in Seq(Part)
    /\ taken \in Part \cup {Nothing}
    /\ m_currentMsgIn \in {Nothing} \cup {<<h>> : h \in Part}
    /\ m_inMessages \in Seq({<<h>> : h \in Part} \cup (Part \X Part))
    /\ received \in Seq(Data)
    /\ senderOpen \in BOOLEAN
    /\ receiverOpen \in BOOLEAN

Init ==
    /\ sent = 0
    /\ posted = <<>>
    /\ m_outMessages = <<>>
    /\ m_currentMsgOut = 0
    /\ pending = {}
    /\ written = {}
    /\ wire = <<>>
    /\ taken = Nothing
    /\ m_currentMsgIn = Nothing
    /\ m_inMessages = <<>>
    /\ received = <<>>
    /\ senderOpen = TRUE
    /\ receiverOpen = TRUE

-----------------------------------------------------------------------------
(* The sender *)

(* send, on the game thread; on a closed connection it does nothing. *)
Send ==
    /\ senderOpen
    /\ sent < MaxSends
    /\ sent' = sent + 1
    /\ posted' = Append(posted, sent + 1)
    /\ UNCHANGED <<m_outMessages, m_currentMsgOut, pending, written, senderOpen, wire, receiverVars>>

(* writeHeader, when queue is what m_outMessages holds. *)
WriteHeader(queue) ==
    /\ m_currentMsgOut' = Head(queue)
    /\ pending' = pending \cup {"header"}

\* Mutants: a write is started for every message; a message is only queued when
\* nothing is being written.
RunPostAlwaysWriting ==
    /\ posted # <<>>
    /\ posted' = Tail(posted)
    /\ m_outMessages' = Append(m_outMessages, Head(posted))
    /\ WriteHeader(m_outMessages')
    /\ UNCHANGED <<sent, written, senderOpen, wire, receiverVars>>

RunPostWhenIdle ==
    /\ posted # <<>>
    /\ posted' = Tail(posted)
    /\ IF m_outMessages = <<>>
       THEN m_outMessages' = <<Head(posted)>> /\ WriteHeader(m_outMessages')
       ELSE UNCHANGED <<m_outMessages, m_currentMsgOut, pending>>
    /\ UNCHANGED <<sent, written, senderOpen, wire, receiverVars>>

(* The lambda send posted, on the io_context thread. *)
RunPost ==
    /\ posted # <<>>
    /\ posted' = Tail(posted)
    /\ m_outMessages' = Append(m_outMessages, Head(posted))
    /\ IF m_outMessages = <<>> THEN WriteHeader(m_outMessages')
                               ELSE UNCHANGED <<m_currentMsgOut, pending>>
    /\ UNCHANGED <<sent, written, senderOpen, wire, receiverVars>>

(* The operating system carries out a write, from the buffer as it is by then. *)
Transmit(kind) ==
    /\ senderOpen
    /\ kind \in pending
    /\ pending' = pending \ {kind}
    /\ written' = written \cup {kind}
    /\ wire' = IF receiverOpen THEN Append(wire, [kind |-> kind, msg |-> m_currentMsgOut])
                               ELSE wire
    /\ UNCHANGED <<sent, posted, m_outMessages, m_currentMsgOut, senderOpen, receiverVars>>

\* Mutant: the next message waits for the next send.
MessageWrittenAndStop ==
    /\ m_outMessages' = Tail(m_outMessages)
    /\ UNCHANGED <<m_currentMsgOut, pending>>

(* A message is written: it leaves the queue, and the next one is begun. *)
MessageWritten ==
    /\ m_outMessages' = Tail(m_outMessages)
    /\ IF Tail(m_outMessages) # <<>> THEN WriteHeader(Tail(m_outMessages))
                                     ELSE UNCHANGED <<m_currentMsgOut, pending>>

HeaderWritten ==
    /\ "header" \in written
    /\ written' = written \ {"header"}
    /\ IF HasBody(m_currentMsgOut)
       THEN /\ pending' = pending \cup {"body"}
            /\ UNCHANGED <<m_outMessages, m_currentMsgOut>>
       ELSE MessageWritten
    /\ UNCHANGED <<sent, posted, senderOpen, wire, receiverVars>>

BodyWritten ==
    /\ "body" \in written
    /\ written' = written \ {"body"}
    /\ MessageWritten
    /\ UNCHANGED <<sent, posted, senderOpen, wire, receiverVars>>

(* handleDisconnect, after a write, or a read of the other direction, failed.
   Operations on the closed socket fail too, and find m_disconnected set. *)
SenderDisconnects ==
    /\ senderOpen
    /\ senderOpen' = FALSE
    /\ UNCHANGED <<sent, posted, m_outMessages, m_currentMsgOut, pending, written, wire, receiverVars>>

-----------------------------------------------------------------------------
(* The receiver *)

(* The outstanding async_read is complete: whatever comes next is a header to
   readHeader and a body to readBody. *)
Read ==
    /\ receiverOpen
    /\ taken = Nothing
    /\ wire # <<>>
    /\ taken' = Head(wire)
    /\ wire' = Tail(wire)
    /\ UNCHANGED <<senderVars, m_currentMsgIn, m_inMessages, received, receiverOpen>>

HeaderRead ==
    /\ taken # Nothing /\ m_currentMsgIn = Nothing
    /\ taken' = Nothing
    /\ IF HasBody(taken.msg)
       THEN m_currentMsgIn' = <<taken>> /\ UNCHANGED m_inMessages
       ELSE m_inMessages' = Append(m_inMessages, <<taken>>) /\ UNCHANGED m_currentMsgIn
    /\ UNCHANGED <<senderVars, wire, received, receiverOpen>>

\* Mutant: the message read is not cleared for the next one.
BodyReadAgain ==
    /\ taken # Nothing /\ m_currentMsgIn # Nothing
    /\ taken' = Nothing
    /\ m_currentMsgIn' = Append(m_currentMsgIn, taken)
    /\ m_inMessages' = Append(m_inMessages, m_currentMsgIn')
    /\ UNCHANGED <<senderVars, wire, received, receiverOpen>>

BodyRead ==
    /\ taken # Nothing /\ m_currentMsgIn # Nothing
    /\ taken' = Nothing
    /\ m_currentMsgIn' = Nothing
    /\ m_inMessages' = Append(m_inMessages, Append(m_currentMsgIn, taken))
    /\ UNCHANGED <<senderVars, wire, received, receiverOpen>>

\* Mutant: a read that failed ends the read loop and nothing else.
ReceiverStopsReading ==
    /\ receiverOpen
    /\ wire' = <<>>
    /\ UNCHANGED <<senderVars, receiverVars>>

(* handleDisconnect, after a read, or a write of the other direction, failed. *)
ReceiverDisconnects ==
    /\ receiverOpen
    /\ receiverOpen' = FALSE
    /\ wire' = <<>>
    /\ UNCHANGED <<senderVars, taken, m_currentMsgIn, m_inMessages, received>>

(* tryRecv, on the game thread, the only one to take messages out. *)
TryRecv ==
    /\ m_inMessages # <<>>
    /\ received' = Append(received, Head(m_inMessages)[1].msg)
    /\ m_inMessages' = Tail(m_inMessages)
    /\ UNCHANGED <<senderVars, wire, taken, m_currentMsgIn, receiverOpen>>

-----------------------------------------------------------------------------
Next ==
    \/ Send
    \/ RunPost
    \/ \E kind \in {"header", "body"} : Transmit(kind)
    \/ HeaderWritten
    \/ BodyWritten
    \/ SenderDisconnects
    \/ Read
    \/ HeaderRead
    \/ BodyRead
    \/ ReceiverDisconnects
    \/ TryRecv

Spec == Init /\ [][Next]_vars

(* The io_context threads never stop, the operating system delivers while both
   ends are open and then tells the receiver, and the game loop calls tryRecv
   in every frame.  Nothing is assumed of send. *)
Fairness ==
    /\ WF_vars(RunPost)
    /\ WF_vars(\E kind \in {"header", "body"} : Transmit(kind))
    /\ WF_vars(HeaderWritten)
    /\ WF_vars(BodyWritten)
    /\ WF_vars(Read)
    /\ WF_vars(HeaderRead)
    /\ WF_vars(BodyRead)
    /\ WF_vars(TryRecv)
    /\ WF_vars(ReceiverDisconnects /\ ~senderOpen /\ wire = <<>>)

FairSpec == Spec /\ Fairness

-----------------------------------------------------------------------------
(* Every message received is a header with the body that belongs to it: two
   writes never overlap on m_currentMsgOut, which is what posting to the
   io_context is for (tcp_connection.h:57-66). *)
WholeMessage(parts) ==
    \E m \in Data :
        parts = IF HasBody(m) THEN <<[kind |-> "header", msg |-> m], [kind |-> "body", msg |-> m]>>
                              ELSE <<[kind |-> "header", msg |-> m]>>

WellFramed == \A i \in 1 .. Len(m_inMessages) : WholeMessage(m_inMessages[i])

(* The messages whose last part is among parts. *)
IsLast(part) == part.kind = "body" \/ ~HasBody(part.msg)

Completed(parts) ==
    LET upTo[n \in 0 .. Len(parts)] ==
          IF n = 0 THEN <<>>
          ELSE IF IsLast(parts[n]) THEN Append(upTo[n - 1], parts[n].msg) ELSE upTo[n - 1]
    IN upTo[Len(parts)]

(* What the sender has still to put on the wire: the front of m_outMessages is
   there already when its last write awaits its handler. *)
FrontIsWritten == "body" \in written \/ ("header" \in written /\ ~HasBody(m_currentMsgOut))

Unsent == (IF FrontIsWritten THEN Tail(m_outMessages) ELSE m_outMessages) \o posted

ReadyToReturn == [i \in 1 .. Len(m_inMessages) |-> m_inMessages[i][1].msg]

Taken == IF taken = Nothing THEN <<>> ELSE <<taken>>

InChannel ==
    ((ReadyToReturn \o Completed(Taken)) \o Completed(wire))
      \o (IF senderOpen /\ receiverOpen THEN Unsent ELSE <<>>)

Channel == INSTANCE MessageChannel WITH chan <- InChannel

(* The connection is a MessageChannel: messages arrive once and in order, over
   the post, the two queues, the handlers and the closing of either end. *)
ImplementsChannel == Channel!ChannelSpec

(* What tryRecv has returned and what is still in the channel are the messages
   that were sent, from the first on and in order, and, while both ends are open,
   all of them.  As long as one has not been returned then, something is under
   way: a post, a write, a read or a message to return. *)
NothingLost ==
    LET all == received \o InChannel IN
    /\ Len(all) <= sent
    /\ \A i \in 1 .. Len(all) : all[i] = i
    /\ senderOpen /\ receiverOpen => Len(all) = sent

NeverIdle ==
    senderOpen /\ receiverOpen /\ Len(received) < sent =>
        \/ posted # <<>> \/ pending \cup written # {}
        \/ wire # <<>> \/ taken # Nothing \/ m_inMessages # <<>>

(* While both ends are open, every message that was sent is received: no message
   is left in m_outMessages with nobody to begin writing it. *)
EverythingArrives ==
    \A m \in Data :
        sent >= m ~> (m \in ToSet(received) \/ ~senderOpen \/ ~receiverOpen)

(* When the sending end closes, the receiving end closes too, once it has read
   what was still on its way, be it half a message: only then does the server
   remove the client, and only then is a client's game over. *)
ClosingIsNoticed == ~senderOpen ~> ~receiverOpen
=============================================================================
