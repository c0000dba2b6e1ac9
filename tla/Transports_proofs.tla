-------------------------- MODULE Transports_proofs --------------------------
(* Theorems about the three classes below the network, each for every value of
   its constants: the framing of a TCP connection, with either end closing at any
   point; what the UDP transports receive, for every set of transports and every
   number of sends; and the order of the connections a listener hands over.  At
   the end, that what TLC runs, the three in one module, is each of them. *)
EXTENDS MCTransports, Recursion_proofs

(* Sequences *)

LEMMA Appended ==
    ASSUME NEW S, NEW s \in Seq(S), NEW x \in S
    PROVE  /\ Append(s, x) \in Seq(S) /\ DOMAIN Append(s, x) = 1 .. Len(s) + 1
           /\ DOMAIN s = 1 .. Len(s)
           /\ \A i \in DOMAIN s : Append(s, x)[i] = s[i]
           /\ Append(s, x)[Len(s) + 1] = x
  OBVIOUS

LEMMA Shortened ==
    ASSUME NEW S, NEW s \in Seq(S), s # <<>>
    PROVE  /\ Tail(s) \in Seq(S) /\ Head(s) \in S /\ Head(s) = s[1] /\ 1 \in DOMAIN s
           /\ \A i \in DOMAIN Tail(s) : i + 1 \in DOMAIN s /\ Tail(s)[i] = s[i + 1] /\ i # 0 /\ i \in Nat
  OBVIOUS

(* Taking the first of what waits moves it from one part to the other. *)
LEMMA MovedOver ==
    ASSUME NEW S, NEW r \in Seq(S), NEW q \in Seq(S), q # <<>>
    PROVE  Append(r, Head(q)) \o Tail(q) = r \o q
<1> DEFINE a == Append(r, Head(q)) \o Tail(q)
           b == r \o q
<1>1. Head(q) \in S /\ Tail(q) \in Seq(S)
  OBVIOUS
<1>2. a \in Seq(S) /\ b \in Seq(S) /\ Len(a) = Len(b)
  BY <1>1
<1>3. ASSUME NEW i \in 1 .. Len(a) PROVE a[i] = b[i]
  BY <1>1, <1>2, <1>3
<1> HIDE DEF a, b
<1>4. a = b
  BY <1>2, <1>3
<1> QED BY <1>4 DEF a, b

LEMMA AppendedOver ==
    ASSUME NEW S, NEW r \in Seq(S), NEW q \in Seq(S), NEW x \in S
    PROVE  r \o Append(q, x) = Append(r \o q, x)
<1> DEFINE a == r \o Append(q, x)
           b == Append(r \o q, x)
<1>1. a \in Seq(S) /\ b \in Seq(S) /\ Len(a) = Len(b)
  OBVIOUS
<1>2. ASSUME NEW i \in 1 .. Len(a) PROVE a[i] = b[i]
  BY <1>1, <1>2
<1> HIDE DEF a, b
<1>3. a = b
  BY <1>1, <1>2
<1> QED BY <1>3 DEF a, b

-----------------------------------------------------------------------------
(* TCPConnection *)

Header(m) == [kind |-> "header", msg |-> m]
Body(m) == [kind |-> "body", msg |-> m]

(* Whether y may come after x on the wire. *)
Expects(x, y) == IF x.kind = "header" /\ HasBody(x.msg) THEN y = Body(x.msg) ELSE y.kind = "header"

-----------------------------------------------------------------------------
(* The inductive invariant *)

SenderTypes ==
    /\ sent \in 0 .. MaxSends
    /\ posted \in Seq(Data)
    /\ m_outMessages \in Seq(Data)
    /\ m_currentMsgOut \in 0 .. MaxSends
    /\ pending \subseteq {"header", "body"}
    /\ written \subseteq {"header", "body"}
    /\ senderOpen \in BOOLEAN

ReceiverTypes ==
    /\ wire \in Seq(Part)
    /\ taken \in Part \cup {Nothing}
    /\ m_currentMsgIn \in {Nothing} \cup {<<h>> : h \in Part}
    /\ m_inMessages \in Seq({<<h>> : h \in Part} \cup (Part \X Part))
    /\ received \in Seq(Data)
    /\ receiverOpen \in BOOLEAN

(* One write at a time is under way, of a message of m_outMessages; there is none
   exactly when the queue is empty. *)
OneWrite ==
    /\ m_outMessages = <<>> <=> pending \cup written = {}
    /\ pending = {} \/ written = {}
    /\ pending # {"header", "body"} /\ written # {"header", "body"}
    /\ m_outMessages # <<>> => m_currentMsgOut \in Data
    /\ "body" \in pending \cup written => HasBody(m_currentMsgOut)

(* What the receiver has of the message it reads, and what comes next. *)
NextFits(y) ==
    IF taken # Nothing THEN Expects(taken, y)
    ELSE IF m_currentMsgIn # Nothing THEN y = Body(m_currentMsgIn[1].msg)
    ELSE y.kind = "header"

ReadFits ==
    /\ m_currentMsgIn # Nothing =>
          m_currentMsgIn[1].kind = "header" /\ HasBody(m_currentMsgIn[1].msg)
    /\ taken # Nothing =>
          IF m_currentMsgIn # Nothing THEN taken = Body(m_currentMsgIn[1].msg)
                                      ELSE taken.kind = "header"

WireFits ==
    /\ wire # <<>> => NextFits(wire[1])
    /\ \A i \in 1 .. Len(wire) - 1 : Expects(wire[i], wire[i + 1])

(* Whether the sender's next part fits behind the last one. *)
EndFits(y) == IF wire # <<>> THEN Expects(wire[Len(wire)], y) ELSE NextFits(y)

(* The header of the current message is written, and its body is not. *)
BodyIsNext == "body" \in pending \/ ("header" \in written /\ HasBody(m_currentMsgOut))

SenderFits ==
    receiverOpen => IF BodyIsNext THEN EndFits(Body(m_currentMsgOut))
                                  ELSE \A m \in Data : EndFits(Header(m))

ConnectionInv ==
    /\ SenderTypes /\ ReceiverTypes
    /\ OneWrite /\ ReadFits /\ WireFits /\ SenderFits /\ WellFramed

LEMMA ConnectionInit == ASSUME Init PROVE ConnectionInv
<1>1. SenderTypes /\ ReceiverTypes
  BY SendAssumption DEF Init, SenderTypes, ReceiverTypes, Data
<1>2. OneWrite /\ ReadFits /\ WireFits /\ WellFramed
  BY DEF Init, OneWrite, ReadFits, WireFits, WellFramed, Nothing
<1>3. SenderFits
  BY DEF Init, SenderFits, BodyIsNext, EndFits, NextFits, Header, Nothing
<1> QED BY <1>1, <1>2, <1>3 DEF ConnectionInv

-----------------------------------------------------------------------------
(* The sender's steps *)

LEMMA SendStep == ASSUME ConnectionInv, Send PROVE ConnectionInv'
<1>1. SenderTypes'
  BY SendAssumption DEF ConnectionInv, Send, SenderTypes, Data
<1> QED BY <1>1 DEF ConnectionInv, Send, receiverVars, ReceiverTypes, OneWrite, ReadFits, NextFits, WireFits,
                    SenderFits, BodyIsNext, EndFits, WellFramed, WholeMessage

(* A step of the sender that begins no body and writes nothing to the wire. *)
LEMMA SenderKeepsFitting ==
    ASSUME ConnectionInv, SenderTypes', OneWrite', UNCHANGED <<wire, receiverVars>>,
           BodyIsNext' <=> BodyIsNext, BodyIsNext => UNCHANGED m_currentMsgOut
    PROVE  ConnectionInv'
BY DEF ConnectionInv, receiverVars, ReceiverTypes, ReadFits, NextFits, WireFits,
       SenderFits, EndFits, WellFramed, WholeMessage

LEMMA RunPostStep == ASSUME ConnectionInv, RunPost PROVE ConnectionInv'
<1>1. /\ posted # <<>> /\ posted' = Tail(posted)
      /\ m_outMessages' = Append(m_outMessages, Head(posted))
      /\ UNCHANGED <<sent, written, senderOpen, wire, receiverVars>>
  BY DEF RunPost
<1>2. posted \in Seq(Data) /\ Head(posted) \in Data /\ m_outMessages \in Seq(Data)
      /\ m_outMessages' \in Seq(Data) /\ m_outMessages' # <<>> /\ posted' \in Seq(Data)
  BY <1>1 DEF ConnectionInv, SenderTypes
<1>3. CASE m_outMessages = <<>>
  <2>1. m_currentMsgOut' = Head(posted) /\ pending' = pending \cup {"header"}
    <3>1. Head(m_outMessages') = Head(posted)
      <4>1. m_outMessages' = <<Head(posted)>>
        BY <1>1, <1>2, <1>3
      <4> QED BY <4>1
    <3> QED BY <1>3, <3>1 DEF RunPost, WriteHeader
  <2>2. pending = {} /\ written = {}
    BY <1>3 DEF ConnectionInv, OneWrite
  <2>3. SenderTypes'
    BY <1>1, <1>2, <2>1 DEF ConnectionInv, SenderTypes, Data
  <2>4. OneWrite'
    <3>1. pending' = {"header"} /\ written' = {} /\ m_currentMsgOut' \in Data
      BY <1>1, <1>2, <2>1, <2>2
    <3>2. pending' \cup written' = {"header"} /\ pending' # {"header", "body"}
          /\ written' # {"header", "body"}
      <4>1. "body" \notin {"header"} /\ "body" \in {"header", "body"}
        OBVIOUS
      <4>2. {"header"} # {} /\ {"header"} # {"header", "body"} /\ {} # {"header", "body"}
        BY <4>1
      <4> QED BY <3>1, <4>2
    <3>3. m_outMessages' # <<>> /\ pending' \cup written' # {} /\ "body" \notin pending' \cup written'
      BY <1>2, <3>2
    <3> QED BY <3>1, <3>2, <3>3 DEF OneWrite
  <2>5. ~BodyIsNext /\ ~BodyIsNext'
    BY <1>1, <2>1, <2>2 DEF BodyIsNext
  <2> QED BY <1>1, <2>3, <2>4, <2>5, SenderKeepsFitting
<1>4. CASE m_outMessages # <<>>
  <2>1. UNCHANGED <<m_currentMsgOut, pending>>
    BY <1>4 DEF RunPost
  <2>2. SenderTypes'
    BY <1>1, <1>2, <2>1 DEF ConnectionInv, SenderTypes
  <2>3. OneWrite'
    BY <1>1, <1>2, <1>4, <2>1 DEF ConnectionInv, OneWrite
  <2>4. BodyIsNext' <=> BodyIsNext
    BY <1>1, <2>1 DEF BodyIsNext
  <2> QED BY <1>1, <2>1, <2>2, <2>3, <2>4, SenderKeepsFitting
<1> QED BY <1>3, <1>4

(* The message at the front is written. *)
LEMMA MessageWrittenStep ==
    ASSUME ConnectionInv, pending = {}, written' = {}, written # {}, ~BodyIsNext, MessageWritten,
           UNCHANGED <<sent, posted, senderOpen, wire, receiverVars>>
    PROVE  ConnectionInv'
<1>0. m_outMessages \in Seq(Data) /\ m_outMessages # <<>>
      /\ m_outMessages' = Tail(m_outMessages)
  BY DEF ConnectionInv, SenderTypes, OneWrite, MessageWritten
<1>1. m_outMessages' \in Seq(Data)
  BY <1>0
<1>2. CASE m_outMessages' = <<>>
  <2>1. UNCHANGED <<m_currentMsgOut, pending>>
    BY <1>1, <1>2 DEF MessageWritten
  <2>2. SenderTypes' /\ OneWrite' /\ ~BodyIsNext'
    BY <1>0, <1>1, <1>2, <2>1 DEF ConnectionInv, SenderTypes, OneWrite, BodyIsNext
  <2> QED BY <2>2, SenderKeepsFitting
<1>3. CASE m_outMessages' # <<>>
  <2>1. m_currentMsgOut' = Head(m_outMessages') /\ pending' = {"header"}
    BY <1>0, <1>3 DEF MessageWritten, WriteHeader
  <2>2. m_currentMsgOut' \in Data
    BY <1>1, <1>3, <2>1
  <2>3. SenderTypes' /\ OneWrite' /\ ~BodyIsNext'
    BY <1>1, <1>3, <2>1, <2>2 DEF ConnectionInv, SenderTypes, OneWrite, BodyIsNext, Data
  <2> QED BY <2>3, SenderKeepsFitting
<1> QED BY <1>2, <1>3

LEMMA HeaderWrittenStep == ASSUME ConnectionInv, HeaderWritten PROVE ConnectionInv'
<1>1. /\ "header" \in written /\ written' = written \ {"header"}
      /\ UNCHANGED <<sent, posted, senderOpen, wire, receiverVars>>
  BY DEF HeaderWritten
<1>2. pending = {} /\ written = {"header"} /\ written' = {}
  BY <1>1 DEF ConnectionInv, SenderTypes, OneWrite
<1>3. CASE HasBody(m_currentMsgOut)
  <2>1. pending' = {"body"} /\ UNCHANGED <<m_outMessages, m_currentMsgOut>>
    BY <1>2, <1>3 DEF HeaderWritten
  <2>2. SenderTypes' /\ OneWrite'
    BY <1>1, <1>2, <1>3, <2>1 DEF ConnectionInv, SenderTypes, OneWrite
  <2>3. BodyIsNext /\ BodyIsNext'
    BY <1>2, <1>3, <2>1 DEF BodyIsNext
  <2> QED BY <1>1, <2>1, <2>2, <2>3, SenderKeepsFitting
<1>4. CASE ~HasBody(m_currentMsgOut)
  <2>1. MessageWritten /\ ~BodyIsNext
    BY <1>2, <1>4 DEF HeaderWritten, BodyIsNext
  <2> QED BY <1>1, <1>2, <2>1, MessageWrittenStep
<1> QED BY <1>3, <1>4

LEMMA BodyWrittenStep == ASSUME ConnectionInv, BodyWritten PROVE ConnectionInv'
<1>1. /\ "body" \in written /\ written' = written \ {"body"} /\ MessageWritten
      /\ UNCHANGED <<sent, posted, senderOpen, wire, receiverVars>>
  BY DEF BodyWritten
<1>2. pending = {} /\ written = {"body"} /\ written' = {}
  BY <1>1 DEF ConnectionInv, SenderTypes, OneWrite
<1>3. ~BodyIsNext
  BY <1>2 DEF BodyIsNext
<1> QED BY <1>1, <1>2, <1>3, MessageWrittenStep

LEMMA SenderDisconnectsStep == ASSUME ConnectionInv, SenderDisconnects PROVE ConnectionInv'
<1>1. SenderTypes' /\ OneWrite' /\ (BodyIsNext' <=> BodyIsNext)
  BY DEF ConnectionInv, SenderDisconnects, SenderTypes, OneWrite, BodyIsNext
<1> QED BY <1>1, SenderKeepsFitting DEF SenderDisconnects

(* The operating system writes what fits behind what it has written. *)
LEMMA TransmitStep == ASSUME ConnectionInv, NEW kind \in {"header", "body"}, Transmit(kind) PROVE ConnectionInv'
<1> DEFINE sentPart == [kind |-> kind, msg |-> m_currentMsgOut]
<1>1. /\ kind \in pending /\ pending' = pending \ {kind} /\ written' = written \cup {kind}
      /\ wire' = IF receiverOpen THEN Append(wire, sentPart) ELSE wire
      /\ UNCHANGED <<sent, posted, m_outMessages, m_currentMsgOut, senderOpen, receiverVars>>
  BY DEF Transmit
<1>2. /\ pending = {kind} /\ written = {} /\ pending' = {} /\ written' = {kind}
      /\ m_currentMsgOut \in Data
  BY <1>1 DEF ConnectionInv, SenderTypes, OneWrite
<1>3. SenderTypes' /\ OneWrite'
  BY <1>1, <1>2 DEF ConnectionInv, SenderTypes, OneWrite
<1>4. sentPart \in Part /\ wire \in Seq(Part)
  BY <1>2 DEF Part, ConnectionInv, ReceiverTypes
<1>5. ReceiverTypes' /\ ReadFits' /\ WellFramed'
  <2>1. wire' \in Seq(Part)
    <3> HIDE DEF sentPart
    <3> QED BY <1>1, <1>4
  <2>2. UNCHANGED receiverVars
    BY <1>1
  <2>3. ReceiverTypes'
    BY <2>1, <2>2 DEF ConnectionInv, ReceiverTypes, receiverVars
  <2> QED BY <2>2, <2>3 DEF ConnectionInv, ReadFits, WellFramed, WholeMessage, receiverVars
<1>6. \A y : NextFits(y)' <=> NextFits(y)
  BY <1>1 DEF NextFits, receiverVars
<1>7. CASE ~receiverOpen
  BY <1>1, <1>3, <1>5, <1>6, <1>7 DEF ConnectionInv, WireFits, SenderFits, receiverVars
<1>8. CASE receiverOpen
  <2>1. EndFits(sentPart)
    <3>1. CASE kind = "header"
      <4>1. ~BodyIsNext /\ sentPart = Header(m_currentMsgOut)
        BY <1>2, <3>1 DEF BodyIsNext, Header
      <4> QED BY <1>2, <1>8, <4>1 DEF ConnectionInv, SenderFits
    <3>2. CASE kind = "body"
      <4>1. BodyIsNext /\ sentPart = Body(m_currentMsgOut)
        BY <1>2, <3>2 DEF BodyIsNext, Body
      <4> QED BY <1>8, <4>1 DEF ConnectionInv, SenderFits
    <3> QED BY <3>1, <3>2
  <2>2. /\ wire' = Append(wire, sentPart) /\ Len(wire') = Len(wire) + 1 /\ Len(wire) \in Nat
        /\ wire'[Len(wire) + 1] = sentPart /\ \A i \in 1 .. Len(wire) : wire'[i] = wire[i]
        /\ wire' # <<>> /\ (wire # <<>> => Len(wire) >= 1) /\ (wire = <<>> => Len(wire) = 0)
    BY <1>1, <1>4, <1>8
  <2> HIDE DEF sentPart
  <2>3. (wire # <<>> => NextFits(wire[1]))'
    <3>1. NextFits(wire'[1])
      <4>1. CASE wire = <<>>
        BY <2>1, <2>2, <4>1 DEF EndFits
      <4>2. CASE wire # <<>>
        BY <2>2, <4>2 DEF ConnectionInv, WireFits
      <4> QED BY <4>1, <4>2
    <3> QED BY <1>1, <3>1 DEF NextFits, receiverVars
  <2>4. ASSUME NEW i \in 1 .. Len(wire') - 1 PROVE Expects(wire'[i], wire'[i + 1])
    <3>1. CASE i = Len(wire)
      BY <2>1, <2>2, <3>1 DEF EndFits
    <3>2. CASE i # Len(wire)
      <4>1. i \in 1 .. Len(wire) - 1 /\ i + 1 \in 1 .. Len(wire) /\ i \in 1 .. Len(wire)
        BY <2>2, <3>2
      <4> QED BY <2>2, <4>1 DEF ConnectionInv, WireFits
    <3> QED BY <3>1, <3>2
  <2>5. wire'[Len(wire')] = sentPart
    BY <2>2
  <2>6. SenderFits'
    <3>1. CASE kind = "header"
      <4>1. BodyIsNext' <=> HasBody(m_currentMsgOut)
        BY <1>1, <1>2, <3>1 DEF BodyIsNext
      <4>2. sentPart.kind = "header" /\ sentPart.msg = m_currentMsgOut
        BY <3>1 DEF sentPart
      <4>3. IF HasBody(m_currentMsgOut) THEN Expects(sentPart, Body(m_currentMsgOut))
                                        ELSE \A m \in Data : Expects(sentPart, Header(m))
        BY <4>2 DEF Expects, Header
      <4> QED BY <1>1, <2>2, <2>5, <4>1, <4>3 DEF SenderFits, EndFits
    <3>2. CASE kind = "body"
      <4>1. ~BodyIsNext'
        BY <1>2, <3>2 DEF BodyIsNext
      <4>2. sentPart.kind = "body"
        BY <3>2 DEF sentPart
      <4>3. \A m \in Data : Expects(sentPart, Header(m))
        BY <4>2 DEF Expects, Header
      <4> QED BY <2>2, <2>5, <4>1, <4>3 DEF SenderFits, EndFits
    <3> QED BY <3>1, <3>2
  <2> QED BY <1>3, <1>5, <2>3, <2>4, <2>6 DEF ConnectionInv, WireFits
<1> QED BY <1>7, <1>8

-----------------------------------------------------------------------------
(* The receiver's steps *)

LEMMA PartsDiffer == ASSUME NEW p \in Part PROVE p # Nothing
<1>1. DOMAIN p = {"kind", "msg"}
  BY DEF Part
<1>2. DOMAIN Nothing = {}
  BY DEF Nothing
<1> QED BY <1>1, <1>2

(* A step of the receiver that takes nothing from the wire. *)
LEMMA ReceiverKeepsFitting ==
    ASSUME ConnectionInv, ReceiverTypes', ReadFits', WellFramed', UNCHANGED <<senderVars, wire, receiverOpen>>,
           \A y : NextFits(y)' <=> NextFits(y)
    PROVE  ConnectionInv'
<1>1. UNCHANGED <<sent, posted, m_outMessages, m_currentMsgOut, pending, written, senderOpen>>
      /\ UNCHANGED <<wire, receiverOpen>>
  BY DEF senderVars
<1>2. SenderTypes' /\ OneWrite' /\ (BodyIsNext' <=> BodyIsNext)
  BY <1>1 DEF ConnectionInv, SenderTypes, OneWrite, BodyIsNext
<1>3. WireFits'
  <2>1. (NextFits(wire[1]))' <=> NextFits(wire[1])
    BY <1>1
  <2> QED BY <1>1, <2>1 DEF ConnectionInv, WireFits
<1>4. SenderFits'
  <2>1. \A y : EndFits(y)' <=> EndFits(y)
    BY <1>1 DEF EndFits
  <2>2. (EndFits(Body(m_currentMsgOut)))' <=> EndFits(Body(m_currentMsgOut))
    BY <1>1, <2>1
  <2>3. \A m \in Data : EndFits(Header(m))' <=> EndFits(Header(m))
    BY <2>1
  <2> QED BY <1>1, <1>2, <2>2, <2>3 DEF ConnectionInv, SenderFits
<1> QED BY <1>2, <1>3, <1>4 DEF ConnectionInv

LEMMA ReadStep == ASSUME ConnectionInv, Read PROVE ConnectionInv'
<1>1. /\ taken = Nothing /\ wire # <<>> /\ taken' = wire[1] /\ wire' = Tail(wire)
      /\ UNCHANGED <<senderVars, m_currentMsgIn, m_inMessages, received, receiverOpen>>
  BY DEF Read
<1>2. UNCHANGED <<sent, posted, m_outMessages, m_currentMsgOut, pending, written, senderOpen>>
  BY <1>1 DEF senderVars
<1>3. /\ wire \in Seq(Part) /\ wire[1] \in Part /\ wire' \in Seq(Part)
      /\ Len(wire) \in Nat /\ Len(wire) >= 1 /\ Len(wire') = Len(wire) - 1
      /\ \A i \in 1 .. Len(wire') : wire'[i] = wire[i + 1]
  BY <1>1 DEF ConnectionInv, ReceiverTypes
<1>4. SenderTypes' /\ OneWrite' /\ (BodyIsNext' <=> BodyIsNext)
  BY <1>2 DEF ConnectionInv, SenderTypes, OneWrite, BodyIsNext
<1>5. ReceiverTypes' /\ WellFramed'
  BY <1>1, <1>3 DEF ConnectionInv, ReceiverTypes, WellFramed, WholeMessage
<1>6. taken' # Nothing
  BY <1>1, <1>3, PartsDiffer
<1>7. \A y : NextFits(y)' <=> Expects(wire[1], y)
  BY <1>1, <1>6 DEF NextFits
<1>8. ReadFits'
  <2>1. NextFits(wire[1])
    BY <1>1 DEF ConnectionInv, WireFits
  <2> QED BY <1>1, <1>6, <2>1 DEF ConnectionInv, ReadFits, NextFits
<1>9. WireFits'
  <2>1. ASSUME wire' # <<>> PROVE (NextFits(wire[1]))'
    <3>1. 1 \in 1 .. Len(wire') /\ 1 \in 1 .. Len(wire) - 1
      BY <1>3, <2>1
    <3>2. wire'[1] = wire[2]
      BY <1>3, <3>1
    <3>3. Expects(wire[1], wire[2])
      BY <3>1 DEF ConnectionInv, WireFits
    <3> QED BY <1>7, <3>2, <3>3
  <2>2. ASSUME NEW i \in 1 .. Len(wire') - 1 PROVE Expects(wire'[i], wire'[i + 1])
    <3>1. i + 1 \in 1 .. Len(wire) - 1 /\ i \in 1 .. Len(wire') /\ i + 1 \in 1 .. Len(wire')
      BY <1>3
    <3> QED BY <1>3, <3>1 DEF ConnectionInv, WireFits
  <2> QED BY <2>1, <2>2 DEF WireFits
<1>10. \A y : EndFits(y)' <=> EndFits(y)
  <2>1. CASE wire' = <<>>
    <3>1. Len(wire) = 1
      BY <1>3, <2>1
    <3> QED BY <1>1, <1>7, <2>1, <3>1 DEF EndFits
  <2>2. CASE wire' # <<>>
    <3>1. wire'[Len(wire')] = wire[Len(wire)]
      <4>1. Len(wire') \in 1 .. Len(wire')
        BY <1>3, <2>2
      <4> QED BY <1>3, <4>1
    <3> QED BY <1>1, <2>2, <3>1 DEF EndFits
  <2> QED BY <2>1, <2>2
<1>11. SenderFits'
  <2>1. (EndFits(Body(m_currentMsgOut)))' <=> EndFits(Body(m_currentMsgOut))
    BY <1>2, <1>10
  <2>2. \A m \in Data : EndFits(Header(m))' <=> EndFits(Header(m))
    BY <1>10
  <2> QED BY <1>1, <1>4, <2>1, <2>2 DEF ConnectionInv, SenderFits
<1> QED BY <1>4, <1>5, <1>8, <1>9, <1>11 DEF ConnectionInv

LEMMA HeaderReadStep == ASSUME ConnectionInv, HeaderRead PROVE ConnectionInv'
<1>1. /\ taken # Nothing /\ m_currentMsgIn = Nothing /\ taken' = Nothing
      /\ UNCHANGED <<senderVars, wire, received, receiverOpen>>
  BY DEF HeaderRead
<1>2. taken \in Part /\ taken.kind = "header" /\ taken = Header(taken.msg) /\ taken.msg \in Data
  BY <1>1 DEF ConnectionInv, ReceiverTypes, ReadFits, Part, Header
<1>3. CASE HasBody(taken.msg)
  <2>1. m_currentMsgIn' = <<taken>> /\ UNCHANGED m_inMessages
    BY <1>3 DEF HeaderRead
  <2>2. m_currentMsgIn' # Nothing /\ m_currentMsgIn'[1] = taken
    BY <2>1 DEF Nothing
  <2>3. \A y : NextFits(y)' <=> NextFits(y)
    BY <1>1, <1>2, <1>3, <2>2 DEF NextFits, Expects
  <2>4. ReceiverTypes'
    BY <1>1, <1>2, <2>1 DEF ConnectionInv, ReceiverTypes
  <2>5. ReadFits' /\ WellFramed'
    BY <1>1, <1>2, <1>3, <2>1, <2>2 DEF ConnectionInv, ReadFits, WellFramed, WholeMessage
  <2> QED BY <1>1, <2>3, <2>4, <2>5, ReceiverKeepsFitting
<1>4. CASE ~HasBody(taken.msg)
  <2>1. m_inMessages' = Append(m_inMessages, <<taken>>) /\ UNCHANGED m_currentMsgIn
    BY <1>4 DEF HeaderRead
  <2>2. \A y : NextFits(y)' <=> NextFits(y)
    BY <1>1, <1>2, <1>4, <2>1 DEF NextFits, Expects
  <2>3. <<taken>> \in {<<h>> : h \in Part} \cup (Part \X Part)
        /\ m_inMessages \in Seq({<<h>> : h \in Part} \cup (Part \X Part))
    BY <1>2 DEF ConnectionInv, ReceiverTypes
  <2>4. m_inMessages' \in Seq({<<h>> : h \in Part} \cup (Part \X Part))
    BY <2>1, <2>3
  <2>5. ReceiverTypes'
    BY <1>1, <2>1, <2>4 DEF ConnectionInv, ReceiverTypes
  <2>6. WholeMessage(<<taken>>)
    BY <1>2, <1>4 DEF WholeMessage, Header
  <2>7. WellFramed'
    <3>1. ASSUME NEW i \in 1 .. Len(m_inMessages') PROVE WholeMessage(m_inMessages'[i])
      <4>1. CASE i = Len(m_inMessages) + 1
        BY <2>1, <2>3, <2>6, <4>1
      <4>2. CASE i # Len(m_inMessages) + 1
        <5>1. i \in 1 .. Len(m_inMessages) /\ m_inMessages'[i] = m_inMessages[i]
          BY <2>1, <2>3, <4>2
        <5> QED BY <5>1 DEF ConnectionInv, WellFramed
      <4> QED BY <4>1, <4>2
    <3> QED BY <3>1 DEF WellFramed
  <2>8. ReadFits'
    BY <1>1, <2>1 DEF ReadFits
  <2> QED BY <1>1, <2>2, <2>5, <2>7, <2>8, ReceiverKeepsFitting
<1> QED BY <1>3, <1>4

LEMMA BodyReadStep == ASSUME ConnectionInv, BodyRead PROVE ConnectionInv'
<1>1. /\ taken # Nothing /\ m_currentMsgIn # Nothing /\ taken' = Nothing /\ m_currentMsgIn' = Nothing
      /\ m_inMessages' = Append(m_inMessages, Append(m_currentMsgIn, taken))
      /\ UNCHANGED <<senderVars, wire, received, receiverOpen>>
  BY DEF BodyRead
<1>2. PICK h \in Part : m_currentMsgIn = <<h>>
  BY <1>1 DEF ConnectionInv, ReceiverTypes
<1>3. /\ h.kind = "header" /\ HasBody(h.msg) /\ h = Header(h.msg) /\ h.msg \in Data
      /\ taken \in Part /\ taken = Body(h.msg)
  BY <1>1, <1>2 DEF ConnectionInv, ReceiverTypes, ReadFits, Part, Header
<1>4. Append(m_currentMsgIn, taken) = <<h, taken>>
  <2>1. <<h>> \in Seq(Part) /\ Len(<<h>>) = 1 /\ <<h>>[1] = h
    OBVIOUS
  <2>2. Append(<<h>>, taken) \in Seq(Part) /\ Len(Append(<<h>>, taken)) = 2
        /\ Append(<<h>>, taken)[1] = h /\ Append(<<h>>, taken)[2] = taken
    BY <1>3, <2>1
  <2>3. <<h, taken>> \in Seq(Part) /\ Len(<<h, taken>>) = 2
        /\ <<h, taken>>[1] = h /\ <<h, taken>>[2] = taken
    BY <1>3
  <2>4. \A s, t \in Seq(Part) : Len(s) = 2 /\ Len(t) = 2 /\ s[1] = t[1] /\ s[2] = t[2] => s = t
    OBVIOUS
  <2> QED BY <1>2, <2>2, <2>3, <2>4
<1>5. \A y : NextFits(y)' <=> NextFits(y)
  BY <1>1, <1>3 DEF NextFits, Expects, Body
<1>6. <<h, taken>> \in {<<p>> : p \in Part} \cup (Part \X Part)
      /\ m_inMessages \in Seq({<<p>> : p \in Part} \cup (Part \X Part))
  BY <1>3 DEF ConnectionInv, ReceiverTypes
<1>7. m_inMessages' \in Seq({<<p>> : p \in Part} \cup (Part \X Part))
  BY <1>1, <1>4, <1>6
<1>8. ReceiverTypes'
  BY <1>1, <1>7 DEF ConnectionInv, ReceiverTypes
<1>9. WholeMessage(<<h, taken>>)
  BY <1>3 DEF WholeMessage, Header, Body
<1>10. WellFramed'
  <2>1. ASSUME NEW i \in 1 .. Len(m_inMessages') PROVE WholeMessage(m_inMessages'[i])
    <3>1. CASE i = Len(m_inMessages) + 1
      BY <1>1, <1>4, <1>6, <1>9, <3>1
    <3>2. CASE i # Len(m_inMessages) + 1
      <4>1. i \in 1 .. Len(m_inMessages) /\ m_inMessages'[i] = m_inMessages[i]
        BY <1>1, <1>4, <1>6, <3>2
      <4> QED BY <4>1 DEF ConnectionInv, WellFramed
    <3> QED BY <3>1, <3>2
  <2> QED BY <2>1 DEF WellFramed
<1>11. ReadFits'
  BY <1>1 DEF ReadFits
<1> QED BY <1>1, <1>5, <1>8, <1>10, <1>11, ReceiverKeepsFitting

LEMMA ReceiverDisconnectsStep == ASSUME ConnectionInv, ReceiverDisconnects PROVE ConnectionInv'
<1>1. /\ receiverOpen' = FALSE /\ wire' = <<>>
      /\ UNCHANGED <<senderVars, taken, m_currentMsgIn, m_inMessages, received>>
  BY DEF ReceiverDisconnects
<1>2. SenderTypes' /\ OneWrite'
  BY <1>1 DEF ConnectionInv, SenderTypes, OneWrite, senderVars
<1>3. ReceiverTypes' /\ ReadFits' /\ WellFramed'
  <2>1. wire' \in Seq(Part)
    BY <1>1
  <2>2. ReceiverTypes'
    BY <1>1, <2>1 DEF ConnectionInv, ReceiverTypes
  <2> QED BY <1>1, <2>2 DEF ConnectionInv, ReadFits, WellFramed, WholeMessage
<1>4. WireFits' /\ SenderFits'
  BY <1>1 DEF WireFits, SenderFits
<1> QED BY <1>2, <1>3, <1>4 DEF ConnectionInv

LEMMA TryRecvStep == ASSUME ConnectionInv, TryRecv PROVE ConnectionInv'
<1> DEFINE Whole == {<<h>> : h \in Part} \cup (Part \X Part)
<1>1. /\ m_inMessages # <<>> /\ m_inMessages' = Tail(m_inMessages)
      /\ received' = Append(received, Head(m_inMessages)[1].msg)
      /\ UNCHANGED <<senderVars, wire, taken, m_currentMsgIn, receiverOpen>>
  BY DEF TryRecv
<1>2. m_inMessages \in Seq(Whole) /\ received \in Seq(Data)
  BY DEF ConnectionInv, ReceiverTypes
<1>3. Head(m_inMessages)[1].msg \in Data
  <2>1. Head(m_inMessages) \in Whole
    <3> HIDE DEF Whole
    <3> QED BY <1>1, <1>2
  <2>2. Head(m_inMessages)[1] \in Part
    BY <2>1
  <2> QED BY <2>2 DEF Part
<1>4. /\ received' \in Seq(Data) /\ m_inMessages' \in Seq(Whole)
      /\ Len(m_inMessages') = Len(m_inMessages) - 1 /\ Len(m_inMessages) \in Nat
      /\ \A i \in 1 .. Len(m_inMessages') : m_inMessages'[i] = m_inMessages[i + 1]
  <2> HIDE DEF Whole
  <2> QED BY <1>1, <1>2, <1>3
<1>5. ReceiverTypes'
  BY <1>1, <1>4 DEF ConnectionInv, ReceiverTypes
<1>6. WellFramed'
  <2>1. ASSUME NEW i \in 1 .. Len(m_inMessages') PROVE WholeMessage(m_inMessages'[i])
    <3>1. i + 1 \in 1 .. Len(m_inMessages) /\ m_inMessages'[i] = m_inMessages[i + 1]
      BY <1>4
    <3> QED BY <3>1 DEF ConnectionInv, WellFramed
  <2> QED BY <2>1 DEF WellFramed
<1>7. ReadFits' /\ \A y : NextFits(y)' <=> NextFits(y)
  BY <1>1 DEF ConnectionInv, ReadFits, NextFits
<1> QED BY <1>1, <1>5, <1>6, <1>7, ReceiverKeepsFitting

-----------------------------------------------------------------------------
LEMMA ConnectionNext == ASSUME ConnectionInv, [Next]_vars PROVE ConnectionInv'
<1>1. CASE UNCHANGED vars
  <2>1. SenderTypes' /\ OneWrite' /\ UNCHANGED <<wire, receiverVars>> /\ (BodyIsNext' <=> BodyIsNext)
        /\ UNCHANGED m_currentMsgOut
    BY <1>1 DEF vars, senderVars, ConnectionInv, SenderTypes, OneWrite, BodyIsNext
  <2> QED BY <2>1, SenderKeepsFitting
<1>2. ASSUME NEW kind \in {"header", "body"}, Transmit(kind) PROVE ConnectionInv'
  BY <1>2, TransmitStep
<1> QED BY <1>1, <1>2, SendStep, RunPostStep, HeaderWrittenStep, BodyWrittenStep, SenderDisconnectsStep,
           ReadStep, HeaderReadStep, BodyReadStep, ReceiverDisconnectsStep, TryRecvStep DEF Next

(* The queues and buffers of a TCPConnection hold what their types say: in
   particular a header is never taken for a body (tcp_connection.h's handlers). *)
THEOREM ConnectionTypeCorrect == Spec => []TypeOK
<1>1. Init => ConnectionInv
  BY ConnectionInit
<1>2. ConnectionInv /\ [Next]_vars => ConnectionInv'
  BY ConnectionNext
<1>3. ConnectionInv => TypeOK
  BY DEF ConnectionInv, SenderTypes, ReceiverTypes, TypeOK
<1> QED BY <1>1, <1>2, <1>3, PTL DEF Spec

(* Every message that is received is a header with its own body: however sends,
   handlers and the closing of either end interleave, no two writes overlap on
   m_currentMsgOut and no read takes one part for another
   (tcp_connection.h:57-66, 120-217). *)
THEOREM MessagesWellFramed == Spec => []WellFramed
<1>1. Init => ConnectionInv
  BY ConnectionInit
<1>2. ConnectionInv /\ [Next]_vars => ConnectionInv'
  BY ConnectionNext
<1>3. ConnectionInv => WellFramed
  BY DEF ConnectionInv
<1> QED BY <1>1, <1>2, <1>3, PTL DEF Spec

-----------------------------------------------------------------------------
(* A connection implements a MessageChannel *)

(* Joining sequences. *)
LEMMA JoinedTwice ==
    ASSUME NEW S, NEW p \in Seq(S), NEW q \in Seq(S), NEW r \in Seq(S)
    PROVE  (p \o q) \o r = p \o (q \o r)
<1> DEFINE a == (p \o q) \o r
           b == p \o (q \o r)
<1>0. Len(a) = Len(p) + Len(q) + Len(r)
  OBVIOUS
<1>1. a \in Seq(S) /\ b \in Seq(S) /\ Len(a) = Len(b)
  OBVIOUS
<1>2. ASSUME NEW i \in 1 .. Len(a) PROVE a[i] = b[i]
  <2>1. CASE i \in 1 .. Len(p)
    BY <2>1
  <2>2. CASE i \in Len(p) + 1 .. Len(p) + Len(q)
    BY <2>2
  <2>3. CASE i \in Len(p) + Len(q) + 1 .. Len(p) + Len(q) + Len(r)
    BY <2>3
  <2>4. i \in 1 .. Len(p) + Len(q) + Len(r) /\ i \in Nat /\ Len(p) \in Nat /\ Len(q) \in Nat /\ Len(r) \in Nat
    BY <1>0
  <2> QED BY <2>1, <2>2, <2>3, <2>4
<1> HIDE DEF a, b
<1>3. a = b
  BY <1>1, <1>2
<1> QED BY <1>3 DEF a, b

LEMMA JoinedWithNone ==
    ASSUME NEW S, NEW p \in Seq(S)
    PROVE  p \o <<>> = p /\ <<>> \o p = p
<1> DEFINE a == p \o <<>>
           b == <<>> \o p
<1>1. a \in Seq(S) /\ b \in Seq(S) /\ Len(a) = Len(p) /\ Len(b) = Len(p)
  OBVIOUS
<1>2. ASSUME NEW i \in 1 .. Len(p) PROVE a[i] = p[i] /\ b[i] = p[i]
  OBVIOUS
<1> HIDE DEF a, b
<1>3. a = p /\ b = p
  BY <1>1, <1>2
<1> QED BY <1>3 DEF a, b

LEMMA FrontOfJoined ==
    ASSUME NEW S, NEW p \in Seq(S), NEW q \in Seq(S)
    PROVE  Len(p) \in 0 .. Len(p \o q) /\ SubSeq(p \o q, 1, Len(p)) = p
<1> DEFINE a == p \o q
           b == SubSeq(a, 1, Len(p))
<1>1. a \in Seq(S) /\ Len(p) \in 0 .. Len(a) /\ \A i \in 1 .. Len(p) : a[i] = p[i]
  OBVIOUS
<1> HIDE DEF a
<1>2. b \in Seq(S) /\ Len(b) = Len(p) /\ \A i \in 1 .. Len(p) : b[i] = a[i]
  BY <1>1
<1> HIDE DEF b
<1>3. b = p
  BY <1>1, <1>2
<1> QED BY <1>1, <1>3 DEF a, b

(* Completed goes through the parts from the first to the last. *)
Completing(f, parts) ==
    /\ f[0] = <<>>
    /\ \A n \in 0 .. Len(parts) : f[n] \in Seq(Data)
    /\ \A n \in 1 .. Len(parts) :
          f[n] = IF IsLast(parts[n]) THEN Append(f[n - 1], parts[n].msg) ELSE f[n - 1]

LEMMA CompletedLoop ==
    ASSUME NEW parts \in Seq(Part)
    PROVE  \E f : Completing(f, parts) /\ Completed(parts) = f[Len(parts)]
<1> DEFINE V == Seq(Data)
           G(f, k) == IF k = 0 THEN <<>>
                      ELSE IF IsLast(parts[k]) THEN Append(f[k - 1], parts[k].msg) ELSE f[k - 1]
           Is(f) == f = [k \in 0 .. Len(parts) |-> G(f, k)]
           upTo == CHOOSE f : Is(f)
           after == [k \in 1 .. Len(parts) |->
                       [v \in V |-> IF IsLast(parts[k]) THEN Append(v, parts[k].msg) ELSE v]]
<1>1. Completed(parts) = upTo[Len(parts)]
  BY DEF Completed
<1>2. ASSUME NEW k \in 1 .. Len(parts) PROVE parts[k].msg \in Data
  <2>1. parts[k] \in Part
    OBVIOUS
  <2> QED BY <2>1 DEF Part
<1>3. after \in [1 .. Len(parts) -> [V -> V]]
  <2>1. ASSUME NEW k \in 1 .. Len(parts), NEW v \in V
        PROVE  (IF IsLast(parts[k]) THEN Append(v, parts[k].msg) ELSE v) \in V
    <3>1. parts[k].msg \in Data
      BY <1>2
    <3> QED BY <3>1
  <2> HIDE DEF V
  <2> QED BY <2>1
<1>4. <<>> \in V /\ Len(parts) \in Nat
  OBVIOUS
<1> HIDE DEF V
<1>5. \E f : Is(f)
  <2> HIDE DEF after
  <2>1. PICK f : Runs(f, Len(parts), <<>>, after) /\ \A k \in 0 .. Len(parts) : f[k] \in V
    BY <1>3, <1>4, LoopExists
  <2>2. ASSUME NEW k \in 0 .. Len(parts)
        PROVE  (IF k = 0 THEN <<>> ELSE after[k][f[k - 1]]) = G(f, k)
    <3>1. CASE k = 0
      BY <3>1
    <3>2. CASE k # 0
      <4>1. k \in 1 .. Len(parts) /\ f[k - 1] \in V
        BY <1>4, <2>1, <3>2
      <4>2. after[k][f[k - 1]] = IF IsLast(parts[k]) THEN Append(f[k - 1], parts[k].msg) ELSE f[k - 1]
        BY <4>1 DEF after
      <4> QED BY <3>2, <4>2
    <3> QED BY <3>1, <3>2
  <2>3. f = [k \in 0 .. Len(parts) |-> IF k = 0 THEN <<>> ELSE after[k][f[k - 1]]]
    BY <2>1 DEF Runs
  <2>4. Is(f)
    <3> HIDE DEF G
    <3> QED BY <2>2, <2>3
  <2> QED BY <2>4
<1>6. Is(upTo)
  <2> HIDE DEF Is
  <2> QED BY <1>5
<1> HIDE DEF upTo, after
<1>7. upTo[0] = <<>>
  BY <1>4, <1>6
<1>8. ASSUME NEW k \in 1 .. Len(parts)
      PROVE  upTo[k] = IF IsLast(parts[k]) THEN Append(upTo[k - 1], parts[k].msg) ELSE upTo[k - 1]
  <2>1. k \in 0 .. Len(parts) /\ k # 0
    BY <1>4
  <2> QED BY <1>6, <2>1
<1>9. ASSUME NEW k \in 1 .. Len(parts), upTo[k - 1] \in V PROVE upTo[k] \in V
  <2>1. parts[k].msg \in Data
    BY <1>2
  <2>2. \A v \in V, m \in Data : Append(v, m) \in V
    BY DEF V
  <2>3. Append(upTo[k - 1], parts[k].msg) \in V
    BY <1>9, <2>1, <2>2
  <2> QED BY <1>8, <1>9, <2>3
<1>10. \A k \in 0 .. Len(parts) : upTo[k] \in V
  BY <1>4, <1>7, <1>9, KeptThroughout
<1>11. Completing(upTo, parts)
  BY <1>7, <1>8, <1>10 DEF Completing, V
<1> QED BY <1>1, <1>11

LEMMA CompletedType ==
    ASSUME NEW parts \in Seq(Part)
    PROVE  Completed(parts) \in Seq(Data)
<1>1. PICK f : Completing(f, parts) /\ Completed(parts) = f[Len(parts)]
  BY CompletedLoop
<1>2. Len(parts) \in 0 .. Len(parts)
  OBVIOUS
<1> QED BY <1>1, <1>2 DEF Completing

(* The message of a single part, if it is the last one of it. *)
LEMMA CompletedOne ==
    ASSUME NEW piece \in Part
    PROVE  Completed(<<piece>>) = IF IsLast(piece) THEN <<piece.msg>> ELSE <<>>
<1> DEFINE s == <<piece>>
<1>1. s \in Seq(Part) /\ Len(s) = 1 /\ s[1] = piece
  OBVIOUS
<1> HIDE DEF s
<1>2. PICK f : Completing(f, s) /\ Completed(s) = f[Len(s)]
  BY <1>1, CompletedLoop
<1>3. f[0] = <<>> /\ f[1] = IF IsLast(piece) THEN Append(f[0], piece.msg) ELSE f[0]
  <2>1. 1 \in 1 .. Len(s)
    BY <1>1
  <2>2. f[1] = IF IsLast(s[1]) THEN Append(f[1 - 1], s[1].msg) ELSE f[1 - 1]
    BY <1>2, <2>1 DEF Completing
  <2>3. f[0] = <<>> /\ 1 - 1 = 0
    BY <1>2 DEF Completing
  <2> QED BY <1>1, <2>2, <2>3
<1>4. Append(<<>>, piece.msg) = <<piece.msg>>
  OBVIOUS
<1>5. Completed(s) = IF IsLast(piece) THEN <<piece.msg>> ELSE <<>>
  BY <1>1, <1>2, <1>3, <1>4
<1> QED BY <1>5 DEF s

LEMMA CompletedNone == Completed(<<>>) = <<>>
<1>1. <<>> \in Seq(Part) /\ Len(<<>>) = 0
  OBVIOUS
<1> QED BY <1>1, CompletedLoop DEF Completing

(* A part that is put behind the others. *)
LEMMA CompletedAppend ==
    ASSUME NEW s \in Seq(Part), NEW piece \in Part
    PROVE  Completed(Append(s, piece)) = IF IsLast(piece) THEN Append(Completed(s), piece.msg) ELSE Completed(s)
<1> DEFINE t == Append(s, piece)
           L == Len(s)
<1>1. t \in Seq(Part) /\ Len(t) = L + 1 /\ t[L + 1] = piece /\ L \in Nat /\ \A k \in 1 .. L : t[k] = s[k]
  OBVIOUS
<1>2. PICK f : Completing(f, s) /\ Completed(s) = f[L]
  BY CompletedLoop
<1> HIDE DEF t
<1>3. PICK g : Completing(g, t) /\ Completed(t) = g[Len(t)]
  BY <1>1, CompletedLoop
<1> DEFINE same == {k \in 0 .. L : f[k] = g[k]}
<1>4. 0 .. L \subseteq same
  <2>1. 0 \in same
    BY <1>1, <1>2, <1>3 DEF Completing
  <2>2. ASSUME NEW k \in 1 .. L, k - 1 \in same PROVE k \in same
    <3>1. f[k - 1] = g[k - 1] /\ k \in 1 .. Len(t) /\ k \in 1 .. Len(s) /\ t[k] = s[k]
      BY <1>1, <2>2
    <3>2. f[k] = IF IsLast(s[k]) THEN Append(f[k - 1], s[k].msg) ELSE f[k - 1]
      BY <1>2, <3>1 DEF Completing
    <3>3. g[k] = IF IsLast(t[k]) THEN Append(g[k - 1], t[k].msg) ELSE g[k - 1]
      BY <1>3, <3>1 DEF Completing
    <3> QED BY <3>1, <3>2, <3>3
  <2> HIDE DEF same
  <2> QED BY <1>1, <2>1, <2>2, AllReached
<1>5. f[L] = g[L]
  BY <1>1, <1>4
<1>6. g[L + 1] = IF IsLast(piece) THEN Append(g[L], piece.msg) ELSE g[L]
  <2>1. L + 1 \in 1 .. Len(t) /\ L + 1 - 1 = L
    BY <1>1
  <2> QED BY <1>1, <1>3, <2>1 DEF Completing
<1>7. Completed(t) = IF IsLast(piece) THEN Append(Completed(s), piece.msg) ELSE Completed(s)
  BY <1>1, <1>2, <1>3, <1>5, <1>6
<1> QED BY <1>7 DEF t

(* The first part, apart from the others. *)
LEMMA CompletedFirst ==
    ASSUME NEW s \in Seq(Part), s # <<>>
    PROVE  Completed(<<Head(s)>>) \o Completed(Tail(s)) = Completed(s)
<1> DEFINE t == Tail(s)
           L == Len(t)
           first == Completed(<<Head(s)>>)
<1>1. t \in Seq(Part) /\ Len(s) = L + 1 /\ L \in Nat /\ Head(s) = s[1] /\ Head(s) \in Part
      /\ \A k \in 1 .. L : t[k] = s[k + 1]
  OBVIOUS
<1>2. first \in Seq(Data) /\ first = IF IsLast(s[1]) THEN <<s[1].msg>> ELSE <<>>
  <2>1. s[1] \in Part /\ <<s[1]>> \in Seq(Part) /\ Head(s) = s[1]
    BY <1>1
  <2> QED BY <2>1, CompletedOne, CompletedType
<1> HIDE DEF t, first
<1>3. PICK f : Completing(f, s) /\ Completed(s) = f[Len(s)]
  BY CompletedLoop
<1>4. PICK g : Completing(g, t) /\ Completed(t) = g[L]
  BY <1>1, CompletedLoop
<1> DEFINE same == {k \in 0 .. L : first \o g[k] = f[k + 1]}
<1>5. 0 .. L \subseteq same
  <2>1. 0 \in same
    <3>1. g[0] = <<>> /\ f[0] = <<>> /\ 1 \in 1 .. Len(s)
      BY <1>1, <1>3, <1>4 DEF Completing
    <3>2. f[1] = IF IsLast(s[1]) THEN Append(<<>>, s[1].msg) ELSE <<>>
      <4>1. f[1] = IF IsLast(s[1]) THEN Append(f[1 - 1], s[1].msg) ELSE f[1 - 1]
        BY <1>3, <3>1 DEF Completing
      <4>2. 1 - 1 = 0
        OBVIOUS
      <4> QED BY <3>1, <4>1, <4>2
    <3>3. first \o <<>> = first
      BY <1>2, JoinedWithNone
    <3>4. Append(<<>>, s[1].msg) = <<s[1].msg>>
      OBVIOUS
    <3>5. first \o g[0] = f[0 + 1]
      BY <1>2, <3>1, <3>2, <3>3, <3>4
    <3> QED BY <1>1, <3>5
  <2>2. ASSUME NEW k \in 1 .. L, k - 1 \in same PROVE k \in same
    <3>1. first \o g[k - 1] = f[k] /\ k + 1 \in 1 .. Len(s) /\ t[k] = s[k + 1] /\ k - 1 \in 0 .. L
      BY <1>1, <2>2
    <3>2. f[k + 1] = IF IsLast(s[k + 1]) THEN Append(f[k], s[k + 1].msg) ELSE f[k]
      <4>1. f[k + 1] = IF IsLast(s[k + 1]) THEN Append(f[(k + 1) - 1], s[k + 1].msg) ELSE f[(k + 1) - 1]
        BY <1>3, <3>1 DEF Completing
      <4>2. (k + 1) - 1 = k
        BY <1>1
      <4> QED BY <4>1, <4>2
    <3>3. g[k] = IF IsLast(t[k]) THEN Append(g[k - 1], t[k].msg) ELSE g[k - 1]
      BY <1>4 DEF Completing
    <3>4. g[k - 1] \in Seq(Data) /\ t[k].msg \in Data
      <4>1. t[k] \in Part
        BY <1>1
      <4> QED BY <1>4, <3>1, <4>1 DEF Completing, Part
    <3>5. first \o Append(g[k - 1], t[k].msg) = Append(first \o g[k - 1], t[k].msg)
      <4> DEFINE u == g[k - 1]
                 x == t[k].msg
      <4>1. u \in Seq(Data) /\ x \in Data
        BY <3>4
      <4> HIDE DEF u, x
      <4>2. first \o Append(u, x) = Append(first \o u, x)
        BY <1>2, <4>1, AppendedOver
      <4> QED BY <4>2 DEF u, x
    <3>6. first \o g[k] = f[k + 1]
      BY <3>1, <3>2, <3>3, <3>5
    <3> QED BY <3>6
  <2> HIDE DEF same
  <2> QED BY <1>1, <2>1, <2>2, AllReached
<1>6. first \o g[L] = f[L + 1]
  BY <1>1, <1>5
<1> QED BY <1>1, <1>3, <1>4, <1>6 DEF t, first

-----------------------------------------------------------------------------
(* The message whose write is under way is the one at the front of the queue. *)
CurrentIsFirst == m_outMessages # <<>> => m_currentMsgOut = Head(m_outMessages)

ChannelInv == ConnectionInv /\ CurrentIsFirst

LEMMA CurrentStaysFirst ==
    ASSUME ChannelInv, [Next]_vars
    PROVE  CurrentIsFirst'
<1>1. m_outMessages \in Seq(Data)
  BY DEF ChannelInv, ConnectionInv, SenderTypes
<1>2. CASE UNCHANGED <<m_outMessages, m_currentMsgOut>>
  BY <1>2 DEF ChannelInv, CurrentIsFirst
<1>3. CASE RunPost
  <2>1. posted # <<>> /\ posted \in Seq(Data) /\ m_outMessages' = Append(m_outMessages, Head(posted))
    BY <1>3 DEF RunPost, ChannelInv, ConnectionInv, SenderTypes
  <2>2. CASE m_outMessages = <<>>
    <3>1. m_currentMsgOut' = Head(m_outMessages')
      BY <1>3, <2>2 DEF RunPost, WriteHeader
    <3> QED BY <3>1 DEF CurrentIsFirst
  <2>3. CASE m_outMessages # <<>>
    <3>1. Head(Append(m_outMessages, Head(posted))) = Head(m_outMessages)
      BY <1>1, <2>1, <2>3
    <3>2. m_currentMsgOut' = m_currentMsgOut
      BY <1>3, <2>3 DEF RunPost
    <3> QED BY <2>1, <2>3, <3>1, <3>2 DEF ChannelInv, CurrentIsFirst
  <2> QED BY <2>2, <2>3
<1>4. CASE MessageWritten
  BY <1>4 DEF MessageWritten, WriteHeader, CurrentIsFirst
<1>5. ASSUME NEW kind \in {"header", "body"}, Transmit(kind) PROVE UNCHANGED <<m_outMessages, m_currentMsgOut>>
  BY <1>5 DEF Transmit
<1>6. CASE HeaderWritten
  BY <1>2, <1>4, <1>6 DEF HeaderWritten
<1>7. CASE BodyWritten
  BY <1>4, <1>7 DEF BodyWritten
<1>8. CASE Send \/ SenderDisconnects
  BY <1>2, <1>8 DEF Send, SenderDisconnects
<1>9. CASE Read \/ HeaderRead \/ BodyRead \/ ReceiverDisconnects \/ TryRecv
  BY <1>2, <1>9 DEF Read, HeaderRead, BodyRead, ReceiverDisconnects, TryRecv, senderVars
<1>10. CASE UNCHANGED vars
  BY <1>2, <1>10 DEF vars, senderVars
<1> QED BY <1>2, <1>3, <1>5, <1>6, <1>7, <1>8, <1>9, <1>10 DEF Next

LEMMA ChannelInvNext == ASSUME ChannelInv, [Next]_vars PROVE ChannelInv'
BY ConnectionNext, CurrentStaysFirst DEF ChannelInv

(* What has been put on the wire and not been returned, and what has not been. *)
Reached == (ReadyToReturn \o Completed(Taken)) \o Completed(wire)
Behind == IF senderOpen /\ receiverOpen THEN Unsent ELSE <<>>

LEMMA ChannelTypes ==
    ASSUME ConnectionInv
    PROVE  /\ ReadyToReturn \in Seq(Data) /\ Taken \in Seq(Part) /\ wire \in Seq(Part)
           /\ Completed(Taken) \in Seq(Data) /\ Completed(wire) \in Seq(Data)
           /\ Reached \in Seq(Data) /\ Unsent \in Seq(Data) /\ Behind \in Seq(Data)
           /\ InChannel = Reached \o Behind
<1>1. ReadyToReturn \in Seq(Data)
  <2>1. ASSUME NEW i \in 1 .. Len(m_inMessages) PROVE m_inMessages[i][1].msg \in Data
    <3>1. m_inMessages[i] \in {<<h>> : h \in Part} \cup (Part \X Part)
      BY DEF ConnectionInv, ReceiverTypes
    <3>2. m_inMessages[i][1] \in Part
      BY <3>1
    <3> QED BY <3>2 DEF Part
  <2>2. Len(m_inMessages) \in Nat
    BY DEF ConnectionInv, ReceiverTypes
  <2> QED BY <2>1, <2>2 DEF ReadyToReturn
<1>2. Taken \in Seq(Part) /\ wire \in Seq(Part)
  BY DEF Taken, ConnectionInv, ReceiverTypes
<1>3. Completed(Taken) \in Seq(Data) /\ Completed(wire) \in Seq(Data)
  BY <1>2, CompletedType
<1>4. Reached \in Seq(Data)
  BY <1>1, <1>3 DEF Reached
<1>5. Unsent \in Seq(Data)
  <2>1. m_outMessages \in Seq(Data) /\ posted \in Seq(Data)
    BY DEF ConnectionInv, SenderTypes
  <2>2. FrontIsWritten => m_outMessages # <<>>
    BY DEF FrontIsWritten, ConnectionInv, OneWrite
  <2>3. (IF FrontIsWritten THEN Tail(m_outMessages) ELSE m_outMessages) \in Seq(Data)
    BY <2>1, <2>2
  <2> QED BY <2>1, <2>3 DEF Unsent
<1>6. Behind \in Seq(Data)
  BY <1>5 DEF Behind
<1>7. InChannel = Reached \o Behind
  BY DEF InChannel, Reached, Behind
<1> QED BY <1>1, <1>2, <1>3, <1>4, <1>5, <1>6, <1>7

(* A step of the sender that is none of the channel. *)
LEMMA SenderStutters ==
    ASSUME Unsent' = Unsent, UNCHANGED <<wire, senderOpen, receiverVars>>
    PROVE  UNCHANGED <<InChannel, received, senderOpen, receiverOpen>>
<1>1. UNCHANGED <<wire, senderOpen, taken, m_currentMsgIn, m_inMessages, received, receiverOpen>>
  BY DEF receiverVars
<1>2. ReadyToReturn' = ReadyToReturn /\ Taken' = Taken
  BY <1>1 DEF ReadyToReturn, Taken
<1>3. Completed(Taken)' = Completed(Taken) /\ Completed(wire)' = Completed(wire)
  BY <1>1, <1>2
<1> QED BY <1>1, <1>2, <1>3 DEF InChannel

(* The lambda that send posted moves a message from one of the sender's queues to
   the other. *)
LEMMA RunPostStutters ==
    ASSUME ChannelInv, RunPost
    PROVE  UNCHANGED <<InChannel, received, senderOpen, receiverOpen>>
<1>1. /\ posted # <<>> /\ posted' = Tail(posted)
      /\ m_outMessages' = Append(m_outMessages, Head(posted))
      /\ UNCHANGED <<sent, written, senderOpen, wire, receiverVars>>
      /\ posted \in Seq(Data) /\ m_outMessages \in Seq(Data)
  BY DEF RunPost, ChannelInv, ConnectionInv, SenderTypes
<1>2. Head(posted) \in Data
  BY <1>1
<1>3. CASE FrontIsWritten
  <2>1. m_outMessages # <<>>
    BY <1>3 DEF FrontIsWritten, ChannelInv, ConnectionInv, OneWrite
  <2>2. m_currentMsgOut' = m_currentMsgOut
    BY <2>1 DEF RunPost
  <2>3. FrontIsWritten'
    BY <1>1, <1>3, <2>2 DEF FrontIsWritten
  <2>4. Tail(Append(m_outMessages, Head(posted))) = Append(Tail(m_outMessages), Head(posted))
    <3> DEFINE x == Head(posted)
               a == Tail(Append(m_outMessages, x))
               b == Append(Tail(m_outMessages), x)
    <3> HIDE DEF x
    <3>1. x \in Data
      BY <1>2 DEF x
    <3>2. a \in Seq(Data) /\ b \in Seq(Data) /\ Len(a) = Len(b) /\ Len(a) = Len(m_outMessages)
      BY <1>1, <2>1, <3>1
    <3>3. ASSUME NEW i \in 1 .. Len(a) PROVE a[i] = b[i]
      BY <1>1, <2>1, <3>1, <3>2
    <3> HIDE DEF a, b
    <3>4. a = b
      <4>1. a \in Seq(Data) /\ b \in Seq(Data) /\ Len(a) = Len(b)
        BY <3>2
      <4> QED BY ONLY <3>3, <4>1
    <3> QED BY <3>4 DEF a, b, x
  <2>5. Tail(m_outMessages) \in Seq(Data)
    BY <1>1, <2>1
  <2>6. Append(Tail(m_outMessages), Head(posted)) \o Tail(posted) = Tail(m_outMessages) \o posted
    BY <1>1, <2>5, MovedOver
  <2>7. Unsent' = Unsent
    BY <1>1, <1>3, <2>3, <2>4, <2>6 DEF Unsent
  <2> QED BY <1>1, <2>7, SenderStutters
<1>4. CASE ~FrontIsWritten
  <2>1. ~FrontIsWritten'
    <3>1. CASE m_outMessages = <<>>
      <4>1. written = {}
        BY <3>1 DEF ChannelInv, ConnectionInv, OneWrite
      <4> QED BY <1>1, <4>1 DEF FrontIsWritten
    <3>2. CASE m_outMessages # <<>>
      <4>1. m_currentMsgOut' = m_currentMsgOut
        BY <3>2 DEF RunPost
      <4> QED BY <1>1, <1>4, <4>1 DEF FrontIsWritten
    <3> QED BY <3>1, <3>2
  <2>2. Append(m_outMessages, Head(posted)) \o Tail(posted) = m_outMessages \o posted
    BY <1>1, MovedOver
  <2>3. Unsent' = Unsent
    BY <1>1, <1>4, <2>1, <2>2 DEF Unsent
  <2> QED BY <1>1, <2>3, SenderStutters
<1> QED BY <1>3, <1>4

(* The handlers of the writes take away what has been put on the wire. *)
LEMMA WrittenStutters ==
    ASSUME ChannelInv, HeaderWritten \/ BodyWritten
    PROVE  UNCHANGED <<InChannel, received, senderOpen, receiverOpen>>
<1>1. UNCHANGED <<sent, posted, senderOpen, wire, receiverVars>>
  BY DEF HeaderWritten, BodyWritten
<1>2. CASE HeaderWritten /\ HasBody(m_currentMsgOut)
  <2>1. "header" \in written /\ written' = written \ {"header"} /\ UNCHANGED <<m_outMessages, m_currentMsgOut>>
    BY <1>2 DEF HeaderWritten
  <2>2. "body" \notin written
    BY <2>1 DEF ChannelInv, ConnectionInv, OneWrite, SenderTypes
  <2>3. ~FrontIsWritten /\ ~FrontIsWritten'
    BY <1>2, <2>1, <2>2 DEF FrontIsWritten
  <2>4. Unsent' = Unsent
    BY <1>1, <2>1, <2>3 DEF Unsent
  <2> QED BY <1>1, <2>4, SenderStutters
<1>3. CASE (HeaderWritten /\ ~HasBody(m_currentMsgOut)) \/ BodyWritten
  <2>1. FrontIsWritten
    BY <1>3 DEF HeaderWritten, BodyWritten, FrontIsWritten
  <2>2. written' = {}
    <3>1. written # {"header", "body"} /\ written \subseteq {"header", "body"}
      BY DEF ChannelInv, ConnectionInv, OneWrite, SenderTypes
    <3>2. ("header" \in written /\ written' = written \ {"header"}) \/ ("body" \in written /\ written' = written \ {"body"})
      BY <1>3 DEF HeaderWritten, BodyWritten
    <3> QED BY <3>1, <3>2
  <2>3. m_outMessages' = Tail(m_outMessages)
    BY <1>3 DEF HeaderWritten, BodyWritten, MessageWritten
  <2>4. ~FrontIsWritten'
    BY <2>2 DEF FrontIsWritten
  <2>5. Unsent' = Unsent
    BY <1>1, <2>1, <2>3, <2>4 DEF Unsent
  <2> QED BY <1>1, <2>5, SenderStutters
<1> QED BY <1>2, <1>3

(* The last part of a message put on the wire: from here on it is there and no
   longer at the sender. *)
LEMMA TransmitStutters ==
    ASSUME ChannelInv, NEW kind \in {"header", "body"}, Transmit(kind)
    PROVE  UNCHANGED <<InChannel, received, senderOpen, receiverOpen>>
<1> DEFINE sentPart == [kind |-> kind, msg |-> m_currentMsgOut]
<1>1. /\ kind \in pending /\ pending' = pending \ {kind} /\ written' = written \cup {kind}
      /\ wire' = IF receiverOpen THEN Append(wire, sentPart) ELSE wire
      /\ senderOpen
      /\ UNCHANGED <<sent, posted, m_outMessages, m_currentMsgOut, senderOpen, receiverVars>>
  BY DEF Transmit
<1>2. /\ written = {} /\ written' = {kind} /\ m_currentMsgOut \in Data /\ pending = {kind}
      /\ m_outMessages \in Seq(Data) /\ m_outMessages # <<>> /\ m_currentMsgOut = Head(m_outMessages)
      /\ posted \in Seq(Data) /\ (kind = "body" => HasBody(m_currentMsgOut))
  BY <1>1 DEF ChannelInv, ConnectionInv, SenderTypes, OneWrite, CurrentIsFirst
<1>3. sentPart \in Part /\ sentPart.kind = kind /\ sentPart.msg = m_currentMsgOut
  BY <1>2 DEF Part
<1> HIDE DEF sentPart
<1>4. UNCHANGED <<taken, m_currentMsgIn, m_inMessages, received, receiverOpen, senderOpen>>
  BY <1>1 DEF receiverVars
<1>5. ReadyToReturn' = ReadyToReturn /\ Taken' = Taken
  BY <1>4 DEF ReadyToReturn, Taken
<1>6. Completed(Taken)' = Completed(Taken)
  BY <1>5
<1>7. CASE ~receiverOpen
  <2>1. wire' = wire
    BY <1>1, <1>7
  <2>2. Completed(wire)' = Completed(wire)
    BY <2>1
  <2> QED BY <1>4, <1>5, <1>6, <1>7, <2>2 DEF InChannel
<1>8. CASE receiverOpen
  <2>1. wire' = Append(wire, sentPart) /\ wire \in Seq(Part)
    BY <1>1, <1>8 DEF ChannelInv, ConnectionInv, ReceiverTypes
  <2>2. Completed(wire)' = IF IsLast(sentPart) THEN Append(Completed(wire), m_currentMsgOut) ELSE Completed(wire)
    <3>1. Completed(Append(wire, sentPart)) = IF IsLast(sentPart) THEN Append(Completed(wire), sentPart.msg) ELSE Completed(wire)
      BY <1>3, <2>1, CompletedAppend
    <3>2. Completed(wire)' = Completed(Append(wire, sentPart))
      BY <2>1
    <3> QED BY <1>3, <3>1, <3>2
  <2>3. ~FrontIsWritten
    BY <1>2 DEF FrontIsWritten
  <2>4. FrontIsWritten' <=> IsLast(sentPart)
    BY <1>1, <1>2, <1>3 DEF FrontIsWritten, IsLast
  <2>5. Unsent = m_outMessages \o posted
    BY <2>3 DEF Unsent
  <2>6. InChannel = Reached \o Unsent /\ Reached \in Seq(Data)
    BY <1>1, <1>8, ChannelTypes DEF Behind, ChannelInv
  <2>7. Reached' = (ReadyToReturn \o Completed(Taken)) \o Completed(wire)'
        /\ InChannel' = Reached' \o Unsent'
    BY <1>1, <1>4, <1>5, <1>6, <1>8 DEF Reached, InChannel
  <2>8. CASE IsLast(sentPart)
    <3> DEFINE m == m_currentMsgOut
    <3>1. m \in Data /\ Tail(m_outMessages) \in Seq(Data) /\ m = Head(m_outMessages)
      BY <1>2
    <3> HIDE DEF m
    <3>2. Unsent' = Tail(m_outMessages) \o posted
      BY <1>1, <2>4, <2>8 DEF Unsent
    <3>3. Reached' = Append(Reached, m)
      <4>1. ReadyToReturn \in Seq(Data) /\ Completed(Taken) \in Seq(Data) /\ Completed(wire) \in Seq(Data)
        BY ChannelTypes DEF ChannelInv
      <4>2. ReadyToReturn \o Completed(Taken) \in Seq(Data)
        BY <4>1
      <4>3. (ReadyToReturn \o Completed(Taken)) \o Append(Completed(wire), m)
               = Append((ReadyToReturn \o Completed(Taken)) \o Completed(wire), m)
        BY <3>1, <4>1, <4>2, AppendedOver
      <4> QED BY <2>2, <2>7, <2>8, <4>3 DEF Reached, m
    <3>4. Append(Reached, m) \o (Tail(m_outMessages) \o posted) = Reached \o (m_outMessages \o posted)
      <4>1. Append(Reached, m) \o Tail(m_outMessages) = Reached \o m_outMessages
        BY <1>2, <2>6, <3>1, MovedOver
      <4>2. Append(Reached, m) \in Seq(Data)
        BY <2>6, <3>1
      <4>3. Append(Reached, m) \o (Tail(m_outMessages) \o posted)
               = (Append(Reached, m) \o Tail(m_outMessages)) \o posted
        <5>1. \A p, q, r \in Seq(Data) : p \o (q \o r) = (p \o q) \o r
          BY JoinedTwice
        <5> QED BY <1>2, <3>1, <4>2, <5>1
      <4>4. (Reached \o m_outMessages) \o posted = Reached \o (m_outMessages \o posted)
        BY <1>2, <2>6, JoinedTwice
      <4> QED BY <4>1, <4>3, <4>4
    <3>5. InChannel' = InChannel
      BY <2>5, <2>6, <2>7, <3>2, <3>3, <3>4
    <3> QED BY <1>4, <3>5
  <2>9. CASE ~IsLast(sentPart)
    <3>1. Unsent' = Unsent
      BY <1>1, <2>3, <2>4, <2>9 DEF Unsent
    <3>2. Reached' = Reached
      BY <2>2, <2>7, <2>9 DEF Reached
    <3> QED BY <1>4, <2>6, <2>7, <3>1, <3>2
  <2> QED BY <2>8, <2>9
<1> QED BY <1>7, <1>8

(* send hands a message to the channel, or to nobody if the other end is closed. *)
LEMMA SendPuts ==
    ASSUME ChannelInv, Send
    PROVE  /\ sent + 1 \in Data /\ Channel!Put(sent + 1)
           /\ InChannel' = IF receiverOpen THEN Append(InChannel, sent + 1) ELSE InChannel
<1>1. /\ senderOpen /\ sent < MaxSends /\ posted' = Append(posted, sent + 1)
      /\ UNCHANGED <<m_outMessages, m_currentMsgOut, pending, written, senderOpen, wire, receiverVars>>
  BY DEF Send
<1>2. UNCHANGED <<taken, m_currentMsgIn, m_inMessages, received, receiverOpen, senderOpen>>
  BY <1>1 DEF receiverVars
<1>3. sent + 1 \in Data
  BY <1>1, SendAssumption DEF ChannelInv, ConnectionInv, SenderTypes, Data
<1>4. ReadyToReturn' = ReadyToReturn /\ Taken' = Taken
  BY <1>2 DEF ReadyToReturn, Taken
<1>5. Completed(Taken)' = Completed(Taken) /\ Completed(wire)' = Completed(wire)
  BY <1>1, <1>4
<1>6. Reached' = Reached /\ (FrontIsWritten' <=> FrontIsWritten)
  BY <1>1, <1>4, <1>5 DEF Reached, FrontIsWritten
<1>7. InChannel' = IF receiverOpen THEN Append(InChannel, sent + 1) ELSE InChannel
  <2> DEFINE m == sent + 1
             queue == IF FrontIsWritten THEN Tail(m_outMessages) ELSE m_outMessages
  <2>1. posted \in Seq(Data) /\ m_outMessages \in Seq(Data) /\ (FrontIsWritten => m_outMessages # <<>>)
    BY DEF ChannelInv, ConnectionInv, SenderTypes, OneWrite, FrontIsWritten
  <2>2. queue \in Seq(Data) /\ m \in Data
    BY <1>3, <2>1
  <2> HIDE DEF m
  <2>3. Unsent = queue \o posted /\ Unsent' = queue \o Append(posted, m)
    BY <1>1, <1>6 DEF Unsent, m
  <2> HIDE DEF queue
  <2>4. Unsent' = Append(Unsent, m)
    BY <2>1, <2>2, <2>3, AppendedOver
  <2>5. InChannel = Reached \o Behind /\ InChannel' = Reached \o Behind'
    BY <1>2, <1>4, <1>5, <1>6 DEF InChannel, Reached, Behind
  <2>6. CASE ~receiverOpen
    BY <1>2, <2>5, <2>6 DEF Behind
  <2>7. CASE receiverOpen
    <3>1. Behind = Unsent /\ Behind' = Append(Unsent, m)
      BY <1>1, <1>2, <2>4, <2>7 DEF Behind
    <3>2. Reached \o Append(Unsent, m) = Append(Reached \o Unsent, m)
      <4>1. Reached \in Seq(Data) /\ Unsent \in Seq(Data)
        BY ChannelTypes DEF ChannelInv
      <4> QED BY <2>2, <4>1, AppendedOver
    <3> QED BY <2>5, <2>7, <3>1, <3>2 DEF m
  <2> QED BY <2>6, <2>7
<1>8. Channel!Put(sent + 1)
  BY <1>1, <1>2, <1>7 DEF Channel!Put
<1> QED BY <1>3, <1>7, <1>8

(* A step of the receiver that changes neither what the channel holds nor what
   the sender has kept. *)
LEMMA ReceiverStutters ==
    ASSUME Reached' = Reached, UNCHANGED <<senderVars, received, receiverOpen>>
    PROVE  UNCHANGED <<InChannel, received, senderOpen, receiverOpen>>
<1>1. UNCHANGED <<sent, posted, m_outMessages, m_currentMsgOut, pending, written, senderOpen>>
  BY DEF senderVars
<1>2. Unsent' = Unsent
  BY <1>1 DEF Unsent, FrontIsWritten
<1>3. Behind' = Behind
  BY <1>1, <1>2 DEF Behind
<1>4. InChannel = Reached \o Behind /\ InChannel' = Reached' \o Behind'
  BY DEF InChannel, Reached, Behind
<1> QED BY <1>1, <1>3, <1>4

LEMMA ReadStutters ==
    ASSUME ChannelInv, Read
    PROVE  UNCHANGED <<InChannel, received, senderOpen, receiverOpen>>
<1>1. /\ taken = Nothing /\ wire # <<>> /\ taken' = Head(wire) /\ wire' = Tail(wire)
      /\ UNCHANGED <<senderVars, m_currentMsgIn, m_inMessages, received, receiverOpen>>
  BY DEF Read
<1>2. wire \in Seq(Part) /\ Head(wire) \in Part
  BY <1>1 DEF ChannelInv, ConnectionInv, ReceiverTypes
<1>3. Taken = <<>> /\ Taken' = <<Head(wire)>>
  BY <1>1, <1>2, PartsDiffer DEF Taken
<1>4. ReadyToReturn' = ReadyToReturn
  BY <1>1 DEF ReadyToReturn
<1> DEFINE r == ReadyToReturn
           a == Completed(<<Head(wire)>>)
           b == Completed(Tail(wire))
<1>5. r \in Seq(Data) /\ a \in Seq(Data) /\ b \in Seq(Data)
  <2>1. <<Head(wire)>> \in Seq(Part) /\ Tail(wire) \in Seq(Part)
    BY <1>1, <1>2
  <2> QED BY <2>1, CompletedType, ChannelTypes DEF ChannelInv
<1>6. a \o b = Completed(wire)
  BY <1>1, <1>2, CompletedFirst
<1>7. Completed(Taken) = <<>>
  BY <1>3, CompletedNone
<1>8. Completed(Taken)' = a /\ Completed(wire)' = b
  <2>1. Completed(Taken)' = Completed(Taken')
    OBVIOUS
  <2>2. Completed(wire)' = Completed(wire')
    OBVIOUS
  <2> QED BY <1>1, <1>3, <2>1, <2>2
<1>9. Reached = (r \o <<>>) \o (a \o b) /\ Reached' = (r \o a) \o b
  BY <1>4, <1>6, <1>7, <1>8 DEF Reached
<1> HIDE DEF r, a, b
<1>10. r \o <<>> = r /\ (r \o a) \o b = r \o (a \o b)
  BY <1>5, JoinedTwice, JoinedWithNone
<1>11. Reached' = Reached
  BY <1>9, <1>10
<1> QED BY <1>1, <1>11, ReceiverStutters

(* The messages that are ready, after another one. *)
LEMMA OneMoreReady ==
    ASSUME ConnectionInv, NEW parts, parts[1] \in Part,
           m_inMessages' = Append(m_inMessages, parts)
    PROVE  ReadyToReturn' = Append(ReadyToReturn, parts[1].msg)
<1> DEFINE L == Len(m_inMessages)
           a == ReadyToReturn'
           b == Append(ReadyToReturn, parts[1].msg)
<1>1. L \in Nat /\ Len(m_inMessages') = L + 1 /\ m_inMessages'[L + 1] = parts
      /\ \A i \in 1 .. L : m_inMessages'[i] = m_inMessages[i]
  <2>1. m_inMessages \in Seq({<<h>> : h \in Part} \cup (Part \X Part))
    BY DEF ConnectionInv, ReceiverTypes
  <2>2. m_inMessages \in Seq({<<h>> : h \in Part} \cup (Part \X Part) \cup {parts})
    <3>1. ASSUME NEW S, NEW T, NEW s \in Seq(S) PROVE s \in Seq(S \cup T)
      BY <3>1
    <3> QED BY <2>1, <3>1
  <2> DEFINE V == {<<h>> : h \in Part} \cup (Part \X Part) \cup {parts}
  <2>3. parts \in V
    OBVIOUS
  <2> HIDE DEF V
  <2> QED BY <2>2, <2>3 DEF V
<1>2. ReadyToReturn = [i \in 1 .. L |-> m_inMessages[i][1].msg]
      /\ ReadyToReturn' = [i \in 1 .. L + 1 |-> m_inMessages'[i][1].msg]
  BY <1>1 DEF ReadyToReturn
<1>3. parts[1].msg \in Data /\ ReadyToReturn \in Seq(Data)
  BY ChannelTypes DEF Part
<1>4. Len(ReadyToReturn) = L
  BY <1>1, <1>2
<1> HIDE DEF L
<1>5. b \in Seq(Data) /\ Len(b) = L + 1 /\ b[L + 1] = parts[1].msg
      /\ \A i \in 1 .. L : b[i] = m_inMessages[i][1].msg
  <2>1. \A i \in 1 .. L : ReadyToReturn[i] = m_inMessages[i][1].msg
    BY <1>2
  <2> DEFINE q == ReadyToReturn
             x == parts[1].msg
  <2>2. q \in Seq(Data) /\ x \in Data /\ Len(q) = L
    BY <1>3, <1>4
  <2> HIDE DEF q, x
  <2>3. Append(q, x) \in Seq(Data) /\ Len(Append(q, x)) = L + 1 /\ Append(q, x)[L + 1] = x
        /\ \A i \in 1 .. L : Append(q, x)[i] = q[i]
    BY <1>1, <2>2
  <2> QED BY <2>1, <2>3 DEF q, x
<1>6. ASSUME NEW i \in 1 .. L + 1 PROVE b[i] = m_inMessages'[i][1].msg
  <2>1. CASE i = L + 1
    BY <1>1, <1>5, <2>1
  <2>2. CASE i # L + 1
    <3>1. i \in 1 .. L
      BY <1>1, <2>2
    <3> QED BY <1>1, <1>5, <3>1
  <2> QED BY <2>1, <2>2
<1> HIDE DEF a, b
<1>7. b = [i \in 1 .. L + 1 |-> b[i]]
  BY <1>1, <1>5
<1>8. a = b
  BY <1>2, <1>6, <1>7 DEF a
<1> QED BY <1>8 DEF a, b

(* The last part of a message becomes a message that is ready. *)
LEMMA LastPartRead ==
    ASSUME ChannelInv, taken # Nothing, IsLast(taken), taken' = Nothing, NEW parts, parts[1] \in Part,
           parts[1].msg = taken.msg, m_inMessages' = Append(m_inMessages, parts),
           UNCHANGED <<senderVars, wire, received, receiverOpen>>
    PROVE  UNCHANGED <<InChannel, received, senderOpen, receiverOpen>>
<1>1. taken \in Part /\ taken.msg \in Data
  BY DEF ChannelInv, ConnectionInv, ReceiverTypes, Part
<1>2. Taken = <<taken>> /\ Taken' = <<>>
  BY DEF Taken
<1>3. Completed(Taken) = <<taken.msg>>
  BY <1>1, <1>2, CompletedOne
<1>4. Completed(Taken)' = <<>>
  <2>1. Completed(Taken)' = Completed(Taken')
    OBVIOUS
  <2> QED BY <1>2, <2>1, CompletedNone
<1>5. Completed(wire)' = Completed(wire)
  OBVIOUS
<1>6. ReadyToReturn' = Append(ReadyToReturn, taken.msg)
  BY OneMoreReady DEF ChannelInv
<1> DEFINE r == ReadyToReturn
           m == taken.msg
<1>7. r \in Seq(Data)
  BY ChannelTypes DEF ChannelInv
<1>8. Reached = (r \o <<m>>) \o Completed(wire) /\ Reached' = (Append(r, m) \o <<>>) \o Completed(wire)
  BY <1>3, <1>4, <1>5, <1>6 DEF Reached
<1> HIDE DEF r
<1>9. r \o <<m>> = Append(r, m) /\ Append(r, m) \o <<>> = Append(r, m)
  <2> DEFINE x == m
  <2>1. x \in Data
    BY <1>1
  <2> HIDE DEF m, x
  <2>2. Append(r, x) \in Seq(Data) /\ <<>> \in Seq(Data) /\ Append(<<>>, x) = <<x>>
    BY <1>7, <2>1
  <2>3. r \o Append(<<>>, x) = Append(r \o <<>>, x)
    BY <1>7, <2>1, <2>2, AppendedOver
  <2>4. r \o <<>> = r /\ Append(r, x) \o <<>> = Append(r, x)
    BY <1>7, <2>2, JoinedWithNone
  <2> QED BY <2>2, <2>3, <2>4 DEF x
<1>10. Reached' = Reached
  BY <1>8, <1>9
<1> QED BY <1>10, ReceiverStutters

LEMMA HeaderReadStutters ==
    ASSUME ChannelInv, HeaderRead
    PROVE  UNCHANGED <<InChannel, received, senderOpen, receiverOpen>>
<1>1. /\ taken # Nothing /\ m_currentMsgIn = Nothing /\ taken' = Nothing
      /\ UNCHANGED <<senderVars, wire, received, receiverOpen>>
  BY DEF HeaderRead
<1>2. taken \in Part /\ taken.kind = "header"
  BY <1>1 DEF ChannelInv, ConnectionInv, ReceiverTypes, ReadFits
<1>3. CASE HasBody(taken.msg)
  <2>1. UNCHANGED m_inMessages
    BY <1>3 DEF HeaderRead
  <2>2. ~IsLast(taken)
    BY <1>2, <1>3 DEF IsLast
  <2>3. Taken = <<taken>> /\ Taken' = <<>>
    BY <1>1 DEF Taken
  <2>4. Completed(Taken) = <<>>
    BY <1>2, <2>2, <2>3, CompletedOne
  <2>5. Completed(Taken)' = <<>>
    <3>1. Completed(Taken)' = Completed(Taken')
      OBVIOUS
    <3> QED BY <2>3, <3>1, CompletedNone
  <2>6. Completed(wire)' = Completed(wire) /\ ReadyToReturn' = ReadyToReturn
    BY <1>1, <2>1 DEF ReadyToReturn
  <2>7. Reached' = Reached
    BY <2>4, <2>5, <2>6 DEF Reached
  <2> QED BY <1>1, <2>7, ReceiverStutters
<1>4. CASE ~HasBody(taken.msg)
  <2> DEFINE parts == <<taken>>
  <2>1. m_inMessages' = Append(m_inMessages, parts)
    BY <1>4 DEF HeaderRead
  <2>2. IsLast(taken) /\ parts[1] = taken
    BY <1>4 DEF IsLast
  <2> HIDE DEF parts
  <2> QED BY <1>1, <1>2, <2>1, <2>2, LastPartRead
<1> QED BY <1>3, <1>4

LEMMA BodyReadStutters ==
    ASSUME ChannelInv, BodyRead
    PROVE  UNCHANGED <<InChannel, received, senderOpen, receiverOpen>>
<1> DEFINE parts == Append(m_currentMsgIn, taken)
<1>1. /\ taken # Nothing /\ m_currentMsgIn # Nothing /\ taken' = Nothing
      /\ m_inMessages' = Append(m_inMessages, parts)
      /\ UNCHANGED <<senderVars, wire, received, receiverOpen>>
  BY DEF BodyRead
<1>2. PICK h \in Part : m_currentMsgIn = <<h>>
  BY <1>1 DEF ChannelInv, ConnectionInv, ReceiverTypes
<1>3. taken \in Part /\ taken = Body(h.msg)
  BY <1>1, <1>2 DEF ChannelInv, ConnectionInv, ReceiverTypes, ReadFits
<1>4. IsLast(taken) /\ taken.msg = h.msg
  BY <1>3 DEF IsLast, Body
<1>5. parts[1] = h
  <2>1. <<h>> \in Seq(Part) /\ Len(<<h>>) = 1 /\ <<h>>[1] = h
    OBVIOUS
  <2>2. Append(<<h>>, taken)[1] = h
    BY <1>3, <2>1
  <2> QED BY <1>2, <2>2
<1> HIDE DEF parts
<1> QED BY <1>1, <1>2, <1>4, <1>5, LastPartRead

(* The first message of joined sequences. *)
LEMMA FirstOfJoined ==
    ASSUME NEW S, NEW p \in Seq(S), NEW q \in Seq(S), p # <<>>
    PROVE  p \o q # <<>> /\ Head(p \o q) = Head(p) /\ Tail(p \o q) = Tail(p) \o q /\ p \o q \in Seq(S)
<1> DEFINE s == p \o q
           x == Tail(s)
           y == Tail(p) \o q
<1>1. s \in Seq(S) /\ Len(s) = Len(p) + Len(q) /\ Len(p) \in Nat \ {0} /\ Len(q) \in Nat
      /\ s[1] = p[1] /\ Tail(p) \in Seq(S) /\ Head(p) = p[1]
  OBVIOUS
<1>2. s # <<>> /\ Head(s) = s[1]
  <2> HIDE DEF s
  <2> QED BY <1>1
<1>3. x \in Seq(S) /\ y \in Seq(S) /\ Len(x) = Len(y)
  BY <1>1, <1>2
<1>4. ASSUME NEW i \in 1 .. Len(x) PROVE x[i] = y[i]
  BY <1>1, <1>2, <1>3
<1> HIDE DEF x, y
<1>5. x = y
  BY <1>3, <1>4
<1> QED BY <1>1, <1>2, <1>5 DEF x, y

(* tryRecv takes the first message out of the channel. *)
LEMMA TryRecvGets ==
    ASSUME ChannelInv, TryRecv
    PROVE  Channel!Get
<1>1. /\ m_inMessages # <<>> /\ m_inMessages' = Tail(m_inMessages)
      /\ received' = Append(received, Head(m_inMessages)[1].msg)
      /\ UNCHANGED <<senderVars, wire, taken, m_currentMsgIn, receiverOpen>>
  BY DEF TryRecv
<1> DEFINE r == ReadyToReturn
           L == Len(m_inMessages)
<1>2. /\ L \in Nat \ {0} /\ Head(m_inMessages) = m_inMessages[1] /\ Len(m_inMessages') = L - 1
      /\ \A i \in 1 .. L - 1 : m_inMessages'[i] = m_inMessages[i + 1]
  <2>1. m_inMessages \in Seq({<<h>> : h \in Part} \cup (Part \X Part))
    BY DEF ChannelInv, ConnectionInv, ReceiverTypes
  <2> DEFINE V == {<<h>> : h \in Part} \cup (Part \X Part)
  <2>2. m_inMessages \in Seq(V)
    BY <2>1
  <2> HIDE DEF V
  <2> QED BY <1>1, <2>2
<1>3. r = [i \in 1 .. L |-> m_inMessages[i][1].msg] /\ r \in Seq(Data)
  BY ChannelTypes DEF ReadyToReturn, ChannelInv
<1>4. r' = [i \in 1 .. L - 1 |-> m_inMessages'[i][1].msg]
  BY <1>2 DEF ReadyToReturn
<1>5. Len(r) = L /\ r[1] = m_inMessages[1][1].msg /\ \A i \in 1 .. L - 1 : r[i + 1] = m_inMessages[i + 1][1].msg
  BY <1>2, <1>3
<1> HIDE DEF r, L
<1>6. r # <<>> /\ Head(r) = m_inMessages[1][1].msg /\ Tail(r) \in Seq(Data)
      /\ Len(Tail(r)) = L - 1 /\ \A i \in 1 .. L - 1 : Tail(r)[i] = r[i + 1]
  <2>1. Len(r) = L /\ L >= 1 /\ L \in Nat /\ r \in Seq(Data)
    BY <1>2, <1>3, <1>5
  <2>2. r # <<>> /\ Head(r) = r[1]
    BY <2>1
  <2>3. Tail(r) \in Seq(Data) /\ Len(Tail(r)) = L - 1 /\ \A i \in 1 .. L - 1 : Tail(r)[i] = r[i + 1]
    BY <2>1, <2>2
  <2> QED BY <1>5, <2>2, <2>3
<1>7. r' = Tail(r)
  <2>1. ASSUME NEW i \in 1 .. L - 1 PROVE m_inMessages'[i][1].msg = Tail(r)[i]
    BY <1>2, <1>5, <1>6, <2>1
  <2> DEFINE q == Tail(r)
  <2>2. q \in Seq(Data) /\ Len(q) = L - 1
    BY <1>6
  <2> HIDE DEF q
  <2>3. q = [i \in 1 .. L - 1 |-> q[i]]
    BY <1>2, <2>2
  <2> QED BY <1>4, <2>1, <2>3 DEF q
<1>8. UNCHANGED <<sent, posted, m_outMessages, m_currentMsgOut, pending, written, senderOpen>>
  BY <1>1 DEF senderVars
<1> DEFINE c == Completed(Taken)
           d == Completed(wire)
           e == Behind
<1>9. c' = c /\ d' = d /\ e' = e
  <2>1. Taken' = Taken /\ wire' = wire
    BY <1>1 DEF Taken
  <2>2. Unsent' = Unsent
    BY <1>8 DEF Unsent, FrontIsWritten
  <2>3. Completed(Taken)' = Completed(Taken) /\ Completed(wire)' = Completed(wire)
    BY <2>1
  <2> QED BY <1>1, <1>8, <2>2, <2>3 DEF Behind
<1>10. c \in Seq(Data) /\ d \in Seq(Data) /\ e \in Seq(Data) /\ r \in Seq(Data)
  BY <1>3, ChannelTypes DEF ChannelInv
<1>11. InChannel = ((r \o c) \o d) \o e /\ InChannel' = ((r' \o c') \o d') \o e'
  BY DEF InChannel, Behind, r
<1> HIDE DEF c, d, e
<1>12. r \o c # <<>> /\ Head(r \o c) = Head(r) /\ Tail(r \o c) = Tail(r) \o c /\ r \o c \in Seq(Data)
  BY <1>6, <1>10, FirstOfJoined
<1>13. (r \o c) \o d # <<>> /\ Head((r \o c) \o d) = Head(r) /\ Tail((r \o c) \o d) = (Tail(r) \o c) \o d
       /\ (r \o c) \o d \in Seq(Data)
  <2> DEFINE p == r \o c
  <2>1. p \in Seq(Data) /\ p # <<>>
    BY <1>12
  <2> HIDE DEF p
  <2>2. p \o d # <<>> /\ Head(p \o d) = Head(p) /\ Tail(p \o d) = Tail(p) \o d /\ p \o d \in Seq(Data)
    BY <1>10, <2>1, FirstOfJoined
  <2> QED BY <1>12, <2>2 DEF p
<1>14. InChannel # <<>> /\ Head(InChannel) = Head(r) /\ Tail(InChannel) = ((Tail(r) \o c) \o d) \o e
  <2> DEFINE p == (r \o c) \o d
  <2>1. p \in Seq(Data) /\ p # <<>>
    BY <1>13
  <2> HIDE DEF p
  <2>2. p \o e # <<>> /\ Head(p \o e) = Head(p) /\ Tail(p \o e) = Tail(p) \o e
    BY <1>10, <2>1, FirstOfJoined
  <2> QED BY <1>11, <1>13, <2>2 DEF p
<1>15. InChannel' = Tail(InChannel)
  BY <1>7, <1>9, <1>11, <1>14
<1>16. received' = Append(received, Head(InChannel))
  BY <1>1, <1>2, <1>6, <1>14
<1>17. Channel!Get
  BY <1>1, <1>8, <1>14, <1>15, <1>16 DEF Channel!Get
<1> QED BY <1>17

(* The sender closes: what it has not put on the wire is lost. *)
LEMMA SenderDisconnectsCloses ==
    ASSUME ChannelInv, SenderDisconnects
    PROVE  Channel!CloseSender
<1>1. senderOpen /\ senderOpen' = FALSE
      /\ UNCHANGED <<wire, taken, m_inMessages, received, receiverOpen>>
  BY DEF SenderDisconnects, receiverVars
<1>2. Taken' = Taken /\ ReadyToReturn' = ReadyToReturn
  BY <1>1 DEF Taken, ReadyToReturn
<1>3. Completed(Taken)' = Completed(Taken) /\ Completed(wire)' = Completed(wire)
  BY <1>1, <1>2
<1>4. Reached' = Reached /\ Behind' = <<>>
  BY <1>1, <1>2, <1>3 DEF Reached, Behind
<1>5. Reached \in Seq(Data) /\ Behind \in Seq(Data) /\ InChannel = Reached \o Behind
  BY ChannelTypes DEF ChannelInv
<1>6. InChannel' = Reached
  <2>1. InChannel' = Reached' \o Behind'
    BY DEF InChannel, Reached, Behind
  <2>2. Reached \o <<>> = Reached
    BY <1>5, JoinedWithNone
  <2> QED BY <1>4, <2>1, <2>2
<1>7. Len(Reached) \in 0 .. Len(InChannel) /\ SubSeq(InChannel, 1, Len(Reached)) = Reached
  BY <1>5, FrontOfJoined
<1>8. \E n \in 0 .. Len(InChannel) : InChannel' = SubSeq(InChannel, 1, n)
  BY <1>6, <1>7
<1>9. Channel!CloseSender
  BY <1>1, <1>8 DEF Channel!CloseSender, Channel!LoseLast
<1> QED BY <1>9

(* The receiver closes: it still returns what it had read, and no more. *)
LEMMA ReceiverDisconnectsCloses ==
    ASSUME ChannelInv, ReceiverDisconnects
    PROVE  Channel!CloseReceiver
<1>1. receiverOpen /\ receiverOpen' = FALSE /\ wire' = <<>>
      /\ UNCHANGED <<senderVars, taken, m_inMessages, received>>
  BY DEF ReceiverDisconnects
<1>2. Taken' = Taken /\ ReadyToReturn' = ReadyToReturn
  BY <1>1 DEF Taken, ReadyToReturn
<1> DEFINE p == ReadyToReturn \o Completed(Taken)
           q == Completed(wire)
<1>3. ReadyToReturn \in Seq(Data) /\ Completed(Taken) \in Seq(Data) /\ q \in Seq(Data) /\ Behind \in Seq(Data)
  BY ChannelTypes DEF ChannelInv
<1>4. p \in Seq(Data)
  BY <1>3
<1>5. InChannel = (p \o q) \o Behind
  BY DEF InChannel, Behind
<1>6. InChannel' = (p \o <<>>) \o <<>>
  <2>1. Completed(Taken)' = Completed(Taken)
    BY <1>2
  <2>2. Completed(wire)' = Completed(wire')
    OBVIOUS
  <2>3. Completed(wire)' = <<>>
    BY <1>1, <2>2, CompletedNone
  <2> QED BY <1>1, <1>2, <2>1, <2>3 DEF InChannel
<1> HIDE DEF p, q
<1>7. InChannel' = p
  BY <1>4, <1>6, JoinedWithNone
<1>8. (p \o q) \o Behind = p \o (q \o Behind) /\ q \o Behind \in Seq(Data)
  <2>1. \A s \in Seq(Data) : q \o s \in Seq(Data)
    BY <1>3
  <2> QED BY <1>3, <1>4, <2>1, JoinedTwice
<1>9. Len(p) \in 0 .. Len(InChannel) /\ SubSeq(InChannel, 1, Len(p)) = p
  BY <1>4, <1>5, <1>8, FrontOfJoined
<1>10. \E n \in 0 .. Len(InChannel) : InChannel' = SubSeq(InChannel, 1, n)
  BY <1>7, <1>9
<1>11. UNCHANGED <<received, senderOpen>>
  BY <1>1 DEF senderVars
<1>12. Channel!CloseReceiver
  BY <1>1, <1>10, <1>11 DEF Channel!CloseReceiver, Channel!LoseLast
<1> QED BY <1>12

LEMMA ChannelStep ==
    ASSUME ChannelInv, [Next]_vars
    PROVE  [Channel!ChannelNext]_Channel!channelVars
<1>1. ASSUME UNCHANGED <<InChannel, received, senderOpen, receiverOpen>>
      PROVE  UNCHANGED Channel!channelVars
  BY <1>1 DEF Channel!channelVars
<1>2. CASE Send
  BY <1>2, SendPuts DEF Channel!ChannelNext
<1>3. CASE RunPost
  BY <1>1, <1>3, RunPostStutters
<1>4. ASSUME NEW kind \in {"header", "body"}, Transmit(kind) PROVE UNCHANGED Channel!channelVars
  BY <1>1, <1>4, TransmitStutters
<1>5. CASE HeaderWritten \/ BodyWritten
  BY <1>1, <1>5, WrittenStutters
<1>6. CASE SenderDisconnects
  BY <1>6, SenderDisconnectsCloses DEF Channel!ChannelNext
<1>7. CASE Read
  BY <1>1, <1>7, ReadStutters
<1>8. CASE HeaderRead
  BY <1>1, <1>8, HeaderReadStutters
<1>9. CASE BodyRead
  BY <1>1, <1>9, BodyReadStutters
<1>10. CASE ReceiverDisconnects
  BY <1>10, ReceiverDisconnectsCloses DEF Channel!ChannelNext
<1>11. CASE TryRecv
  BY <1>11, TryRecvGets DEF Channel!ChannelNext
<1>12. CASE UNCHANGED vars
  <2>1. UNCHANGED <<wire, senderOpen, receiverVars>> /\ UNCHANGED <<posted, m_outMessages, m_currentMsgOut, written>>
    BY <1>12 DEF vars, senderVars
  <2>2. Unsent' = Unsent
    BY <2>1 DEF Unsent, FrontIsWritten
  <2> QED BY <1>1, <2>1, <2>2, SenderStutters
<1> QED BY <1>2, <1>3, <1>4, <1>5, <1>6, <1>7, <1>8, <1>9, <1>10, <1>11, <1>12 DEF Next

LEMMA ChannelStarts ==
    ASSUME Init
    PROVE  ChannelInv /\ Channel!ChannelInit
<1>1. ConnectionInv
  BY ConnectionInit
<1>2. CurrentIsFirst
  BY DEF Init, CurrentIsFirst
<1>3. Taken = <<>> /\ wire = <<>> /\ received = <<>> /\ senderOpen = TRUE /\ receiverOpen = TRUE
  BY DEF Init, Taken
<1>4. ReadyToReturn = <<>> /\ Unsent = <<>>
  <2>1. m_inMessages = <<>> /\ ~FrontIsWritten /\ m_outMessages = <<>> /\ posted = <<>>
    BY DEF Init, FrontIsWritten
  <2>2. <<>> \o <<>> = <<>>
    OBVIOUS
  <2> QED BY <2>1, <2>2 DEF ReadyToReturn, Unsent
<1>5. InChannel = <<>>
  <2>1. InChannel = ((<<>> \o <<>>) \o <<>>) \o <<>>
    BY <1>3, <1>4, CompletedNone DEF InChannel
  <2>2. <<>> \o <<>> = <<>>
    OBVIOUS
  <2> QED BY <2>1, <2>2
<1> QED BY <1>1, <1>2, <1>3, <1>5 DEF ChannelInv, Channel!ChannelInit

(* A TCPConnection implements the abstract channel that module Transports takes
   it for: across the lambda that send posts, the two queues, the asynchronous
   writes and reads with their handlers, and the closing of either end, messages
   arrive whole, once and in the order in which they were sent, and only the last
   of them are lost when an end closes. *)
THEOREM ConnectionIsChannel == Spec => ImplementsChannel
<1>1. Init => ChannelInv /\ Channel!ChannelInit
  BY ChannelStarts
<1>2. ChannelInv /\ [Next]_vars => ChannelInv'
  BY ChannelInvNext
<1>3. ChannelInv /\ [Next]_vars => [Channel!ChannelNext]_Channel!channelVars
  BY ChannelStep
<1> QED BY <1>1, <1>2, <1>3, PTL DEF Spec, ImplementsChannel, Channel!ChannelSpec

-----------------------------------------------------------------------------
(* The messages by number *)

Known == received \o InChannel

LEMMA KnownTyped ==
    ASSUME ConnectionInv
    PROVE  /\ received \in Seq(Data) /\ InChannel \in Seq(Data) /\ Known \in Seq(Data)
           /\ Len(Known) \in Nat /\ sent \in Nat
<1>1. received \in Seq(Data) /\ sent \in Nat
  BY SendAssumption DEF ConnectionInv, SenderTypes, ReceiverTypes
<1>2. InChannel = Reached \o Behind /\ Reached \in Seq(Data) /\ Behind \in Seq(Data)
  BY ChannelTypes
<1>3. InChannel \in Seq(Data)
  BY <1>2
<1> QED BY <1>1, <1>3 DEF Known

(* A step of the channel that puts nothing into it leaves what is known, or, when
   an end closes, the front of it. *)
LEMMA KnownShrinks ==
    ASSUME ConnectionInv, Channel!Get \/ Channel!CloseSender \/ Channel!CloseReceiver
    PROVE  /\ Len(Known') \in Nat /\ Len(Known') <= Len(Known)
           /\ \A i \in 1 .. Len(Known') : i \in 1 .. Len(Known) /\ Known'[i] = Known[i]
           /\ senderOpen' /\ receiverOpen' => senderOpen /\ receiverOpen /\ Len(Known') = Len(Known)
<1> DEFINE c == InChannel
           r == received
<1>1. r \in Seq(Data) /\ c \in Seq(Data) /\ Known = r \o c /\ Known' = r' \o c'
  BY KnownTyped DEF Known
<1>2. CASE Channel!Get
  <2>1. c # <<>> /\ r' = Append(r, Head(c)) /\ c' = Tail(c) /\ UNCHANGED <<senderOpen, receiverOpen>>
    BY <1>2 DEF Channel!Get
  <2>2. Known' = Append(r, Head(c)) \o Tail(c)
    BY <1>1, <2>1
  <2> HIDE DEF c, r
  <2>3. Append(r, Head(c)) \o Tail(c) = r \o c
    BY <1>1, <2>1, MovedOver
  <2>4. Len(r \o c) \in Nat
    BY <1>1
  <2> QED BY <1>1, <2>1, <2>2, <2>3, <2>4
<1>3. CASE Channel!CloseSender \/ Channel!CloseReceiver
  <2>1. r' = r /\ ~(senderOpen' /\ receiverOpen')
    BY <1>3 DEF Channel!CloseSender, Channel!CloseReceiver
  <2>2. PICK n \in 0 .. Len(c) : c' = SubSeq(c, 1, n)
    BY <1>3 DEF Channel!CloseSender, Channel!CloseReceiver, Channel!LoseLast
  <2> DEFINE d == SubSeq(c, 1, n)
  <2>3. Known' = r \o d
    BY <1>1, <2>1, <2>2
  <2> HIDE DEF c, r
  <2>4. d \in Seq(Data) /\ Len(d) = n /\ n <= Len(c) /\ n \in Nat /\ \A i \in 1 .. n : d[i] = c[i]
    BY <1>1, <2>2
  <2> HIDE DEF d
  <2>5. /\ Len(r \o d) \in Nat /\ Len(r \o d) <= Len(r \o c)
        /\ \A i \in 1 .. Len(r \o d) : i \in 1 .. Len(r \o c) /\ (r \o d)[i] = (r \o c)[i]
    BY <1>1, <2>4
  <2> QED BY <1>1, <2>1, <2>3, <2>5
<1> QED BY <1>2, <1>3

NumberInv == ChannelInv /\ NothingLost

LEMMA SendNumbers ==
    ASSUME NumberInv, Send
    PROVE  NothingLost'
<1> DEFINE k == Known
           m == sent
<1>1. /\ received \in Seq(Data) /\ InChannel \in Seq(Data) /\ k \in Seq(Data) /\ Len(k) \in Nat /\ m \in Nat
  BY KnownTyped DEF NumberInv, ChannelInv
<1>2. /\ Len(k) <= m /\ \A i \in 1 .. Len(k) : k[i] = i
      /\ senderOpen /\ receiverOpen => Len(k) = m
  BY DEF NumberInv, NothingLost, Known
<1>3. /\ InChannel' = IF receiverOpen THEN Append(InChannel, m + 1) ELSE InChannel
      /\ m + 1 \in Data /\ senderOpen /\ m' = m + 1
      /\ UNCHANGED <<received, receiverOpen>>
  BY SendPuts DEF NumberInv, Send, receiverVars
<1>4. NothingLost' <=> /\ Len(k') <= m' /\ \A i \in 1 .. Len(k') : k'[i] = i
                       /\ senderOpen' /\ receiverOpen' => Len(k') = m'
  BY DEF NothingLost, Known
<1>5. CASE receiverOpen
  <2>1. k' = Append(k, m + 1)
    <3>1. received \o Append(InChannel, m + 1) = Append(received \o InChannel, m + 1)
      BY <1>1, <1>3, AppendedOver
    <3> QED BY <1>3, <1>5, <3>1 DEF Known
  <2> HIDE DEF k, m
  <2>2. Len(k) = m
    BY <1>2, <1>3, <1>5
  <2>3. Len(Append(k, m + 1)) = m + 1 /\ \A i \in 1 .. m + 1 : Append(k, m + 1)[i] = i
    BY <1>1, <1>2, <1>3, <2>2
  <2> QED BY <1>1, <1>3, <1>4, <2>1, <2>3
<1>6. CASE ~receiverOpen
  <2>1. k' = k
    BY <1>3, <1>6 DEF Known
  <2> HIDE DEF k, m
  <2> QED BY <1>1, <1>2, <1>3, <1>4, <1>6, <2>1
<1> QED BY <1>5, <1>6

LEMMA OthersKeepNumbers ==
    ASSUME NumberInv, sent' = sent,
           \/ UNCHANGED <<InChannel, received, senderOpen, receiverOpen>>
           \/ Channel!Get \/ Channel!CloseSender \/ Channel!CloseReceiver
    PROVE  NothingLost'
<1> DEFINE k == Known
<1>1. k \in Seq(Data) /\ Len(k) \in Nat /\ sent \in Nat
  BY KnownTyped DEF NumberInv, ChannelInv
<1>2. /\ Len(k) <= sent /\ \A i \in 1 .. Len(k) : k[i] = i
      /\ senderOpen /\ receiverOpen => Len(k) = sent
  BY DEF NumberInv, NothingLost, Known
<1>3. NothingLost' <=> /\ Len(k') <= sent' /\ \A i \in 1 .. Len(k') : k'[i] = i
                       /\ senderOpen' /\ receiverOpen' => Len(k') = sent'
  BY DEF NothingLost, Known
<1>4. CASE UNCHANGED <<InChannel, received, senderOpen, receiverOpen>>
  <2>1. k' = k
    BY <1>4 DEF Known
  <2> QED BY <1>2, <1>3, <1>4, <2>1
<1>5. CASE Channel!Get \/ Channel!CloseSender \/ Channel!CloseReceiver
  <2>1. /\ Len(k') \in Nat /\ Len(k') <= Len(k)
        /\ \A i \in 1 .. Len(k') : i \in 1 .. Len(k) /\ k'[i] = k[i]
        /\ senderOpen' /\ receiverOpen' => senderOpen /\ receiverOpen /\ Len(k') = Len(k)
    BY <1>5, KnownShrinks DEF NumberInv, ChannelInv
  <2> HIDE DEF k
  <2> QED BY <1>1, <1>2, <1>3, <1>5, <2>1
<1> QED BY <1>4, <1>5

LEMMA NumberNext ==
    ASSUME NumberInv, [Next]_vars
    PROVE  NumberInv'
<1>1. ChannelInv /\ ChannelInv'
  BY ChannelInvNext DEF NumberInv
<1>2. CASE Send
  BY <1>1, <1>2, SendNumbers DEF NumberInv
<1>3. CASE RunPost
  <2>1. sent' = sent
    BY <1>3 DEF RunPost
  <2> QED BY <1>1, <1>3, <2>1, RunPostStutters, OthersKeepNumbers DEF NumberInv
<1>4. ASSUME NEW kind \in {"header", "body"}, Transmit(kind) PROVE NothingLost'
  <2>1. sent' = sent
    BY <1>4 DEF Transmit
  <2> QED BY <1>1, <1>4, <2>1, TransmitStutters, OthersKeepNumbers
<1>5. CASE HeaderWritten \/ BodyWritten
  <2>1. sent' = sent
    BY <1>5 DEF HeaderWritten, BodyWritten
  <2> QED BY <1>1, <1>5, <2>1, WrittenStutters, OthersKeepNumbers DEF NumberInv
<1>6. CASE SenderDisconnects
  <2>1. sent' = sent
    BY <1>6 DEF SenderDisconnects
  <2> QED BY <1>1, <1>6, <2>1, SenderDisconnectsCloses, OthersKeepNumbers DEF NumberInv
<1>7. CASE Read \/ HeaderRead \/ BodyRead
  <2>1. sent' = sent
    BY <1>7 DEF Read, HeaderRead, BodyRead, senderVars
  <2>2. UNCHANGED <<InChannel, received, senderOpen, receiverOpen>>
    BY <1>1, <1>7, ReadStutters, HeaderReadStutters, BodyReadStutters
  <2> QED BY <1>1, <2>1, <2>2, OthersKeepNumbers DEF NumberInv
<1>8. CASE ReceiverDisconnects
  <2>1. sent' = sent
    BY <1>8 DEF ReceiverDisconnects, senderVars
  <2> QED BY <1>1, <1>8, <2>1, ReceiverDisconnectsCloses, OthersKeepNumbers DEF NumberInv
<1>9. CASE TryRecv
  <2>1. sent' = sent
    BY <1>9 DEF TryRecv, senderVars
  <2> QED BY <1>1, <1>9, <2>1, TryRecvGets, OthersKeepNumbers DEF NumberInv
<1>10. CASE UNCHANGED vars
  <2>1. UNCHANGED <<wire, senderOpen, receiverVars>> /\ UNCHANGED <<sent, posted, m_outMessages, m_currentMsgOut, written>>
    BY <1>10 DEF vars, senderVars
  <2>2. Unsent' = Unsent
    BY <2>1 DEF Unsent, FrontIsWritten
  <2> QED BY <1>1, <2>1, <2>2, SenderStutters, OthersKeepNumbers DEF NumberInv
<1> QED BY <1>1, <1>2, <1>3, <1>4, <1>5, <1>6, <1>7, <1>8, <1>9, <1>10 DEF Next, NumberInv

LEMMA NumberAlways == Spec => []NumberInv
<1>1. Init => NumberInv
  <2> SUFFICES ASSUME Init PROVE NumberInv
    OBVIOUS
  <2>1. ChannelInv /\ InChannel = <<>> /\ received = <<>> /\ sent = 0
    BY ChannelStarts DEF Init, Channel!ChannelInit
  <2>2. <<>> \o <<>> = <<>>
    OBVIOUS
  <2> QED BY <2>1, <2>2 DEF NumberInv, NothingLost
<1>2. NumberInv /\ [Next]_vars => NumberInv'
  BY NumberNext
<1> QED BY <1>1, <1>2, PTL DEF Spec

(* tryRecv returns the messages that were sent, each once, in order and without a
   gap; whatever of them is missing while both ends are open is still in a queue,
   a buffer or on the wire. *)
THEOREM NothingIsLost == Spec => []NothingLost
<1>1. NumberInv => NothingLost
  BY DEF NumberInv
<1> QED BY <1>1, NumberAlways, PTL

(* No message is left behind with nobody to go on with it: while one is missing
   a post, a write, a read or tryRecv has something to do.  EverythingArrives is
   this with fairness. *)
THEOREM SomethingGoesOn == Spec => []NeverIdle
<1>1. NumberInv => NeverIdle
  <2> SUFFICES ASSUME NumberInv, senderOpen, receiverOpen,
                      posted = <<>>, pending \cup written = {}, wire = <<>>, taken = Nothing, m_inMessages = <<>>
               PROVE  ~(Len(received) < sent)
    BY DEF NeverIdle
  <2>1. m_outMessages = <<>> /\ ~FrontIsWritten
    BY DEF NumberInv, ChannelInv, ConnectionInv, OneWrite, FrontIsWritten
  <2>2. Taken = <<>> /\ ReadyToReturn = <<>>
    BY DEF Taken, ReadyToReturn
  <2>3. <<>> \o <<>> = <<>>
    OBVIOUS
  <2>4. Unsent = <<>>
    BY <2>1, <2>3 DEF Unsent
  <2>5. InChannel = <<>>
    BY <2>2, <2>3, <2>4, CompletedNone DEF InChannel
  <2>6. received \in Seq(Data) /\ sent \in Nat
    BY KnownTyped DEF NumberInv, ChannelInv
  <2>7. received \o InChannel = received
    BY <2>5, <2>6, JoinedWithNone
  <2>8. Len(received) = sent
    BY <2>7 DEF NumberInv, NothingLost
  <2> QED BY <2>6, <2>8
<1> QED BY <1>1, NumberAlways, PTL

-----------------------------------------------------------------------------
(* UDPTransport *)

(* What a datagram says of where it comes from and goes to is what was asked of
   sendTo; what it holds may be anything. *)
Right(d) ==
    d \in Datagram /\ d.id \in DOMAIN udpSent /\ udpSent[d.id] = [from |-> d.from, to |-> d.to]

(* The send numbered n still waits in a socket or is on the network. *)
InFlight(n) ==
    \/ \E d \in network : d.id = n
    \/ \E t \in Transport : \E i \in DOMAIN deferred[t] : deferred[t][i].id = n

SendsCounted == Len(udpSent) <= MaxDatagrams

NetworkRight ==
    /\ \A d \in network : Right(d)
    /\ \A d, e \in network : d.id = e.id => d = e

(* The sends of q wait at t, each once, and are not also on the network. *)
Waiting(q, t) ==
    /\ \A i \in DOMAIN q : Right(q[i]) /\ q[i].from = t /\ \A d \in network : d.id # q[i].id
    /\ \A i, j \in DOMAIN q : q[i].id = q[j].id => i = j

DeferredRight == \A t \in Transport : Waiting(deferred[t], t)

(* h has arrived at t: each datagram once, and not also on its way. *)
Arrived(h, t) ==
    /\ \A i \in DOMAIN h : Right(h[i]) /\ h[i].to = t /\ ~InFlight(h[i].id)
    /\ \A i, j \in DOMAIN h : h[i].id = h[j].id => i = j

(* d has arrived at t, and is not in h. *)
Held(d, h, t) ==
    /\ Right(d) /\ d.to = t /\ ~InFlight(d.id)
    /\ \A i \in DOMAIN h : h[i].id # d.id

(* What is received and not yet pushed is nowhere else. *)
ReceivedRight ==
    \A t \in Transport : recv[t] = "received" => Held(m_recvMsg[t], HandedOver(t), t)

HandedOverRight == \A t \in Transport : Arrived(HandedOver(t), t)

DatagramInv ==
    UDPTypeOK /\ SendsCounted /\ NetworkRight /\ DeferredRight /\ ReceivedRight /\ HandedOverRight

LEMMA HandedOverTyped ==
    ASSUME UDPTypeOK, NEW t \in Transport
    PROVE  HandedOver(t) \in Seq(Datagram)
  BY DEF UDPTypeOK, HandedOver

-----------------------------------------------------------------------------
(* No send comes into flight that was not before, but for new ones. *)
NothingReturns ==
    \A n \in DOMAIN udpSent :
        n \in DOMAIN udpSent' /\ udpSent'[n] = udpSent[n] /\ (InFlight(n)' => InFlight(n))

LEMMA StillRight ==
    ASSUME NothingReturns, NEW d, Right(d)
    PROVE  Right(d)' /\ (~InFlight(d.id) => ~InFlight(d.id)')
<1>1. d.id \in DOMAIN udpSent
  BY DEF Right
<1> QED BY <1>1 DEF NothingReturns, Right

LEMMA StillArrived ==
    ASSUME NothingReturns, NEW h, NEW t
    PROVE  /\ Arrived(h, t) => Arrived(h, t)'
           /\ \A d : Held(d, h, t) => Held(d, h, t)'
<1>1. \A d : Right(d) => Right(d)' /\ (~InFlight(d.id) => ~InFlight(d.id)')
  BY StillRight
<1>2. ASSUME Arrived(h, t) PROVE Arrived(h, t)'
  BY <1>1, <1>2 DEF Arrived
<1>3. ASSUME NEW d, Held(d, h, t) PROVE Held(d, h, t)'
  BY <1>1, <1>3 DEF Held
<1> QED BY <1>2, <1>3

LEMMA ArrivedKept ==
    ASSUME HandedOverRight, NothingReturns, NEW t \in Transport, HandedOver(t)' = HandedOver(t)
    PROVE  Arrived(HandedOver(t), t)'
<1>1. PICK h : h = HandedOver(t)
  OBVIOUS
<1>2. Arrived(h, t)'
  BY <1>1, StillArrived DEF HandedOverRight
<1> QED BY <1>1, <1>2 DEF Arrived, Right, InFlight

LEMMA HeldKept ==
    ASSUME ReceivedRight, NothingReturns, NEW t \in Transport, recv[t] = "received",
           HandedOver(t)' = HandedOver(t), m_recvMsg'[t] = m_recvMsg[t]
    PROVE  Held(m_recvMsg[t], HandedOver(t), t)'
<1>1. PICK h, d : h = HandedOver(t) /\ d = m_recvMsg[t]
  OBVIOUS
<1>2. Held(d, h, t)'
  BY <1>1, StillArrived DEF ReceivedRight
<1> QED BY <1>1, <1>2 DEF Held, Right, InFlight

(* When nothing is received or pushed, what has arrived stays as it is. *)
LEMMA NothingArrives ==
    ASSUME ReceivedRight, HandedOverRight, NothingReturns, UNCHANGED m_recvMsg,
           \A t \in Transport :
              /\ HandedOver(t)' = HandedOver(t)
              /\ recv'[t] = "received" => recv[t] = "received"
    PROVE  (ReceivedRight /\ HandedOverRight)'
  BY ArrivedKept, HeldKept DEF ReceivedRight, HandedOverRight

(* When nothing is sent, what is on its way becomes no more. *)
LEMMA FlightShrinks ==
    ASSUME NetworkRight, DeferredRight, UNCHANGED udpSent, network' \subseteq network,
           \A t \in Transport : deferred'[t] = deferred[t] \/ deferred'[t] = <<>>
    PROVE  (NetworkRight /\ DeferredRight)' /\ NothingReturns
<1>1. NetworkRight'
  BY DEF NetworkRight, Right
<1>2. ASSUME NEW t \in Transport PROVE Waiting(deferred[t], t)'
  <2>1. CASE deferred'[t] = <<>>
    BY <2>1 DEF Waiting
  <2>2. CASE deferred'[t] = deferred[t]
    <3>1. Waiting(deferred[t], t)
      BY DEF DeferredRight
    <3> QED BY <2>2, <3>1 DEF Waiting, Right
  <2> QED BY <2>1, <2>2
<1>3. NothingReturns
  BY DEF NothingReturns, InFlight
<1> QED BY <1>1, <1>2, <1>3 DEF DeferredRight

-----------------------------------------------------------------------------
LEMMA DatagramInit == DatagramAssumption /\ UDPInit => DatagramInv
<1> SUFFICES ASSUME DatagramAssumption, UDPInit PROVE DatagramInv
  OBVIOUS
<1>1. UDPTypeOK
  BY DEF UDPInit, UDPTypeOK, Stage
<1>2. \A t \in Transport : HandedOver(t) = <<>> /\ deferred[t] = <<>> /\ recv[t] = "ended"
  BY DEF UDPInit, HandedOver
<1>3. SendsCounted /\ NetworkRight
  BY DEF DatagramAssumption, UDPInit, SendsCounted, NetworkRight
<1> QED BY <1>1, <1>2, <1>3
     DEF DatagramInv, DeferredRight, Waiting, ReceivedRight, HandedOverRight, Arrived

(* What Send adds. *)
NewDatagram(t, to) ==
    [id |-> Len(udpSent) + 1, from |-> t, to |-> to, bytes |-> Len(udpSent) + 1]

LEMMA SendFacts ==
    ASSUME DatagramAssumption, DatagramInv, NEW t \in Transport, NEW to \in Transport, SendTo(t, to),
           NEW new, new = NewDatagram(t, to)
    PROVE  /\ udpSent' \in Seq([from: Transport, to: Transport])
           /\ Len(udpSent') <= MaxDatagrams
           /\ new \in Datagram /\ new.from = t /\ new.id \notin DOMAIN udpSent /\ Right(new)'
           /\ \A n \in DOMAIN udpSent : n \in DOMAIN udpSent' /\ udpSent'[n] = udpSent[n]
           /\ \/ /\ deferred[t] = <<>> /\ UNCHANGED deferred
                 /\ network' = network \cup OnTheWay({new})
              \/ /\ deferred' = [deferred EXCEPT ![t] = Append(@, new)]
                 /\ UNCHANGED network
<1>1. /\ udpSent \in Seq([from: Transport, to: Transport])
      /\ Len(udpSent) < MaxDatagrams /\ MaxDatagrams \in Nat
      /\ udpSent' = Append(udpSent, [from |-> t, to |-> to])
  BY DEF DatagramInv, UDPTypeOK, DatagramAssumption, SendTo
<1>2. Len(udpSent') = Len(udpSent) + 1 /\ Len(udpSent') \in Message /\ Len(udpSent') <= MaxDatagrams
  BY <1>1 DEF Message
<1>3. udpSent' \in Seq([from: Transport, to: Transport])
  BY <1>1
<1>4. new \in Datagram /\ new.id = Len(udpSent) + 1 /\ new.from = t /\ new.to = to
  BY <1>1, <1>2 DEF NewDatagram, Datagram
<1>5. DOMAIN udpSent' = 1 .. Len(udpSent) + 1 /\ DOMAIN udpSent = 1 .. Len(udpSent)
      /\ udpSent'[Len(udpSent) + 1] = [from |-> t, to |-> to]
      /\ \A n \in DOMAIN udpSent : n \in DOMAIN udpSent' /\ udpSent'[n] = udpSent[n]
  BY <1>1
<1>6. new.id \notin DOMAIN udpSent /\ Right(new)'
  BY <1>1, <1>4, <1>5 DEF Right
<1>7. \/ /\ deferred[t] = <<>> /\ UNCHANGED deferred
         /\ network' = network \cup OnTheWay({new})
      \/ /\ deferred' = [deferred EXCEPT ![t] = Append(@, new)]
         /\ UNCHANGED network
  BY <1>2 DEF SendTo, NewDatagram
<1> QED BY <1>1, <1>2, <1>3, <1>4, <1>5, <1>6, <1>7

LEMMA SendKeeps ==
    ASSUME DatagramAssumption, DatagramInv, NEW t \in Transport, NEW to \in Transport, SendTo(t, to)
    PROVE  DatagramInv'
<1>1. PICK new : new = NewDatagram(t, to)
  OBVIOUS
<1>2. /\ udpSent' \in Seq([from: Transport, to: Transport])
      /\ Len(udpSent') <= MaxDatagrams
      /\ new \in Datagram /\ new.from = t /\ new.id \notin DOMAIN udpSent /\ Right(new)'
      /\ \A n \in DOMAIN udpSent : n \in DOMAIN udpSent' /\ udpSent'[n] = udpSent[n]
  BY <1>1, SendFacts
<1>3. \A d : Right(d) => Right(d)' /\ d.id # new.id
  BY <1>2 DEF Right
<1>4. UNCHANGED <<opened, open, recv, m_recvMsg, udpInMessages, returned>>
  BY DEF SendTo
<1>5. CASE deferred[t] = <<>> /\ UNCHANGED deferred /\ network' = network \cup OnTheWay({new})
  <2>1. network' \subseteq network \cup {new}
    BY <1>5 DEF OnTheWay
  <2>2. UDPTypeOK' /\ SendsCounted'
    BY <1>2, <1>4, <1>5, <2>1 DEF DatagramInv, UDPTypeOK, SendsCounted
  <2>3. NetworkRight'
    BY <1>2, <1>3, <2>1 DEF DatagramInv, NetworkRight
  <2>4. ASSUME NEW u \in Transport PROVE Waiting(deferred[u], u)'
    <3>1. PICK q : q = deferred[u]
      OBVIOUS
    <3>2. Waiting(q, u)
      BY <3>1 DEF DatagramInv, DeferredRight
    <3>3. Waiting(q, u)'
      BY <1>3, <2>1, <3>2 DEF Waiting
    <3> QED BY <1>5, <3>1, <3>3 DEF Waiting, Right
  <2>5. NothingReturns
    BY <1>2, <1>5, <2>1 DEF NothingReturns, InFlight
  <2>6. (ReceivedRight /\ HandedOverRight)'
    BY <1>4, <2>5, NothingArrives DEF DatagramInv, HandedOver
  <2> QED BY <2>2, <2>3, <2>4, <2>6 DEF DatagramInv, DeferredRight
<1>6. CASE UNCHANGED network /\ deferred' = [deferred EXCEPT ![t] = Append(@, new)]
  <2>1. /\ deferred[t] \in Seq(Datagram) /\ deferred \in [Transport -> Seq(Datagram)]
        /\ Append(deferred[t], new) \in Seq(Datagram)
        /\ DOMAIN Append(deferred[t], new) = 1 .. Len(deferred[t]) + 1
        /\ DOMAIN deferred[t] = 1 .. Len(deferred[t])
        /\ \A i \in DOMAIN deferred[t] : Append(deferred[t], new)[i] = deferred[t][i]
        /\ Append(deferred[t], new)[Len(deferred[t]) + 1] = new
    BY <1>2, Appended DEF DatagramInv, UDPTypeOK
  <2>2. UDPTypeOK' /\ SendsCounted'
    BY <1>2, <1>4, <1>6, <2>1 DEF DatagramInv, UDPTypeOK, SendsCounted
  <2>3. NetworkRight'
    BY <1>3, <1>6 DEF DatagramInv, NetworkRight
  <2>4. /\ deferred'[t] = Append(deferred[t], new)
        /\ \A u \in Transport \ {t} : deferred'[u] = deferred[u]
    BY <1>6, <2>1
  <2>5. ASSUME NEW u \in Transport PROVE Waiting(deferred[u], u)'
    <3>1. PICK q : q = deferred[u]
      OBVIOUS
    <3>2. Waiting(q, u)
      BY <3>1 DEF DatagramInv, DeferredRight
    <3>3. Waiting(q, u)'
      BY <1>3, <1>6, <3>2 DEF Waiting
    <3>4. CASE u # t
      BY <2>4, <3>1, <3>3, <3>4 DEF Waiting, Right
    <3>5. CASE u = t
      <4>1. PICK r : r = deferred'[t]
        OBVIOUS
      <4>2. /\ DOMAIN r = 1 .. Len(q) + 1 /\ DOMAIN q = 1 .. Len(q) /\ Len(q) \in Nat
            /\ \A i \in DOMAIN q : r[i] = q[i]
            /\ r[Len(q) + 1] = new
        BY <2>1, <2>4, <3>1, <3>5, <4>1
      <4>3. \A i \in DOMAIN r : i \in DOMAIN q \/ i = Len(q) + 1
        BY <4>2
      <4>4. /\ \A d \in network' : d.id # new.id
            /\ \A i \in DOMAIN q : q[i].id # new.id
        BY <1>3, <1>6, <3>2 DEF DatagramInv, NetworkRight, Waiting
      <4>5. ASSUME NEW i \in DOMAIN r
            PROVE  Right(r[i])' /\ r[i].from = t /\ \A d \in network' : d.id # r[i].id
        BY <1>2, <3>3, <3>5, <4>2, <4>3, <4>4 DEF Waiting
      <4>6. ASSUME NEW i \in DOMAIN r, NEW j \in DOMAIN r, r[i].id = r[j].id PROVE i = j
        BY <3>3, <4>2, <4>3, <4>4, <4>6 DEF Waiting
      <4>7. Waiting(r, t)'
        BY <4>5, <4>6 DEF Waiting
      <4> QED BY <3>5, <4>1, <4>7 DEF Waiting, Right
    <3> QED BY <3>4, <3>5
  <2>6. \A u \in Transport : \A i \in DOMAIN deferred'[u] :
           \/ i \in DOMAIN deferred[u] /\ deferred'[u][i] = deferred[u][i]
           \/ deferred'[u][i] = new
    <3>1. DOMAIN deferred'[t] = 1 .. Len(deferred[t]) + 1 /\ Len(deferred[t]) \in Nat
      BY <2>1, <2>4
    <3>2. ASSUME NEW i \in DOMAIN deferred'[t]
          PROVE  i \in DOMAIN deferred[t] \/ i = Len(deferred[t]) + 1
      BY <2>1, <3>1, <3>2
    <3> QED BY <2>1, <2>4, <3>2
  <2>7. NothingReturns
    BY <1>2, <1>6, <2>6 DEF NothingReturns, InFlight
  <2>8. (ReceivedRight /\ HandedOverRight)'
    BY <1>4, <2>7, NothingArrives DEF DatagramInv, HandedOver
  <2> QED BY <2>2, <2>3, <2>5, <2>8 DEF DatagramInv, DeferredRight
<1> QED BY <1>1, <1>5, <1>6, SendFacts

LEMMA SendDeferredKeeps ==
    ASSUME DatagramAssumption, DatagramInv, NEW t \in Transport, SendDeferred(t)
    PROVE  DatagramInv'
<1>1. PICK bytes \in 1 .. Len(udpSent) \cup {Junk} :
         network' = network \cup OnTheWay({[Head(deferred[t]) EXCEPT !.bytes = bytes]})
  BY DEF SendDeferred
<1>2. PICK new : new = [Head(deferred[t]) EXCEPT !.bytes = bytes]
  OBVIOUS
<1>3. /\ deferred \in [Transport -> Seq(Datagram)] /\ deferred[t] \in Seq(Datagram)
      /\ deferred[t] # <<>> /\ Tail(deferred[t]) \in Seq(Datagram)
      /\ deferred[t][1] \in Datagram /\ Head(deferred[t]) = deferred[t][1]
      /\ 1 \in DOMAIN deferred[t]
      /\ \A i \in DOMAIN Tail(deferred[t]) :
            i \in Nat /\ i # 0 /\ i + 1 \in DOMAIN deferred[t]
            /\ Tail(deferred[t])[i] = deferred[t][i + 1]
  <2>1. deferred \in [Transport -> Seq(Datagram)] /\ deferred[t] \in Seq(Datagram)
        /\ deferred[t] # <<>>
    BY DEF DatagramInv, UDPTypeOK, SendDeferred
  <2> QED BY <2>1, Shortened
<1>4. /\ Waiting(deferred[t], t) /\ Right(deferred[t][1]) /\ deferred[t][1].from = t
      /\ \A d \in network : d.id # deferred[t][1].id
  BY <1>3 DEF DatagramInv, DeferredRight, Waiting
<1>5. bytes \in Message \cup {Junk}
  BY <1>1 DEF DatagramInv, UDPTypeOK, SendsCounted, DatagramAssumption, Message
<1>6. new \in Datagram /\ Right(new) /\ new.id = deferred[t][1].id /\ new.from = t
  BY <1>2, <1>3, <1>4, <1>5 DEF Datagram, Right
<1>7. /\ network' \subseteq network \cup {new}
      /\ deferred' = [deferred EXCEPT ![t] = Tail(deferred[t])]
      /\ UNCHANGED <<opened, open, recv, m_recvMsg, udpInMessages, udpSent, returned>>
  BY <1>1, <1>2 DEF SendDeferred, OnTheWay
<1>8. UDPTypeOK' /\ SendsCounted'
  BY <1>3, <1>6, <1>7 DEF DatagramInv, UDPTypeOK, SendsCounted
<1>9. NetworkRight'
  BY <1>4, <1>6, <1>7 DEF DatagramInv, NetworkRight, Right
<1>10. ASSUME NEW u \in Transport PROVE Waiting(deferred[u], u)'
  <2>1. PICK q : q = deferred[u]
    OBVIOUS
  <2>2. Waiting(q, u)
    BY <2>1 DEF DatagramInv, DeferredRight
  <2>3. CASE u # t
    <3>1. ASSUME NEW i \in DOMAIN q PROVE q[i].id # new.id
      <4>1. Right(q[i]) /\ q[i].from = u
        BY <2>2 DEF Waiting
      <4>2. udpSent[q[i].id].from = u
        BY <4>1 DEF Right
      <4>3. udpSent[new.id].from = t
        BY <1>6 DEF Right
      <4> QED BY <2>3, <4>2, <4>3
    <3>2. Waiting(q, u)'
      BY <1>7, <2>2, <3>1 DEF Waiting, Right
    <3> QED BY <1>3, <1>7, <2>1, <2>3, <3>2 DEF Waiting, Right
  <2>4. CASE u = t
    <3>1. PICK r : r = Tail(q)
      OBVIOUS
    <3>2. /\ 1 \in DOMAIN q /\ q[1].id = new.id
          /\ \A i \in DOMAIN r : i \in Nat /\ i # 0 /\ i + 1 \in DOMAIN q /\ r[i] = q[i + 1]
      BY <1>3, <1>6, <2>1, <2>4, <3>1
    <3>3. ASSUME NEW i \in DOMAIN r
          PROVE  Right(r[i])' /\ r[i].from = t /\ \A d \in network' : d.id # r[i].id
      <4>1. i + 1 \in DOMAIN q /\ i + 1 # 1 /\ r[i] = q[i + 1]
        BY <3>2
      <4>2. r[i].id # new.id
        BY <2>2, <3>2, <4>1 DEF Waiting
      <4> QED BY <1>7, <2>2, <2>4, <4>1, <4>2 DEF Waiting, Right
    <3>4. ASSUME NEW i \in DOMAIN r, NEW j \in DOMAIN r, r[i].id = r[j].id PROVE i = j
      <4>1. i + 1 = j + 1
        BY <2>2, <3>2, <3>4 DEF Waiting
      <4> QED BY <3>2, <4>1
    <3>5. Waiting(r, t)'
      BY <3>3, <3>4 DEF Waiting
    <3>6. deferred'[t] = r
      BY <1>3, <1>7, <2>1, <2>4, <3>1
    <3> QED BY <2>4, <3>5, <3>6 DEF Waiting, Right
  <2> QED BY <2>3, <2>4
<1>11. NothingReturns
  <2>1. \A u \in Transport : \A i \in DOMAIN deferred'[u] :
          \E j \in DOMAIN deferred[u] : deferred'[u][i] = deferred[u][j]
    <3>1. \A i \in DOMAIN deferred'[t] :
            \E j \in DOMAIN deferred[t] : deferred'[t][i] = deferred[t][j]
      BY <1>3, <1>7
    <3> QED BY <1>3, <1>7, <3>1
  <2> QED BY <1>3, <1>6, <1>7, <2>1 DEF NothingReturns, InFlight
<1>12. (ReceivedRight /\ HandedOverRight)'
  BY <1>7, <1>11, NothingArrives DEF DatagramInv, HandedOver
<1> QED BY <1>8, <1>9, <1>10, <1>12 DEF DatagramInv, DeferredRight

LEMMA ReceiveKeeps ==
    ASSUME DatagramInv, NEW t \in Transport, NEW d \in network, Receive(t, d)
    PROVE  DatagramInv'
<1>1. /\ d.to = t /\ network' = network \ {d} /\ recv[t] = "waiting"
      /\ m_recvMsg' = [m_recvMsg EXCEPT ![t] = d]
      /\ recv' = [recv EXCEPT ![t] = "received"]
      /\ UNCHANGED <<opened, open, udpInMessages, deferred, udpSent, returned>>
  BY DEF Receive
<1>2. d \in Datagram /\ Right(d)
  BY DEF DatagramInv, NetworkRight, Right
<1>3. UDPTypeOK' /\ SendsCounted'
  BY <1>1, <1>2 DEF DatagramInv, UDPTypeOK, SendsCounted, Stage
<1>4. (NetworkRight /\ DeferredRight)' /\ NothingReturns
  BY <1>1, FlightShrinks DEF DatagramInv
<1>5. \A u \in Transport : HandedOver(u)' = HandedOver(u)
  BY <1>1 DEF HandedOver
<1>6. HandedOverRight'
  BY <1>4, <1>5, ArrivedKept DEF DatagramInv, HandedOverRight
<1>7. ASSUME NEW u \in Transport, recv'[u] = "received"
      PROVE  Held(m_recvMsg[u], HandedOver(u), u)'
  <2>1. CASE u # t
    <3>1. recv[u] = "received" /\ m_recvMsg'[u] = m_recvMsg[u]
      BY <1>1, <1>7, <2>1 DEF DatagramInv, UDPTypeOK
    <3> QED BY <1>4, <1>5, <3>1, HeldKept DEF DatagramInv
  <2>2. CASE u = t
    <3>1. PICK h : h = HandedOver(t)
      OBVIOUS
    <3>2. \A i \in DOMAIN h : h[i].id # d.id
      BY <3>1 DEF DatagramInv, HandedOverRight, Arrived, InFlight
    <3>3. ~InFlight(d.id)'
      BY <1>1 DEF DatagramInv, NetworkRight, DeferredRight, Waiting, InFlight
    <3>4. Held(d, h, t)'
      BY <1>1, <1>2, <3>2, <3>3 DEF Held, Right
    <3>5. m_recvMsg'[t] = d /\ HandedOver(t)' = h
      BY <1>1, <1>5, <3>1 DEF DatagramInv, UDPTypeOK
    <3> QED BY <2>2, <3>4, <3>5 DEF Held, Right, InFlight
  <2> QED BY <2>1, <2>2
<1> QED BY <1>3, <1>4, <1>6, <1>7 DEF DatagramInv, ReceivedRight

(* What the handler pushes has been handed over. *)
LEMMA HandleReceiveKeeps ==
    ASSUME DatagramInv, NEW t \in Transport, HandleReceive(t)
    PROVE  DatagramInv'
<1>1. /\ udpInMessages' = [udpInMessages EXCEPT ![t] = Pushed(t)]
      /\ recv' \in [Transport -> Stage] /\ recv'[t] # "received"
      /\ \A u \in Transport \ {t} : recv'[u] = recv[u]
      /\ UNCHANGED <<opened, open, m_recvMsg, deferred, network, udpSent, returned>>
  BY DEF DatagramInv, UDPTypeOK, Stage, HandleReceive
<1>2. recv[t] = "received" => m_recvMsg[t] \in Datagram
  BY DEF DatagramInv, ReceivedRight, Held, Right
<1>3. /\ udpInMessages \in [Transport -> Seq(Datagram)] /\ udpInMessages[t] \in Seq(Datagram)
      /\ returned[t] \in Seq(Datagram)
  BY DEF DatagramInv, UDPTypeOK
<1>4. Pushed(t) \in Seq(Datagram)
  BY <1>2, <1>3 DEF Pushed
<1>5. UDPTypeOK' /\ SendsCounted'
  BY <1>1, <1>3, <1>4 DEF DatagramInv, UDPTypeOK, SendsCounted
<1>6. (NetworkRight /\ DeferredRight)' /\ NothingReturns
  BY <1>1, FlightShrinks DEF DatagramInv
<1>7. udpInMessages'[t] = Pushed(t) /\ \A u \in Transport \ {t} : udpInMessages'[u] = udpInMessages[u]
  BY <1>1, <1>3
<1>8. \A u \in Transport \ {t} : HandedOver(u)' = HandedOver(u)
  BY <1>1, <1>7 DEF HandedOver
<1>9. ReceivedRight'
  BY <1>1, <1>6, <1>8, HeldKept DEF DatagramInv, ReceivedRight
<1>10. Arrived(HandedOver(t), t)'
  <2>1. CASE recv[t] # "received"
    <3>1. HandedOver(t)' = HandedOver(t)
      BY <1>1, <1>7, <2>1 DEF HandedOver, Pushed
    <3> QED BY <1>6, <3>1, ArrivedKept DEF DatagramInv
  <2>2. CASE recv[t] = "received"
    <3>1. PICK h, m : h = HandedOver(t) /\ m = m_recvMsg[t]
      OBVIOUS
    <3>2. h \in Seq(Datagram) /\ m \in Datagram
      BY <1>2, <2>2, <3>1, HandedOverTyped DEF DatagramInv
    <3>3. HandedOver(t)' = Append(h, m)
      <4>1. returned'[t] = returned[t] /\ udpInMessages'[t] = Append(udpInMessages[t], m)
        BY <1>1, <1>7, <2>2, <3>1 DEF Pushed
      <4>2. \A r, q \in Seq(Datagram) : r \o Append(q, m) = Append(r \o q, m)
        BY <3>2, AppendedOver
      <4> QED BY <1>3, <3>1, <4>1, <4>2 DEF HandedOver
    <3>4. PICK r : r = Append(h, m)
      OBVIOUS
    <3>5. /\ DOMAIN r = 1 .. Len(h) + 1 /\ DOMAIN h = 1 .. Len(h) /\ Len(h) \in Nat
          /\ \A i \in DOMAIN h : r[i] = h[i]
          /\ r[Len(h) + 1] = m
      BY <3>2, <3>4
    <3>6. \A i \in DOMAIN r : i \in DOMAIN h \/ i = Len(h) + 1
      BY <3>5
    <3>7. Held(m, h, t)' /\ Arrived(h, t)'
      BY <1>6, <2>2, <3>1, StillArrived DEF DatagramInv, ReceivedRight, HandedOverRight
    <3>8. Arrived(r, t)'
      <4>1. ASSUME NEW i \in DOMAIN r PROVE Right(r[i])' /\ r[i].to = t /\ ~InFlight(r[i].id)'
        BY <3>5, <3>6, <3>7 DEF Held, Arrived
      <4>2. ASSUME NEW i \in DOMAIN r, NEW j \in DOMAIN r, r[i].id = r[j].id PROVE i = j
        BY <3>5, <3>6, <3>7, <4>2 DEF Held, Arrived
      <4> QED BY <4>1, <4>2 DEF Arrived
    <3> QED BY <3>3, <3>4, <3>8 DEF Arrived, Right, InFlight
  <2> QED BY <2>1, <2>2
<1>11. HandedOverRight'
  BY <1>6, <1>8, <1>10, ArrivedKept DEF DatagramInv, HandedOverRight
<1> QED BY <1>5, <1>6, <1>9, <1>11 DEF DatagramInv

LEMMA TryRecvKeeps ==
    ASSUME DatagramInv, NEW t \in Transport, TryRecvDatagram(t)
    PROVE  DatagramInv'
<1>1. /\ udpInMessages \in [Transport -> Seq(Datagram)] /\ udpInMessages[t] \in Seq(Datagram)
      /\ returned \in [Transport -> Seq(Datagram)] /\ returned[t] \in Seq(Datagram)
      /\ udpInMessages[t] # <<>>
  BY DEF DatagramInv, UDPTypeOK, TryRecvDatagram
<1>2. /\ udpInMessages' = [udpInMessages EXCEPT ![t] = Tail(udpInMessages[t])]
      /\ returned' = [returned EXCEPT ![t] = Append(returned[t], Head(udpInMessages[t]))]
      /\ UNCHANGED <<opened, open, recv, m_recvMsg, deferred, network, udpSent>>
  BY DEF TryRecvDatagram
<1>3. UDPTypeOK' /\ SendsCounted'
  <2>1. /\ Tail(udpInMessages[t]) \in Seq(Datagram)
        /\ Append(returned[t], Head(udpInMessages[t])) \in Seq(Datagram)
    BY <1>1
  <2> QED BY <1>1, <1>2, <2>1 DEF DatagramInv, UDPTypeOK, SendsCounted
<1>4. ASSUME NEW u \in Transport PROVE HandedOver(u)' = HandedOver(u)
  <2>1. CASE u = t
    BY <1>1, <1>2, <2>1, MovedOver DEF HandedOver
  <2>2. CASE u # t
    BY <1>1, <1>2, <2>2 DEF HandedOver
  <2> QED BY <2>1, <2>2
<1>5. (NetworkRight /\ DeferredRight)' /\ NothingReturns
  BY <1>2, FlightShrinks DEF DatagramInv
<1>6. (ReceivedRight /\ HandedOverRight)'
  BY <1>2, <1>4, <1>5, NothingArrives DEF DatagramInv
<1> QED BY <1>3, <1>5, <1>6 DEF DatagramInv

(* The steps that neither send, receive nor push. *)
LEMMA UDPOthersKeep ==
    ASSUME DatagramInv,
           \/ \E t \in Transport : Open(t) \/ ReceiveFails(t) \/ StartRecv(t) \/ Close(t)
           \/ \E d \in network : Lose(d)
           \/ UNCHANGED udpVars
    PROVE  DatagramInv'
<1>1. /\ network' \subseteq network /\ UNCHANGED <<m_recvMsg, udpInMessages, udpSent, returned>>
      /\ \A u \in Transport :
            /\ deferred'[u] = deferred[u] \/ deferred'[u] = <<>>
            /\ recv'[u] = "received" => recv[u] = "received"
  BY DEF DatagramInv, UDPTypeOK, Open, ReceiveFails, StartRecv, Close, Lose, udpVars
<1>2. UDPTypeOK'
  <2>1. ASSUME NEW t \in Transport, Open(t) PROVE UDPTypeOK'
    BY <2>1 DEF DatagramInv, UDPTypeOK, Stage, Open
  <2>2. ASSUME NEW t \in Transport, ReceiveFails(t) \/ StartRecv(t) PROVE UDPTypeOK'
    BY <2>2 DEF DatagramInv, UDPTypeOK, Stage, ReceiveFails, StartRecv
  <2>3. ASSUME NEW t \in Transport, Close(t) PROVE UDPTypeOK'
    <3>1. (IF recv[t] = "waiting" THEN "aborted" ELSE recv[t]) \in Stage
      BY DEF DatagramInv, UDPTypeOK, Stage
    <3>2. recv' \in [Transport -> Stage] /\ network' \subseteq Datagram
      BY <2>3, <3>1 DEF DatagramInv, UDPTypeOK, Close
    <3>3. deferred' \in [Transport -> Seq(Datagram)] /\ open' \in [Transport -> BOOLEAN]
      BY <2>3 DEF DatagramInv, UDPTypeOK, Close
    <3> QED BY <2>3, <3>2, <3>3 DEF DatagramInv, UDPTypeOK, Close
  <2>4. ASSUME NEW d \in network, Lose(d) PROVE UDPTypeOK'
    BY <2>4 DEF DatagramInv, UDPTypeOK, Lose
  <2>5. CASE UNCHANGED udpVars
    BY <2>5 DEF DatagramInv, UDPTypeOK, udpVars
  <2> QED BY <2>1, <2>2, <2>3, <2>4, <2>5
<1>3. SendsCounted'
  BY <1>1 DEF DatagramInv, SendsCounted
<1>4. (NetworkRight /\ DeferredRight)' /\ NothingReturns
  BY <1>1, FlightShrinks DEF DatagramInv
<1>5. \A u \in Transport : HandedOver(u)' = HandedOver(u)
  BY <1>1 DEF HandedOver
<1>6. (ReceivedRight /\ HandedOverRight)'
  BY <1>1, <1>4, <1>5, NothingArrives DEF DatagramInv
<1> QED BY <1>2, <1>3, <1>4, <1>6 DEF DatagramInv

LEMMA DatagramNext == DatagramAssumption /\ DatagramInv /\ [UDPNext]_udpVars => DatagramInv'
  BY SendKeeps, SendDeferredKeeps, ReceiveKeeps, HandleReceiveKeeps, TryRecvKeeps, UDPOthersKeep
     DEF UDPNext, UDPHandler

LEMMA DatagramAlways ==
    ASSUME DatagramAssumption
    PROVE  UDPSpec => []DatagramInv
<1>1. UDPInit => DatagramInv
  BY DatagramInit
<1>2. DatagramInv /\ [UDPNext]_udpVars => DatagramInv'
  BY DatagramNext
<1> QED BY <1>1, <1>2, PTL DEF UDPSpec

-----------------------------------------------------------------------------
(* Sockets, receive loops, queues and datagrams have their types: the handler
   never pushes m_recvMsg before something was received into it. *)
THEOREM TransportTypeCorrect ==
    ASSUME DatagramAssumption
    PROVE  UDPSpec => []UDPTypeOK
<1>1. DatagramInv => UDPTypeOK
  BY DEF DatagramInv
<1> QED BY <1>1, DatagramAlways, PTL

(* tryRecv returns each datagram with the endpoint it was sent from and none
   twice, whatever the network loses or reorders, whatever waits in a socket and
   whenever transports are closed. *)
THEOREM DatagramsFromTheirSender ==
    ASSUME DatagramAssumption
    PROVE  UDPSpec => []EachFromItsSender
<1>1. DatagramInv => EachFromItsSender
  <2> SUFFICES ASSUME DatagramInv, NEW t \in Transport
               PROVE  /\ IsInjective([i \in DOMAIN HandedOver(t) |-> HandedOver(t)[i].id])
                      /\ \A i \in DOMAIN HandedOver(t) :
                            udpSent[HandedOver(t)[i].id] = [from |-> HandedOver(t)[i].from, to |-> t]
    BY DEF EachFromItsSender
  <2>1. PICK h : h = HandedOver(t)
    OBVIOUS
  <2>2. Arrived(h, t)
    BY <2>1 DEF DatagramInv, HandedOverRight
  <2>3. IsInjective([i \in DOMAIN h |-> h[i].id])
    BY <2>2 DEF Arrived, IsInjective
  <2> QED BY <2>1, <2>2, <2>3 DEF Arrived, Right
<1> QED BY <1>1, DatagramAlways, PTL

-----------------------------------------------------------------------------
(* A transport is opened once, and its loop does not run before; a receive that
   was aborted is one of a closed socket. *)
LoopInv ==
    /\ UDPTypeOK
    /\ \A t \in Transport : IF opened[t] THEN TRUE ELSE ~open[t] /\ recv[t] = "ended"
    /\ LoopAlive

(* A step is of one transport, or changes no loop. *)
LEMMA LoopOfOne ==
    ASSUME UDPTypeOK, NEW t \in Transport,
           Open(t) \/ (\E d \in network : Receive(t, d)) \/ ReceiveFails(t) \/ HandleReceive(t) \/ StartRecv(t) \/ Close(t)
    PROVE  \A u \in Transport \ {t} : opened'[u] = opened[u] /\ open'[u] = open[u] /\ recv'[u] = recv[u]
BY DEF UDPTypeOK, Open, Receive, ReceiveFails, HandleReceive, StartRecv, Close

LEMMA LoopNext ==
    ASSUME LoopInv, UDPTypeOK', [UDPNext]_udpVars
    PROVE  LoopInv'
<1>1. /\ opened \in [Transport -> BOOLEAN] /\ open \in [Transport -> BOOLEAN] /\ recv \in [Transport -> Stage]
  BY DEF LoopInv, UDPTypeOK
<1> DEFINE Fine(t) == /\ opened[t] \/ (~open[t] /\ recv[t] = "ended")
                      /\ open[t] => recv[t] # "ended" /\ recv[t] # "aborted"
                      /\ ~open[t] => recv[t] # "waiting"
<1>2. (\A t \in Transport : Fine(t)) /\ ((\A t \in Transport : Fine(t)') => LoopInv')
  BY DEF LoopInv, LoopAlive
<1>3. CASE UNCHANGED <<opened, open, recv>>
  BY <1>2, <1>3
<1>4. ASSUME NEW t \in Transport,
             Open(t) \/ (\E d \in network : Receive(t, d)) \/ ReceiveFails(t) \/ HandleReceive(t) \/ StartRecv(t) \/ Close(t)
      PROVE  LoopInv'
  <2>1. \A u \in Transport \ {t} : Fine(u)'
    BY <1>2, <1>4, LoopOfOne DEF LoopInv
  <2>2. Fine(t)'
    <3>1. Fine(t)
      BY <1>2
    <3>2. CASE Open(t)
      BY <1>1, <3>1, <3>2 DEF Open
    <3>3. CASE (\E d \in network : Receive(t, d)) \/ ReceiveFails(t)
      BY <1>1, <3>1, <3>3 DEF Receive, ReceiveFails
    <3>4. CASE HandleReceive(t)
      BY <1>1, <3>1, <3>4 DEF HandleReceive, Restarts
    <3>5. CASE StartRecv(t)
      BY <1>1, <3>1, <3>5 DEF StartRecv
    <3>6. CASE Close(t)
      BY <1>1, <3>1, <3>6 DEF Close
    <3> QED BY <1>4, <3>2, <3>3, <3>4, <3>5, <3>6
  <2> QED BY <1>2, <2>1, <2>2
<1>5. ASSUME NEW t \in Transport,
             (\E to \in Transport \ {t} : SendTo(t, to)) \/ SendDeferred(t) \/ TryRecvDatagram(t)
      PROVE  UNCHANGED <<opened, open, recv>>
  BY <1>5 DEF SendTo, SendDeferred, TryRecvDatagram
<1>6. ASSUME NEW d \in network, Lose(d) PROVE UNCHANGED <<opened, open, recv>>
  BY <1>6 DEF Lose
<1>7. CASE UNCHANGED udpVars
  BY <1>3, <1>7 DEF udpVars
<1> QED BY <1>3, <1>4, <1>5, <1>6, <1>7 DEF UDPNext, UDPHandler

(* However often receives fail and whenever the socket is closed, between a handler
   and the receive it starts included, the loop of an open transport goes on and
   that of a closed one does not wait for a datagram. *)
THEOREM LoopGoesOn ==
    ASSUME DatagramAssumption
    PROVE  UDPSpec => []LoopAlive
<1>1. UDPInit => LoopInv
  <2> SUFFICES ASSUME UDPInit PROVE LoopInv
    OBVIOUS
  <2>1. UDPTypeOK
    BY DatagramInit DEF DatagramInv
  <2>2. \A t \in Transport : ~open[t] /\ recv[t] = "ended"
    BY DEF UDPInit
  <2> QED BY <2>1, <2>2 DEF LoopInv, LoopAlive
<1>2. UDPTypeOK' /\ LoopInv /\ [UDPNext]_udpVars => LoopInv'
  BY LoopNext
<1>3. LoopInv => LoopAlive
  BY DEF LoopInv
<1>4. UDPSpec => []UDPTypeOK
  BY TransportTypeCorrect
<1> QED BY <1>1, <1>2, <1>3, <1>4, PTL DEF UDPSpec

-----------------------------------------------------------------------------
(* TCPListener *)

Arrivals == handedOver \o m_newConnections

(* The connections of s come in the order clients opened them; none was reset. *)
InOrder(s) ==
    /\ \A i, j \in DOMAIN s : i < j => s[i] < s[j]
    /\ \A i \in DOMAIN s : s[i] \in connected \ reset

(* Those of r all come before those of s. *)
Before(r, s) == \A i \in DOMAIN r, j \in DOMAIN s : r[i] < s[j]

(* What is accepted comes after what is handed over and before the backlog. *)
AcceptedInOrder ==
    accept = "accepted" =>
        /\ socket \in connected \ reset
        /\ \A i \in DOMAIN Arrivals : Arrivals[i] < socket
        /\ \A j \in DOMAIN backlog : socket < backlog[j]

ListenerInv ==
    /\ ListenerTypeOK
    /\ InOrder(Arrivals) /\ InOrder(backlog) /\ Before(Arrivals, backlog)
    /\ AcceptedInOrder
    /\ reset \subseteq connected

-----------------------------------------------------------------------------
LEMMA ListenerTypeNext ==
    ASSUME ListenerTypeOK, AcceptedInOrder, [ListenerNext]_listenerVars
    PROVE  ListenerTypeOK'
<1>1. CASE Start
  BY <1>1 DEF ListenerTypeOK, AcceptStage, Start
<1>2. ASSUME NEW c \in Connection, Connect(c) PROVE ListenerTypeOK'
  <2>1. backlog' = backlog \/ backlog' = Append(backlog, c)
    BY <1>2 DEF Connect
  <2>2. Append(backlog, c) \in Seq(Connection)
    BY <1>2, Appended DEF ListenerTypeOK
  <2>3. backlog' \in Seq(Connection)
    BY <2>1, <2>2 DEF ListenerTypeOK
  <2>4. reset' \subseteq Connection
    BY <1>2 DEF ListenerTypeOK, Connect
  <2> QED BY <1>2, <2>3, <2>4 DEF ListenerTypeOK, Connect
<1>3. CASE Accept
  BY <1>3 DEF ListenerTypeOK, AcceptStage, Accept
<1>4. CASE AcceptFails
  <2>1. Head(backlog) \in Connection /\ Tail(backlog) \in Seq(Connection)
    BY <1>4 DEF ListenerTypeOK, AcceptFails
  <2> QED BY <1>4, <2>1 DEF ListenerTypeOK, AcceptStage, AcceptFails
<1>5. CASE HandleAccept
  <2>1. PushedConnections \in Seq(Connection)
    BY DEF ListenerTypeOK, AcceptedInOrder, PushedConnections
  <2> QED BY <1>5, <2>1 DEF ListenerTypeOK, AcceptStage, HandleAccept
<1>6. CASE AcceptNext
  BY <1>6 DEF ListenerTypeOK, AcceptStage, AcceptNext
<1>7. CASE GetNextConnection
  BY <1>7 DEF ListenerTypeOK, GetNextConnection
<1>8. CASE Shutdown
  <2>1. ToSet(backlog) \subseteq Connection
    BY DEF ListenerTypeOK, ToSet
  <2>2. accept' \in AcceptStage /\ backlog' \in Seq(Connection)
    BY <1>8 DEF ListenerTypeOK, AcceptStage, Shutdown
  <2> QED BY <1>8, <2>1, <2>2 DEF ListenerTypeOK, Shutdown
<1>9. CASE UNCHANGED listenerVars
  BY <1>9 DEF ListenerTypeOK, listenerVars
<1> QED BY <1>1, <1>2, <1>3, <1>4, <1>5, <1>6, <1>7, <1>8, <1>9 DEF ListenerNext, AcceptHandler

(* Numbers, and the sequences they are in. *)
LEMMA ListenerFacts ==
    ASSUME ConnectionAssumption, ListenerTypeOK
    PROVE  /\ Connection \subseteq Nat
           /\ Arrivals \in Seq(Connection) /\ DOMAIN Arrivals = 1 .. Len(Arrivals) /\ Len(Arrivals) \in Nat
           /\ DOMAIN backlog = 1 .. Len(backlog) /\ Len(backlog) \in Nat
           /\ \A i \in DOMAIN Arrivals : Arrivals[i] \in Nat
           /\ \A i \in DOMAIN backlog : backlog[i] \in Nat
<1>1. Connection \subseteq Nat
  BY DEF ConnectionAssumption
<1>2. Arrivals \in Seq(Connection) /\ backlog \in Seq(Connection)
  BY DEF ListenerTypeOK, Arrivals
<1>3. \A s \in Seq(Connection) :
        /\ DOMAIN s = 1 .. Len(s) /\ Len(s) \in Nat
        /\ \A i \in DOMAIN s : s[i] \in Connection
  OBVIOUS
<1> QED BY <1>1, <1>2, <1>3

LEMMA ConnectKeeps ==
    ASSUME ConnectionAssumption, ListenerInv, NEW c \in Connection, Connect(c)
    PROVE  /\ InOrder(Arrivals)' /\ InOrder(backlog)' /\ Before(Arrivals, backlog)' /\ AcceptedInOrder'
           /\ reset' \subseteq connected'
<1>1. ListenerTypeOK
  BY DEF ListenerInv
<1>2. /\ \A d \in connected : d < c
      /\ connected' = connected \cup {c} /\ UNCHANGED <<accept, socket, handedOver, m_newConnections>>
  BY DEF Connect
<1>3. Arrivals' = Arrivals
  BY <1>2 DEF Arrivals
<1>4. c \notin connected
  BY <1>1, <1>2, ListenerFacts
<1>5. CASE backlog' = Append(backlog, c) /\ UNCHANGED reset
  <2>1. /\ c \in connected' \ reset' /\ c \in Nat
        /\ connected \ reset \subseteq connected' \ reset'
    BY <1>1, <1>2, <1>4, <1>5, ListenerFacts DEF ListenerInv
  <2>2. /\ \A i \in DOMAIN backlog : backlog'[i] = backlog[i]
        /\ backlog'[Len(backlog) + 1] = c
        /\ DOMAIN backlog' = 1 .. Len(backlog) + 1
    BY <1>1, <1>5, Appended DEF ListenerTypeOK
  <2>3. \A i \in DOMAIN backlog' :
           \/ i \in DOMAIN backlog /\ backlog'[i] = backlog[i] /\ backlog[i] < c
           \/ i = Len(backlog) + 1 /\ backlog'[i] = c
    <3>1. \A i \in DOMAIN backlog' : i \in DOMAIN backlog \/ i = Len(backlog) + 1
      BY <1>1, <2>2, ListenerFacts
    <3> QED BY <1>2, <2>2, <3>1 DEF ListenerInv, InOrder
  <2>4. InOrder(backlog)'
    <3>1. ASSUME NEW i \in DOMAIN backlog', NEW j \in DOMAIN backlog', i < j
          PROVE  backlog'[i] < backlog'[j]
      <4>1. i \in DOMAIN backlog
        BY <1>1, <2>2, <2>3, <3>1, ListenerFacts
      <4> QED BY <2>2, <2>3, <3>1, <4>1 DEF ListenerInv, InOrder
    <3>2. \A i \in DOMAIN backlog' : backlog'[i] \in connected' \ reset'
      BY <2>1, <2>3 DEF ListenerInv, InOrder
    <3> QED BY <3>1, <3>2 DEF InOrder
  <2>5. InOrder(Arrivals)'
    BY <1>3, <2>1 DEF ListenerInv, InOrder
  <2>6. Before(Arrivals, backlog)'
    BY <1>2, <1>3, <2>3 DEF ListenerInv, InOrder, Before
  <2>7. AcceptedInOrder'
    BY <1>2, <1>3, <2>1, <2>3 DEF ListenerInv, AcceptedInOrder
  <2> QED BY <1>2, <1>5, <2>4, <2>5, <2>6, <2>7 DEF ListenerInv
<1>6. CASE UNCHANGED backlog /\ reset' = reset \cup {c}
  <2>1. connected \ reset \subseteq connected' \ reset'
    BY <1>2, <1>4, <1>6
  <2> QED BY <1>2, <1>3, <1>6, <2>1 DEF ListenerInv, InOrder, Before, AcceptedInOrder
<1> QED BY <1>5, <1>6 DEF Connect

(* What the first of the backlog leaves behind. *)
LEMMA FirstOfBacklog ==
    ASSUME ConnectionAssumption, ListenerInv, backlog # <<>>,
           NEW first, first = Head(backlog), NEW rest, rest = Tail(backlog)
    PROVE  /\ first \in connected \ reset /\ \A i \in DOMAIN Arrivals : Arrivals[i] < first
           /\ \A i \in DOMAIN rest : first < rest[i]
           /\ InOrder(rest) /\ Before(Arrivals, rest)
<1>1. /\ first = backlog[1] /\ 1 \in DOMAIN backlog
      /\ \A i \in DOMAIN rest :
            i + 1 \in DOMAIN backlog /\ rest[i] = backlog[i + 1] /\ i # 0 /\ i \in Nat
  BY Shortened DEF ListenerInv, ListenerTypeOK
<1>2. InOrder(rest)
  <2>1. ASSUME NEW i \in DOMAIN rest, NEW j \in DOMAIN rest, i < j PROVE rest[i] < rest[j]
    <3>1. i + 1 < j + 1
      BY <1>1, <2>1
    <3> QED BY <1>1, <3>1 DEF ListenerInv, InOrder
  <2> QED BY <1>1, <2>1 DEF ListenerInv, InOrder
<1>3. \A i \in DOMAIN rest : 1 < i + 1
  BY <1>1
<1> QED BY <1>1, <1>2, <1>3 DEF ListenerInv, InOrder, Before

LEMMA AcceptKeeps ==
    ASSUME ConnectionAssumption, ListenerInv, Accept \/ AcceptFails
    PROVE  /\ InOrder(Arrivals)' /\ InOrder(backlog)' /\ Before(Arrivals, backlog)' /\ AcceptedInOrder'
           /\ reset' \subseteq connected'
<1>1. PICK first, rest : first = Head(backlog) /\ rest = Tail(backlog)
  OBVIOUS
<1>2. /\ first \in connected \ reset /\ \A i \in DOMAIN Arrivals : Arrivals[i] < first
      /\ \A i \in DOMAIN rest : first < rest[i]
      /\ InOrder(rest) /\ Before(Arrivals, rest)
  BY <1>1, FirstOfBacklog DEF Accept, AcceptFails
<1>3. UNCHANGED <<handedOver, m_newConnections, connected>> /\ Arrivals' = Arrivals
  BY DEF Accept, AcceptFails, Arrivals
<1>4. CASE Accept
  <2>1. accept' = "accepted" /\ socket' = first /\ backlog' = rest /\ reset' = reset
    BY <1>1, <1>4 DEF Accept
  <2> QED BY <1>2, <1>3, <2>1 DEF ListenerInv, InOrder, Before, AcceptedInOrder
<1>5. CASE AcceptFails /\ UNCHANGED <<backlog, reset>>
  BY <1>3, <1>5 DEF ListenerInv, InOrder, Before, AcceptedInOrder, AcceptFails
<1>6. CASE AcceptFails /\ reset' = reset \cup {first} /\ backlog' = rest
  <2>1. /\ \A i \in DOMAIN Arrivals : Arrivals[i] # first
        /\ \A i \in DOMAIN rest : rest[i] # first
    <3>1. first \in Nat
      BY <1>2, ListenerFacts DEF ListenerInv, ListenerTypeOK
    <3> QED BY <1>2, <3>1
  <2>2. accept' # "accepted"
    BY <1>6 DEF AcceptFails
  <2> QED BY <1>2, <1>3, <1>6, <2>1, <2>2 DEF ListenerInv, InOrder, Before, AcceptedInOrder
<1> QED BY <1>1, <1>4, <1>5, <1>6 DEF AcceptFails

LEMMA HandleAcceptKeeps ==
    ASSUME ConnectionAssumption, ListenerInv, HandleAccept
    PROVE  /\ InOrder(Arrivals)' /\ InOrder(backlog)' /\ Before(Arrivals, backlog)' /\ AcceptedInOrder'
           /\ reset' \subseteq connected'
<1>1. /\ m_newConnections' = PushedConnections /\ accept' # "accepted"
      /\ UNCHANGED <<backlog, connected, reset, handedOver>>
  BY DEF HandleAccept
<1>2. CASE accept # "accepted"
  <2>1. Arrivals' = Arrivals
    BY <1>1, <1>2 DEF Arrivals, PushedConnections
  <2> QED BY <1>1, <2>1 DEF ListenerInv, InOrder, Before, AcceptedInOrder
<1>3. CASE accept = "accepted"
  <2>1. /\ socket \in connected \ reset /\ socket \in Connection
        /\ \A i \in DOMAIN Arrivals : Arrivals[i] < socket
        /\ \A j \in DOMAIN backlog : socket < backlog[j]
    BY <1>3 DEF ListenerInv, ListenerTypeOK, AcceptedInOrder
  <2>2. Arrivals' = Append(Arrivals, socket)
    BY <1>1, <1>3, <2>1, AppendedOver DEF ListenerInv, ListenerTypeOK, Arrivals, PushedConnections
  <2>3. /\ DOMAIN Arrivals' = 1 .. Len(Arrivals) + 1 /\ DOMAIN Arrivals = 1 .. Len(Arrivals) /\ Len(Arrivals) \in Nat
        /\ \A i \in DOMAIN Arrivals : Arrivals'[i] = Arrivals[i]
        /\ Arrivals'[Len(Arrivals) + 1] = socket
    BY <2>1, <2>2, ListenerFacts, Appended DEF ListenerInv
  <2>4. \A i \in DOMAIN Arrivals' :
           \/ i \in DOMAIN Arrivals /\ Arrivals'[i] = Arrivals[i]
           \/ i = Len(Arrivals) + 1 /\ Arrivals'[i] = socket
    BY <2>3
  <2>5. ASSUME NEW i \in DOMAIN Arrivals', NEW j \in DOMAIN Arrivals', i < j PROVE Arrivals'[i] < Arrivals'[j]
    <3>1. i \in DOMAIN Arrivals
      BY <2>3, <2>5
    <3> QED BY <2>1, <2>3, <2>4, <2>5, <3>1 DEF ListenerInv, InOrder
  <2>6. \A i \in DOMAIN Arrivals' : Arrivals'[i] \in connected \ reset
    BY <2>1, <2>4 DEF ListenerInv, InOrder
  <2>7. Before(Arrivals, backlog)'
    BY <1>1, <2>1, <2>4 DEF ListenerInv, Before
  <2> QED BY <1>1, <2>5, <2>6, <2>7 DEF ListenerInv, InOrder, AcceptedInOrder
<1> QED BY <1>2, <1>3

LEMMA ShutdownKeeps ==
    ASSUME ConnectionAssumption, ListenerInv, Shutdown
    PROVE  /\ InOrder(Arrivals)' /\ InOrder(backlog)' /\ Before(Arrivals, backlog)' /\ AcceptedInOrder'
           /\ reset' \subseteq connected'
<1>1. /\ reset' = reset \cup ToSet(backlog) /\ backlog' = <<>> /\ Arrivals' = Arrivals
      /\ UNCHANGED <<connected, socket>>
      /\ accept' = "accepted" => accept = "accepted"
  BY DEF Shutdown, Arrivals
<1>2. \A c \in ToSet(backlog) : c \in connected /\ c \in Nat
  BY ListenerFacts DEF ListenerInv, InOrder, ToSet
<1>3. \A i \in DOMAIN Arrivals : Arrivals[i] \notin ToSet(backlog)
  BY <1>2, ListenerFacts DEF ListenerInv, Before, ToSet
<1>4. accept = "accepted" => socket \notin ToSet(backlog)
  <2>1. ASSUME accept = "accepted", NEW j \in DOMAIN backlog PROVE socket # backlog[j]
    <3>1. socket < backlog[j]
      BY <2>1 DEF ListenerInv, AcceptedInOrder
    <3>2. backlog[j] \in Nat
      BY ListenerFacts DEF ListenerInv
    <3> QED BY <3>1, <3>2
  <2> QED BY <2>1 DEF ToSet
<1>5. InOrder(Arrivals)'
  BY <1>1, <1>3 DEF ListenerInv, InOrder
<1>6. AcceptedInOrder'
  BY <1>1, <1>4 DEF ListenerInv, AcceptedInOrder
<1>7. InOrder(backlog)' /\ Before(Arrivals, backlog)' /\ reset' \subseteq connected'
  BY <1>1, <1>2 DEF ListenerInv, InOrder, Before
<1> QED BY <1>5, <1>6, <1>7

(* The steps that move nothing from one place to the next, and getNextConnection. *)
LEMMA ListenerOthersKeep ==
    ASSUME ConnectionAssumption, ListenerInv, Start \/ AcceptNext \/ GetNextConnection \/ UNCHANGED listenerVars
    PROVE  /\ InOrder(Arrivals)' /\ InOrder(backlog)' /\ Before(Arrivals, backlog)' /\ AcceptedInOrder'
           /\ reset' \subseteq connected'
<1>1. Arrivals' = Arrivals
  <2>1. CASE GetNextConnection
    <3>1. /\ m_newConnections \in Seq(Connection) /\ handedOver \in Seq(Connection)
          /\ m_newConnections # <<>>
      BY <2>1 DEF ListenerInv, ListenerTypeOK, GetNextConnection
    <3> QED BY <2>1, <3>1, MovedOver DEF GetNextConnection, Arrivals
  <2> QED BY <2>1 DEF Start, AcceptNext, listenerVars, Arrivals
<1>2. /\ UNCHANGED <<backlog, connected, reset>>
      /\ accept' = "accepted" => accept = "accepted" /\ socket' = socket
  BY DEF Start, AcceptNext, GetNextConnection, listenerVars
<1> QED BY <1>1, <1>2 DEF ListenerInv, InOrder, Before, AcceptedInOrder

LEMMA ListenerInvNext == ConnectionAssumption /\ ListenerInv /\ [ListenerNext]_listenerVars => ListenerInv'
<1> SUFFICES ASSUME ConnectionAssumption, ListenerInv, [ListenerNext]_listenerVars PROVE ListenerInv'
  OBVIOUS
<1>1. ListenerTypeOK'
  BY ListenerTypeNext DEF ListenerInv
<1>2. /\ InOrder(Arrivals)' /\ InOrder(backlog)' /\ Before(Arrivals, backlog)' /\ AcceptedInOrder'
      /\ reset' \subseteq connected'
  BY ConnectKeeps, AcceptKeeps, HandleAcceptKeeps, ShutdownKeeps, ListenerOthersKeep DEF ListenerNext, AcceptHandler
<1> QED BY <1>1, <1>2 DEF ListenerInv

LEMMA ListenerAlways ==
    ASSUME ConnectionAssumption
    PROVE  ListenerSpec => []ListenerInv
<1>1. ListenerInit => ListenerInv
  <2> SUFFICES ASSUME ListenerInit PROVE ListenerInv
    OBVIOUS
  <2>1. Arrivals = <<>> /\ backlog = <<>>
    BY DEF ListenerInit, Arrivals
  <2>2. ListenerTypeOK
    <3>1. started \in BOOLEAN /\ acceptorOpen \in BOOLEAN /\ accept \in AcceptStage
      BY DEF ListenerInit, AcceptStage
    <3>2. socket \in Connection \cup {NoSocket} /\ connected \subseteq Connection /\ reset \subseteq Connection
      BY DEF ListenerInit
    <3>3. m_newConnections \in Seq(Connection) /\ backlog \in Seq(Connection) /\ handedOver \in Seq(Connection)
      BY DEF ListenerInit
    <3> QED BY <3>1, <3>2, <3>3 DEF ListenerTypeOK
  <2> QED BY <2>1, <2>2 DEF ListenerInit, ListenerInv, InOrder, Before, AcceptedInOrder
<1>2. ListenerInv /\ [ListenerNext]_listenerVars => ListenerInv'
  BY ListenerInvNext
<1> QED BY <1>1, <1>2, PTL DEF ListenerSpec

-----------------------------------------------------------------------------
(* The acceptor, its loop and its queues have their types: only what was accepted
   is pushed. *)
THEOREM ListenerTypeCorrect ==
    ASSUME ConnectionAssumption
    PROVE  ListenerSpec => []ListenerTypeOK
<1>1. ListenerInv => ListenerTypeOK
  BY DEF ListenerInv
<1> QED BY <1>1, ListenerAlways, PTL

(* getNextConnection returns connections in the order clients opened them, each
   once and none that was reset, whatever accepts fail and whenever the listener
   is shut down. *)
THEOREM ConnectionsInOrder ==
    ASSUME ConnectionAssumption
    PROVE  ListenerSpec => []HandedOverInOrder
<1>1. ListenerInv => HandedOverInOrder
  BY DEF ListenerInv, InOrder, Arrivals, HandedOverInOrder
<1> QED BY <1>1, ListenerAlways, PTL

-----------------------------------------------------------------------------
(* The sequences that a connection goes through, as sets. *)
LEMMA SetOfAppended ==
    ASSUME NEW S, NEW s \in Seq(S), NEW x \in S
    PROVE  ToSet(Append(s, x)) = ToSet(s) \cup {x}
<1>1. /\ DOMAIN Append(s, x) = DOMAIN s \cup {Len(s) + 1}
      /\ \A i \in DOMAIN s : Append(s, x)[i] = s[i]
      /\ Append(s, x)[Len(s) + 1] = x
  BY Appended
<1> QED BY <1>1 DEF ToSet

LEMMA SetOfShortened ==
    ASSUME NEW S, NEW s \in Seq(S), s # <<>>
    PROVE  ToSet(s) = {Head(s)} \cup ToSet(Tail(s))
<1>1. /\ Head(s) = s[1] /\ 1 \in DOMAIN s
      /\ \A i \in DOMAIN Tail(s) : i + 1 \in DOMAIN s /\ Tail(s)[i] = s[i + 1]
  BY Shortened
<1>2. ASSUME NEW i \in DOMAIN s, i # 1 PROVE \E j \in DOMAIN Tail(s) : Tail(s)[j] = s[i]
  <2>1. i - 1 \in DOMAIN Tail(s) /\ Tail(s)[i - 1] = s[i]
    BY <1>2
  <2> QED BY <2>1
<1> QED BY <1>1, <1>2 DEF ToSet

(* Where the connections are. *)
InHand ==
    (reset \cup ToSet(Arrivals)) \cup ((IF accept = "accepted" THEN {socket} ELSE {}) \cup ToSet(backlog))

(* The accept loop runs from start until the acceptor is closed. *)
LoopOfListener ==
    /\ ~started => accept = "ended"
    /\ started /\ acceptorOpen => accept # "ended"
    /\ ~acceptorOpen => accept # "waiting" /\ backlog = <<>>

LEMMA ForgottenIs == LoopOfListener /\ connected \subseteq InHand => NoneForgotten
BY DEF NoneForgotten, LoopOfListener, InHand, Arrivals

LEMMA LoopOfListenerNext ==
    ASSUME ListenerTypeOK, LoopOfListener, [ListenerNext]_listenerVars
    PROVE  LoopOfListener'
<1> USE DEF LoopOfListener
<1>1. CASE Start
  BY <1>1 DEF Start
<1>2. ASSUME NEW c \in Connection, Connect(c) PROVE LoopOfListener'
  BY <1>2 DEF Connect
<1>3. CASE Accept \/ AcceptFails
  BY <1>3 DEF Accept, AcceptFails
<1>4. CASE HandleAccept
  BY <1>4 DEF HandleAccept, AcceptsAgain
<1>5. CASE AcceptNext
  BY <1>5 DEF AcceptNext
<1>6. CASE GetNextConnection \/ UNCHANGED listenerVars
  BY <1>6 DEF GetNextConnection, listenerVars
<1>7. CASE Shutdown
  BY <1>7 DEF Shutdown
<1> QED BY <1>1, <1>2, <1>3, <1>4, <1>5, <1>6, <1>7 DEF ListenerNext, AcceptHandler

(* A connection goes from one place to the next. *)
LEMMA InHandNext ==
    ASSUME ListenerInv, LoopOfListener, connected \subseteq InHand, [ListenerNext]_listenerVars
    PROVE  connected' \subseteq InHand'
<1>1. /\ backlog \in Seq(Connection) /\ m_newConnections \in Seq(Connection)
      /\ handedOver \in Seq(Connection) /\ Arrivals \in Seq(Connection)
  BY DEF ListenerInv, ListenerTypeOK, Arrivals
<1>2. CASE Start
  <2>1. accept # "accepted" /\ UNCHANGED <<connected, reset, backlog, Arrivals>>
    BY <1>2 DEF Start, Arrivals, LoopOfListener
  <2> QED BY <2>1 DEF InHand
<1>3. ASSUME NEW c \in Connection, Connect(c) PROVE connected' \subseteq InHand'
  <2>1. connected' = connected \cup {c} /\ UNCHANGED <<accept, socket, Arrivals>>
    BY <1>3 DEF Connect, Arrivals
  <2>2. CASE backlog' = Append(backlog, c) /\ UNCHANGED reset
    <3>1. ToSet(backlog') = ToSet(backlog) \cup {c}
      BY <1>1, <2>2, SetOfAppended
    <3> QED BY <2>1, <2>2, <3>1 DEF InHand
  <2>3. CASE reset' = reset \cup {c} /\ UNCHANGED backlog
    BY <2>1, <2>3 DEF InHand
  <2> QED BY <1>3, <2>2, <2>3 DEF Connect
<1>4. CASE Accept
  <2>1. /\ accept = "waiting" /\ backlog # <<>> /\ accept' = "accepted" /\ socket' = Head(backlog)
        /\ backlog' = Tail(backlog) /\ UNCHANGED <<connected, reset, Arrivals>>
    BY <1>4 DEF Accept, Arrivals
  <2>2. ToSet(backlog) = {Head(backlog)} \cup ToSet(Tail(backlog))
    BY <1>1, <2>1, SetOfShortened
  <2> QED BY <2>1, <2>2 DEF InHand
<1>5. CASE AcceptFails
  <2>1. accept = "waiting" /\ backlog # <<>> /\ accept' = "failed" /\ UNCHANGED <<connected, Arrivals>>
    BY <1>5 DEF AcceptFails, Arrivals
  <2>2. CASE UNCHANGED <<backlog, reset>>
    BY <2>1, <2>2 DEF InHand
  <2>3. CASE reset' = reset \cup {Head(backlog)} /\ backlog' = Tail(backlog)
    <3>1. ToSet(backlog) = {Head(backlog)} \cup ToSet(Tail(backlog))
      BY <1>1, <2>1, SetOfShortened
    <3> QED BY <2>1, <2>3, <3>1 DEF InHand
  <2> QED BY <1>5, <2>2, <2>3 DEF AcceptFails
<1>6. CASE HandleAccept
  <2>1. accept' # "accepted" /\ UNCHANGED <<connected, reset, backlog, handedOver>>
        /\ m_newConnections' = PushedConnections
    BY <1>6 DEF HandleAccept
  <2>2. CASE accept = "accepted"
    <3>1. socket \in Connection
      BY <2>2 DEF ListenerInv, AcceptedInOrder, ListenerTypeOK
    <3>2. Arrivals' = Append(Arrivals, socket)
      BY <1>1, <2>1, <2>2, <3>1, AppendedOver DEF Arrivals, PushedConnections
    <3>3. ToSet(Arrivals') = ToSet(Arrivals) \cup {socket}
      BY <1>1, <3>1, <3>2, SetOfAppended
    <3> QED BY <2>1, <2>2, <3>3 DEF InHand
  <2>3. CASE accept # "accepted"
    <3>1. Arrivals' = Arrivals
      BY <2>1, <2>3 DEF Arrivals, PushedConnections
    <3> QED BY <2>1, <2>3, <3>1 DEF InHand
  <2> QED BY <2>2, <2>3
<1>7. CASE AcceptNext
  <2>1. accept = "restarting" /\ UNCHANGED <<connected, reset, backlog, Arrivals>>
    BY <1>7 DEF AcceptNext, Arrivals
  <2> QED BY <2>1 DEF InHand
<1>8. CASE GetNextConnection
  <2>1. /\ m_newConnections # <<>> /\ handedOver' = Append(handedOver, Head(m_newConnections))
        /\ m_newConnections' = Tail(m_newConnections)
        /\ UNCHANGED <<accept, socket, connected, reset, backlog>>
    BY <1>8 DEF GetNextConnection
  <2>2. Arrivals' = Arrivals
    BY <1>1, <2>1, MovedOver DEF Arrivals
  <2> QED BY <2>1, <2>2 DEF InHand
<1>9. CASE Shutdown
  <2>1. /\ reset' = reset \cup ToSet(backlog) /\ UNCHANGED <<connected, socket, Arrivals>>
        /\ accept = "accepted" => accept' = "accepted"
    BY <1>9 DEF Shutdown, Arrivals
  <2> QED BY <2>1 DEF InHand
<1>10. CASE UNCHANGED listenerVars
  BY <1>10 DEF listenerVars, InHand, Arrivals
<1> QED BY <1>2, <1>3, <1>4, <1>5, <1>6, <1>7, <1>8, <1>9, <1>10 DEF ListenerNext, AcceptHandler

(* No connection is forgotten: whatever accepts fail and whenever the listener is
   shut down, one that a client opened is reset, handed over, or about to be, and
   the loop that has to do it goes on as long as the acceptor is open. *)
THEOREM NoConnectionForgotten ==
    ASSUME ConnectionAssumption
    PROVE  ListenerSpec => []NoneForgotten
<1>1. ListenerInit => LoopOfListener /\ connected \subseteq InHand
  BY DEF ListenerInit, LoopOfListener
<1>2. ListenerInv /\ (LoopOfListener /\ connected \subseteq InHand) /\ [ListenerNext]_listenerVars
         => (LoopOfListener /\ connected \subseteq InHand)'
  BY LoopOfListenerNext, InHandNext DEF ListenerInv
<1>3. LoopOfListener /\ connected \subseteq InHand => NoneForgotten
  BY ForgottenIs
<1> QED BY <1>1, <1>2, <1>3, ListenerAlways, PTL DEF ListenerSpec

-----------------------------------------------------------------------------
(* What TLC runs *)

(* A behaviour of the three together is one of each: the others stutter. *)
LEMMA EachTransportSteps ==
    ASSUME [MCNext]_<<part, vars, udpVars, listenerVars>>
    PROVE  [Next]_vars /\ [UDPNext]_udpVars /\ [ListenerNext]_listenerVars
BY DEF MCNext

(* So what is proved of each holds of what the run checks. *)
THEOREM EachTransportRuns == MCSpec => Spec /\ UDPSpec /\ ListenerSpec
<1>1. MCInit => Init /\ UDPInit /\ ListenerInit
  BY DEF MCInit
<1>2. [MCNext]_<<part, vars, udpVars, listenerVars>>
         => [Next]_vars /\ [UDPNext]_udpVars /\ [ListenerNext]_listenerVars
  BY EachTransportSteps
<1> QED BY <1>1, <1>2, PTL DEF MCSpec, Spec, UDPSpec, ListenerSpec

(* The types of connection, UDP transports and listener, in the specification the
   run checks. *)
THEOREM TransportsTypeCorrect ==
    ASSUME DatagramAssumption, ConnectionAssumption
    PROVE  MCSpec => []AllTypesOK
<1>1. TypeOK /\ UDPTypeOK /\ ListenerTypeOK => AllTypesOK
  BY DEF AllTypesOK
<1> QED BY <1>1, EachTransportRuns, ConnectionTypeCorrect, TransportTypeCorrect, ListenerTypeCorrect, PTL
==============================================================================
