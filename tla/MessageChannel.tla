--------------------------- MODULE MessageChannel ---------------------------
(* What one direction of a TCP connection promises the layers above it, which
   module Transports takes for granted: messages arrive whole, once and in the
   order they were sent; when an end closes, those sent last may be lost. *)
EXTENDS Naturals, Sequences

CONSTANT Data

VARIABLES chan,          \* sent, and not yet received
          received,      \* everything tryRecv returned, in order
          senderOpen, receiverOpen

channelVars == <<chan, received, senderOpen, receiverOpen>>

ChannelInit ==
    /\ chan = <<>>
    /\ received = <<>>
    /\ senderOpen = TRUE
    /\ receiverOpen = TRUE

(* A message to a receiver that has closed is lost. *)
Put(m) ==
    /\ senderOpen
    /\ chan' = IF receiverOpen THEN Append(chan, m) ELSE chan
    /\ UNCHANGED <<received, senderOpen, receiverOpen>>

Get ==
    /\ chan # <<>>
    /\ received' = Append(received, Head(chan))
    /\ chan' = Tail(chan)
    /\ UNCHANGED <<senderOpen, receiverOpen>>

LoseLast == \E n \in 0 .. Len(chan) : chan' = SubSeq(chan, 1, n)

CloseSender ==
    /\ senderOpen
    /\ senderOpen' = FALSE
    /\ LoseLast
    /\ UNCHANGED <<received, receiverOpen>>

CloseReceiver ==
    /\ receiverOpen
    /\ receiverOpen' = FALSE
    /\ LoseLast
    /\ UNCHANGED <<received, senderOpen>>

ChannelNext == (\E m \in Data : Put(m)) \/ Get \/ CloseSender \/ CloseReceiver

ChannelSpec == ChannelInit /\ [][ChannelNext]_channelVars
=============================================================================
