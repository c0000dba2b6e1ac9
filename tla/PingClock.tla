----------------------------- MODULE PingClock -----------------------------
(* How NetworkClient measures its ping (src/game/network_client.h): pumpSend
   queues a Ping when the last one is pingInterval old, pumpReceive takes the
   time when the Pong of the pending one arrives.  Times are in milliseconds.
   What is under way is kept as the set of its numbers: TCP delivers in order,
   which for pings is the order of their numbers (PingsAnsweredInOrder); UDP
   delivers in any order, loses, and delivers twice. *)
EXTENDS Integers, Sequences

CONSTANTS Configs,     \* pingTransport and pingInterval of Config, with what it meets:
                       \* roundTrip, the time in which a Pong can be read
          MaxWait,     \* bound on the time between two of the game loop's calls
          MaxPings     \* bound on the pings sent

Config == [pingTransport: {"TCP", "UDP"}, pingInterval: Nat \ {0}, roundTrip: Nat \ {0}]

ASSUME PingAssumption ==
    /\ Configs \subseteq Config
    /\ MaxWait \in Nat /\ MaxPings \in Nat

VARIABLES config,
          now,             \* steady_clock
          call,            \* what the game loop calls next
          sentAt,          \* when each ping was sent; m_nextPingSeq is their number
          m_pendingPing,   \* the seq of the ping and when it was sent
          m_pingMs,
          measured,        \* the seq of the ping that m_pingMs measured
          pings, pongs     \* the seqs on their way to the server and back

pingVars == <<config, now, call, sentAt, m_pendingPing, m_pingMs, measured, pings, pongs>>

m_nextPingSeq == Len(sentAt) + 1
Seqs == 1 .. MaxPings
None == <<>>

PingTypeOK ==
    /\ config \in Configs
    /\ now \in Nat
    /\ call \in {"pumpReceive", "pumpSend"}
    /\ sentAt \in Seq(0 .. now) /\ Len(sentAt) <= MaxPings
    /\ m_pendingPing \in {None} \cup [timePingSent: 0 .. now, seq: 1 .. Len(sentAt)]
    /\ m_pingMs \in {None} \cup {<<t>> : t \in 0 .. now}
    /\ measured \in 0 .. Len(sentAt)
    /\ pings \subseteq 1 .. Len(sentAt)
    /\ pongs \subseteq 1 .. Len(sentAt)

PingInit ==
    /\ config \in Configs
    /\ now = 0
    /\ call = "pumpReceive"
    /\ sentAt = <<>>
    /\ m_pendingPing = None
    /\ m_pingMs = None
    /\ measured = 0
    /\ pings = {}
    /\ pongs = {}

-----------------------------------------------------------------------------
(* The messages of a queue that may be the next to arrive, and those that may
   arrive together. *)
First(queue) ==
    IF config.pingTransport = "TCP" THEN {seq \in queue : queue \subseteq seq .. MaxPings} ELSE queue

Arriving(queue) ==
    IF config.pingTransport = "TCP" THEN {queue \cap 1 .. n : n \in 0 .. MaxPings} ELSE SUBSET queue

(* What may be left of a queue when some have arrived. *)
Left(queue, arrived) ==
    {queue \ arrived} \cup (IF config.pingTransport = "UDP" THEN {queue} ELSE {})

(* Time goes on; a Pong can be read in time, if there is one. *)
Wait(d) ==
    /\ now' = now + d
    /\ \A seq \in pings : now' - sentAt[seq] < config.roundTrip

Old(seq) == now' - sentAt[seq] >= config.roundTrip

\* Mutant: any Pong is taken for that of the pending ping.
MatchesAny(seq) == m_pendingPing # None

Matches(seq) == m_pendingPing # None /\ m_pendingPing.seq = seq

(* handlePong, for each of the Pongs that pumpReceive finds. *)
HandlePongs(seqs) ==
    IF \E seq \in seqs : Matches(seq)
    THEN /\ m_pingMs' = <<now' - m_pendingPing.timePingSent>>
         /\ measured' \in {seq \in seqs : Matches(seq)}
    ELSE UNCHANGED <<m_pingMs, measured>>

PumpReceive(d, arrived) ==
    /\ call = "pumpReceive"
    /\ Wait(d)
    /\ arrived \in Arriving(pongs)
    /\ \A seq \in pongs : Old(seq) => seq \in arrived
    /\ HandlePongs(arrived)
    /\ pongs' \in Left(pongs, arrived)
    /\ call' = "pumpSend"
    /\ UNCHANGED <<config, sentAt, m_pendingPing, pings>>

\* Mutant: a new ping is sent in every frame.
NeverInProgress == FALSE

IsPingInProgress ==
    m_pendingPing # None /\ now' - m_pendingPing.timePingSent < config.pingInterval

(* maybeQueuePing, and what pumpSend sends. *)
PumpSend(d) ==
    /\ call = "pumpSend"
    /\ Wait(d)
    /\ IF IsPingInProgress
       THEN UNCHANGED <<sentAt, m_pendingPing, pings>>
       ELSE /\ Len(sentAt) < MaxPings
            /\ sentAt' = Append(sentAt, now')
            /\ m_pendingPing' = [timePingSent |-> now', seq |-> m_nextPingSeq]
            /\ pings' = pings \cup {m_nextPingSeq}
    /\ call' = "pumpReceive"
    /\ UNCHANGED <<config, m_pingMs, measured, pongs>>

(* handlePing at the server. *)
HandlePing(seq) ==
    /\ seq \in First(pings)
    /\ pings' \in Left(pings, {seq})
    /\ pongs' = pongs \cup {seq}
    /\ UNCHANGED <<config, now, call, sentAt, m_pendingPing, m_pingMs, measured>>

LosePing(seq) ==
    /\ config.pingTransport = "UDP"
    /\ pings' = pings \ {seq}
    /\ UNCHANGED <<config, now, call, sentAt, m_pendingPing, m_pingMs, measured, pongs>>

LosePong(seq) ==
    /\ config.pingTransport = "UDP"
    /\ pongs' = pongs \ {seq}
    /\ UNCHANGED <<config, now, call, sentAt, m_pendingPing, m_pingMs, measured, pings>>

PingNext ==
    \/ \E d \in 0 .. MaxWait, arrived \in Arriving(pongs) : PumpReceive(d, arrived)
    \/ \E d \in 0 .. MaxWait : PumpSend(d)
    \/ \E seq \in pings : HandlePing(seq) \/ LosePing(seq)
    \/ \E seq \in pongs : LosePong(seq)

PingSpec == PingInit /\ [][PingNext]_pingVars

-----------------------------------------------------------------------------
(* The ping shown is a round trip, and below pingInterval and a turn of the game
   loop: Pongs that took longer are never measured, since their ping has been
   replaced by then, and the ping shown stays what it was, however slow the
   connection has become.  A Pong that is delivered twice is measured twice, but
   never one older than the last. *)
PingIsRoundTrip ==
    [][m_pingMs' # m_pingMs \/ measured' # measured =>
          /\ measured <= measured'
          /\ m_pingMs' = <<now' - sentAt[measured']>>
          /\ m_pingMs'[1] < config.pingInterval + MaxWait]_pingVars

(* Over TCP, when round trips are shorter than pingInterval, less a turn of the
   game loop, no ping is replaced before it has been measured. *)
EveryPingMeasured ==
    [][config.pingTransport = "TCP" /\ config.roundTrip + MaxWait <= config.pingInterval
         /\ m_pendingPing # None /\ m_pendingPing' # m_pendingPing =>
          measured = m_pendingPing.seq]_pingVars
=============================================================================
