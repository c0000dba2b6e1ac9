----------------------------- MODULE TCPListener -----------------------------
(* The server's TCPListener (src/networking/tcp/tcp_listener.h): start and its
   accept loop on the io_context thread, getNextConnection and shutdown on the
   game thread. *)
EXTENDS Naturals, Sequences, SequencesExt

CONSTANT Connection   \* what clients open, numbered in the order they do

ConnectionAssumption == Connection \subseteq Nat \ {0}

VARIABLES started,
          acceptorOpen,      \* m_acceptor is open
          accept,            \* where the accept loop is
          socket,            \* what the outstanding async_accept has accepted
          m_newConnections,
          backlog,           \* connections the operating system has for the acceptor
          connected,         \* connections clients have opened
          reset,             \* those that failed, or found nobody to accept them
          handedOver         \* what getNextConnection has returned

listenerVars ==
    <<started, acceptorOpen, accept, socket, m_newConnections, backlog, connected, reset, handedOver>>

(* not started; waiting; completed, with the handler to run: "accepted", "failed";
   the handler has found the acceptor open. *)
AcceptStage == {"ended", "waiting", "accepted", "failed", "restarting"}

NoSocket == 0   \* a socket that is not connected

ListenerTypeOK ==
    /\ started \in BOOLEAN
    /\ acceptorOpen \in BOOLEAN
    /\ accept \in AcceptStage
    /\ socket \in Connection \cup {NoSocket}
    /\ m_newConnections \in Seq(Connection)
    /\ backlog \in Seq(Connection)
    /\ connected \subseteq Connection
    /\ reset \subseteq Connection
    /\ handedOver \in Seq(Connection)

(* The constructor opens the acceptor. *)
ListenerInit ==
    /\ started = FALSE
    /\ acceptorOpen = TRUE
    /\ accept = "ended"
    /\ socket = NoSocket
    /\ m_newConnections = <<>>
    /\ backlog = <<>>
    /\ connected = {}
    /\ reset = {}
    /\ handedOver = <<>>

-----------------------------------------------------------------------------
Start ==
    /\ ~started
    /\ started' = TRUE
    /\ accept' = IF acceptorOpen THEN "waiting" ELSE "failed"
    /\ UNCHANGED <<acceptorOpen, socket, m_newConnections, backlog, connected, reset, handedOver>>

(* A client connects: the operating system queues the connection, or refuses it. *)
Connect(c) ==
    /\ \A d \in connected : d < c
    /\ connected' = connected \cup {c}
    /\ IF acceptorOpen THEN backlog' = Append(backlog, c) /\ UNCHANGED reset
               ELSE reset' = reset \cup {c} /\ UNCHANGED backlog
    /\ UNCHANGED <<started, acceptorOpen, accept, socket, m_newConnections, handedOver>>

(* The outstanding async_accept completes, or fails: for want of descriptors, and
   the connection stays in the backlog, or because the client gave up. *)
Accept ==
    /\ accept = "waiting" /\ backlog # <<>>
    /\ accept' = "accepted"
    /\ socket' = Head(backlog)
    /\ backlog' = Tail(backlog)
    /\ UNCHANGED <<started, acceptorOpen, m_newConnections, connected, reset, handedOver>>

AcceptFails ==
    /\ accept = "waiting" /\ backlog # <<>>
    /\ accept' = "failed"
    /\ \/ UNCHANGED <<backlog, reset>>
       \/ /\ reset' = reset \cup {Head(backlog)}
          /\ backlog' = Tail(backlog)
    /\ UNCHANGED <<started, acceptorOpen, socket, m_newConnections, connected, handedOver>>

-----------------------------------------------------------------------------
\* Mutant: the newest connection is handed over first.
PushedInFront ==
    IF accept = "accepted" THEN <<socket>> \o m_newConnections ELSE m_newConnections

PushedConnections == IF accept = "accepted" THEN Append(m_newConnections, socket) ELSE m_newConnections

\* Mutant: an accept that fails ends the loop.
AcceptsAgainUnlessFailed == accept = "accepted" /\ acceptorOpen

AcceptsAgain == acceptorOpen

(* acceptNext's handler, up to the test of is_open. *)
HandleAccept ==
    /\ accept \in {"accepted", "failed"}
    /\ m_newConnections' = PushedConnections
    /\ accept' = IF AcceptsAgain THEN "restarting" ELSE "ended"
    /\ UNCHANGED <<started, acceptorOpen, socket, backlog, connected, reset, handedOver>>

(* acceptNext, called by the handler, with a socket of its own; the game thread
   may have closed the acceptor since, and the accept then fails at once. *)
AcceptNext ==
    /\ accept = "restarting"
    /\ accept' = IF acceptorOpen THEN "waiting" ELSE "failed"
    /\ socket' = NoSocket
    /\ UNCHANGED <<started, acceptorOpen, m_newConnections, backlog, connected, reset, handedOver>>

GetNextConnection ==
    /\ m_newConnections # <<>>
    /\ handedOver' = Append(handedOver, Head(m_newConnections))
    /\ m_newConnections' = Tail(m_newConnections)
    /\ UNCHANGED <<started, acceptorOpen, accept, socket, backlog, connected, reset>>

(* shutdown: an accept that is complete already keeps its result, one that waits
   fails with operation_aborted; what is in the backlog is reset. *)
Shutdown ==
    /\ acceptorOpen
    /\ acceptorOpen' = FALSE
    /\ accept' = IF accept = "waiting" THEN "failed" ELSE accept
    /\ reset' = reset \cup ToSet(backlog)
    /\ backlog' = <<>>
    /\ UNCHANGED <<started, socket, m_newConnections, connected, handedOver>>

-----------------------------------------------------------------------------
AcceptHandler == HandleAccept \/ AcceptNext

ListenerNext ==
    \/ Start
    \/ \E c \in Connection : Connect(c)
    \/ Accept
    \/ AcceptFails
    \/ AcceptHandler
    \/ GetNextConnection
    \/ Shutdown

ListenerSpec == ListenerInit /\ [][ListenerNext]_listenerVars

(* The io_context thread never stops, the game loop calls getNextConnection in
   every tick, and accepting does not fail for ever. *)
ListenerFairness ==
    /\ WF_listenerVars(AcceptHandler)
    /\ WF_listenerVars(GetNextConnection)
    /\ SF_listenerVars(Accept)
    /\ WF_listenerVars(Start)

ListenerFairSpec == ListenerSpec /\ ListenerFairness

-----------------------------------------------------------------------------
(* Connections are handed over in the order clients opened them, each at most
   once, and none that was reset: NetworkServer numbers clients as it gets them. *)
HandedOverInOrder ==
    LET all == handedOver \o m_newConnections IN
    /\ \A i, j \in DOMAIN all : i < j => all[i] < all[j]
    /\ \A i \in DOMAIN all : all[i] \in connected \ reset

(* Every connection a client has opened is handed over, or reset, or waits for the
   next step of the accept loop, which goes on while the acceptor is open; none
   waits for an acceptor that is closed. *)
NoneForgotten ==
    /\ started /\ acceptorOpen => accept # "ended"
    /\ ~acceptorOpen => accept # "waiting" /\ backlog = <<>>
    /\ \A c \in connected :
          \/ c \in reset
          \/ c \in ToSet(handedOver \o m_newConnections)
          \/ accept = "accepted" /\ c = socket
          \/ c \in ToSet(backlog)

(* Every connection a client opens is handed over, unless it is reset, whatever
   accepts failed before; one that is accepted is handed over even when the
   listener shuts down. *)
EachHandedOver ==
    \A c \in Connection : c \in connected ~> (c \in reset \/ c \in ToSet(handedOver))
=============================================================================
