--------------------------- MODULE ThreadSafeQueue ---------------------------
(* ThreadSafeQueue (src/common/utils.h) and the threads that use it: producers
   push, as the read handlers on an io_context thread do, and consumers take, as
   the game threads do.  The calls of a thread are steps: it asks for the mutex,
   holds it, and leaves it. *)
EXTENDS Naturals, Sequences, FiniteSets

CONSTANTS Producer, Consumer,
          NoThread,
          Uses,         \* which calls each consumer may make, in the programs considered
          MaxPushes     \* bound on the items of one producer

ASSUME QueueAssumption ==
    /\ IsFiniteSet(Consumer)
    /\ Producer \cap Consumer = {}
    /\ NoThread \notin Producer \cup Consumer
    /\ Uses \subseteq [Consumer -> SUBSET {"tryRecv", "tryPop", "pop"}]
    /\ MaxPushes \in Nat

VARIABLES m_deque,
          m_mtx,        \* the thread that holds it
          use,          \* the calls each consumer makes in this program
          pc,           \* what each thread is at
          pushes,       \* items of each producer so far
          item,         \* the local variable of pop and tryPop
          returned      \* what calls have returned to each consumer

vars == <<m_deque, m_mtx, use, pc, pushes, item, returned>>

Thread == Producer \cup Consumer
Item == Producer \X (1 .. MaxPushes)

(* Where a thread is before it gets the mutex, in "wake" after a wait. *)
Locking == {"push", "empty", "tryPop", "pop", "wake"}

TypeOK ==
    /\ m_deque \in Seq(Item)
    /\ m_mtx \in Thread \cup {NoThread}
    /\ use \in Uses
    /\ pc \in [Thread -> Locking \cup {"idle", "wait", "return"}]
    /\ pushes \in [Producer -> 0 .. MaxPushes]
    /\ item \in [Consumer -> Item \cup {<<>>}]
    /\ returned \in [Consumer -> Seq(Item)]
    /\ \A p \in Producer : pc[p] = "idle" \/ (pc[p] = "push" /\ pushes[p] > 0)
    /\ \A c \in Consumer : pc[c] # "push"
    /\ \A c \in Consumer : pc[c] = "return" => item[c] \in Item

Init ==
    /\ m_deque = <<>>
    /\ m_mtx = NoThread
    /\ use \in Uses
    /\ pc = [t \in Thread |-> "idle"]
    /\ pushes = [p \in Producer |-> 0]
    /\ item = [c \in Consumer |-> <<>>]
    /\ returned = [c \in Consumer |-> <<>>]

(* The threads blocked on m_cv, and those that came out of it. *)
Waiting == {c \in Consumer : pc[c] = "wait"}
Woken == {c \in Consumer : pc[c] = "wake"}

-----------------------------------------------------------------------------
(* Calls *)

CallPush(p) ==
    /\ pc[p] = "idle"
    /\ pushes[p] < MaxPushes
    /\ pushes' = [pushes EXCEPT ![p] = @ + 1]
    /\ pc' = [pc EXCEPT ![p] = "push"]
    /\ UNCHANGED <<use, m_deque, m_mtx, item, returned>>

\* Mutant: tryRecv calls pop without asking.
FirstOfAlwaysPop(call) == IF call = "tryRecv" THEN "pop" ELSE call

(* Where a call begins: tryRecv of the transports asks empty first. *)
FirstOf(call) == IF call = "tryRecv" THEN "empty" ELSE call

CallTake(c) ==
    /\ pc[c] = "idle"
    /\ \E call \in use[c] : pc' = [pc EXCEPT ![c] = FirstOf(call)]
    /\ UNCHANGED <<use, m_deque, m_mtx, pushes, item, returned>>

Lock(t) ==
    /\ pc[t] \in Locking
    /\ m_mtx = NoThread
    /\ m_mtx' = t
    /\ UNCHANGED <<use, m_deque, pc, pushes, item, returned>>

-----------------------------------------------------------------------------
(* Under the mutex; each of these ends with leaving it *)

Holds(t, place) == m_mtx = t /\ pc[t] = place

Leave(t, place) ==
    /\ m_mtx' = NoThread
    /\ pc' = [pc EXCEPT ![t] = place]

\* Mutant: a thread is notified only when the queue was empty.
NotifiedIfEmpty == IF m_deque = <<>> THEN Waiting ELSE {}

(* The threads notify_one may wake. *)
Notified == Waiting

Push(p) ==
    /\ Holds(p, "push")
    /\ m_deque' = Append(m_deque, <<p, pushes[p]>>)
    /\ m_mtx' = NoThread
    /\ \/ /\ Notified = {}
          /\ pc' = [pc EXCEPT ![p] = "idle"]
       \/ \E c \in Notified : pc' = [pc EXCEPT ![p] = "idle", ![c] = "wake"]
    /\ UNCHANGED <<use, pushes, item, returned>>

(* empty, for tryRecv: the answer is acted upon after the mutex is free again. *)
Empty(c) ==
    /\ Holds(c, "empty")
    /\ Leave(c, IF m_deque = <<>> THEN "idle" ELSE "pop")
    /\ UNCHANGED <<use, m_deque, pushes, item, returned>>

\* Mutant: the item is copied and stays at the front.
TakeKeeping(c) ==
    /\ m_deque # <<>>
    /\ item' = [item EXCEPT ![c] = Head(m_deque)]
    /\ UNCHANGED m_deque
    /\ Leave(c, "return")

\* Mutant: the other items go too.
TakeClearing(c) ==
    /\ m_deque # <<>>
    /\ item' = [item EXCEPT ![c] = Head(m_deque)]
    /\ m_deque' = <<>>
    /\ Leave(c, "return")

Take(c) ==
    /\ m_deque # <<>>
    /\ item' = [item EXCEPT ![c] = Head(m_deque)]
    /\ m_deque' = Tail(m_deque)
    /\ Leave(c, "return")

\* Mutant: whoever comes out of m_cv does not look at the queue again.
PopWithoutPredicate(c) ==
    /\ Holds(c, "pop") \/ Holds(c, "wake")
    /\ \/ Take(c)
       \/ /\ m_deque = <<>>
          /\ Leave(c, IF pc[c] = "pop" THEN "wait" ELSE "return")
          /\ item' = [item EXCEPT ![c] = <<>>]
          /\ UNCHANGED m_deque
    /\ UNCHANGED <<use, pushes, returned>>

(* pop, before the wait and after each wake-up: m_cv.wait tests the predicate
   under the mutex, and gives it back while it waits. *)
Pop(c) ==
    /\ Holds(c, "pop") \/ Holds(c, "wake")
    /\ \/ Take(c)
       \/ m_deque = <<>> /\ Leave(c, "wait") /\ UNCHANGED <<m_deque, item>>
    /\ UNCHANGED <<use, pushes, returned>>

TryPop(c) ==
    /\ Holds(c, "tryPop")
    /\ \/ Take(c)
       \/ m_deque = <<>> /\ Leave(c, "idle") /\ UNCHANGED <<m_deque, item>>
    /\ UNCHANGED <<use, pushes, returned>>

-----------------------------------------------------------------------------
(* A condition variable may also wake a thread for no reason. *)
SpuriousWakeup(c) ==
    /\ pc[c] = "wait"
    /\ pc' = [pc EXCEPT ![c] = "wake"]
    /\ UNCHANGED <<use, m_deque, m_mtx, pushes, item, returned>>

Return(c) ==
    /\ pc[c] = "return"
    /\ returned' = [returned EXCEPT ![c] = Append(@, item[c])]
    /\ pc' = [pc EXCEPT ![c] = "idle"]
    /\ UNCHANGED <<use, m_deque, m_mtx, pushes, item>>

Next ==
    \/ \E p \in Producer : CallPush(p) \/ Push(p)
    \/ \E t \in Thread : Lock(t)
    \/ \E c \in Consumer :
          CallTake(c) \/ Empty(c) \/ Pop(c) \/ TryPop(c) \/ SpuriousWakeup(c) \/ Return(c)

Spec == Init /\ [][Next]_vars

(* Threads run, and a mutex that is free again and again is got at last.  The
   game loop calls tryRecv in every turn; nothing makes a producer push, or
   wakes a thread without a notification. *)
Fairness ==
    /\ \A t \in Thread : SF_vars(Lock(t))
    /\ \A p \in Producer : WF_vars(Push(p))
    /\ \A c \in Consumer : WF_vars(CallTake(c) \/ Empty(c) \/ Pop(c) \/ TryPop(c) \/ Return(c))

FairSpec == Spec /\ Fairness

-----------------------------------------------------------------------------
(* While a thread is blocked in pop, there is a thread on its way out of m_cv
   for every item in the queue: no wake-up is lost, whoever takes what was
   pushed and however threads wake (utils.h:32 notifies one thread per item). *)
NoLostWakeup == Waiting # {} => Len(m_deque) <= Cardinality(Woken)

(* The queue as the transports use it: one thread takes from it, and never calls
   pop by itself. *)
OneConsumer ==
    /\ \A c \in Consumer : "pop" \notin use[c]
    /\ \A c, d \in Consumer : use[c] # {} /\ use[d] # {} => c = d

(* The tryRecv of a transport (tcp_connection.h:88, udp_transport.h:64) never
   blocks, though it calls the blocking pop: what empty saw is still there when
   pop looks, as long as nobody else takes from the queue. *)
NeverBlocks == OneConsumer => Waiting = {}

(* What was taken, returned already or not. *)
TakenBy(c) ==
    returned[c] \o (IF pc[c] = "return" THEN <<item[c]>> ELSE <<>>)

taken == [c \in Consumer |-> TakenBy(c)]

FIFO == INSTANCE FIFOQueue WITH queue <- m_deque

(* To its callers the queue is one whose operations happen at once, while
   threads are anywhere inside them. *)
ImplementsFIFO == FIFO!QueueSpec

(* The game thread, which asks again in every turn of its loop, gets every item
   that was pushed, and is never kept inside the queue. *)
EveryItemReturned ==
    \A p \in Producer : \A n \in 1 .. MaxPushes :
        (OneConsumer /\ (\E c \in Consumer : use[c] # {}) /\ pc[p] = "push" /\ pushes[p] = n) ~>
            (\E c \in Consumer : \E i \in 1 .. Len(returned[c]) : returned[c][i] = <<p, n>>)
=============================================================================
