----------------------- MODULE ThreadSafeQueue_proofs -----------------------
(* ThreadSafeQueue, for any finite set of consumers and any producers: no
   wake-up is lost, the queue is a FIFOQueue to its callers, and a consumer that
   is alone and never calls pop by itself never blocks. *)
EXTENDS ThreadSafeQueue, FiniteSetTheorems, SequenceTheorems, TLAPS

(* A producer at push has counted its item. *)
LEMMA PushCounted ==
    ASSUME TypeOK, NEW p \in Producer, pc[p] = "push"
    PROVE  pushes[p] \in 1 .. MaxPushes
<1>1. MaxPushes \in Nat
  BY QueueAssumption
<1>2. pushes[p] \in 0 .. MaxPushes /\ pushes[p] > 0
  BY DEF TypeOK
<1> QED BY <1>1, <1>2

USE QueueAssumption

-----------------------------------------------------------------------------
(* Types *)

LEMMA TypeInit == Init => TypeOK
<1> SUFFICES ASSUME Init PROVE TypeOK
  OBVIOUS
<1>1. \A t \in Thread : pc[t] = "idle"
  BY DEF Init
<1>2. pc \in [Thread -> Locking \cup {"idle", "wait", "return"}]
  BY DEF Init
<1>3. returned \in [Consumer -> Seq(Item)] /\ m_deque \in Seq(Item)
  BY DEF Init
<1> QED BY <1>1, <1>2, <1>3 DEF Init, TypeOK, Thread

(* The calls a consumer makes. *)
LEMMA UseOf ==
    ASSUME TypeOK, NEW c \in Consumer
    PROVE  use[c] \subseteq {"tryRecv", "tryPop", "pop"}
BY DEF TypeOK

(* Take, common to pop and tryPop, moves the front of the queue into the local
   variable of its thread. *)
LEMMA TakeType ==
    ASSUME TypeOK, NEW c \in Consumer, Take(c), UNCHANGED <<use, pushes, returned>>
    PROVE  TypeOK'
<1>1. Head(m_deque) \in Item /\ m_deque' \in Seq(Item)
  BY HeadTailProperties DEF TypeOK, Take
<1>2. item' \in [Consumer -> Item \cup {<<>>}] /\ item'[c] \in Item
  BY <1>1 DEF TypeOK, Take
<1>3. pc' \in [Thread -> Locking \cup {"idle", "wait", "return"}] /\ m_mtx' = NoThread
  BY DEF TypeOK, Take, Leave, Thread
<1>4. \A d \in Consumer : d # c => item'[d] = item[d] /\ pc'[d] = pc[d]
  BY DEF TypeOK, Take, Leave, Thread
<1>5. \A p \in Producer : pc'[p] = pc[p]
  BY DEF TypeOK, Take, Leave, Thread
<1>6. pc'[c] = "return"
  BY DEF TypeOK, Take, Leave, Thread
<1> QED BY <1>1, <1>2, <1>3, <1>4, <1>5, <1>6 DEF TypeOK

LEMMA TypeStep == TypeOK /\ [Next]_vars => TypeOK'
<1> SUFFICES ASSUME TypeOK, [Next]_vars PROVE TypeOK'
  OBVIOUS
<1> USE DEF Thread
<1>1. ASSUME NEW p \in Producer, CallPush(p) PROVE TypeOK'
  BY <1>1 DEF TypeOK, CallPush, Locking
<1>2. ASSUME NEW p \in Producer, Push(p) PROVE TypeOK'
  <2>1. pushes[p] \in 1 .. MaxPushes
    BY <1>2, PushCounted DEF Push, Holds
  <2>2. <<p, pushes[p]>> \in Item
    BY <2>1 DEF Item
  <2>3. m_deque' \in Seq(Item)
    BY <1>2, <2>2, AppendProperties DEF TypeOK, Push
  <2>4. Notified \subseteq Consumer
    BY DEF Notified, Waiting
  <2>5. \/ pc' = [pc EXCEPT ![p] = "idle"]
        \/ \E c \in Consumer : pc' = [pc EXCEPT ![p] = "idle", ![c] = "wake"]
    BY <1>2, <2>4 DEF Push
  <2>6. pc' \in [Thread -> Locking \cup {"idle", "wait", "return"}]
    BY <2>5 DEF TypeOK, Locking
  <2>7. \A q \in Producer : pc'[q] \in {pc[q], "idle"}
    BY <2>5 DEF TypeOK
  <2>8. \A c \in Consumer : pc'[c] \in {pc[c], "wake"}
    BY <2>5 DEF TypeOK
  <2> QED BY <1>2, <2>3, <2>6, <2>7, <2>8 DEF TypeOK, Push
<1>3. ASSUME NEW t \in Thread, Lock(t) PROVE TypeOK'
  BY <1>3 DEF TypeOK, Lock
<1>4. ASSUME NEW c \in Consumer, CallTake(c) PROVE TypeOK'
  <2>1. PICK place \in {"empty", "tryPop", "pop"} : pc' = [pc EXCEPT ![c] = place]
    BY <1>4, UseOf DEF CallTake, FirstOf
  <2> QED BY <1>4, <2>1 DEF TypeOK, CallTake, Locking
<1>5. ASSUME NEW c \in Consumer, Empty(c) PROVE TypeOK'
  <2>1. PICK place \in {"idle", "pop"} : pc' = [pc EXCEPT ![c] = place]
    BY <1>5 DEF Empty, Leave
  <2> QED BY <1>5, <2>1 DEF TypeOK, Empty, Leave, Locking
<1>6. ASSUME NEW c \in Consumer, Pop(c) PROVE TypeOK'
  <2>1. CASE Take(c)
    BY <1>6, <2>1, TakeType DEF Pop
  <2>2. CASE Leave(c, "wait") /\ UNCHANGED <<m_deque, item>>
    BY <1>6, <2>2 DEF TypeOK, Pop, Leave
  <2> QED BY <1>6, <2>1, <2>2 DEF Pop
<1>7. ASSUME NEW c \in Consumer, TryPop(c) PROVE TypeOK'
  <2>1. CASE Take(c)
    BY <1>7, <2>1, TakeType DEF TryPop
  <2>2. CASE Leave(c, "idle") /\ UNCHANGED <<m_deque, item>>
    BY <1>7, <2>2 DEF TypeOK, TryPop, Leave
  <2> QED BY <1>7, <2>1, <2>2 DEF TryPop
<1>8. ASSUME NEW c \in Consumer, SpuriousWakeup(c) PROVE TypeOK'
  BY <1>8 DEF TypeOK, SpuriousWakeup, Locking
<1>9. ASSUME NEW c \in Consumer, Return(c) PROVE TypeOK'
  <2>1. Append(returned[c], item[c]) \in Seq(Item)
    BY <1>9, AppendProperties DEF TypeOK, Return
  <2>2. returned' \in [Consumer -> Seq(Item)]
    BY <1>9, <2>1 DEF TypeOK, Return
  <2>3. pc' = [pc EXCEPT ![c] = "idle"]
    BY <1>9 DEF Return
  <2> QED BY <1>9, <2>2, <2>3 DEF TypeOK, Return
<1>10. CASE UNCHANGED vars
  BY <1>10 DEF TypeOK, vars
<1> QED BY <1>1, <1>2, <1>3, <1>4, <1>5, <1>6, <1>7, <1>8, <1>9, <1>10 DEF Next

(* A thread that returns from the queue has an item to return. *)
THEOREM QueueTypeCorrect == Spec => []TypeOK
<1>1. Init => TypeOK
  BY TypeInit
<1>2. TypeOK /\ [Next]_vars => TypeOK'
  BY TypeStep
<1> QED BY <1>1, <1>2, PTL DEF Spec

-----------------------------------------------------------------------------
(* Wake-ups *)

(* The woken threads can be counted. *)
LEMMA WokenFinite == IsFiniteSet(Woken) /\ Cardinality(Woken) \in Nat
<1>1. Woken \subseteq Consumer
  BY DEF Woken
<1> QED BY <1>1, FS_Subset, FS_CardinalityType

(* A thread that takes an item leaves one item less, and is itself the only one
   that may have left m_cv. *)
LEMMA TakeLosesNone ==
    ASSUME TypeOK, NoLostWakeup, NEW c \in Consumer, Take(c)
    PROVE  NoLostWakeup'
<1>1. Len(m_deque') = Len(m_deque) - 1 /\ Len(m_deque) \in Nat
  BY HeadTailProperties, LenProperties DEF TypeOK, Take
<1>2. \A d \in Consumer : pc'[d] = IF d = c THEN "return" ELSE pc[d]
  BY DEF TypeOK, Take, Leave, Thread
<1>3. Waiting' \subseteq Waiting /\ Woken' = Woken \ {c}
  BY <1>2 DEF Waiting, Woken
<1>4. Cardinality(Woken \ {c}) \in {Cardinality(Woken) - 1, Cardinality(Woken)}
  BY WokenFinite, FS_RemoveElement
<1> QED BY <1>1, <1>3, <1>4, WokenFinite DEF NoLostWakeup

(* notify_one brings one more thread out of m_cv for one more item. *)
LEMMA PushLosesNone ==
    ASSUME TypeOK, NoLostWakeup, NEW p \in Producer, Push(p)
    PROVE  NoLostWakeup'
<1>0. m_deque' = Append(m_deque, <<p, pushes[p]>>) /\ pushes[p] \in 1 .. MaxPushes
  BY DEF TypeOK, Push, Holds
<1>1. Len(m_deque') = Len(m_deque) + 1 /\ Len(m_deque) \in Nat
  BY <1>0, AppendProperties, LenProperties DEF TypeOK, Item
<1>2. CASE Notified = {}
  <2>1. pc' = [pc EXCEPT ![p] = "idle"]
    BY <1>2 DEF Push
  <2>2. Waiting' = Waiting
    BY <2>1 DEF Waiting, TypeOK, Thread
  <2> QED BY <1>2, <2>2 DEF NoLostWakeup, Notified
<1>3. ASSUME NEW c \in Notified, pc' = [pc EXCEPT ![p] = "idle", ![c] = "wake"]
      PROVE  NoLostWakeup'
  <2>1. c \in Consumer /\ c \notin Woken /\ Waiting # {}
    BY DEF Notified, Waiting, Woken
  <2>2. \A d \in Consumer : pc'[d] = IF d = c THEN "wake" ELSE pc[d]
    BY <1>3, <2>1 DEF TypeOK, Thread
  <2>3. Woken' = Woken \cup {c}
    BY <2>1, <2>2 DEF Woken
  <2>4. Cardinality(Woken') = Cardinality(Woken) + 1
    BY <2>1, <2>3, WokenFinite, FS_AddElement
  <2> QED BY <1>1, <2>1, <2>4, WokenFinite DEF NoLostWakeup
<1> QED BY <1>2, <1>3 DEF Push

LEMMA WakeupStep == TypeOK /\ NoLostWakeup /\ [Next]_vars => NoLostWakeup'
<1> SUFFICES ASSUME TypeOK, NoLostWakeup, [Next]_vars PROVE NoLostWakeup'
  OBVIOUS
<1> USE DEF Thread
(* Steps after which the same threads wait and are woken, and the queue is the same. *)
<1>0. ASSUME UNCHANGED m_deque, Waiting' = Waiting, Woken' = Woken PROVE NoLostWakeup'
  BY <1>0 DEF NoLostWakeup
<1>1. ASSUME NEW p \in Producer, CallPush(p) PROVE NoLostWakeup'
  <2>1. \A d \in Consumer : pc'[d] = pc[d]
    BY <1>1 DEF TypeOK, CallPush
  <2> QED BY <1>0, <1>1, <2>1 DEF CallPush, Waiting, Woken
<1>2. ASSUME NEW p \in Producer, Push(p) PROVE NoLostWakeup'
  BY <1>2, PushLosesNone
<1>3. ASSUME NEW t \in Thread, Lock(t) PROVE NoLostWakeup'
  BY <1>0, <1>3 DEF Lock, Waiting, Woken
<1>4. ASSUME NEW c \in Consumer, CallTake(c) PROVE NoLostWakeup'
  <2>1. PICK place \in {"empty", "tryPop", "pop"} : pc' = [pc EXCEPT ![c] = place]
    BY <1>4, UseOf DEF CallTake, FirstOf
  <2>2. pc[c] = "idle" /\ \A d \in Consumer : pc'[d] = IF d = c THEN place ELSE pc[d]
    BY <1>4, <2>1 DEF TypeOK, CallTake
  <2> QED BY <1>0, <1>4, <2>2 DEF CallTake, Waiting, Woken
<1>5. ASSUME NEW c \in Consumer, Empty(c) PROVE NoLostWakeup'
  <2>1. PICK place \in {"idle", "pop"} : pc' = [pc EXCEPT ![c] = place]
    BY <1>5 DEF Empty, Leave
  <2>2. pc[c] = "empty" /\ \A d \in Consumer : pc'[d] = IF d = c THEN place ELSE pc[d]
    BY <1>5, <2>1 DEF TypeOK, Empty, Holds
  <2> QED BY <1>0, <1>5, <2>2 DEF Empty, Waiting, Woken
<1>6. ASSUME NEW c \in Consumer, Pop(c) PROVE NoLostWakeup'
  <2>1. CASE m_deque = <<>> /\ UNCHANGED <<m_deque, item>>
    <3>1. Len(m_deque') = 0
      BY <2>1
    <3>2. Woken' \subseteq Consumer
      BY DEF Woken
    <3>3. Cardinality(Woken') \in Nat
      BY <3>2, FS_Subset, FS_CardinalityType
    <3> QED BY <3>1, <3>3 DEF NoLostWakeup
  <2> QED BY <1>6, <2>1, TakeLosesNone DEF Pop
<1>7. ASSUME NEW c \in Consumer, TryPop(c) PROVE NoLostWakeup'
  <2>1. CASE Leave(c, "idle") /\ UNCHANGED <<m_deque, item>>
    <3>1. pc[c] = "tryPop" /\ \A d \in Consumer : pc'[d] = IF d = c THEN "idle" ELSE pc[d]
      BY <1>7, <2>1 DEF TypeOK, TryPop, Holds, Leave
    <3> QED BY <1>0, <2>1, <3>1 DEF Waiting, Woken
  <2> QED BY <1>7, <2>1, TakeLosesNone DEF TryPop
<1>8. ASSUME NEW c \in Consumer, SpuriousWakeup(c) PROVE NoLostWakeup'
  <2>1. \A d \in Consumer : pc'[d] = IF d = c THEN "wake" ELSE pc[d]
    BY <1>8 DEF TypeOK, SpuriousWakeup
  <2>2. Waiting # {} /\ Woken' = Woken \cup {c} /\ c \notin Woken
    BY <1>8, <2>1 DEF SpuriousWakeup, Waiting, Woken
  <2>3. Cardinality(Woken') = Cardinality(Woken) + 1
    BY <2>2, WokenFinite, FS_AddElement
  <2>4. Len(m_deque) \in Nat /\ m_deque' = m_deque
    BY <1>8, LenProperties DEF TypeOK, SpuriousWakeup
  <2> QED BY <2>2, <2>3, <2>4, WokenFinite DEF NoLostWakeup
<1>9. ASSUME NEW c \in Consumer, Return(c) PROVE NoLostWakeup'
  <2>1. pc[c] = "return" /\ \A d \in Consumer : pc'[d] = IF d = c THEN "idle" ELSE pc[d]
    BY <1>9 DEF TypeOK, Return
  <2> QED BY <1>0, <1>9, <2>1 DEF Return, Waiting, Woken
<1>10. CASE UNCHANGED vars
  BY <1>0, <1>10 DEF vars, Waiting, Woken
<1> QED BY <1>1, <1>2, <1>3, <1>4, <1>5, <1>6, <1>7, <1>8, <1>9, <1>10 DEF Next

(* While a thread is blocked in pop there is a thread on its way out of m_cv for
   every item: with any number of consumers, whichever calls they mix. *)
THEOREM WakeupsNeverLost == Spec => []NoLostWakeup
<1>1. Init => NoLostWakeup
  BY DEF Init, NoLostWakeup, Waiting, Thread
<1>2. TypeOK /\ NoLostWakeup /\ [Next]_vars => NoLostWakeup'
  BY WakeupStep
<1> QED BY <1>1, <1>2, QueueTypeCorrect, PTL DEF Spec

-----------------------------------------------------------------------------
(* The calls of the transports *)

(* What a consumer that is alone may count on: nobody takes away what empty saw,
   and nobody else is anywhere in the queue. *)
NothingStolen ==
    OneConsumer => \A c \in Consumer :
        /\ pc[c] \notin {"wait", "wake"}
        /\ pc[c] = "pop" => m_deque # <<>>
        /\ pc[c] # "idle" => use[c] # {}

LEMMA NothingStolenStep == TypeOK /\ NothingStolen /\ [Next]_vars => NothingStolen'
<1> SUFFICES ASSUME TypeOK, NothingStolen, [Next]_vars, OneConsumer' PROVE NothingStolen'
  BY DEF NothingStolen
<1> USE DEF Thread
<1>0. use' = use
  BY DEF Next, CallPush, Push, Lock, CallTake, Empty, Pop, TryPop, SpuriousWakeup, Return, vars
<1>a. OneConsumer
  BY <1>0 DEF OneConsumer
<1>b. \A c \in Consumer : /\ pc[c] \notin {"wait", "wake"}
                          /\ pc[c] = "pop" => m_deque # <<>>
                          /\ pc[c] # "idle" => use[c] # {}
  BY <1>a DEF NothingStolen
(* The thread that takes a step of a call is the only one inside the queue. *)
<1>c. ASSUME NEW c \in Consumer, NEW d \in Consumer, use[c] # {}, c # d
      PROVE  pc[d] = "idle"
  BY <1>a, <1>b, <1>c DEF OneConsumer
(* So it is enough to look at that thread after a step of it. *)
<1>d. ASSUME NEW c \in Consumer, use[c] # {}, NEW place \in {"idle", "empty", "tryPop", "pop", "return"},
             pc' = [pc EXCEPT ![c] = place],
             place = "pop" => m_deque' # <<>>
      PROVE  NothingStolen'
  <2>1. \A d \in Consumer : pc'[d] = IF d = c THEN place ELSE pc[d]
    BY <1>d DEF TypeOK
  <2>2. \A d \in Consumer : d # c => pc'[d] = "idle"
    BY <2>1, <1>c, <1>d
  <2> QED BY <1>0, <1>d, <2>1, <2>2 DEF NothingStolen
<1>1. ASSUME NEW p \in Producer, CallPush(p) PROVE NothingStolen'
  BY <1>0, <1>1, <1>b DEF TypeOK, NothingStolen, CallPush
<1>2. ASSUME NEW p \in Producer, Push(p) PROVE NothingStolen'
  <2>1. Notified = {}
    BY <1>b DEF Notified, Waiting
  <2>2. \A c \in Consumer : pc'[c] = pc[c]
    BY <1>2, <2>1 DEF TypeOK, Push
  <2>3. pushes[p] \in 1 .. MaxPushes
    BY <1>2, PushCounted DEF Push, Holds
  <2>4. m_deque \in Seq(Item) /\ <<p, pushes[p]>> \in Item
    BY <2>3 DEF TypeOK, Item
  <2>5. m_deque' = Append(m_deque, <<p, pushes[p]>>)
    BY <1>2 DEF Push
  <2>6. m_deque' # <<>>
    BY <2>4, <2>5, AppendProperties
  <2> QED BY <1>0, <1>b, <2>2, <2>6 DEF NothingStolen
<1>3. ASSUME NEW t \in Thread, Lock(t) PROVE NothingStolen'
  BY <1>0, <1>3, <1>b DEF NothingStolen, Lock
<1>4. ASSUME NEW c \in Consumer, CallTake(c) PROVE NothingStolen'
  <2>1. PICK place \in {"empty", "tryPop"} : pc' = [pc EXCEPT ![c] = place] /\ use[c] # {}
    BY <1>4, <1>a, UseOf DEF CallTake, FirstOf, OneConsumer
  <2> QED BY <1>d, <2>1
<1>5. ASSUME NEW c \in Consumer, Empty(c) PROVE NothingStolen'
  <2>1. PICK place \in {"idle", "pop"} :
           pc' = [pc EXCEPT ![c] = place] /\ (place = "pop" => m_deque' # <<>>)
    BY <1>5 DEF Empty, Leave
  <2>2. use[c] # {}
    BY <1>5, <1>b DEF Empty, Holds
  <2> QED BY <1>d, <2>1, <2>2
<1>6. ASSUME NEW c \in Consumer, Pop(c) PROVE NothingStolen'
  <2>1. pc[c] = "pop" /\ m_deque # <<>> /\ use[c] # {}
    BY <1>6, <1>b DEF Pop, Holds
  <2>2. PICK place \in {"return"} : pc' = [pc EXCEPT ![c] = place]
    BY <1>6, <2>1 DEF Pop, Take, Leave
  <2> QED BY <1>d, <2>1, <2>2
<1>7. ASSUME NEW c \in Consumer, TryPop(c) PROVE NothingStolen'
  <2>1. PICK place \in {"return", "idle"} : pc' = [pc EXCEPT ![c] = place]
    BY <1>7 DEF TryPop, Take, Leave
  <2>2. use[c] # {}
    BY <1>7, <1>b DEF TryPop, Holds
  <2> QED BY <1>d, <2>1, <2>2
<1>8. ASSUME NEW c \in Consumer, SpuriousWakeup(c) PROVE NothingStolen'
  BY <1>8, <1>b DEF SpuriousWakeup
<1>9. ASSUME NEW c \in Consumer, Return(c) PROVE NothingStolen'
  <2>1. PICK place \in {"idle"} : use[c] # {} /\ pc' = [pc EXCEPT ![c] = place]
    BY <1>9, <1>b DEF Return
  <2> QED BY <1>d, <2>1
<1>10. CASE UNCHANGED vars
  BY <1>0, <1>10, <1>b DEF NothingStolen, vars
<1> QED BY <1>1, <1>2, <1>3, <1>4, <1>5, <1>6, <1>7, <1>8, <1>9, <1>10 DEF Next

(* tryRecv never blocks the game thread of a transport, which is the only
   consumer of its queue and never calls pop by itself. *)
THEOREM TryRecvNeverBlocks == Spec => []NeverBlocks
<1>1. Init => NothingStolen
  BY DEF Init, NothingStolen, Thread
<1>2. TypeOK /\ NothingStolen /\ [Next]_vars => NothingStolen'
  BY NothingStolenStep
<1>3. NothingStolen => NeverBlocks
  BY DEF NothingStolen, NeverBlocks, Waiting
<1> QED BY <1>1, <1>2, <1>3, QueueTypeCorrect, PTL DEF Spec

-----------------------------------------------------------------------------
(* Refinement *)

(* Take is a Dequeue: the item counts as taken from when it leaves m_deque. *)
LEMMA TakeIsDequeue ==
    ASSUME TypeOK, NEW c \in Consumer, pc[c] # "return", Take(c), UNCHANGED returned
    PROVE  FIFO!Dequeue(c)
<1>1. \A d \in Consumer : pc'[d] = IF d = c THEN "return" ELSE pc[d]
  BY DEF TypeOK, Take, Leave, Thread
<1>2. Head(m_deque) \in Item
  BY HeadTailProperties DEF TypeOK, Take
<1>3. item'[c] = Head(m_deque) /\ \A d \in Consumer : d # c => item'[d] = item[d]
  BY DEF TypeOK, Take
<1>4. TakenBy(c) = returned[c]
  BY ConcatEmptySeq DEF TypeOK, TakenBy
<1>5. TakenBy(c)' = Append(TakenBy(c), Head(m_deque))
  BY <1>1, <1>2, <1>3, <1>4, AppendIsConcat DEF TypeOK, TakenBy
<1>6. \A d \in Consumer : d # c => TakenBy(d)' = TakenBy(d)
  BY <1>1, <1>3 DEF TakenBy
<1>7. taken' = [taken EXCEPT ![c] = Append(@, Head(m_deque))]
  BY <1>5, <1>6 DEF taken
<1> QED BY <1>7 DEF FIFO!Dequeue, Take

LEMMA RefinementStep == TypeOK /\ [Next]_vars => [FIFO!QueueNext]_(FIFO!queueVars)
<1> SUFFICES ASSUME TypeOK, [Next]_vars PROVE [FIFO!QueueNext]_(FIFO!queueVars)
  OBVIOUS
<1> USE DEF Thread
(* A step that moves no item is a stutter. *)
<1>0. ASSUME UNCHANGED <<m_deque, item, returned>>,
             \A d \in Consumer : pc'[d] = "return" <=> pc[d] = "return"
      PROVE  UNCHANGED FIFO!queueVars
  <2>1. \A d \in Consumer : TakenBy(d)' = TakenBy(d)
    BY <1>0 DEF TakenBy
  <2>2. taken' = taken
    BY <2>1 DEF taken
  <2> QED BY <1>0, <2>2 DEF FIFO!queueVars
<1>1. ASSUME NEW p \in Producer, CallPush(p) PROVE UNCHANGED FIFO!queueVars
  BY <1>0, <1>1 DEF TypeOK, CallPush
<1>2. ASSUME NEW p \in Producer, Push(p) PROVE FIFO!QueueNext
  <2>1. <<p, pushes[p]>> \in Item
    BY <1>2, PushCounted DEF Push, Holds, Item
  <2>2. \A d \in Consumer : pc'[d] = "return" <=> pc[d] = "return"
    BY <1>2 DEF TypeOK, Push, Notified, Waiting
  <2>3. \A d \in Consumer : TakenBy(d)' = TakenBy(d)
    BY <1>2, <2>2 DEF TakenBy, Push
  <2>4. FIFO!Enqueue(<<p, pushes[p]>>)
    BY <1>2, <2>3 DEF FIFO!Enqueue, taken, Push
  <2> QED BY <2>1, <2>4 DEF FIFO!QueueNext
<1>3. ASSUME NEW t \in Thread, Lock(t) PROVE UNCHANGED FIFO!queueVars
  BY <1>0, <1>3 DEF Lock
<1>4. ASSUME NEW c \in Consumer, CallTake(c) PROVE UNCHANGED FIFO!queueVars
  <2>1. PICK place \in {"empty", "tryPop", "pop"} : pc' = [pc EXCEPT ![c] = place]
    BY <1>4, UseOf DEF CallTake, FirstOf
  <2> QED BY <1>0, <1>4, <2>1 DEF TypeOK, CallTake
<1>5. ASSUME NEW c \in Consumer, Empty(c) PROVE UNCHANGED FIFO!queueVars
  BY <1>0, <1>5 DEF TypeOK, Empty, Leave, Holds
<1>6. ASSUME NEW c \in Consumer, Pop(c) PROVE FIFO!QueueNext \/ UNCHANGED FIFO!queueVars
  <2>1. pc[c] # "return" /\ UNCHANGED returned
    BY <1>6 DEF Pop, Holds
  <2>2. CASE Take(c)
    BY <2>1, <2>2, TakeIsDequeue DEF FIFO!QueueNext
  <2>3. CASE Leave(c, "wait") /\ UNCHANGED <<m_deque, item>>
    BY <1>0, <2>1, <2>3 DEF TypeOK, Leave
  <2> QED BY <1>6, <2>2, <2>3 DEF Pop
<1>7. ASSUME NEW c \in Consumer, TryPop(c) PROVE FIFO!QueueNext \/ UNCHANGED FIFO!queueVars
  <2>1. pc[c] # "return" /\ UNCHANGED returned
    BY <1>7 DEF TryPop, Holds
  <2>2. CASE Take(c)
    BY <2>1, <2>2, TakeIsDequeue DEF FIFO!QueueNext
  <2>3. CASE Leave(c, "idle") /\ UNCHANGED <<m_deque, item>>
    BY <1>0, <2>1, <2>3 DEF TypeOK, Leave
  <2> QED BY <1>7, <2>2, <2>3 DEF TryPop
<1>8. ASSUME NEW c \in Consumer, SpuriousWakeup(c) PROVE UNCHANGED FIFO!queueVars
  BY <1>0, <1>8 DEF TypeOK, SpuriousWakeup
<1>9. ASSUME NEW c \in Consumer, Return(c) PROVE UNCHANGED FIFO!queueVars
  <2>1. item[c] \in Item
    BY <1>9 DEF TypeOK, Return
  <2>2. \A d \in Consumer : pc'[d] = IF d = c THEN "idle" ELSE pc[d]
    BY <1>9 DEF TypeOK, Return
  <2>3. returned'[c] = returned[c] \o <<item[c]>>
    BY <1>9, <2>1, AppendIsConcat DEF TypeOK, Return
  <2>4. returned'[c] \in Seq(Item)
    BY <1>9, <2>1, AppendProperties DEF TypeOK, Return
  <2>5. returned'[c] \o <<>> = returned'[c]
    BY <2>4, ConcatEmptySeq
  <2>6. TakenBy(c) = returned[c] \o <<item[c]>>
    BY <1>9 DEF TakenBy, Return
  <2>7. TakenBy(c)' = TakenBy(c)
    <3>1. pc'[c] # "return"
      BY <2>2
    <3>2. TakenBy(c)' = returned'[c] \o <<>>
      BY <3>1 DEF TakenBy
    <3> QED BY <2>3, <2>5, <2>6, <3>2
  <2>8. \A d \in Consumer : d # c => TakenBy(d)' = TakenBy(d)
    BY <1>9, <2>2 DEF TypeOK, TakenBy, Return
  <2>9. taken' = taken
    BY <2>7, <2>8 DEF taken
  <2> QED BY <1>9, <2>9 DEF FIFO!queueVars, Return
<1>10. CASE UNCHANGED vars
  BY <1>0, <1>10 DEF vars
<1> QED BY <1>1, <1>2, <1>3, <1>4, <1>5, <1>6, <1>7, <1>8, <1>9, <1>10 DEF Next

(* The queue with its mutex, its condition variable and threads anywhere inside
   its operations implements the one on which operations happen at once. *)
THEOREM QueueRefinement == Spec => ImplementsFIFO
<1>1. Init => FIFO!QueueInit
  <2> SUFFICES ASSUME Init PROVE FIFO!QueueInit
    OBVIOUS
  <2>1. \A c \in Consumer : TakenBy(c) = <<>>
    BY ConcatEmptySeq DEF Init, TakenBy, Thread
  <2> QED BY <2>1 DEF Init, FIFO!QueueInit, taken
<1>2. TypeOK /\ [Next]_vars => [FIFO!QueueNext]_(FIFO!queueVars)
  BY RefinementStep
<1> QED BY <1>1, <1>2, QueueTypeCorrect, PTL DEF Spec, ImplementsFIFO, FIFO!QueueSpec
=============================================================================
