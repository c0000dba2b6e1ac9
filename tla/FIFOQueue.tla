------------------------------ MODULE FIFOQueue ------------------------------
(* What the transports take a ThreadSafeQueue for: a queue on which every
   operation happens at once. *)
EXTENDS Naturals, Sequences

CONSTANTS Item, Consumer

VARIABLES queue,
          taken     \* what each consumer has taken out, in order

queueVars == <<queue, taken>>

QueueInit ==
    /\ queue = <<>>
    /\ taken = [c \in Consumer |-> <<>>]

Enqueue(i) ==
    /\ queue' = Append(queue, i)
    /\ UNCHANGED taken

Dequeue(c) ==
    /\ queue # <<>>
    /\ queue' = Tail(queue)
    /\ taken' = [taken EXCEPT ![c] = Append(@, Head(queue))]

QueueNext ==
    \/ \E i \in Item : Enqueue(i)
    \/ \E c \in Consumer : Dequeue(c)

QueueSpec == QueueInit /\ [][QueueNext]_queueVars
=============================================================================
