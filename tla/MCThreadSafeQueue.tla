------------------------- MODULE MCThreadSafeQueue -------------------------
(* An instance of ThreadSafeQueue for TLC. *)
EXTENDS ThreadSafeQueue

CONSTANTS c1, c2

AllCalls == {"tryRecv", "tryPop", "pop"}

(* Both consumers make every call, both poll, or one polls alone, as the game
   thread does with the queue of a transport. *)
MCUses == {[c \in Consumer |-> AllCalls],
           [c \in Consumer |-> {"tryRecv"}],
           [c \in Consumer |-> IF c = c1 THEN {"tryRecv", "tryPop"} ELSE {}]}
=============================================================================
