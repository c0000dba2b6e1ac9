---------------------------- MODULE MCNetSession ----------------------------
(* An instance of NetSession for TLC. *)
EXTENDS NetSession

CONSTANTS p1, p2, e1

MCSymmetry == Permutations(Process)

(* One port: a process gets it once the process before has ended. *)
MCReused == [p \in Process |-> e1]

MCAppSent == {PlayerJoined(1)}
=============================================================================
