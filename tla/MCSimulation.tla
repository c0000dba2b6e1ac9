---------------------------- MODULE MCSimulation ----------------------------
(* Instances of the parts of a GameSimulation for TLC: the local player of a
   client, the projectiles and players of the server, and the copies of one
   player's position.  Each is a model of its own of what the others take as
   input, so a behaviour is about one of them, and part says which; the others
   stay as they begin. *)
EXTENDS Player, Arena, PositionSync

VARIABLE part

At(x, y) == [a \in Axis |-> IF a = "x" THEN x ELSE y]

(* The players of the arena start in the middle and move to a corner or an edge, a
   fraction of a pixel outside of it. *)
MCPlaces == {At(-1, 0), At(13, 1)}
MCFacings == {At(1, 0), At(-1, 0), At(0, -1), At(1, 1)}

ASSUME ArenaAssumptions == SizeAssumption /\ FlightAssumption /\ IDAssumption

MCInit ==
    /\ part \in {"player", "arena", "copies"}
    /\ Init /\ (part # "player" => m_currentState = "other")
    /\ ArenaInit
    /\ SyncInit

MCNext ==
    \/ /\ part = "player" /\ Next
       /\ UNCHANGED <<part, arenaVars, syncVars>>
    \/ /\ part = "arena" /\ ArenaNext
       /\ UNCHANGED <<part, vars, syncVars>>
    \/ /\ part = "copies" /\ SyncNext
       /\ UNCHANGED <<part, vars, arenaVars>>

MCSpec ==
    /\ MCInit /\ [][MCNext]_<<part, vars, arenaVars, syncVars>>
    /\ part = "copies" => Fairness

-----------------------------------------------------------------------------
(* The types of all three. *)
AllTypesOK == TypeOK /\ ArenaTypeOK /\ SyncTypeOK
=============================================================================
