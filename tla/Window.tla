------------------------------- MODULE Window -------------------------------
(* The window and the players in it: Player::boundPosition at a client and the
   GameState of the server agree on these.  Lengths are in fractions of a pixel. *)
EXTENDS Integers

CONSTANTS SubPixels,    \* fractions a pixel is divided into
          Width,        \* Player::WIDTH_PX
          WindowWidth, WindowHeight

(* A player fits into the window. *)
ASSUME WindowAssumption ==
    /\ SubPixels \in Nat \ {0} /\ Width \in Nat \ {0}
    /\ WindowWidth \in Nat /\ WindowHeight \in Nat
    /\ Width <= WindowWidth /\ Width <= WindowHeight

Axis == {"x", "y"}

WindowOf(a) == IF a = "x" THEN WindowWidth ELSE WindowHeight

(* static_cast<int>: towards zero. *)
Pixel(x) == IF x >= 0 THEN x \div SubPixels ELSE -((-x) \div SubPixels)

(* A player's bounding box is inside the window; its position may be a fraction
   of a pixel outside, as boundPosition looks at the box. *)
InWindow(position) ==
    \A a \in Axis : 0 <= Pixel(position[a]) /\ Pixel(position[a]) + Width <= WindowOf(a)

(* getPlayerSpawnPosition: the middle, halved in floating point. *)
SpawnPosition == [a \in Axis |-> (SubPixels * (WindowOf(a) - Width)) \div 2]
=============================================================================
