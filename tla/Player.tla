------------------------------- MODULE Player -------------------------------
(* The local player of a client: Player, its InputManager and its two states
   (src/game/player.h, src/game/player.cpp), driven by GameClient::run.
   Lengths are in fractions of a pixel; directions are kept as signs, which is
   what normalising them leaves of which way they point. *)
EXTENDS Window

CONSTANT MaxStep   \* bound on how far a player gets in one frame

ASSUME StepAssumption == MaxStep \in Nat

VARIABLES m_keyState,         \* the InputManager's
          m_currentState,
          m_stateObject,      \* the class of the state object
          m_velocity,         \* in units of SPEED
          m_facingDirection,
          m_position

vars == <<m_keyState, m_currentState, m_stateObject, m_velocity, m_facingDirection, m_position>>

Action == {"MoveLeft", "MoveRight", "MoveUp", "MoveDown"}
State == {"Idle", "Run"}
Sign == {-1, 0, 1}

TypeOK ==
    /\ m_keyState \in [Action -> BOOLEAN]
    /\ m_currentState \in State \cup {"other"}
    /\ m_stateObject \in State
    /\ m_velocity \in [Axis -> Sign]
    /\ m_facingDirection \in [Axis -> Sign]
    /\ m_position \in [Axis -> Int]

Still == [a \in Axis |-> 0]

Centre == [a \in Axis |-> SubPixels * ((WindowOf(a) \div 2) - (Width \div 2))]

(* Player::Player.  Nothing sets m_currentState: it is what the memory held. *)
Init ==
    /\ m_keyState = [a \in Action |-> FALSE]
    /\ m_currentState \in State \cup {"other"}
    /\ m_stateObject = "Idle"
    /\ m_velocity = Still
    /\ m_facingDirection = [a \in Axis |-> IF a = "x" THEN 1 ELSE 0]
    /\ m_position = Centre

-----------------------------------------------------------------------------
(* States *)

\* Mutant: the velocity stays when a state is left.
ExitKeepingVelocity == m_velocity' = m_velocity

(* The exit of the state object: that of Run stops the player. *)
ExitState == m_velocity' = IF m_stateObject = "Run" THEN Still ELSE m_velocity

MaybeChangeState(state) ==
    IF m_currentState = state
    THEN UNCHANGED <<m_currentState, m_stateObject, m_velocity>>
    ELSE /\ ExitState
         /\ m_stateObject' = state
         /\ m_currentState' = state

\* Mutant: one released key is enough.
OneReleased(keys) == \E a \in Action : ~keys[a]

AllReleased(keys) == \A a \in Action : ~keys[a]

(* The state the keys ask for: the input of an idle object looks for a key that
   is pressed, that of a running one for none. *)
StateFor(keys) == IF AllReleased(keys) THEN "Idle" ELSE "Run"

(* Player::input, for a key that is pressed or released. *)
Input(action, pressed) ==
    /\ m_keyState' = [m_keyState EXCEPT ![action] = pressed]
    /\ IF m_stateObject = StateFor(m_keyState')
       THEN UNCHANGED <<m_currentState, m_stateObject, m_velocity>>
       ELSE MaybeChangeState(StateFor(m_keyState'))
    /\ UNCHANGED <<m_facingDirection, m_position>>

-----------------------------------------------------------------------------
(* Movement *)

Sum(back, forth) ==
    IF m_keyState[back] = m_keyState[forth] THEN 0 ELSE IF m_keyState[forth] THEN 1 ELSE -1

Direction ==
    [a \in Axis |-> IF a = "x" THEN Sum("MoveLeft", "MoveRight") ELSE Sum("MoveUp", "MoveDown")]

\* Mutant: the velocity adds up.
RunVelocityAdded == [a \in Axis |-> m_velocity[a] + Direction[a]]

RunVelocity == Direction

Facing == IF Direction = Still THEN m_facingDirection ELSE Direction

\* Mutant: the player is put where the window ends.
BoundedAtEdge(a, x) ==
    IF Pixel(x) < 0 THEN 0
    ELSE IF Pixel(x) + Width > WindowOf(a) THEN SubPixels * WindowOf(a)
    ELSE x

(* boundPosition, along one axis. *)
Bounded(a, x) ==
    IF Pixel(x) < 0 THEN 0
    ELSE IF Pixel(x) + Width > WindowOf(a) THEN SubPixels * (WindowOf(a) - Width)
    ELSE x

(* Player::update; step is the way covered in the frame's time. *)
Update(step) ==
    /\ IF m_stateObject = "Run"
       THEN /\ m_facingDirection' = Facing
            /\ m_velocity' = RunVelocity
            /\ m_position' = [a \in Axis |-> Bounded(a, m_position[a] + step * m_velocity'[a])]
       ELSE /\ m_position' = [a \in Axis |-> Bounded(a, m_position[a])]
            /\ UNCHANGED <<m_facingDirection, m_velocity>>
    /\ UNCHANGED <<m_keyState, m_currentState, m_stateObject>>

(* handlePlayerRespawnedMessage for the local player: SpawnPosition is not always
   Centre, whose halves are whole pixels. *)
Respawned ==
    /\ m_position' = SpawnPosition
    /\ m_velocity' = Still
    /\ UNCHANGED <<m_keyState, m_currentState, m_stateObject, m_facingDirection>>

Next ==
    \/ \E action \in Action, pressed \in BOOLEAN : Input(action, pressed)
    \/ \E step \in 0 .. MaxStep : Update(step)
    \/ Respawned

Spec == Init /\ [][Next]_vars

-----------------------------------------------------------------------------
(* m_currentState says Run of a state object that is Idle; only chance can have
   made it so. *)
Stuck == m_currentState = "Run" /\ m_stateObject = "Idle"

(* The keys decide whether the player runs, after any sequence of presses and
   releases, unless it was stuck from the beginning. *)
KeysDecide == Stuck \/ (m_stateObject = "Run" <=> \E a \in Action : m_keyState[a])

(* A player that stands has no velocity, which others would see it by. *)
StillWhenIdle == m_stateObject = "Idle" => m_velocity = Still

(* In whole pixels the player is inside the window after every step, though its
   position may be a fraction outside. *)
BoxInWindow == InWindow(m_position)

(* Whoever presses a key moves (README.md:14). *)
KeyMoves == (\E a \in Action : m_keyState[a]) => m_stateObject = "Run"
=============================================================================
