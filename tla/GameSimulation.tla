--------------------------- MODULE GameSimulation ---------------------------
(* The players of GameSimulation and GameState (src/game/game_simulation.h,
   src/game/game_state.h), as operators on the map from PlayerID to health that
   the server and every client keep a copy of.  Positions, velocities and
   animation states are left out. *)
EXTENDS Naturals, Sequences, Messages

CONSTANTS MaxHealth,        \* Player::MAX_HEALTH
          ProjectileDamage  \* Config::projectileDamage

ASSUME HealthAssumption == MaxHealth \in Nat \ {0} /\ ProjectileDamage \in Nat \ {0}

\* Mutant: a new player has no health yet.
AddPlayerDead(players, id) ==
    IF id \in DOMAIN players THEN players
    ELSE [q \in DOMAIN players \cup {id} |-> IF q = id THEN 0 ELSE players[q]]

(* addPlayer: a player already in the game keeps its health. *)
AddPlayer(players, id) ==
    IF id \in DOMAIN players THEN players
    ELSE [q \in DOMAIN players \cup {id} |-> IF q = id THEN MaxHealth ELSE players[q]]

RemovePlayer(players, id) == [q \in DOMAIN players \ {id} |-> players[q]]

(* Player::setHealth, for health that is not negative. *)
SetHealth(players, id, health) ==
    IF id \in DOMAIN players
    THEN [players EXCEPT ![id] = IF health > MaxHealth THEN MaxHealth ELSE health]
    ELSE players

(* applyIncomingMessage: a state update of a player that is not in the game adds
   it, a health update or a respawn of one is dropped. *)
ApplyIncomingMessage(players, msg) ==
    CASE msg.type \in {"PlayerJoined", "PlayerStateUpdate"} -> AddPlayer(players, msg.playerID)
      [] msg.type = "PlayerLeft" -> RemovePlayer(players, msg.playerID)
      [] msg.type \in {"PlayerHealthUpdate", "PlayerRespawned"} ->
            SetHealth(players, msg.playerID, msg.health)
      [] OTHER -> players

(* applyIncomingMessage on each of the messages, in order. *)
ApplyAll(players, msgs) ==
    LET after[n \in 0 .. Len(msgs)] ==
          IF n = 0 THEN players ELSE ApplyIncomingMessage(after[n - 1], msgs[n])
    IN after[Len(msgs)]

(* registerPlayerHit: damage down to 0 is followed by a respawn at once. *)
HealthAfterHit(health) ==
    IF health > ProjectileDamage THEN health - ProjectileDamage ELSE MaxHealth

HitMessage(health, id) ==
    IF health > ProjectileDamage
    THEN PlayerHealthUpdate(id, health - ProjectileDamage)
    ELSE PlayerRespawned(id, MaxHealth)

(* What a sequence of hits on the players victims does, in order, to the game
   and to m_outgoingMessages. *)
RegisterHit(game, id) ==
    [players  |-> [game.players EXCEPT ![id] = HealthAfterHit(@)],
     outgoing |-> Append(game.outgoing, HitMessage(game.players[id], id))]

RegisterHits(players, victims) ==
    LET after[n \in 0 .. Len(victims)] ==
          IF n = 0 THEN [players |-> players, outgoing |-> <<>>]
          ELSE RegisterHit(after[n - 1], victims[n])
    IN after[Len(victims)]

-----------------------------------------------------------------------------
(* The messages with an effect on player id, by effect, and sequences of them
   that tell no health of a player they have not added yet. *)
Adds(msg, id) == msg.type \in {"PlayerJoined", "PlayerStateUpdate"} /\ msg.playerID = id
Removes(msg, id) == msg.type = "PlayerLeft" /\ msg.playerID = id
SetsHealth(msg, id) == msg.type \in {"PlayerHealthUpdate", "PlayerRespawned"} /\ msg.playerID = id

Introduced(msgs, id) ==
    \A i \in 1 .. Len(msgs) : SetsHealth(msgs[i], id) => \E j \in 1 .. i - 1 : Adds(msgs[j], id)

(* Applied to the players known, msgs come to a game in which q has that health;
   no health of q is told before q is known. *)
Agrees(known, msgs, q, health) ==
    /\ q \in DOMAIN ApplyAll(known, msgs)
    /\ ApplyAll(known, msgs)[q] = health
    /\ q \in DOMAIN known \/ Introduced(msgs, q)
=============================================================================
