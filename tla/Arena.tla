-------------------------------- MODULE Arena --------------------------------
(* What the server's GameSimulation decides: where projectiles fly and whom they
   hit (src/game/game_simulation.h, game_state.h, projectile.h).  Lengths are in
   fractions of a pixel, times in milliseconds; players stand wherever the last
   state update has put them. *)
EXTENDS Window, FiniteSets

CONSTANTS Size,                    \* Projectile::SIZE_PX
          Speed, DiagonalSpeed,    \* Projectile::SPEED, along one axis and along both
          Lifetime,                \* Projectile::LIFETIME_MS
          MaxDelta,                \* bound on the milliseconds of a tick
          Player,                  \* PlayerIDs
          IDFactor, IDModulus,     \* 100000, and the range of ProjectileID
          MaxShots,                \* bound on the shots of a player
          MaxHealth, Damage,       \* Player::MAX_HEALTH, Config::projectileDamage
          MaxFlying,               \* bound on the projectiles in the game at once
          Places,                  \* positions that state updates report
          Facings                  \* directions players face, a sign for each axis

(* What is assumed of the constants, in three parts.  Clients report positions
   that boundPosition has left. *)
SizeAssumption ==
    /\ Size \in Nat \ {0} /\ Size <= Width
    /\ Speed \in Nat \ {0} /\ DiagonalSpeed \in Nat \ {0}
    /\ Lifetime \in Nat \ {0} /\ MaxDelta \in Nat
    /\ MaxHealth \in Nat \ {0} /\ Damage \in Nat \ {0}
    /\ Places \subseteq [Axis -> Int] /\ \A place \in Places : InWindow(place)
    /\ Facings \subseteq [Axis -> {-1, 0, 1}]

(* In its lifetime a projectile crosses the window, with the sizes of the code. *)
FlightAssumption ==
    \A a \in Axis : SubPixels * (WindowOf(a) + Size) <= Speed * Lifetime

(* No player fires so often that its own identifiers repeat, 2^32 times; that
   those of two players meet is not excluded. *)
IDAssumption ==
    /\ Player \subseteq Nat /\ IDFactor \in Nat /\ IDModulus \in Nat \ {0}
    /\ MaxShots \in Nat /\ MaxShots <= IDModulus /\ MaxFlying \in Nat

VARIABLES players,       \* m_players: position and health of each
          projectiles,   \* m_projectiles
          shots          \* m_nextProjectileID at the client of each player

arenaVars == <<players, projectiles, shots>>

Position == [Axis -> Int]
Projectile == [owner: Player, position: Position, velocity: [Axis -> Int], ageMs: Nat]
ProjectileID(p, n) == (p * IDFactor + n) % IDModulus

ArenaTypeOK ==
    /\ players \in [Player -> [position: Position, health: 1 .. MaxHealth]]
    /\ \A p \in Player : InWindow(players[p].position)
    /\ \A id \in DOMAIN projectiles : projectiles[id] \in Projectile
    /\ shots \in [Player -> 0 .. MaxShots]

ArenaInit ==
    /\ players = [p \in Player |-> [position |-> SpawnPosition, health |-> MaxHealth]]
    /\ projectiles = [id \in {} |-> {}]
    /\ shots = [p \in Player |-> 0]

-----------------------------------------------------------------------------
(* Boxes *)

(* hasIntersection of the two bounding boxes, along one axis. *)
Overlap(j, player, a) ==
    /\ Pixel(j.position[a]) < Pixel(player.position[a]) + Width
    /\ Pixel(j.position[a]) + Size > Pixel(player.position[a])

HasIntersection(j, player) == \A a \in Axis : Overlap(j, player, a)

IsOutOfBounds(j) ==
    \E a \in Axis : Pixel(j.position[a]) + Size < 0 \/ Pixel(j.position[a]) > WindowOf(a)

-----------------------------------------------------------------------------
(* Projectiles *)

(* The normalised direction times the speed. *)
Velocity(facing) ==
    [a \in Axis |-> facing[a] * (IF \A b \in Axis : facing[b] # 0 THEN DiagonalSpeed ELSE Speed)]

(* createProjectile, when the player is at place. *)
CreateProjectile(p, place, facing) ==
    [owner |-> p,
     position |-> [a \in Axis |-> place[a] + (SubPixels * (Width - Size)) \div 2],
     velocity |-> Velocity(facing),
     ageMs |-> 0]

\* Mutant: the identifiers of one player follow those of another.
NextIDCounted(p) == shots[p]

NextID(p) == ProjectileID(p, shots[p])

(* addProjectile: emplace leaves a projectile that has the identifier already. *)
AddProjectile(id, j) ==
    projectiles' = [i \in DOMAIN projectiles \cup {id} |->
                       IF i \in DOMAIN projectiles THEN projectiles[i] ELSE j]

(* A ProjectileSpawn from the client of p, which was at place when it fired. *)
Shoot(p, place, facing) ==
    /\ shots[p] < MaxShots
    /\ Cardinality(DOMAIN projectiles) < MaxFlying
    /\ AddProjectile(NextID(p), CreateProjectile(p, place, facing))
    /\ shots' = [shots EXCEPT ![p] = @ + 1]
    /\ UNCHANGED players

(* A PlayerStateUpdate from the client of p. *)
Move(p, place) ==
    /\ players' = [players EXCEPT ![p].position = place]
    /\ UNCHANGED <<projectiles, shots>>

\* Mutant: a projectile flies twice as far as time passes.
UpdatedTwice(j, delta) ==
    [j EXCEPT !.position = [a \in Axis |-> j.position[a] + 2 * j.velocity[a] * delta],
              !.ageMs = @ + delta]

(* Projectile::update *)
Updated(j, delta) ==
    [j EXCEPT !.position = [a \in Axis |-> j.position[a] + j.velocity[a] * delta],
              !.ageMs = @ + delta]

IsExpired(j) == j.ageMs >= Lifetime

-----------------------------------------------------------------------------
(* Hits *)

Touched(j) == {p \in Player : p # j.owner /\ HasIntersection(j, players[p])}

(* The first player the search finds. *)
HitPlayer(j) == CHOOSE p \in Touched(j) : \A q \in Touched(j) : p <= q

\* Mutant: only damage beyond the last of the health eliminates.
RegisterHitBelowZero(player) ==
    IF player.health < Damage THEN [position |-> SpawnPosition, health |-> MaxHealth]
    ELSE [player EXCEPT !.health = @ - Damage]

(* registerPlayerHit, respawnPlayer *)
RegisterHit(player) ==
    IF player.health <= Damage THEN [position |-> SpawnPosition, health |-> MaxHealth]
    ELSE [player EXCEPT !.health = @ - Damage]

AfterHits(player, n) ==
    LET after[k \in 0 .. n] == IF k = 0 THEN player ELSE RegisterHit(after[k - 1])
    IN after[n]

(* What updateProjectiles leaves in the game, and what of it hits a player. *)
Flying(delta) ==
    {id \in DOMAIN projectiles :
        LET j == Updated(projectiles[id], delta) IN ~IsOutOfBounds(j) /\ ~IsExpired(j)}

Hitting(delta) == {id \in Flying(delta) : Touched(Updated(projectiles[id], delta)) # {}}

(* updateSimulation: all hits are found before the first is registered. *)
Tick(delta) ==
    LET hitting == Hitting(delta) IN
    /\ UNCHANGED shots
    /\ projectiles' = [id \in Flying(delta) \ hitting |-> Updated(projectiles[id], delta)]
    /\ players' = [p \in Player |->
          AfterHits(players[p],
              Cardinality({id \in hitting : HitPlayer(Updated(projectiles[id], delta)) = p}))]

-----------------------------------------------------------------------------
ArenaNext ==
    \/ \E p \in Player, place \in Places, facing \in Facings : Shoot(p, place, facing)
    \/ \E p \in Player, place \in Places : Move(p, place)
    \/ \E delta \in 1 .. MaxDelta : Tick(delta)

ArenaSpec == ArenaInit /\ [][ArenaNext]_arenaVars

-----------------------------------------------------------------------------
(* A shot along one axis has the player in its way. *)
InTheWay(j, player, a) ==
    /\ j.velocity[a] # 0
    /\ \A b \in Axis \ {a} : j.velocity[b] = 0 /\ Overlap(j, player, b)
    /\ IF j.velocity[a] > 0
       THEN Pixel(j.position[a]) + Size <= Pixel(player.position[a])
       ELSE Pixel(player.position[a]) + Width <= Pixel(j.position[a])

(* A tick is not so long that a shot flies over a player and its own length, less
   a pixel.  Nothing in the code bounds a tick. *)
NotOver(delta) == Speed * delta <= SubPixels * (Width + Size - 1)

(* A tick that long loses no shot along one axis that has a player in its way: it
   keeps the player in its way, or it hits that player or another.  It does not
   jump over the player, is not out of bounds before it gets to one at the edge,
   and does not expire. *)
ShotArrives(delta) ==
    LET hitting == Hitting(delta) IN
    \A id \in DOMAIN projectiles, p \in Player, a \in Axis :
        p # projectiles[id].owner /\ InTheWay(projectiles[id], players[p], a) =>
            \/ id \in hitting
            \/ id \in DOMAIN projectiles' /\ InTheWay(projectiles'[id], players[p], a)

AimedShotsArrive ==
    [][\A delta \in 1 .. MaxDelta : NotOver(delta) /\ Tick(delta) => ShotArrives(delta)]_arenaVars

(* The first n shots of p have the identifiers createProjectile means for p. *)
InRange(p, n) == n <= IDFactor /\ (p + 1) * IDFactor <= IDModulus

(* Every shot becomes a projectile of the game, unless the identifier is that of
   a projectile of another player, one of the two having run out of its range:
   emplace then drops the shot. *)
ShotsKept ==
    [][\A p \in Player : shots'[p] # shots[p] /\ NextID(p) \in DOMAIN projectiles =>
          LET q == projectiles[NextID(p)].owner
          IN q # p /\ ~(InRange(p, shots'[p]) /\ InRange(q, shots[q]))]_arenaVars
=============================================================================
