-------------------------- MODULE Simulation_proofs --------------------------
(* Theorems about the parts of a GameSimulation, for every window, speed, step,
   health, number of players, of shots and of respawns: the local player of a
   client, the projectiles and players of the server, and where one player is in
   all three copies; about the time that they are given to live through; and
   about the pings a client shows.  At the end, that what TLC runs, the first three
   in one module and the clocks in another, is each of them. *)
EXTENDS MCSimulation, MCClocks, SequenceTheorems, Recursion_proofs

(* Arena *)

-----------------------------------------------------------------------------
(* Arithmetic *)

LEMMA Distributes ==
    ASSUME NEW a \in Int, NEW b \in Int, NEW c \in Int
    PROVE  a * (b + c) = a * b + a * c /\ a * (b - c) = a * b - a * c
           /\ a * b \in Int /\ a * (-b) = -(a * b) /\ (-a) * b = -(a * b)
OBVIOUS

LEMMA ProductGrows ==
    ASSUME NEW s \in Nat, NEW a \in Int, NEW b \in Int, a <= b
    PROVE  s * a <= s * b /\ s * a \in Int /\ s * b \in Int
<1>1. (b - a) \in Nat
  OBVIOUS
<1>2. s * (b - a) >= 0
  BY <1>1
<1>3. s * (b - a) = s * b - s * a
  BY Distributes
<1> QED BY <1>2, <1>3

LEMMA ProductCancels ==
    ASSUME NEW s \in Nat \ {0}, NEW a \in Int, NEW b \in Int, s * a < s * b
    PROVE  a < b
<1>1. ASSUME b <= a PROVE FALSE
  <2>1. s * b <= s * a
    BY <1>1, ProductGrows
  <2> QED BY <2>1, ProductGrows
<1> QED BY <1>1

(* Division with remainder, and that there is only one. *)
LEMMA Division ==
    ASSUME NEW x \in Int, NEW m \in Nat \ {0}
    PROVE  x \div m \in Int /\ x % m \in 0 .. m - 1 /\ x = m * (x \div m) + (x % m)
<1>1. x \div m \in Int
  OBVIOUS
<1>2. x % m \in 0 .. m - 1
  OBVIOUS
<1>3. x = m * (x \div m) + (x % m)
  OBVIOUS
<1> QED BY <1>1, <1>2, <1>3

LEMMA DivisionUnique ==
    ASSUME NEW m \in Nat \ {0}, NEW q \in Int, NEW r \in 0 .. m - 1, NEW x \in Int, x = m * q + r
    PROVE  x \div m = q /\ x % m = r
<1> DEFINE d == x \div m
           e == x % m
<1>1. d \in Int /\ e \in 0 .. m - 1 /\ x = m * d + e
  BY Division
<1> HIDE DEF d, e
<1>2. m * d \in Int /\ m * q \in Int
  BY <1>1
<1>3. ASSUME d < q PROVE FALSE
  <2>1. m * (d + 1) <= m * q
    BY <1>1, <1>3, ProductGrows
  <2>2. m * (d + 1) = m * d + m
    BY <1>1
  <2> QED BY <1>1, <1>2, <2>1, <2>2
<1>4. ASSUME q < d PROVE FALSE
  <2>1. m * (q + 1) <= m * d
    BY <1>1, <1>4, ProductGrows
  <2>2. m * (q + 1) = m * q + m
    BY <1>1
  <2> QED BY <1>1, <1>2, <2>1, <2>2
<1>5. d = q
  BY <1>1, <1>3, <1>4
<1>6. e = r
  BY <1>1, <1>2, <1>5
<1> QED BY <1>5, <1>6 DEF d, e

(* What static_cast<int> makes of a position: the pixel it is in, from the side
   of zero. *)
LEMMA PixelBounds ==
    ASSUME SizeAssumption, NEW x \in Int
    PROVE  /\ Pixel(x) \in Int
           /\ x >= 0 => /\ Pixel(x) >= 0
                        /\ SubPixels * Pixel(x) <= x
                        /\ x < SubPixels * (Pixel(x) + 1)
           /\ x < 0 =>  /\ Pixel(x) <= 0
                        /\ x <= SubPixels * Pixel(x)
                        /\ SubPixels * (Pixel(x) - 1) < x
<1> DEFINE s == SubPixels
<1>0. s \in Nat \ {0}
  BY WindowAssumption DEF SizeAssumption
<1> HIDE DEF s
<1>1. ASSUME NEW y \in Nat
      PROVE  /\ y \div s \in Nat /\ s * (y \div s) <= y /\ y < s * ((y \div s) + 1)
  <2> DEFINE q == y \div s
  <2>1. q \in Int /\ s * q <= y /\ y < s * q + s
    BY <1>0
  <2> HIDE DEF q
  <2>2. s * (q + 1) = s * q + s
    BY <1>0, <2>1
  <2>3. q >= 0
    <3>1. s * 0 < s * (q + 1)
      BY <1>0, <2>1, <2>2
    <3> QED BY <1>0, <2>1, <3>1, ProductCancels
  <2>4. q \in Nat /\ s * q <= y /\ y < s * (q + 1)
    BY <2>1, <2>2, <2>3
  <2> QED BY <2>4 DEF q
<1>2. CASE x >= 0
  <2>1. Pixel(x) = x \div s
    BY <1>2 DEF Pixel, s
  <2>2. x \in Nat
    BY <1>2
  <2>3. SubPixels = s
    BY DEF s
  <2> QED BY <1>1, <1>2, <2>1, <2>2, <2>3
<1>3. CASE x < 0
  <2> DEFINE r == (-x) \div s
  <2>1. Pixel(x) = -r
    BY <1>3 DEF Pixel, s
  <2>2. -x \in Nat
    BY <1>3
  <2>3. r \in Nat /\ s * r <= -x /\ -x < s * (r + 1)
    BY <1>1, <2>2
  <2> HIDE DEF r
  <2>4. s * (-r) = -(s * r) /\ s * (-r - 1) = -(s * (r + 1))
    <3>1. s * (-r) = -(s * r)
      BY <1>0, <2>3, Distributes
    <3>2. -r - 1 = -(r + 1)
      BY <2>3
    <3>3. s * (-(r + 1)) = -(s * (r + 1))
      BY <1>0, <2>3, Distributes
    <3> QED BY <3>1, <3>2, <3>3
  <2>5. s * r \in Int /\ s * (r + 1) \in Int
    BY <1>0, <2>3, Distributes
  <2>6. x <= s * (-r) /\ s * (-r - 1) < x
    BY <2>3, <2>4, <2>5
  <2>7. SubPixels = s
    BY DEF s
  <2> QED BY <1>3, <2>1, <2>3, <2>6, <2>7
<1> QED BY <1>2, <1>3

(* Less than a pixel outside the left or upper edge is still the first pixel. *)
LEMMA PixelAtEdge ==
    ASSUME SizeAssumption, NEW x \in Int, -SubPixels < x
    PROVE  0 <= Pixel(x) /\ x < SubPixels * (Pixel(x) + 1)
<1>0. SubPixels \in Nat \ {0}
  BY WindowAssumption DEF SizeAssumption
<1>1. CASE x >= 0
  BY <1>1, PixelBounds
<1>2. CASE x < 0
  <2> DEFINE p == Pixel(x)
  <2>1. p \in Int /\ p <= 0 /\ x <= SubPixels * p
    BY <1>2, PixelBounds
  <2> HIDE DEF p
  <2>2. SubPixels * (-1) = -SubPixels /\ SubPixels * p \in Int
    BY <1>0, <2>1, Distributes
  <2>3. -1 < p
    BY <1>0, <2>1, <2>2, ProductCancels
  <2>4. p = 0
    BY <2>1, <2>3
  <2> QED BY <1>0, <1>2, <2>4 DEF p
<1> QED BY <1>1, <1>2

(* The other way round: the place is less than a pixel outside. *)
LEMMA EdgeOfPixel ==
    ASSUME SizeAssumption, NEW x \in Int, 0 <= Pixel(x)
    PROVE  -SubPixels < x
<1>0. SubPixels \in Nat \ {0}
  BY WindowAssumption DEF SizeAssumption
<1>1. CASE x >= 0
  BY <1>0, <1>1
<1>2. CASE x < 0
  <2> DEFINE p == Pixel(x)
  <2>1. p \in Int /\ p <= 0 /\ SubPixels * (p - 1) < x /\ 0 <= p
    BY <1>2, PixelBounds
  <2> HIDE DEF p
  <2>2. p = 0
    BY <2>1
  <2> QED BY <1>0, <2>1, <2>2
<1> QED BY <1>1, <1>2

(* Moving up by at most k pixels' worth does not take one further than k pixels,
   from a place inside the left and upper edges or less than a pixel outside. *)
LEMMA PixelUp ==
    ASSUME SizeAssumption, NEW x \in Int, NEW y \in Int, NEW k \in Nat,
           -SubPixels < x, y <= x + SubPixels * k
    PROVE  Pixel(y) <= Pixel(x) + k
<1>0. SubPixels \in Nat \ {0}
  BY WindowAssumption DEF SizeAssumption
<1> DEFINE p == Pixel(x)
           q == Pixel(y)
<1>1. /\ p \in Int /\ q \in Int /\ 0 <= p /\ x < SubPixels * (p + 1)
      /\ y < 0 => q <= 0
      /\ y >= 0 => SubPixels * q <= y
  BY PixelBounds, PixelAtEdge
<1> HIDE DEF p, q
<1>2. SubPixels * ((p + 1) + k) = SubPixels * (p + 1) + SubPixels * k
  BY <1>0, <1>1, Distributes
<1>3. SubPixels * (p + 1) \in Int /\ SubPixels * k \in Int /\ SubPixels * q \in Int
  BY <1>0, <1>1, Distributes
<1>4. CASE y < 0
  BY <1>1, <1>4 DEF p, q
<1>5. CASE y >= 0
  <2>1. SubPixels * q < SubPixels * ((p + 1) + k)
    BY <1>1, <1>2, <1>3, <1>5
  <2>2. q < (p + 1) + k
    BY <1>0, <1>1, <2>1, ProductCancels
  <2> QED BY <1>1, <2>2 DEF p, q
<1> QED BY <1>4, <1>5

LEMMA PixelDown ==
    ASSUME SizeAssumption, NEW x \in Int, NEW y \in Int, NEW k \in Int,
           0 <= x, x - SubPixels * k <= y
    PROVE  Pixel(x) - k <= Pixel(y)
<1>0. SubPixels \in Nat \ {0}
  BY WindowAssumption DEF SizeAssumption
<1> DEFINE p == Pixel(x)
           q == Pixel(y)
<1>1. p \in Int /\ q \in Int /\ SubPixels * p <= x /\ y < SubPixels * (q + 1)
  <2>1. SubPixels * q + SubPixels = SubPixels * (q + 1)
    BY <1>0, PixelBounds
  <2>2. SubPixels * q \in Int
    BY <1>0, PixelBounds, Distributes
  <2>3. y < 0 => y <= SubPixels * q
    BY PixelBounds
  <2>4. y < SubPixels * (q + 1)
    <3>1. CASE y >= 0
      BY <3>1, PixelBounds
    <3>2. CASE y < 0
      <4> HIDE DEF q
      <4> QED BY <1>0, <3>2, <2>1, <2>2, <2>3
    <3> QED BY <3>1, <3>2
  <2> QED BY <2>4, PixelBounds
<1> HIDE DEF p, q
<1>2. SubPixels * ((q + 1) + k) = SubPixels * (q + 1) + SubPixels * k
  BY <1>0, <1>1, Distributes
<1>3. SubPixels * (q + 1) \in Int /\ SubPixels * k \in Int /\ SubPixels * p \in Int
  BY <1>0, <1>1, Distributes
<1>4. SubPixels * p < SubPixels * ((q + 1) + k)
  BY <1>1, <1>2, <1>3
<1>5. p < (q + 1) + k
  BY <1>0, <1>1, <1>4, ProductCancels
<1> QED BY <1>1, <1>5 DEF p, q

-----------------------------------------------------------------------------
(* Places and hits *)

LEMMA Windows ==
    ASSUME SizeAssumption, NEW a \in Axis
    PROVE  /\ WindowOf(a) \in Nat /\ WindowOf(a) - Width \in Nat
           /\ SubPixels * (WindowOf(a) - Width) \in Nat
<1>1. WindowOf(a) \in Nat /\ WindowOf(a) - Width \in Nat
  BY WindowAssumption DEF SizeAssumption, WindowOf, Axis
<1>2. SubPixels \in Nat
  BY WindowAssumption DEF SizeAssumption
<1> DEFINE d == WindowOf(a) - Width
<1>3. SubPixels * d \in Nat
  <2>1. d \in Nat
    BY <1>1
  <2> HIDE DEF d
  <2> QED BY <1>2, <2>1
<1> QED BY <1>1, <1>3

(* Whoever respawns is inside the window. *)
LEMMA SpawnInWindow ==
    ASSUME SizeAssumption
    PROVE  SpawnPosition \in Position /\ InWindow(SpawnPosition)
<1> SUFFICES ASSUME NEW a \in Axis
             PROVE  /\ SpawnPosition[a] \in Int
                    /\ 0 <= Pixel(SpawnPosition[a])
                    /\ Pixel(SpawnPosition[a]) + Width <= WindowOf(a)
  BY DEF InWindow, SpawnPosition, Position
<1> DEFINE k == WindowOf(a) - Width
           d == SubPixels * k
           x == SpawnPosition[a]
<1>0. SubPixels \in Nat \ {0} /\ Width \in Nat
  BY WindowAssumption DEF SizeAssumption
<1>1. d \in Nat /\ k \in Nat /\ WindowOf(a) \in Nat
  BY Windows
<1>2. x = d \div 2
  BY DEF SpawnPosition
<1> HIDE DEF d, x
<1>3. x \in Int /\ 0 <= x /\ x <= d
  BY <1>1, <1>2
<1> DEFINE q == Pixel(x)
<1>4. q \in Int /\ 0 <= q /\ SubPixels * q <= x
  BY <1>3, PixelBounds
<1> HIDE DEF q
<1>5. q <= k
  <2> HIDE DEF k
  <2>1. SubPixels * (k + 1) = SubPixels * k + SubPixels * 1 /\ SubPixels * k \in Int /\ SubPixels * q \in Int
    BY <1>0, <1>1, <1>4, Distributes
  <2>2. SubPixels * q < SubPixels * (k + 1)
    BY <1>0, <1>3, <1>4, <2>1 DEF d
  <2>3. q < k + 1
    BY <1>0, <1>1, <1>4, <2>2, ProductCancels
  <2> QED BY <1>1, <1>4, <2>3
<1>6. q + Width <= WindowOf(a)
  BY <1>0, <1>1, <1>4, <1>5
<1> QED BY <1>3, <1>4, <1>6 DEF q, x

PlayerState == [position : Position, health : 1 .. MaxHealth]
InPlace(player) == player \in PlayerState /\ InWindow(player.position)

LEMMA RegisterHitInPlace ==
    ASSUME SizeAssumption, NEW player, InPlace(player)
    PROVE  InPlace(RegisterHit(player))
<1>1. MaxHealth \in Nat \ {0} /\ Damage \in Nat \ {0}
  BY WindowAssumption DEF SizeAssumption
<1>2. CASE player.health <= Damage
  BY <1>1, <1>2, SpawnInWindow DEF RegisterHit, InPlace, PlayerState
<1>3. CASE ~(player.health <= Damage)
  <2>1. RegisterHit(player) = [player EXCEPT !.health = @ - Damage]
    BY <1>3 DEF RegisterHit
  <2>2. player.health \in 1 .. MaxHealth
    BY DEF InPlace, PlayerState
  <2>3. player.health - Damage \in 1 .. MaxHealth
    BY <1>1, <1>3, <2>2
  <2> QED BY <2>1, <2>3 DEF InPlace, PlayerState
<1> QED BY <1>2, <1>3

(* However many hits of a tick are on one player, it is left in the window with
   health: a player that respawns in the middle of them takes the others with what
   it has then. *)
LEMMA AfterHitsInPlace ==
    ASSUME SizeAssumption, NEW player, InPlace(player), NEW n \in Nat
    PROVE  InPlace(AfterHits(player, n))
<1> DEFINE V == {q \in PlayerState : InPlace(q)}
           G(f, k) == IF k = 0 THEN player ELSE RegisterHit(f[k - 1])
           Is(f) == f = [k \in 0 .. n |-> G(f, k)]
           after == CHOOSE f : Is(f)
           hit == [q \in V |-> RegisterHit(q)]
           step == [k \in 1 .. n |-> hit]
<1>1. AfterHits(player, n) = after[n]
  BY DEF AfterHits
<1>2. player \in V /\ \A q \in V : RegisterHit(q) \in V /\ hit[q] = RegisterHit(q)
  BY RegisterHitInPlace DEF InPlace
<1>3. hit \in [V -> V]
  BY <1>2
<1> HIDE DEF V, hit
<1>4. \E f : Is(f)
  <2>1. step \in [1 .. n -> [V -> V]]
    BY <1>3
  <2> HIDE DEF step
  <2>2. PICK f : Runs(f, n, player, step) /\ \A k \in 0 .. n : f[k] \in V
    BY <1>2, <2>1, LoopExists
  <2>3. ASSUME NEW k \in 0 .. n
        PROVE  (IF k = 0 THEN player ELSE step[k][f[k - 1]]) = G(f, k)
    <3>1. CASE k = 0
      BY <3>1
    <3>2. CASE k # 0
      <4>1. step[k] = hit /\ f[k - 1] \in V
        BY <2>2, <3>2 DEF step
      <4> QED BY <1>2, <3>2, <4>1
    <3> QED BY <3>1, <3>2
  <2>4. f = [k \in 0 .. n |-> IF k = 0 THEN player ELSE step[k][f[k - 1]]]
    BY <2>2 DEF Runs
  <2>5. Is(f)
    <3> HIDE DEF G
    <3> QED BY <2>3, <2>4
  <2> QED BY <2>5
<1>5. Is(after)
  <2> HIDE DEF Is
  <2> QED BY <1>4
<1> HIDE DEF after
<1>6. after[0] \in V
  BY <1>2, <1>5
<1>7. ASSUME NEW k \in 1 .. n, after[k - 1] \in V PROVE after[k] \in V
  <2>1. after[k] = RegisterHit(after[k - 1])
    BY <1>5
  <2> QED BY <1>2, <1>7, <2>1
<1>8. \A k \in 0 .. n : after[k] \in V
  BY <1>6, <1>7, KeptThroughout
<1> QED BY <1>1, <1>8 DEF V

-----------------------------------------------------------------------------
(* The inductive invariant *)

(* A projectile that flies along one axis has come as far as its age says, from
   somewhere in the window, or less than a pixel outside it. *)
OnCourse(j) ==
    \A a \in Axis :
        j.velocity[a] # 0 /\ (\A b \in Axis \ {a} : j.velocity[b] = 0) =>
            \/ /\ j.velocity[a] = Speed
               /\ Speed * j.ageMs < j.position[a] + SubPixels
            \/ /\ j.velocity[a] = -Speed
               /\ j.position[a] + Speed * j.ageMs <= SubPixels * WindowOf(a)

ShotsRight == shots \in [Player -> 0 .. MaxShots]

PlayersRight ==
    players \in [Player -> PlayerState] /\ \A p \in Player : InWindow(players[p].position)

ProjectilesRight ==
    /\ IsFiniteSet(DOMAIN projectiles)
    /\ \A id \in DOMAIN projectiles : projectiles[id] \in Projectile /\ OnCourse(projectiles[id])

(* Every identifier is that of a shot its owner has fired. *)
IDsFired ==
    \A id \in DOMAIN projectiles :
        \E n \in Nat : /\ n < shots[projectiles[id].owner]
                      /\ id = ProjectileID(projectiles[id].owner, n)

ArenaInv == ShotsRight /\ PlayersRight /\ ProjectilesRight

LEMMA ArenaInvInit == ASSUME SizeAssumption, IDAssumption, ArenaInit PROVE ArenaInv /\ IDsFired
<1>1. ShotsRight
  BY DEF ArenaInit, ShotsRight, IDAssumption
<1>2. PlayersRight
  <2>1. MaxHealth \in 1 .. MaxHealth
    BY WindowAssumption DEF SizeAssumption
  <2> QED BY <2>1, SpawnInWindow DEF ArenaInit, PlayersRight, PlayerState
<1>3. ProjectilesRight /\ IDsFired
  <2>1. DOMAIN projectiles = {}
    BY DEF ArenaInit
  <2> QED BY <2>1, FS_EmptySet DEF ProjectilesRight, IDsFired
<1> QED BY <1>1, <1>2, <1>3 DEF ArenaInv

(* A shot begins inside its player, which is inside the window. *)
LEMMA CreatedRight ==
    ASSUME SizeAssumption, NEW p \in Player, NEW place \in Places, NEW facing \in Facings
    PROVE  /\ CreateProjectile(p, place, facing) \in Projectile
           /\ OnCourse(CreateProjectile(p, place, facing))
<1> DEFINE j == CreateProjectile(p, place, facing)
           margin == (SubPixels * (Width - Size)) \div 2
<1>1. place \in [Axis -> Int] /\ InWindow(place) /\ facing \in [Axis -> {-1, 0, 1}]
  BY WindowAssumption DEF SizeAssumption
<1>2. Speed \in Nat \ {0} /\ DiagonalSpeed \in Nat /\ SubPixels \in Nat \ {0}
      /\ Width \in Nat \ {0} /\ Size \in Nat \ {0} /\ Size <= Width
  BY WindowAssumption DEF SizeAssumption
<1>3. margin \in Nat /\ margin <= SubPixels * (Width - 1)
  <2> DEFINE d == SubPixels * (Width - Size)
  <2>1. d \in Nat /\ d <= SubPixels * (Width - 1) /\ SubPixels * (Width - 1) \in Int
    <3>1. Width - Size \in Int /\ Width - 1 \in Int /\ 0 <= Width - Size /\ Width - Size <= Width - 1
      BY <1>2
    <3>2. /\ SubPixels * 0 <= SubPixels * (Width - Size)
          /\ SubPixels * (Width - Size) <= SubPixels * (Width - 1)
          /\ SubPixels * (Width - Size) \in Int /\ SubPixels * (Width - 1) \in Int
      BY <1>2, <3>1, ProductGrows
    <3> QED BY <1>2, <3>2
  <2>2. margin = d \div 2
    OBVIOUS
  <2> HIDE DEF d, margin
  <2> QED BY <2>1, <2>2
<1> HIDE DEF margin
<1>4. /\ j.owner = p /\ j.ageMs = 0
      /\ j.position = [a \in Axis |-> place[a] + margin]
      /\ j.velocity = Velocity(facing)
      /\ j = [owner |-> p, position |-> j.position, velocity |-> j.velocity, ageMs |-> 0]
  BY DEF CreateProjectile, margin
<1> HIDE DEF j
<1>5. j.velocity \in [Axis -> Int]
  <2>1. ASSUME NEW s \in {-1, 0, 1}, NEW v \in Nat PROVE s * v \in Int
    OBVIOUS
  <2> QED BY <1>1, <1>2, <1>4, <2>1 DEF Velocity
<1>6. j.position \in [Axis -> Int]
  BY <1>1, <1>3, <1>4
<1>7. ASSUME NEW a \in Axis, j.velocity[a] # 0, \A b \in Axis \ {a} : j.velocity[b] = 0
      PROVE  \/ j.velocity[a] = Speed /\ Speed * j.ageMs < j.position[a] + SubPixels
             \/ j.velocity[a] = -Speed
                /\ j.position[a] + Speed * j.ageMs <= SubPixels * WindowOf(a)
  <2>1. PICK b \in Axis \ {a} : TRUE
    BY DEF Axis
  <2>2. facing[b] = 0
    <3>1. j.velocity[b] = 0
      BY <1>7
    <3>2. facing[b] \in {-1, 0, 1} /\ DiagonalSpeed # 0
      BY <1>1, WindowAssumption DEF SizeAssumption
    <3>3. ASSUME NEW v \in {Speed, DiagonalSpeed}, facing[b] * v = 0 PROVE facing[b] = 0
      BY <1>2, <3>2, <3>3
    <3>4. j.velocity[b] = facing[b] * (IF \A c \in Axis : facing[c] # 0 THEN DiagonalSpeed ELSE Speed)
      BY <1>4, <2>1 DEF Velocity
    <3> QED BY <3>1, <3>3, <3>4
  <2>3. j.velocity[a] = facing[a] * Speed
    BY <1>4, <2>1, <2>2 DEF Velocity
  <2>4. j.velocity[a] \in {Speed, -Speed}
    <3>1. facing[a] \in {-1, 0, 1}
      BY <1>1
    <3> QED BY <1>2, <1>7, <2>3, <3>1
  <2>5. -SubPixels < j.position[a] /\ j.position[a] <= SubPixels * WindowOf(a)
    <3> DEFINE x == place[a]
               q == Pixel(x)
               k == WindowOf(a) - Width
    <3>1. x \in Int /\ 0 <= q /\ q + Width <= WindowOf(a) /\ q \in Int /\ WindowOf(a) \in Nat
      BY <1>1, Windows, PixelBounds DEF InWindow
    <3>2. -SubPixels < x /\ x < SubPixels * (q + 1)
      BY <3>1, EdgeOfPixel, PixelAtEdge
    <3>3. j.position[a] = x + margin
      BY <1>4
    <3> HIDE DEF x, q
    <3>4. SubPixels * (q + 1) <= SubPixels * (k + 1) /\ SubPixels * (q + 1) \in Int
      BY <1>2, <3>1, ProductGrows
    <3>5. /\ SubPixels * (k + 1) = SubPixels * WindowOf(a) - SubPixels * (Width - 1)
          /\ SubPixels * (k + 1) \in Int
          /\ SubPixels * WindowOf(a) \in Int /\ SubPixels * (Width - 1) \in Int
      <4>1. k + 1 = WindowOf(a) - (Width - 1)
        BY <1>2, <3>1
      <4>2. Width - 1 \in Int /\ WindowOf(a) \in Int
        BY <1>2, <3>1
      <4> HIDE DEF k
      <4> QED BY <1>2, <4>1, <4>2, Distributes
    <3> HIDE DEF k
    <3>6. x + margin <= SubPixels * WindowOf(a)
      BY <1>3, <3>1, <3>2, <3>4, <3>5
    <3> QED BY <1>2, <1>3, <3>1, <3>2, <3>3, <3>6
  <2>6. Speed * j.ageMs = 0 /\ j.position[a] + 0 = j.position[a]
    BY <1>2, <1>4, <1>6
  <2>7. Speed * j.ageMs < j.position[a] + SubPixels /\ j.position[a] + Speed * j.ageMs <= SubPixels * WindowOf(a)
    <3> DEFINE t == Speed * j.ageMs
               x == j.position[a]
    <3>1. t = 0 /\ x \in Int /\ -SubPixels < x /\ x <= SubPixels * WindowOf(a)
      BY <1>6, <2>5, <2>6
    <3> HIDE DEF t, x
    <3>2. t < x + SubPixels /\ x + t = x
      BY <1>2, <3>1
    <3>3. t < x + SubPixels /\ x + t <= SubPixels * WindowOf(a)
      BY <3>1, <3>2
    <3> QED BY <3>3 DEF t, x
  <2> QED BY <2>4, <2>7
<1>8. j \in Projectile
  BY <1>4, <1>5, <1>6 DEF Projectile, Position
<1> QED BY <1>7, <1>8 DEF OnCourse, j

(* A projectile flies on as it was. *)
LEMMA UpdatedRight ==
    ASSUME SizeAssumption, NEW j \in Projectile, NEW delta \in Nat
    PROVE  /\ Updated(j, delta) \in Projectile
           /\ Updated(j, delta).owner = j.owner
           /\ Updated(j, delta).velocity = j.velocity
           /\ Updated(j, delta).ageMs = j.ageMs + delta
           /\ \A a \in Axis : Updated(j, delta).position[a] = j.position[a] + j.velocity[a] * delta
           /\ OnCourse(j) => OnCourse(Updated(j, delta))
<1> DEFINE i == Updated(j, delta)
<1>1. j.position \in [Axis -> Int] /\ j.velocity \in [Axis -> Int] /\ j.ageMs \in Nat
  BY DEF Projectile, Position
<1>2. /\ i.owner = j.owner /\ i.velocity = j.velocity /\ i.ageMs = j.ageMs + delta
      /\ i.position = [a \in Axis |-> j.position[a] + j.velocity[a] * delta]
      /\ i = [j EXCEPT !.position = i.position, !.ageMs = i.ageMs]
  BY DEF Updated, Projectile
<1> HIDE DEF i
<1>3. i.position \in [Axis -> Int]
  <2>1. ASSUME NEW a \in Axis PROVE j.position[a] + j.velocity[a] * delta \in Int
    <3>1. j.velocity[a] \in Int /\ j.position[a] \in Int
      BY <1>1
    <3>2. j.velocity[a] * delta \in Int
      BY <3>1, Distributes
    <3> QED BY <3>1, <3>2
  <2> QED BY <1>2, <2>1
<1>4. i \in Projectile
  <2>1. j.owner \in Player /\ i.ageMs \in Nat
    BY <1>1, <1>2 DEF Projectile
  <2>2. i = [owner |-> j.owner, position |-> i.position, velocity |-> j.velocity, ageMs |-> i.ageMs]
    BY <1>2 DEF Projectile
  <2> QED BY <1>1, <1>3, <2>1, <2>2 DEF Projectile, Position
<1>5. ASSUME OnCourse(j) PROVE OnCourse(i)
  <2> SUFFICES ASSUME NEW a \in Axis, j.velocity[a] # 0,
                      \A b \in Axis \ {a} : j.velocity[b] = 0
               PROVE  \/ j.velocity[a] = Speed /\ Speed * i.ageMs < i.position[a] + SubPixels
                      \/ j.velocity[a] = -Speed
                         /\ i.position[a] + Speed * i.ageMs <= SubPixels * WindowOf(a)
    BY <1>2 DEF OnCourse
  <2>1. Speed \in Nat /\ SubPixels \in Nat /\ SubPixels * WindowOf(a) \in Int
    BY Windows, Distributes, WindowAssumption DEF SizeAssumption
  <2>2. /\ Speed * i.ageMs = Speed * j.ageMs + Speed * delta
        /\ (-Speed) * delta = -(Speed * delta)
        /\ Speed * j.ageMs \in Int /\ Speed * delta \in Int
    <3>1. Speed \in Int /\ j.ageMs \in Int /\ delta \in Int
      BY <1>1, <2>1
    <3>2. Speed * (j.ageMs + delta) = Speed * j.ageMs + Speed * delta
      BY <3>1, Distributes
    <3>3. (-Speed) * delta = -(Speed * delta) /\ Speed * j.ageMs \in Int /\ Speed * delta \in Int
      BY <3>1, Distributes
    <3> QED BY <1>2, <3>2, <3>3
  <2>3. i.position[a] = j.position[a] + j.velocity[a] * delta /\ j.position[a] \in Int
    BY <1>1, <1>2
  <2>4. \/ j.velocity[a] = Speed /\ Speed * j.ageMs < j.position[a] + SubPixels
        \/ j.velocity[a] = -Speed /\ j.position[a] + Speed * j.ageMs <= SubPixels * WindowOf(a)
    BY <1>5 DEF OnCourse
  <2>5. CASE j.velocity[a] = Speed /\ Speed * j.ageMs < j.position[a] + SubPixels
    BY <2>1, <2>2, <2>3, <2>5
  <2>6. CASE j.velocity[a] = -Speed /\ j.position[a] + Speed * j.ageMs <= SubPixels * WindowOf(a)
    BY <2>1, <2>2, <2>3, <2>6
  <2> QED BY <2>4, <2>5, <2>6
<1> QED BY <1>2, <1>4, <1>5 DEF i

LEMMA ShootRight ==
    ASSUME SizeAssumption, IDAssumption, ArenaInv,
           NEW p \in Player, NEW place \in Places, NEW facing \in Facings, Shoot(p, place, facing)
    PROVE  ArenaInv'
<1> DEFINE j == CreateProjectile(p, place, facing)
           id == NextID(p)
<1>1. projectiles' = [i \in DOMAIN projectiles \cup {id} |->
                         IF i \in DOMAIN projectiles THEN projectiles[i] ELSE j]
  BY DEF Shoot, AddProjectile
<1>2. shots' = [shots EXCEPT ![p] = @ + 1] /\ shots[p] < MaxShots /\ UNCHANGED players
  BY DEF Shoot
<1>3. j \in Projectile /\ OnCourse(j)
  BY CreatedRight
<1>4. IsFiniteSet(DOMAIN projectiles')
  <2>1. DOMAIN projectiles' = DOMAIN projectiles \cup {id}
    BY <1>1
  <2> QED BY <2>1, FS_AddElement DEF ArenaInv, ProjectilesRight
<1>5. ASSUME NEW i \in DOMAIN projectiles'
      PROVE  projectiles'[i] \in Projectile /\ OnCourse(projectiles'[i])
  <2> HIDE DEF j, id
  <2>1. CASE i \in DOMAIN projectiles
    <3>1. projectiles'[i] = projectiles[i]
      BY <1>1, <2>1
    <3> QED BY <2>1, <3>1 DEF ArenaInv, ProjectilesRight
  <2>2. CASE i \notin DOMAIN projectiles
    <3>1. projectiles'[i] = j
      BY <1>1, <1>5, <2>2
    <3> QED BY <1>3, <3>1
  <2> QED BY <2>1, <2>2
<1>6. ShotsRight'
  BY <1>2 DEF ShotsRight, ArenaInv, IDAssumption
<1> QED BY <1>2, <1>4, <1>5, <1>6 DEF ArenaInv, PlayersRight, ProjectilesRight

LEMMA MoveRight ==
    ASSUME SizeAssumption, ArenaInv, NEW p \in Player, NEW place \in Places, Move(p, place)
    PROVE  ArenaInv'
<1>1. place \in Position /\ InWindow(place)
  BY WindowAssumption DEF SizeAssumption, Position
<1>2. players' = [players EXCEPT ![p].position = place] /\ UNCHANGED <<projectiles, shots>>
  BY DEF Move
<1>3. PlayersRight'
  BY <1>1, <1>2 DEF PlayersRight, PlayerState, ArenaInv
<1> QED BY <1>2, <1>3 DEF ArenaInv, ShotsRight, ProjectilesRight

LEMMA TickRight ==
    ASSUME SizeAssumption, ArenaInv, NEW delta \in 1 .. MaxDelta, Tick(delta)
    PROVE  ArenaInv'
<1>0. MaxDelta \in Nat /\ delta \in Nat
  BY WindowAssumption DEF SizeAssumption
<1> DEFINE hits(p) == {id \in Hitting(delta) : HitPlayer(Updated(projectiles[id], delta)) = p}
<1>1. /\ projectiles' = [id \in Flying(delta) \ Hitting(delta) |-> Updated(projectiles[id], delta)]
      /\ players' = [p \in Player |-> AfterHits(players[p], Cardinality(hits(p)))]
      /\ UNCHANGED shots
  BY DEF Tick
<1>2. Hitting(delta) \subseteq DOMAIN projectiles /\ Flying(delta) \subseteq DOMAIN projectiles
  BY DEF Hitting, Flying
<1>3. ProjectilesRight'
  <2>1. IsFiniteSet(DOMAIN projectiles')
    <3>1. DOMAIN projectiles' \subseteq DOMAIN projectiles
      BY <1>1, <1>2
    <3> QED BY <3>1, FS_Subset DEF ArenaInv, ProjectilesRight
  <2>2. ASSUME NEW id \in DOMAIN projectiles'
        PROVE  projectiles'[id] \in Projectile /\ OnCourse(projectiles'[id])
    <3>1. id \in DOMAIN projectiles /\ projectiles'[id] = Updated(projectiles[id], delta)
      BY <1>1, <1>2, <2>2
    <3> QED BY <1>0, <3>1, UpdatedRight DEF ArenaInv, ProjectilesRight
  <2> QED BY <2>1, <2>2 DEF ProjectilesRight
<1>4. PlayersRight'
  <2>1. ASSUME NEW p \in Player PROVE InPlace(players'[p])
    <3>1. Cardinality(hits(p)) \in Nat
      <4>1. hits(p) \subseteq DOMAIN projectiles
        BY <1>2
      <4> QED BY <4>1, FS_Subset, FS_CardinalityType DEF ArenaInv, ProjectilesRight
    <3>2. InPlace(players[p])
      BY DEF ArenaInv, PlayersRight, InPlace
    <3>3. players'[p] = AfterHits(players[p], Cardinality(hits(p)))
      BY <1>1
    <3> HIDE DEF hits
    <3> QED BY <3>1, <3>2, <3>3, AfterHitsInPlace
  <2>2. players' = [p \in Player |-> players'[p]]
    BY <1>1
  <2> QED BY <2>1, <2>2 DEF PlayersRight, InPlace
<1> QED BY <1>1, <1>3, <1>4 DEF ArenaInv, ShotsRight

LEMMA ArenaInvNext == ASSUME SizeAssumption, IDAssumption, ArenaInv, [ArenaNext]_arenaVars PROVE ArenaInv'
<1>1. CASE \E p \in Player, place \in Places, facing \in Facings : Shoot(p, place, facing)
  BY <1>1, ShootRight
<1>2. CASE \E p \in Player, place \in Places : Move(p, place)
  BY <1>2, MoveRight
<1>3. CASE \E delta \in 1 .. MaxDelta : Tick(delta)
  BY <1>3, TickRight
<1>4. CASE UNCHANGED arenaVars
  BY <1>4 DEF arenaVars, ArenaInv, ShotsRight, PlayersRight, ProjectilesRight
<1> QED BY <1>1, <1>2, <1>3, <1>4 DEF ArenaNext

-----------------------------------------------------------------------------
(* Identifiers *)

(* The identifiers of a player's own shots differ, however they wrap around. *)
LEMMA OwnIDsDiffer ==
    ASSUME IDAssumption, NEW p \in Player, NEW m \in Nat, NEW n \in Nat, m < n, n < MaxShots
    PROVE  ProjectileID(p, m) # ProjectileID(p, n)
<1> DEFINE x == p * IDFactor + m
           y == p * IDFactor + n
           d == x \div IDModulus
           e == y \div IDModulus
<1>1. p \in Nat /\ IDFactor \in Nat /\ IDModulus \in Nat \ {0} /\ n < IDModulus
  BY DEF IDAssumption
<1>2. x \in Nat /\ y \in Nat /\ y - x = n - m
  <2>1. p * IDFactor \in Nat
    BY <1>1
  <2> QED BY <2>1
<1>3. ProjectileID(p, m) = x % IDModulus /\ ProjectileID(p, n) = y % IDModulus
  BY DEF ProjectileID
<1> HIDE DEF x, y
<1>4. /\ d \in Int /\ x % IDModulus \in 0 .. IDModulus - 1 /\ x = IDModulus * d + (x % IDModulus)
      /\ e \in Int /\ y % IDModulus \in 0 .. IDModulus - 1 /\ y = IDModulus * e + (y % IDModulus)
  BY <1>1, <1>2, Division
<1> HIDE DEF d, e
<1>5. SUFFICES ASSUME x % IDModulus = y % IDModulus PROVE FALSE
  BY <1>3
<1>6. IDModulus * (e - d) = IDModulus * e - IDModulus * d /\ IDModulus * e \in Int /\ IDModulus * d \in Int
  BY <1>1, <1>4, Distributes
<1>7. IDModulus * (e - d) = n - m
  BY <1>2, <1>4, <1>5, <1>6
<1>8. IDModulus * 0 < IDModulus * (e - d) /\ IDModulus * (e - d) < IDModulus * 1
  BY <1>1, <1>7
<1>9. 0 < e - d /\ e - d < 1
  BY <1>1, <1>4, <1>8, ProductCancels
<1> QED BY <1>4, <1>9

(* Nor are they those of another player, as long as neither has left its range. *)
LEMMA IDsDiffer ==
    ASSUME IDAssumption, NEW p \in Player, NEW q \in Player, p # q, NEW m \in Nat, NEW n \in Nat,
           NEW k \in Nat, NEW l \in Nat, m < k, n < l, InRange(p, k), InRange(q, l)
    PROVE  ProjectileID(p, m) # ProjectileID(q, n)
<1>1. p \in Nat /\ q \in Nat /\ IDFactor \in Nat /\ IDModulus \in Nat \ {0}
      /\ m < IDFactor /\ n < IDFactor
      /\ (p + 1) * IDFactor <= IDModulus /\ (q + 1) * IDFactor <= IDModulus
  BY DEF IDAssumption, InRange
<1>2. ASSUME NEW a \in Nat, NEW i \in Nat, i < IDFactor, (a + 1) * IDFactor <= IDModulus
      PROVE  a * IDFactor \in Nat /\ ProjectileID(a, i) = a * IDFactor + i
  <2> DEFINE id == a * IDFactor + i
  <2>1. (a + 1) * IDFactor = a * IDFactor + IDFactor /\ a * IDFactor \in Nat
    <3>1. IDFactor * (a + 1) = IDFactor * a + IDFactor * 1
      BY <1>1, <1>2, Distributes
    <3> QED BY <1>1, <1>2, <3>1
  <2>2. id \in 0 .. IDModulus - 1
    BY <1>1, <1>2, <2>1
  <2>3. ProjectileID(a, i) = id % IDModulus
    BY DEF ProjectileID
  <2> HIDE DEF id
  <2>4. id = IDModulus * 0 + id
    BY <1>1, <2>2
  <2>5. id % IDModulus = id
    BY <1>1, <2>2, <2>4, DivisionUnique
  <2> QED BY <2>1, <2>3, <2>5 DEF id
<1>3. /\ p * IDFactor \in Nat /\ ProjectileID(p, m) = p * IDFactor + m
      /\ q * IDFactor \in Nat /\ ProjectileID(q, n) = q * IDFactor + n
  BY <1>1, <1>2
<1>4. ASSUME NEW a \in Nat, NEW b \in Nat, a < b
      PROVE  a * IDFactor + IDFactor <= b * IDFactor
  <2>1. IDFactor * (a + 1) <= IDFactor * b
    BY <1>1, <1>4, ProductGrows
  <2>2. IDFactor * (a + 1) = a * IDFactor + IDFactor /\ IDFactor * b = b * IDFactor
    BY <1>1
  <2> QED BY <2>1, <2>2
<1>5. CASE p < q
  <2>1. p * IDFactor + IDFactor <= q * IDFactor
    BY <1>1, <1>4, <1>5
  <2> QED BY <1>1, <1>3, <2>1
<1>6. CASE q < p
  <2>1. q * IDFactor + IDFactor <= p * IDFactor
    BY <1>1, <1>4, <1>6
  <2> QED BY <1>1, <1>3, <2>1
<1> QED BY <1>1, <1>5, <1>6

LEMMA NextIDsFired ==
    ASSUME SizeAssumption, IDAssumption, ArenaInv, IDsFired, [ArenaNext]_arenaVars PROVE IDsFired'
<1>0. /\ shots \in [Player -> 0 .. MaxShots] /\ MaxShots \in Nat
      /\ \A id \in DOMAIN projectiles : projectiles[id] \in Projectile
  BY DEF ArenaInv, ShotsRight, ProjectilesRight, IDAssumption
<1>1. ASSUME NEW p \in Player, NEW place \in Places, NEW facing \in Facings, Shoot(p, place, facing)
      PROVE  IDsFired'
  <2> DEFINE j == CreateProjectile(p, place, facing)
  <2>1. /\ projectiles' = [i \in DOMAIN projectiles \cup {NextID(p)} |->
                              IF i \in DOMAIN projectiles THEN projectiles[i] ELSE j]
        /\ shots' = [shots EXCEPT ![p] = @ + 1] /\ shots[p] < MaxShots
    BY <1>1 DEF Shoot, AddProjectile
  <2>2. j.owner = p
    BY DEF CreateProjectile
  <2> HIDE DEF j
  <2>3. \A q \in Player : shots[q] <= shots'[q] /\ shots'[q] \in Nat /\ shots[q] \in Nat
    BY <1>0, <2>1
  <2>4. NextID(p) = ProjectileID(p, shots[p]) /\ shots[p] < shots'[p]
    BY <1>0, <2>1, <2>3 DEF NextID
  <2> SUFFICES ASSUME NEW id \in DOMAIN projectiles'
               PROVE  \E n \in Nat : /\ n < shots'[projectiles'[id].owner]
                                     /\ id = ProjectileID(projectiles'[id].owner, n)
    BY DEF IDsFired, ProjectileID
  <2>5. CASE id \in DOMAIN projectiles
    <3>1. projectiles'[id] = projectiles[id] /\ projectiles[id].owner \in Player
      BY <1>0, <2>1, <2>5 DEF Projectile
    <3>2. PICK n \in Nat : n < shots[projectiles[id].owner] /\ id = ProjectileID(projectiles[id].owner, n)
      BY <2>5 DEF IDsFired
    <3>3. n < shots'[projectiles[id].owner]
      BY <2>3, <3>1, <3>2
    <3> QED BY <3>1, <3>2, <3>3
  <2>6. CASE id \notin DOMAIN projectiles
    <3>1. id = NextID(p) /\ projectiles'[id] = j
      BY <2>1, <2>6
    <3> QED BY <2>2, <2>3, <2>4, <3>1
  <2> QED BY <2>5, <2>6
<1>2. CASE \E p \in Player, place \in Places : Move(p, place)
  BY <1>2 DEF Move, IDsFired, ProjectileID
<1>3. ASSUME NEW delta \in 1 .. MaxDelta, Tick(delta) PROVE IDsFired'
  <2>1. ASSUME NEW id \in DOMAIN projectiles'
        PROVE  id \in DOMAIN projectiles /\ projectiles'[id].owner = projectiles[id].owner
    <3>1. id \in DOMAIN projectiles /\ projectiles'[id] = Updated(projectiles[id], delta)
      BY <1>3, <2>1 DEF Tick, Flying
    <3>2. delta \in Nat
      BY WindowAssumption DEF SizeAssumption
    <3> QED BY <1>0, <3>1, <3>2, UpdatedRight
  <2>2. UNCHANGED shots
    BY <1>3 DEF Tick
  <2> QED BY <2>1, <2>2 DEF IDsFired, ProjectileID
<1>4. CASE UNCHANGED arenaVars
  BY <1>4 DEF arenaVars, IDsFired, ProjectileID
<1> QED BY <1>1, <1>2, <1>3, <1>4 DEF ArenaNext

(* Whose projectile it is that has the identifier of a shot already. *)
LEMMA ShotsMeet ==
    ASSUME IDAssumption, ArenaInv, IDsFired, [ArenaNext]_arenaVars,
           NEW p \in Player, shots'[p] # shots[p], NextID(p) \in DOMAIN projectiles,
           NEW q, q = projectiles[NextID(p)].owner
    PROVE  q # p /\ ~(InRange(p, shots'[p]) /\ InRange(q, shots[q]))
<1>1. PICK r \in Player, place \in Places, facing \in Facings : Shoot(r, place, facing)
  BY DEF ArenaNext, Move, Tick, arenaVars
<1>2. p = r /\ shots[p] < MaxShots /\ shots'[p] = shots[p] + 1
  BY <1>1 DEF Shoot, ArenaInv, ShotsRight
<1>3. PICK n \in Nat : n < shots[q] /\ NextID(p) = ProjectileID(q, n)
  BY DEF IDsFired
<1>4. q \in Player
  BY DEF ArenaInv, ProjectilesRight, Projectile
<1>5. shots[p] \in Nat /\ shots[q] \in Nat /\ MaxShots \in Nat /\ shots[q] <= MaxShots
  BY <1>4 DEF ArenaInv, ShotsRight, IDAssumption
<1>6. NextID(p) = ProjectileID(p, shots[p])
  BY DEF NextID
<1>7. q # p
  BY <1>2, <1>3, <1>5, <1>6, OwnIDsDiffer
<1>8. ~(InRange(p, shots'[p]) /\ InRange(q, shots[q]))
  <2> SUFFICES ASSUME InRange(p, shots'[p]), InRange(q, shots[q]) PROVE FALSE
    OBVIOUS
  <2>1. shots'[p] \in Nat /\ shots[p] < shots'[p]
    BY <1>2, <1>5
  <2> QED BY <1>3, <1>4, <1>5, <1>6, <1>7, <2>1, IDsDiffer
<1> QED BY <1>7, <1>8

-----------------------------------------------------------------------------
(* Shots that have a player in their way *)

(* Towards larger coordinates. *)
LEMMA FliesUp ==
    ASSUME SizeAssumption, FlightAssumption, NEW j \in Projectile, OnCourse(j),
           NEW player, InPlace(player), NEW a \in Axis, NEW delta \in 1 .. MaxDelta,
           NotOver(delta), InTheWay(j, player, a), j.velocity[a] = Speed
    PROVE  LET i == Updated(j, delta) IN
           /\ Pixel(i.position[a]) < Pixel(player.position[a]) + Width
           /\ Pixel(i.position[a]) + Size >= 0 /\ Pixel(i.position[a]) <= WindowOf(a)
           /\ ~IsExpired(i)
<1> DEFINE i == Updated(j, delta)
           x == j.position[a]
           y == i.position[a]
           z == player.position[a]
           reach == Width + Size - 1
<1>0. /\ Speed \in Nat \ {0} /\ Width \in Nat \ {0} /\ Size \in Nat \ {0} /\ SubPixels \in Nat \ {0}
      /\ MaxDelta \in Nat /\ delta \in Nat /\ delta <= MaxDelta /\ Lifetime \in Nat
  BY WindowAssumption DEF SizeAssumption
<1>1. x \in Int /\ z \in Int /\ j.ageMs \in Nat /\ WindowOf(a) \in Nat /\ WindowOf(a) - Width \in Nat
      /\ Pixel(z) + Width <= WindowOf(a)
  BY Windows DEF Projectile, Position, InPlace, PlayerState, InWindow
<1>2. y = x + Speed * delta /\ i.ageMs = j.ageMs + delta /\ i \in Projectile
  BY <1>0, UpdatedRight
<1>3. y \in Int
  BY <1>2 DEF Projectile, Position
<1>4. Speed * j.ageMs < x + SubPixels
  BY <1>0, <1>1 DEF OnCourse, InTheWay
<1>5. Pixel(x) + Size <= Pixel(z)
  BY <1>0 DEF InTheWay
<1>6. Speed * delta <= SubPixels * reach /\ Speed * delta \in Int /\ 0 <= Speed * delta
  <2>1. Speed * 0 <= Speed * delta /\ Speed * delta \in Int /\ Speed * 0 = 0
    BY <1>0, ProductGrows
  <2> QED BY <2>1 DEF NotOver
<1>7. -SubPixels < x
  <2>1. Speed * 0 <= Speed * j.ageMs /\ Speed * 0 = 0 /\ Speed * j.ageMs \in Int
    BY <1>0, <1>1, ProductGrows
  <2> QED BY <1>0, <1>1, <1>4, <2>1
<1>8. Pixel(y) <= Pixel(x) + reach
  <2>1. reach \in Nat /\ SubPixels * reach \in Int
    BY <1>0, Distributes
  <2>2. y <= x + SubPixels * reach
    <3> HIDE DEF reach, x, y
    <3> QED BY <1>1, <1>2, <1>3, <1>6, <2>1
  <2> HIDE DEF reach, x, y
  <2> QED BY <1>1, <1>3, <1>7, <2>1, <2>2, PixelUp
<1>9. -SubPixels < y
  <2> HIDE DEF x, y
  <2> QED BY <1>0, <1>1, <1>2, <1>3, <1>6, <1>7
<1>10. Pixel(x) \in Int /\ Pixel(y) \in Int /\ Pixel(z) \in Int /\ 0 <= Pixel(y)
       /\ y < SubPixels * (Pixel(y) + 1)
  <2> HIDE DEF x, y, z
  <2> QED BY <1>1, <1>3, <1>9, PixelBounds, PixelAtEdge
<1>11. Pixel(y) + 1 <= WindowOf(a) /\ Pixel(y) < Pixel(z) + Width
  <2> HIDE DEF x, y, z
  <2> QED BY <1>0, <1>1, <1>5, <1>8, <1>10
<1>12. ~IsExpired(i)
  <2>1. Speed * i.ageMs = Speed * j.ageMs + Speed * delta /\ Speed * j.ageMs \in Int
    BY <1>0, <1>1, <1>2, Distributes
  <2>2. Speed * i.ageMs < y + SubPixels
    <3> HIDE DEF x, y, i
    <3> QED BY <1>0, <1>1, <1>2, <1>3, <1>4, <1>6, <2>1
  <2>3. y + SubPixels < SubPixels * (WindowOf(a) + Size) /\ SubPixels * (WindowOf(a) + Size) \in Int
    <3> DEFINE q == Pixel(y)
    <3>1. q \in Int /\ q + 1 + 1 <= WindowOf(a) + Size /\ y < SubPixels * (q + 1)
      <4> HIDE DEF y
      <4> QED BY <1>0, <1>1, <1>10, <1>11
    <3> HIDE DEF q, y
    <3>2. SubPixels * (q + 1 + 1) <= SubPixels * (WindowOf(a) + Size)
          /\ SubPixels * (q + 1 + 1) \in Int /\ SubPixels * (WindowOf(a) + Size) \in Int
      BY <1>0, <1>1, <3>1, ProductGrows
    <3>3. SubPixels * ((q + 1) + 1) = SubPixels * (q + 1) + SubPixels * 1 /\ SubPixels * (q + 1) \in Int
      <4>1. q + 1 \in Int
        BY <3>1
      <4> QED BY <1>0, <4>1, Distributes
    <3> QED BY <1>0, <1>3, <3>1, <3>2, <3>3
  <2>4. SubPixels * (WindowOf(a) + Size) <= Speed * Lifetime /\ Speed * Lifetime \in Int
        /\ Speed * i.ageMs \in Int /\ i.ageMs \in Int
    BY <1>0, <1>1, <1>2, Distributes DEF FlightAssumption
  <2>5. Speed * i.ageMs < Speed * Lifetime
    <3> HIDE DEF y, i
    <3> QED BY <1>0, <1>3, <2>2, <2>3, <2>4
  <2>6. i.ageMs < Lifetime
    <3> HIDE DEF y, i
    <3> QED BY <1>0, <2>4, <2>5, ProductCancels
  <2> QED BY <1>0, <2>4, <2>6 DEF IsExpired
<1> HIDE DEF x, y, z
<1>13. Pixel(y) + Size >= 0 /\ Pixel(y) <= WindowOf(a)
  BY <1>0, <1>1, <1>10, <1>11
<1> QED BY <1>11, <1>12, <1>13 DEF x, y, z

(* Towards smaller coordinates. *)
LEMMA FliesDown ==
    ASSUME SizeAssumption, FlightAssumption, NEW j \in Projectile, OnCourse(j),
           NEW player, InPlace(player), NEW a \in Axis, NEW delta \in 1 .. MaxDelta,
           NotOver(delta), InTheWay(j, player, a), j.velocity[a] = -Speed
    PROVE  LET i == Updated(j, delta) IN
           /\ Pixel(player.position[a]) < Pixel(i.position[a]) + Size
           /\ Pixel(i.position[a]) + Size >= 0 /\ Pixel(i.position[a]) <= WindowOf(a)
           /\ ~IsExpired(i)
<1> DEFINE i == Updated(j, delta)
           x == j.position[a]
           y == i.position[a]
           z == player.position[a]
           reach == Width + Size - 1
<1>0. /\ Speed \in Nat \ {0} /\ Width \in Nat \ {0} /\ Size \in Nat \ {0} /\ SubPixels \in Nat \ {0}
      /\ MaxDelta \in Nat /\ delta \in Nat /\ delta <= MaxDelta /\ Lifetime \in Nat
  BY WindowAssumption DEF SizeAssumption
<1>1. x \in Int /\ z \in Int /\ j.ageMs \in Nat /\ WindowOf(a) \in Nat /\ 0 <= Pixel(z)
  BY Windows DEF Projectile, Position, InPlace, PlayerState, InWindow
<1>2. y = x - Speed * delta /\ i.ageMs = j.ageMs + delta /\ i \in Projectile
  <2>1. y = x + (-Speed) * delta /\ i.ageMs = j.ageMs + delta /\ i \in Projectile
    <3>1. y = x + j.velocity[a] * delta /\ i.ageMs = j.ageMs + delta /\ i \in Projectile
      BY <1>0, UpdatedRight
    <3> QED BY <3>1
  <2>2. (-Speed) * delta = -(Speed * delta) /\ Speed * delta \in Int
    BY <1>0, Distributes
  <2> HIDE DEF x, y, i
  <2> QED BY <1>1, <2>1, <2>2
<1>3. y \in Int
  BY <1>2 DEF Projectile, Position
<1>4. x + Speed * j.ageMs <= SubPixels * WindowOf(a)
  BY <1>0, <1>1 DEF OnCourse, InTheWay
<1>5. Pixel(z) + Width <= Pixel(x)
  BY <1>0 DEF InTheWay
<1>6. Speed * delta <= SubPixels * reach /\ Speed * delta \in Int /\ 0 <= Speed * delta
  <2>1. Speed * 0 <= Speed * delta /\ Speed * delta \in Int /\ Speed * 0 = 0
    BY <1>0, ProductGrows
  <2> QED BY <2>1 DEF NotOver
<1> HIDE DEF x, y, z
<1>7. Pixel(x) \in Int /\ Pixel(y) \in Int /\ Pixel(z) \in Int /\ 0 <= Pixel(z)
  BY <1>1, <1>3, PixelBounds
<1>8. 0 <= x
  <2>1. x < 0 => Pixel(x) <= 0
    BY <1>1, PixelBounds
  <2> QED BY <1>0, <1>1, <1>5, <1>7, <2>1
<1>9. Pixel(x) - reach <= Pixel(y)
  <2>1. reach \in Int /\ SubPixels * reach \in Int
    BY <1>0, Distributes
  <2>2. x - SubPixels * reach <= y
    <3> HIDE DEF reach
    <3> QED BY <1>1, <1>2, <1>3, <1>6, <2>1
  <2> HIDE DEF reach
  <2> QED BY <1>1, <1>3, <1>8, <2>1, <2>2, PixelDown
<1>10. Pixel(z) < Pixel(y) + Size /\ 1 - Size <= Pixel(y)
  BY <1>0, <1>5, <1>7, <1>9
<1>11. Speed * i.ageMs = Speed * j.ageMs + Speed * delta /\ Speed * j.ageMs \in Int
       /\ Speed * i.ageMs \in Int /\ i.ageMs \in Nat
  <2>1. j.ageMs \in Int /\ Speed \in Int /\ delta \in Int
    BY <1>0, <1>1
  <2>2. Speed * (j.ageMs + delta) = Speed * j.ageMs + Speed * delta
        /\ Speed * j.ageMs \in Int /\ Speed * (j.ageMs + delta) \in Int
    BY <2>1, Distributes
  <2> QED BY <1>0, <1>1, <1>2, <2>2
<1>12. y + Speed * i.ageMs <= SubPixels * WindowOf(a) /\ SubPixels * WindowOf(a) \in Int
  <2>1. SubPixels * WindowOf(a) \in Int
    BY <1>0, <1>1, Distributes
  <2> HIDE DEF i
  <2> QED BY <1>1, <1>2, <1>3, <1>4, <1>6, <1>11, <2>1
<1>13. Pixel(y) <= WindowOf(a)
  <2>1. 0 <= Speed * i.ageMs
    <3>1. Speed * 0 <= Speed * i.ageMs /\ Speed * 0 = 0
      BY <1>0, <1>11, ProductGrows
    <3> QED BY <3>1
  <2>2. CASE y < 0
    BY <1>1, <1>3, <1>7, <2>2, PixelBounds
  <2>3. CASE y >= 0
    <3>1. SubPixels * Pixel(y) <= y /\ SubPixels * Pixel(y) \in Int
      BY <1>0, <1>3, <1>7, <2>3, PixelBounds, Distributes
    <3>2. SubPixels * Pixel(y) <= SubPixels * WindowOf(a)
      <4> HIDE DEF i
      <4> QED BY <1>3, <1>11, <1>12, <2>1, <3>1
    <3>3. SubPixels * (WindowOf(a) + 1) = SubPixels * WindowOf(a) + SubPixels
      BY <1>0, <1>1
    <3>4. SubPixels * Pixel(y) < SubPixels * (WindowOf(a) + 1)
      BY <1>0, <1>12, <3>1, <3>2, <3>3
    <3>5. Pixel(y) < WindowOf(a) + 1
      BY <1>0, <1>1, <1>7, <3>4, ProductCancels
    <3> QED BY <1>1, <1>7, <3>5
  <2> QED BY <1>3, <2>2, <2>3
<1>14. ~IsExpired(i)
  <2>1. SubPixels * (-Size) < y
    <3>1. SubPixels * (-Size) <= SubPixels * (Pixel(y) - 1)
          /\ SubPixels * (-Size) \in Int /\ SubPixels * (Pixel(y) - 1) \in Int
      <4>1. -Size \in Int /\ Pixel(y) - 1 \in Int /\ -Size <= Pixel(y) - 1
        BY <1>0, <1>7, <1>10
      <4> QED BY <1>0, <4>1, ProductGrows
    <3>2. CASE y < 0
      <4>1. SubPixels * (Pixel(y) - 1) < y
        BY <1>3, <3>2, PixelBounds
      <4> QED BY <1>3, <3>1, <4>1
    <3>3. CASE y >= 0
      <4>1. SubPixels * (-Size) = -(SubPixels * Size)
        BY <1>0, Distributes
      <4>2. SubPixels * 1 <= SubPixels * Size /\ SubPixels * Size \in Int /\ SubPixels * 1 = SubPixels
        BY <1>0, ProductGrows
      <4> DEFINE b == SubPixels * Size
      <4>3. SubPixels * (-Size) = -b /\ SubPixels <= b /\ b \in Int
        BY <4>1, <4>2
      <4> HIDE DEF b
      <4> QED BY <1>0, <1>3, <3>3, <4>3
    <3> QED BY <1>3, <3>2, <3>3
  <2>2. SubPixels * (WindowOf(a) - (-Size)) = SubPixels * WindowOf(a) - SubPixels * (-Size)
        /\ SubPixels * (-Size) \in Int
    BY <1>0, <1>1, Distributes
  <2>3. WindowOf(a) - (-Size) = WindowOf(a) + Size
    BY <1>0, <1>1
  <2>4. SubPixels * (WindowOf(a) + Size) <= Speed * Lifetime /\ Speed * Lifetime \in Int
    BY <1>0, Distributes DEF FlightAssumption
  <2>5. Speed * i.ageMs < Speed * Lifetime
    <3> HIDE DEF i
    <3> QED BY <1>3, <1>11, <1>12, <2>1, <2>2, <2>3, <2>4
  <2>6. i.ageMs < Lifetime
    <3> HIDE DEF i
    <3> QED BY <1>0, <1>11, <2>5, ProductCancels
  <2> QED BY <1>0, <1>11, <2>6 DEF IsExpired
<1>15. Pixel(y) + Size >= 0
  BY <1>0, <1>7, <1>10
<1> QED BY <1>10, <1>13, <1>14, <1>15 DEF y, z

LEMMA TickKeepsShots ==
    ASSUME SizeAssumption, FlightAssumption, ArenaInv, NEW delta \in 1 .. MaxDelta, NotOver(delta), Tick(delta)
    PROVE  ShotArrives(delta)
<1> SUFFICES ASSUME NEW id \in DOMAIN projectiles, NEW p \in Player, NEW a \in Axis,
                    p # projectiles[id].owner, InTheWay(projectiles[id], players[p], a),
                    id \notin Hitting(delta)
             PROVE  id \in DOMAIN projectiles' /\ InTheWay(projectiles'[id], players[p], a)
  BY DEF ShotArrives
<1> DEFINE j == projectiles[id]
           i == Updated(j, delta)
           player == players[p]
<1>1. j \in Projectile /\ OnCourse(j) /\ InPlace(player)
  BY DEF ArenaInv, ProjectilesRight, PlayersRight, InPlace
<1>2. delta \in Nat /\ Width \in Nat \ {0} /\ Size \in Nat \ {0} /\ Speed \in Nat \ {0}
  BY WindowAssumption DEF SizeAssumption
<1>3. /\ i \in Projectile /\ i.owner = j.owner /\ i.velocity = j.velocity
      /\ \A b \in Axis : i.position[b] = j.position[b] + j.velocity[b] * delta
  BY <1>1, <1>2, UpdatedRight
(* Along the other axis it does not move, and the player is there. *)
<1>4. ASSUME NEW b \in Axis \ {a}
      PROVE  /\ Overlap(i, player, b) /\ i.velocity[b] = 0
             /\ Pixel(i.position[b]) + Size >= 0 /\ Pixel(i.position[b]) <= WindowOf(b)
  <2>1. j.velocity[b] = 0 /\ Overlap(j, player, b)
    BY DEF InTheWay
  <2>2. i.position[b] = j.position[b]
    <3>1. i.position[b] = j.position[b] + 0 * delta
      BY <1>3, <2>1
    <3>2. j.position[b] \in Int
      BY <1>1 DEF Projectile, Position
    <3> HIDE DEF i, j
    <3> QED BY <1>2, <3>1, <3>2
  <2>3. Pixel(j.position[b]) \in Int /\ Pixel(player.position[b]) \in Int
        /\ 0 <= Pixel(player.position[b]) /\ Pixel(player.position[b]) <= WindowOf(b) - Width
    <3>1. j.position[b] \in Int /\ player.position[b] \in Int /\ WindowOf(b) \in Nat /\ Width \in Nat
      BY <1>1, <1>2, Windows DEF InPlace, PlayerState, Position, Projectile
    <3>2. Pixel(j.position[b]) \in Int /\ Pixel(player.position[b]) \in Int
      BY <3>1, PixelBounds
    <3>3. 0 <= Pixel(player.position[b]) /\ Pixel(player.position[b]) + Width <= WindowOf(b)
      BY <1>1 DEF InPlace, InWindow
    <3> QED BY <3>1, <3>2, <3>3
  <2>4. Overlap(i, player, b)
    BY <2>1, <2>2 DEF Overlap
  <2>5. WindowOf(b) \in Nat
    BY Windows
  <2>6. Pixel(i.position[b]) + Size >= 0 /\ Pixel(i.position[b]) <= WindowOf(b)
    <3>1. /\ Pixel(j.position[b]) < Pixel(player.position[b]) + Width
          /\ Pixel(j.position[b]) + Size > Pixel(player.position[b])
      BY <2>1 DEF Overlap
    <3> HIDE DEF i, j, player
    <3> QED BY <1>2, <2>2, <2>3, <2>5, <3>1
  <2> QED BY <1>3, <2>1, <2>4, <2>6
(* Along its own it has not passed the player. *)
<1>5. j.velocity[a] \in {Speed, -Speed}
  BY <1>1 DEF OnCourse, InTheWay
<1>6. /\ Pixel(i.position[a]) + Size >= 0 /\ Pixel(i.position[a]) <= WindowOf(a) /\ ~IsExpired(i)
      /\ j.velocity[a] > 0 => Pixel(i.position[a]) < Pixel(player.position[a]) + Width
      /\ j.velocity[a] <= 0 => Pixel(player.position[a]) < Pixel(i.position[a]) + Size
  <2>1. CASE j.velocity[a] = Speed
    BY <1>1, <1>2, <2>1, FliesUp
  <2>2. CASE j.velocity[a] = -Speed
    BY <1>1, <1>2, <2>2, FliesDown
  <2> QED BY <1>5, <2>1, <2>2
<1>7. Pixel(i.position[a]) \in Int /\ Pixel(player.position[a]) \in Int
  BY <1>1, <1>3, PixelBounds DEF Projectile, Position, InPlace, PlayerState
<1>8. ~IsOutOfBounds(i)
  <2>1. ASSUME NEW b \in Axis
        PROVE  Pixel(i.position[b]) + Size >= 0 /\ Pixel(i.position[b]) <= WindowOf(b)
    BY <1>4, <1>6
  <2>2. ASSUME NEW b \in Axis PROVE Pixel(i.position[b]) \in Int /\ WindowOf(b) \in Nat
    BY <1>3, PixelBounds, Windows DEF Projectile, Position
  <2> HIDE DEF i
  <2> QED BY <1>2, <2>1, <2>2 DEF IsOutOfBounds
<1>9. id \in Flying(delta)
  BY <1>6, <1>8 DEF Flying
<1>10. id \in DOMAIN projectiles' /\ projectiles'[id] = i
  BY <1>9 DEF Tick
<1>11. ~Overlap(i, player, a)
  <2>1. Touched(i) = {}
    BY <1>9 DEF Hitting
  <2>2. ~HasIntersection(i, player)
    <3>1. p # i.owner
      BY <1>3
    <3> HIDE DEF i
    <3> QED BY <2>1, <3>1 DEF Touched
  <2> QED BY <1>4, <2>2 DEF HasIntersection
<1>12. InTheWay(i, player, a)
  <2>1. i.velocity[a] = j.velocity[a] /\ i.velocity[a] # 0
    BY <1>2, <1>3, <1>5
  <2>2. IF i.velocity[a] > 0 THEN Pixel(i.position[a]) + Size <= Pixel(player.position[a])
        ELSE Pixel(player.position[a]) + Width <= Pixel(i.position[a])
    <3>1. i.velocity[a] \in Int
      BY <1>3 DEF Projectile
    <3>2. /\ i.velocity[a] > 0 => Pixel(i.position[a]) < Pixel(player.position[a]) + Width
          /\ ~(i.velocity[a] > 0) => Pixel(player.position[a]) < Pixel(i.position[a]) + Size
      <4> HIDE DEF i, j, player
      <4> QED BY <1>6, <2>1, <3>1
    <3>3. ~(/\ Pixel(i.position[a]) < Pixel(player.position[a]) + Width
            /\ Pixel(i.position[a]) + Size > Pixel(player.position[a]))
      BY <1>11 DEF Overlap
    <3> HIDE DEF i, player
    <3> QED BY <1>2, <1>7, <3>2, <3>3
  <2> HIDE DEF i, player
  <2> QED BY <1>4, <2>1, <2>2 DEF InTheWay
<1> QED BY <1>10, <1>12

-----------------------------------------------------------------------------
(* Theorems *)

(* However players move and shoot and whatever is hit, every player is in the
   window in whole pixels, with between 1 and MaxHealth of health, and every
   projectile is of a player (GameSimulation::registerPlayerHit and respawnPlayer,
   any number of times in one tick). *)
THEOREM ArenaTypeCorrect == ASSUME SizeAssumption, IDAssumption PROVE ArenaSpec => []ArenaTypeOK
<1>1. ArenaInit => ArenaInv
  BY ArenaInvInit
<1>2. ArenaInv /\ [ArenaNext]_arenaVars => ArenaInv'
  BY ArenaInvNext
<1>3. ArenaInv => ArenaTypeOK
  BY DEF ArenaInv, ShotsRight, PlayersRight, ProjectilesRight, PlayerState, ArenaTypeOK
<1> QED BY <1>1, <1>2, <1>3, PTL DEF ArenaSpec

(* A shot is dropped only when its identifier, which its client has made without
   asking anyone (ownerPlayerID * 100000 + n, in 32 bits), is that of another
   player's projectile and one of the two players has fired more than 100000 times
   or has an identifier whose range does not fit: never for a shot of one's own,
   and never as long as every player keeps to its range. *)
THEOREM ShotsAreKept == ASSUME SizeAssumption, IDAssumption PROVE ArenaSpec => ShotsKept
<1> DEFINE Kept == \A p \in Player : shots'[p] # shots[p] /\ NextID(p) \in DOMAIN projectiles =>
                      LET q == projectiles[NextID(p)].owner
                      IN q # p /\ ~(InRange(p, shots'[p]) /\ InRange(q, shots[q]))
<1>1. ArenaInit => ArenaInv /\ IDsFired
  BY ArenaInvInit
<1>2. ArenaInv /\ IDsFired /\ [ArenaNext]_arenaVars => ArenaInv' /\ IDsFired'
  BY ArenaInvNext, NextIDsFired
<1>3. ArenaInv /\ IDsFired /\ [ArenaNext]_arenaVars => [Kept]_arenaVars
  BY ShotsMeet
<1> QED BY <1>1, <1>2, <1>3, PTL DEF ArenaSpec, ShotsKept

(* No tick loses a shot along one axis that has a player in its way: it does not
   fly over the player, leave the game or expire before it gets there.  For every
   window, size and speed, as long as a projectile lives to cross the window
   (FlightAssumption), and of the ticks that are not so long that it flies over a
   player (NotOver).  Diagonal shots are not considered. *)
THEOREM ShotsArrive ==
    ASSUME SizeAssumption, FlightAssumption, IDAssumption PROVE ArenaSpec => AimedShotsArrive
<1>1. ArenaInit => ArenaInv
  BY ArenaInvInit
<1>2. ArenaInv /\ [ArenaNext]_arenaVars => ArenaInv'
  BY ArenaInvNext
<1>3. ArenaInv /\ [ArenaNext]_arenaVars =>
          [\A delta \in 1 .. MaxDelta : NotOver(delta) /\ Tick(delta) => ShotArrives(delta)]_arenaVars
  BY TickKeepsShots
<1> QED BY <1>1, <1>2, <1>3, PTL DEF ArenaSpec, AimedShotsArrive

-----------------------------------------------------------------------------
(* GameClock *)

-----------------------------------------------------------------------------
(* Milliseconds *)

(* Half of the range of an int. *)
LEMMA HalfModulus ==
    /\ Modulus \div 2 \in Nat /\ Modulus = 2 * (Modulus \div 2) /\ Modulus \in Nat \ {0}
    /\ MaxBusy + Fractions * (TargetFrameDuration + 1) + Fractions <= Fractions * (Modulus \div 2)
<1> DEFINE h == Modulus \div 2
<1>1. h \in Nat /\ Modulus = 2 * h
  BY ClockAssumption
<1> HIDE DEF h
<1>2. MaxBusy + Fractions * (TargetFrameDuration + 2) <= Fractions * h
  BY ClockAssumption DEF h
<1>3. Fractions * (TargetFrameDuration + 1 + 1) = Fractions * (TargetFrameDuration + 1) + Fractions * 1
  BY ClockAssumption, Distributes
<1>4. TargetFrameDuration + 1 + 1 = TargetFrameDuration + 2 /\ Fractions * 1 = Fractions
  BY ClockAssumption
<1>5. MaxBusy + Fractions * (TargetFrameDuration + 1) + Fractions <= Fractions * h
  <2>1. Fractions * (TargetFrameDuration + 1) \in Nat /\ Fractions * (TargetFrameDuration + 2) \in Nat
        /\ Fractions * h \in Nat
    BY <1>1, ClockAssumption
  <2> QED BY <1>2, <1>3, <1>4, <2>1, ClockAssumption
<1>6. h # 0
  <2> SUFFICES ASSUME h = 0 PROVE FALSE
    OBVIOUS
  <2>1. Fractions * (TargetFrameDuration + 1) \in Nat /\ Fractions * h = 0
    BY <1>1, ClockAssumption
  <2> QED BY <1>5, <2>1, ClockAssumption
<1> QED BY <1>1, <1>5, <1>6 DEF h

(* Milliseconds begin together with a fraction. *)
LEMMA MillisBounds ==
    ASSUME NEW t \in Nat
    PROVE  Millis(t) \in Nat /\ Fractions * Millis(t) <= t /\ t <= Fractions * Millis(t) + (Fractions - 1)
           /\ Millis(t) <= t
<1> DEFINE d == t \div Fractions
           e == t % Fractions
<1>1. d \in Int /\ e \in 0 .. Fractions - 1 /\ t = Fractions * d + e
  BY Division, ClockAssumption
<1> HIDE DEF d, e
<1>2. Fractions * d \in Int
  BY <1>1, ClockAssumption
<1>3. d >= 0
  <2> SUFFICES ASSUME d <= -1 PROVE FALSE
    BY <1>1
  <2>1. Fractions * d <= Fractions * (-1)
    BY <1>1, ProductGrows, ClockAssumption
  <2> QED BY <1>1, <1>2, <2>1, ClockAssumption
<1>4. d <= Fractions * d
  <2>1. (Fractions - 1) * d >= 0
    BY <1>1, <1>3, ClockAssumption
  <2>2. d * (Fractions - 1) = d * Fractions - d * 1
    BY <1>1, ClockAssumption, Distributes
  <2> QED BY <1>1, <1>2, <2>1, <2>2, ClockAssumption
<1>5. Millis(t) = d
  BY DEF Millis, d
<1> QED BY <1>1, <1>2, <1>3, <1>4, <1>5, ClockAssumption

(* Less than n milliseconds begin in a time that is at most n milliseconds less a
   fraction of one. *)
LEMMA MillisBetween ==
    ASSUME NEW s \in Nat, NEW t \in Nat, s <= t, NEW n \in Nat, t - s + Fractions <= Fractions * n
    PROVE  Millis(t) - Millis(s) \in 0 .. n - 1
<1> DEFINE a == Millis(s)
           b == Millis(t)
<1>1. a \in Nat /\ b \in Nat /\ Fractions * a <= s /\ s <= Fractions * a + (Fractions - 1)
      /\ Fractions * b <= t /\ t <= Fractions * b + (Fractions - 1)
  BY MillisBounds
<1> HIDE DEF a, b
<1>2. Fractions * a \in Nat /\ Fractions * b \in Nat /\ Fractions * n \in Nat
  BY <1>1, ClockAssumption
<1>3. a <= b
  <2>1. Fractions * (b + 1) = Fractions * b + Fractions * 1
    BY <1>1, Distributes, ClockAssumption
  <2>2. Fractions * a < Fractions * (b + 1)
    BY <1>1, <1>2, <2>1, ClockAssumption
  <2>3. a < b + 1
    BY <1>1, <2>2, ProductCancels, ClockAssumption
  <2> QED BY <1>1, <2>3
<1>4. b < a + n
  <2>1. Fractions * (a + n) = Fractions * a + Fractions * n
    BY <1>1, Distributes, ClockAssumption
  <2>2. Fractions * b < Fractions * (a + n)
    BY <1>1, <1>2, <2>1, ClockAssumption
  <2> QED BY <1>1, <2>2, ProductCancels, ClockAssumption
<1> QED BY <1>1, <1>3, <1>4 DEF a, b

-----------------------------------------------------------------------------
(* Conversion to int *)

(* It differs from the number by a multiple of 2^32. *)
LEMMA SignedForm ==
    ASSUME NEW x \in Int
    PROVE  Signed(x) \in Int32 /\ \E k \in Int : Signed(x) = x + Modulus * k
<1> DEFINE h == Modulus \div 2
           d == (x + h) \div Modulus
           e == (x + h) % Modulus
<1>1. h \in Nat /\ Modulus = 2 * h /\ Modulus \in Nat \ {0}
  BY HalfModulus
<1>2. Signed(x) = e - h /\ Int32 = -h .. h - 1
  BY DEF Signed, Int32
<1> HIDE DEF h
<1>3. d \in Int /\ e \in 0 .. Modulus - 1 /\ x + h = Modulus * d + e
  <2>1. x + h \in Int
    BY <1>1
  <2> QED BY <1>1, <2>1, Division
<1> HIDE DEF d, e
<1>4. Modulus * d \in Int /\ Modulus * (-d) = -(Modulus * d)
  BY <1>1, <1>3, Distributes
<1>5. -d \in Int /\ Signed(x) = x + Modulus * (-d)
  BY <1>1, <1>2, <1>3, <1>4
<1>6. e - h \in -h .. h - 1
  BY <1>1, <1>3
<1> QED BY <1>2, <1>5, <1>6

(* It is the only int that does. *)
LEMMA SignedUnique ==
    ASSUME NEW x \in Int, NEW y \in Int32, NEW k \in Int, x = y + Modulus * k
    PROVE  Signed(x) = y
<1> DEFINE h == Modulus \div 2
<1>1. h \in Nat /\ Modulus = 2 * h /\ Modulus \in Nat \ {0}
  BY HalfModulus
<1>2. Signed(x) = ((x + h) % Modulus) - h /\ y \in -h .. h - 1
  BY DEF Signed, Int32
<1> HIDE DEF h
<1>3. Modulus * k \in Int
  BY <1>1
<1>4. x + h = Modulus * k + (y + h) /\ y + h \in 0 .. Modulus - 1 /\ x + h \in Int
  BY <1>1, <1>2, <1>3
<1>5. (x + h) % Modulus = y + h
  <2> DEFINE u == x + h
             r == y + h
  <2>1. u = Modulus * k + r /\ r \in 0 .. Modulus - 1 /\ u \in Int
    BY <1>4
  <2> HIDE DEF u, r
  <2>2. Modulus \in Nat \ {0} /\ k \in Int
    BY <1>1
  <2>3. u % Modulus = r
    BY ONLY <2>1, <2>2, DivisionUnique
  <2> QED BY <2>3 DEF u, r
<1> QED BY <1>1, <1>2, <1>5

(* What the client reads of SDL_GetTicks is the milliseconds since it began,
   from sdlStart on, up to a multiple of 2^32. *)
LEMMA TicksRead ==
    ASSUME NEW s \in Nat, NEW t \in Nat, s = sdlStart
    PROVE  Signed(SDLGetTicks(t)) \in Int32
           /\ \E k \in Int : Signed(SDLGetTicks(t)) = s + Millis(t) + Modulus * k
<1> DEFINE x == s + Millis(t)
           d == x \div Modulus
           e == x % Modulus
<1>1. Modulus \in Nat \ {0} /\ x \in Nat
  BY HalfModulus, MillisBounds
<1>2. SDLGetTicks(t) = e
  BY DEF SDLGetTicks
<1> HIDE DEF x
<1>3. d \in Int /\ e \in 0 .. Modulus - 1 /\ x = Modulus * d + e
  BY <1>1, Division
<1> HIDE DEF d, e
<1>4. e \in Int
  BY <1>1, <1>3
<1>5. PICK k \in Int : Signed(e) = e + Modulus * k
  BY <1>4, SignedForm
<1>6. Modulus * (k - d) = Modulus * k - Modulus * d /\ Modulus * k \in Int /\ Modulus * d \in Int
  BY <1>1, <1>3, <1>5, Distributes
<1>7. k - d \in Int /\ Signed(e) = x + Modulus * (k - d)
  BY <1>3, <1>4, <1>5, <1>6
<1>8. Signed(e) \in Int32
  BY <1>4, SignedForm
<1> QED BY <1>2, <1>7, <1>8 DEF x

(* The difference of two readings is the milliseconds between them, if both are
   ints. *)
LEMMA TicksDiffer ==
    ASSUME NEW s \in Nat, s = sdlStart, NEW a \in Nat, NEW b \in Nat,
           Millis(b) - Millis(a) \in 0 .. (Modulus \div 2) - 1,
           Signed(SDLGetTicks(b)) - Signed(SDLGetTicks(a)) \in Int32
    PROVE  Signed(SDLGetTicks(b)) - Signed(SDLGetTicks(a)) = Millis(b) - Millis(a)
<1> DEFINE x == Signed(SDLGetTicks(a))
           y == Signed(SDLGetTicks(b))
           m == Millis(a)
           n == Millis(b)
<1>1. PICK k \in Int : x = s + m + Modulus * k
  BY TicksRead
<1>2. PICK j \in Int : y = s + n + Modulus * j
  BY TicksRead
<1>3. m \in Nat /\ n \in Nat /\ Modulus \in Nat \ {0} /\ Modulus \div 2 \in Nat
  BY MillisBounds, HalfModulus
<1>4. n - m \in Int32 /\ y - x \in Int32
  BY <1>3 DEF Int32
<1> HIDE DEF x, y, m, n
<1>5. Modulus * (j - k) = Modulus * j - Modulus * k /\ Modulus * j \in Int /\ Modulus * k \in Int
  BY <1>1, <1>2, <1>3, Distributes
<1>6. y - x \in Int /\ y - x = (n - m) + Modulus * (j - k) /\ j - k \in Int
  BY <1>1, <1>2, <1>3, <1>5
<1>7. Signed(y - x) = n - m
  BY <1>4, <1>6, SignedUnique
<1>8. Signed(y - x) = y - x
  <2>1. y - x = (y - x) + Modulus * 0 /\ 0 \in Int
    BY <1>3, <1>6
  <2> QED BY <1>4, <1>6, <2>1, SignedUnique
<1> QED BY <1>7, <1>8 DEF x, y, m, n

-----------------------------------------------------------------------------
(* The clocks are right in every state: the last reading is the one of the last
   frame, and the server's sum is the one its property says. *)
ClockInvariant ==
    /\ ClockTypeOK
    /\ m_lastTick = Signed(SDLGetTicks(frameStart))
    /\ ServerTimeLags

LEMMA ClockStarts == ClockInit => ClockInvariant
<1> SUFFICES ASSUME ClockInit PROVE ClockInvariant
  OBVIOUS
<1> DEFINE h == Modulus \div 2
<1>1. h \in Nat \ {0} /\ Modulus = 2 * h /\ sdlStart \in 0 .. Modulus - 1
  BY HalfModulus, ClockAssumption DEF ClockInit
<1>2. Millis(0) = 0
  <2>1. Millis(0) \in Nat /\ Millis(0) <= 0
    BY MillisBounds
  <2> QED BY <2>1
<1>3. SDLGetTicks(0) = sdlStart
  <2>1. sdlStart = Modulus * 0 + sdlStart
    BY <1>1
  <2>2. sdlStart % Modulus = sdlStart
    BY <1>1, <2>1, DivisionUnique
  <2> QED BY <1>1, <1>2, <2>2 DEF SDLGetTicks
<1>4. m_lastTick = Signed(SDLGetTicks(frameStart)) /\ m_lastTick \in Int32
  BY <1>1, <1>3, SignedForm DEF ClockInit
<1>5. 0 \in Int32
  BY <1>1 DEF Int32
<1>6. ClockTypeOK
  <2>1. 0 \in 0 .. MaxTime /\ 0 \in 0 .. 0 /\ 0 \in Nat
    BY ClockAssumption
  <2> QED BY <1>4, <1>5, <2>1, Zenon DEF ClockInit, ClockTypeOK
<1>7. ServerTimeLags
  BY ClockAssumption DEF ClockInit, ServerTimeLags
<1> QED BY <1>4, <1>6, <1>7 DEF ClockInvariant

(* startFrame tells the milliseconds since the last one, though the ticks may have
   wrapped around in between, unless their difference is not an int. *)
LEMMA StartFrameRight ==
    ASSUME ClockInvariant, NEW t \in time .. MaxTime, StartFrame(t)
    PROVE  /\ ClockInvariant'
           /\ m_startTick' - m_lastTick \in Int32 => m_deltaTime' = Millis(frameStart') - Millis(frameStart)
<1> DEFINE h == Modulus \div 2
<1>1. time \in Nat /\ frameStart \in Nat /\ frameStart <= time /\ t \in Nat /\ time <= t /\ t <= MaxTime
      /\ time' = t /\ sdlStart \in Nat
  BY ClockAssumption DEF ClockInvariant, ClockTypeOK, StartFrame, Until
<1>2. Millis(t) - Millis(frameStart) \in 0 .. h - 1
  <2>1. h \in Nat /\ MaxBusy + Fractions * (TargetFrameDuration + 1) + Fractions <= Fractions * h
    BY HalfModulus
  <2> HIDE DEF h
  <2>2. t - frameStart <= MaxBusy + Fractions * (TargetFrameDuration + 1)
    BY DEF StartFrame
  <2>3. Fractions * (TargetFrameDuration + 1) \in Nat /\ Fractions * h \in Nat
    BY <2>1, ClockAssumption
  <2>4. t - frameStart + Fractions <= Fractions * h
    BY <1>1, <2>1, <2>2, <2>3, ClockAssumption
  <2> QED BY <1>1, <2>1, <2>4, MillisBetween
<1>3. m_startTick' = Signed(SDLGetTicks(t)) /\ m_lastTick' = Signed(SDLGetTicks(t))
  BY DEF StartFrame
<1>4. m_startTick' - m_lastTick \in Int32 => m_deltaTime' = Millis(t) - Millis(frameStart)
  <2>1. m_lastTick = Signed(SDLGetTicks(frameStart)) /\ m_deltaTime' \in DeltaTime(m_startTick')
    BY DEF StartFrame, ClockInvariant
  <2>2. m_startTick' - m_lastTick \in Int32 => m_deltaTime' = m_startTick' - m_lastTick
    BY <2>1 DEF DeltaTime
  <2> QED BY <1>1, <1>2, <1>3, <2>1, <2>2, TicksDiffer
<1>5. Signed(SDLGetTicks(t)) \in Int32
  BY <1>1, TicksRead
<1>6. m_deltaTime' \in Int32
  BY DEF StartFrame, DeltaTime
<1>7. frameStart' = t /\ inFrame' = TRUE
      /\ UNCHANGED <<sdlStart, lastUpdateTime, serverMs, ticks>>
  BY DEF StartFrame, serverClockVars
<1>9. m_startTick' - m_lastTick \in Int32 => m_deltaTime' = Millis(frameStart') - Millis(frameStart)
  BY <1>4, <1>7
<1>10. (m_lastTick = Signed(SDLGetTicks(frameStart)))'
  BY <1>3, <1>7 DEF SDLGetTicks, Signed, Millis
<1>11. ServerTimeLags'
  BY <1>7 DEF ClockInvariant, ServerTimeLags
<1>12. ClockTypeOK'
  <2>2. lastUpdateTime \in 0 .. time
    BY DEF ClockInvariant, ClockTypeOK
  <2>3. lastUpdateTime' \in 0 .. time' /\ frameStart' \in 0 .. time' /\ time' \in 0 .. MaxTime
    BY <1>1, <1>7, <2>2, ClockAssumption
  <2> QED BY <1>3, <1>5, <1>6, <1>7, <2>3, Zenon DEF ClockInvariant, ClockTypeOK, Int32
<1> QED BY <1>9, <1>10, <1>11, <1>12 DEF ClockInvariant

(* endFrame lets time pass, and nothing else that the clocks remember. *)
LEMMA EndFrameRight ==
    ASSUME ClockInvariant, NEW t \in time .. MaxTime, EndFrame(t)
    PROVE  ClockInvariant'
<1>1. time' \in time .. MaxTime /\ time \in 0 .. MaxTime
  BY DEF ClockInvariant, ClockTypeOK, EndFrame, Until
<1>2. inFrame' = FALSE /\ UNCHANGED <<sdlStart, m_startTick, m_lastTick, m_deltaTime, frameStart>>
      /\ UNCHANGED <<lastUpdateTime, serverMs, ticks>>
  BY DEF EndFrame, serverClockVars
<1>3. ServerTimeLags'
  BY <1>2 DEF ClockInvariant, ServerTimeLags
<1>4. (m_lastTick = Signed(SDLGetTicks(frameStart)))'
  BY <1>2 DEF ClockInvariant, SDLGetTicks, Signed, Millis
<1>5. ClockTypeOK'
  <2>1. frameStart \in 0 .. time /\ lastUpdateTime \in 0 .. time
    BY DEF ClockInvariant, ClockTypeOK
  <2>2. frameStart' \in 0 .. time' /\ lastUpdateTime' \in 0 .. time' /\ time' \in 0 .. MaxTime
    BY <1>1, <1>2, <2>1, ClockAssumption
  <2> QED BY <1>2, <2>2, Zenon DEF ClockInvariant, ClockTypeOK, Int32
<1> QED BY <1>3, <1>4, <1>5 DEF ClockInvariant

(* A tick of the server adds the whole milliseconds since the last one, and so
   loses less than one. *)
LEMMA ServerTickRight ==
    ASSUME ClockInvariant, NEW t \in time .. MaxTime, ServerTick(t)
    PROVE  ClockInvariant'
<1> DEFINE e == t - lastUpdateTime
           d == Millis(e)
<1>1. time \in Nat /\ time <= t /\ t \in Nat /\ t <= MaxTime /\ time' = t
      /\ lastUpdateTime \in Nat /\ lastUpdateTime <= time /\ serverMs \in Nat /\ ticks \in Nat
  BY ClockAssumption DEF ClockInvariant, ClockTypeOK, ServerTick, Until
<1>2. e \in Nat
  BY <1>1
<1>3. lastUpdateTime' = t /\ serverMs' = serverMs + d /\ ticks' = ticks + 1 /\ UNCHANGED clientClockVars
  BY DEF ServerTick, TickMs
<1>4. lastUpdateTime + e = t
  BY <1>1
<1> HIDE DEF e
<1>5. d \in Nat /\ Fractions * d <= e /\ e <= Fractions * d + (Fractions - 1)
  BY <1>2, MillisBounds
<1> HIDE DEF d
<1>6. Fractions * serverMs' = Fractions * serverMs + Fractions * d /\ Fractions * d \in Nat
      /\ Fractions * serverMs \in Nat
  BY <1>1, <1>3, <1>5, Distributes, ClockAssumption
<1>7. ticks' * (Fractions - 1) = ticks * (Fractions - 1) + (Fractions - 1) /\ ticks * (Fractions - 1) \in Nat
  BY <1>1, <1>3, ClockAssumption
<1>8. Fractions * serverMs <= lastUpdateTime /\ lastUpdateTime <= Fractions * serverMs + ticks * (Fractions - 1)
  BY DEF ClockInvariant, ServerTimeLags
<1>9. ServerTimeLags'
  <2>1. Fractions * serverMs' <= lastUpdateTime'
    BY <1>1, <1>2, <1>3, <1>4, <1>5, <1>6, <1>8
  <2>2. lastUpdateTime' <= Fractions * serverMs' + ticks' * (Fractions - 1)
    BY <1>1, <1>2, <1>3, <1>4, <1>5, <1>6, <1>7, <1>8, ClockAssumption
  <2> QED BY <2>1, <2>2 DEF ServerTimeLags
<1>10. UNCHANGED <<sdlStart, inFrame, m_startTick, m_lastTick, m_deltaTime, frameStart>>
  BY <1>3 DEF clientClockVars
<1>11. (m_lastTick = Signed(SDLGetTicks(frameStart)))'
  BY <1>10 DEF ClockInvariant, SDLGetTicks, Signed, Millis
<1>12. ClockTypeOK'
  <2>1. serverMs' \in 0 .. MaxTime
    <3>1. serverMs' \in Nat
      BY <1>1, <1>3, <1>5
    <3>2. Fractions * serverMs' <= MaxTime /\ Fractions * serverMs' \in Nat
      BY <1>1, <1>2, <1>3, <1>4, <1>5, <1>6, <1>8, ClockAssumption
    <3> DEFINE k == serverMs'
    <3>3. k \in Nat /\ Fractions * k <= MaxTime
      BY <3>1, <3>2
    <3> HIDE DEF k
    <3>4. k <= Fractions * k
      <4>1. k * (Fractions - 1) >= 0
        BY <3>3, ClockAssumption
      <4>2. k * (Fractions - 1) = k * Fractions - k * 1 /\ k * Fractions \in Int
        BY <3>3, Distributes, ClockAssumption
      <4> QED BY <3>3, <4>1, <4>2, ClockAssumption
    <3>5. k \in 0 .. MaxTime
      <4>1. Fractions * k \in Int
        BY <3>3, ClockAssumption
      <4> QED BY <3>3, <3>4, <4>1, ClockAssumption
    <3> QED BY <3>5 DEF k
  <2>2. frameStart \in 0 .. time
    BY DEF ClockInvariant, ClockTypeOK
  <2>3. frameStart' \in 0 .. time' /\ lastUpdateTime' \in 0 .. time' /\ time' \in 0 .. MaxTime /\ ticks' \in Nat
    BY <1>1, <1>3, <1>10, <2>2, ClockAssumption
  <2> QED BY <1>10, <2>1, <2>3, Zenon DEF ClockInvariant, ClockTypeOK, Int32
<1> QED BY <1>9, <1>11, <1>12 DEF ClockInvariant

LEMMA ClockSteps == ClockInvariant /\ [ClockNext]_clockVars => ClockInvariant'
<1> SUFFICES ASSUME ClockInvariant, [ClockNext]_clockVars PROVE ClockInvariant'
  OBVIOUS
<1>1. ASSUME NEW t \in time .. MaxTime, StartFrame(t) \/ EndFrame(t) \/ ServerTick(t) PROVE ClockInvariant'
  BY <1>1, StartFrameRight, EndFrameRight, ServerTickRight
<1>2. CASE UNCHANGED clockVars
  BY <1>2 DEF clockVars, clientClockVars, serverClockVars, ClockInvariant, ClockTypeOK, Int32,
     ServerTimeLags, SDLGetTicks, Signed, Millis
<1> QED BY <1>1, <1>2 DEF ClockNext

-----------------------------------------------------------------------------
(* What FrameTimer and the server's loop keep: ticks that are ints, also after
   SDL_GetTicks has passed 2^31, and times that do not lie in the future. *)
THEOREM ClockTypeCorrect == ClockSpec => []ClockTypeOK
<1>1. ClockInvariant => ClockTypeOK
  BY DEF ClockInvariant
<1> QED BY <1>1, ClockStarts, ClockSteps, PTL DEF ClockSpec

(* The delta of a client's frame is the milliseconds that have passed since the
   last frame began, before the 32-bit ticks pass 2^31, after it, and when they go
   through 0, as long as two frames are less than 2^31 ms apart; nothing is said
   of the one frame in which they pass 2^31. *)
THEOREM ClientLosesNoTime == ClockSpec => ClientTimeExact
<1> DEFINE Exact == ~inFrame /\ inFrame' /\ m_startTick' - m_lastTick \in Int32 =>
                       m_deltaTime' = Millis(frameStart') - Millis(frameStart)
<1>1. ClockInvariant /\ [ClockNext]_clockVars => [Exact]_clockVars
  <2> SUFFICES ASSUME ClockInvariant, [ClockNext]_clockVars PROVE [Exact]_clockVars
    OBVIOUS
  <2>1. ASSUME NEW t \in time .. MaxTime, StartFrame(t) PROVE Exact
    BY <2>1, StartFrameRight
  <2>2. ASSUME NEW t \in time .. MaxTime, EndFrame(t) PROVE Exact
    BY <2>2 DEF EndFrame
  <2>3. ASSUME NEW t \in time .. MaxTime, ServerTick(t) PROVE Exact
    BY <2>3 DEF ServerTick, clientClockVars
  <2> HIDE DEF Exact
  <2> QED BY <2>1, <2>2, <2>3 DEF ClockNext
<1> QED BY <1>1, ClockStarts, ClockSteps, PTL DEF ClockSpec, ClientTimeExact

(* The deltas of the server's ticks never add up to more than the time that has
   passed, and to less by less than a millisecond a tick. *)
THEOREM ServerFallsBehind == ClockSpec => []ServerTimeLags
<1>1. ClockInvariant => ServerTimeLags
  BY DEF ClockInvariant
<1> QED BY <1>1, ClockStarts, ClockSteps, PTL DEF ClockSpec

-----------------------------------------------------------------------------
(* Pings *)

(* What m_pendingPing is of the ping it names, and when the last one was sent. *)
Pending ==
    m_pendingPing # None =>
        /\ m_pendingPing.seq = Len(sentAt)
        /\ m_pendingPing.timePingSent = sentAt[Len(sentAt)]
        /\ call = "pumpReceive" => now - m_pendingPing.timePingSent < config.pingInterval

(* Over TCP, a ping that has not been measured is on its way, and it is not older
   than a round trip once the Pongs of a turn have been read. *)
AnswerDue ==
    config.pingTransport = "TCP" /\ m_pendingPing # None /\ measured # m_pendingPing.seq =>
        /\ m_pendingPing.seq \in pings \cup pongs
        /\ call = "pumpSend" => now - m_pendingPing.timePingSent < config.roundTrip

PingClockInvariant == PingTypeOK /\ Pending /\ AnswerDue

LEMMA PingFacts ==
    ASSUME PingTypeOK
    PROVE  /\ config.pingInterval \in Nat /\ config.roundTrip \in Nat
           /\ config.pingTransport \in {"TCP", "UDP"}
           /\ now \in Nat /\ MaxWait \in Nat /\ MaxPings \in Nat
           /\ sentAt \in Seq(0 .. now) /\ Len(sentAt) \in 0 .. MaxPings
           /\ \A seq \in 1 .. Len(sentAt) : sentAt[seq] \in 0 .. now
           /\ m_pendingPing # None => /\ m_pendingPing.timePingSent \in 0 .. now
                                      /\ m_pendingPing.seq \in 1 .. Len(sentAt)
<1>1. config \in Config
  BY PingAssumption DEF PingTypeOK
<1>2. now \in Nat /\ sentAt \in Seq(0 .. now) /\ Len(sentAt) <= MaxPings
  BY DEF PingTypeOK
<1>3. \A seq \in 1 .. Len(sentAt) : sentAt[seq] \in 0 .. now
  BY <1>2, ElementOfSeq
<1>4. m_pendingPing # None => m_pendingPing \in [timePingSent: 0 .. now, seq: 1 .. Len(sentAt)]
  BY DEF PingTypeOK
<1> QED BY <1>1, <1>2, <1>3, <1>4, PingAssumption DEF Config

(* As time goes on, what has been sent stays in the past. *)
LEMMA TimeGoesOn ==
    ASSUME PingTypeOK, NEW d \in 0 .. MaxWait, Wait(d)
    PROVE  /\ now' \in Nat /\ now <= now' /\ now' <= now + MaxWait /\ 0 .. now \subseteq 0 .. now'
           /\ sentAt \in Seq(0 .. now')
           /\ m_pendingPing \in {None} \cup [timePingSent: 0 .. now', seq: 1 .. Len(sentAt)]
           /\ m_pingMs \in {None} \cup {<<t>> : t \in 0 .. now'}
<1>1. now' \in Nat /\ now <= now' /\ now' <= now + MaxWait /\ 0 .. now \subseteq 0 .. now'
  BY PingFacts DEF Wait
<1>2. sentAt \in Seq(0 .. now')
  <2>1. \A seq \in 1 .. Len(sentAt) : sentAt[seq] \in 0 .. now'
    BY <1>1, PingFacts
  <2>2. sentAt = [i \in 1 .. Len(sentAt) |-> sentAt[i]] /\ Len(sentAt) \in Nat
    BY PingFacts
  <2>3. [i \in 1 .. Len(sentAt) |-> sentAt[i]] \in Seq(0 .. now')
    BY <2>1, <2>2, IsASeq
  <2> QED BY <2>2, <2>3
<1>3. m_pendingPing \in {None} \cup [timePingSent: 0 .. now', seq: 1 .. Len(sentAt)]
  BY <1>1 DEF PingTypeOK
<1>4. m_pingMs \in {None} \cup {<<t>> : t \in 0 .. now'}
  BY <1>1 DEF PingTypeOK
<1> QED BY <1>1, <1>2, <1>3, <1>4

LEMMA PingStarts == PingInit => PingClockInvariant
<1> SUFFICES ASSUME PingInit PROVE PingClockInvariant
  OBVIOUS
<1>1. Len(sentAt) = 0 /\ sentAt \in Seq(0 .. now) /\ 0 \in Nat
  BY DEF PingInit
<1> QED BY <1>1, PingAssumption DEF PingInit, PingClockInvariant, PingTypeOK, Pending, AnswerDue, None

(* pumpReceive: what is measured is the pending ping, and it is measured if its
   Pong has had time to arrive. *)
LEMMA PongsHandled ==
    ASSUME PingClockInvariant, NEW d \in 0 .. MaxWait, NEW arrived \in Arriving(pongs), PumpReceive(d, arrived)
    PROVE  /\ PingClockInvariant'
           /\ \/ UNCHANGED <<m_pingMs, measured>>
              \/ /\ m_pendingPing # None
                 /\ measured' = m_pendingPing.seq
                 /\ m_pingMs' = <<now' - m_pendingPing.timePingSent>>
           /\ m_pendingPing' = m_pendingPing
<1> USE DEF PingClockInvariant
<1>1. UNCHANGED <<config, sentAt, m_pendingPing, pings>> /\ call' = "pumpSend" /\ call = "pumpReceive"
  BY DEF PumpReceive
<1>2. arrived \subseteq pongs
  BY DEF Arriving
<1>3. \/ UNCHANGED <<m_pingMs, measured>> /\ ~\E seq \in arrived : Matches(seq)
      \/ /\ m_pendingPing # None
         /\ measured' = m_pendingPing.seq
         /\ m_pingMs' = <<now' - m_pendingPing.timePingSent>>
  BY DEF PumpReceive, HandlePongs, Matches
<1>4. now' \in Nat /\ now <= now' /\ 0 .. now \subseteq 0 .. now' /\ sentAt \in Seq(0 .. now')
      /\ m_pendingPing \in {None} \cup [timePingSent: 0 .. now', seq: 1 .. Len(sentAt)]
      /\ m_pingMs \in {None} \cup {<<t>> : t \in 0 .. now'}
  BY TimeGoesOn DEF PumpReceive
<1>5. pongs' \in Left(pongs, arrived)
  BY DEF PumpReceive
<1>6. pongs' \subseteq pongs /\ (config.pingTransport = "TCP" => pongs' = pongs \ arrived)
  BY <1>5 DEF Left
<1>7. PingTypeOK'
  <2>1. measured' \in 0 .. Len(sentAt)
    BY <1>3, PingFacts DEF PingTypeOK
  <2>2. m_pingMs' \in {None} \cup {<<t>> : t \in 0 .. now'}
    <3>1. CASE UNCHANGED m_pingMs
      BY <1>4, <3>1
    <3>2. CASE m_pendingPing # None /\ m_pingMs' = <<now' - m_pendingPing.timePingSent>>
      <4>1. now' - m_pendingPing.timePingSent \in 0 .. now'
        BY <1>4, <3>2, PingFacts
      <4> QED BY <3>2, <4>1
    <3> QED BY <1>3, <3>1, <3>2
  <2> QED BY <1>1, <1>4, <1>6, <2>1, <2>2 DEF PingTypeOK
<1>8. Pending'
  BY <1>1 DEF Pending
<1>9. AnswerDue'
  <2> SUFFICES ASSUME config.pingTransport = "TCP", m_pendingPing # None, measured' # m_pendingPing.seq
               PROVE  /\ m_pendingPing.seq \in pings \cup pongs'
                      /\ now' - m_pendingPing.timePingSent < config.roundTrip
    BY <1>1 DEF AnswerDue
  <2>1. m_pendingPing.seq \notin arrived /\ measured # m_pendingPing.seq
    BY <1>3 DEF Matches
  <2>2. m_pendingPing.seq \in pings \cup pongs
    BY <2>1 DEF AnswerDue
  <2>3. m_pendingPing.seq \in pings \cup pongs'
    BY <1>6, <2>1, <2>2
  <2>4. m_pendingPing.timePingSent = sentAt[m_pendingPing.seq]
    BY DEF Pending
  <2>5. \A seq \in pings : now' - sentAt[seq] < config.roundTrip
    BY DEF PumpReceive, Wait
  <2>6. \A seq \in pongs : Old(seq) => seq \in arrived
    BY DEF PumpReceive
  <2>7. sentAt[m_pendingPing.seq] \in Nat /\ config.roundTrip \in Nat
    BY PingFacts
  <2>8. m_pendingPing.seq \in pongs => now' - sentAt[m_pendingPing.seq] < config.roundTrip
    BY <1>4, <2>1, <2>6, <2>7 DEF Old
  <2> QED BY <2>2, <2>3, <2>4, <2>5, <2>8
<1> QED BY <1>1, <1>3, <1>7, <1>8, <1>9

(* pumpSend: the pending ping is replaced only when it is pingInterval old. *)
LEMMA PingQueued ==
    ASSUME PingClockInvariant, NEW d \in 0 .. MaxWait, PumpSend(d)
    PROVE  /\ PingClockInvariant'
           /\ UNCHANGED <<config, m_pingMs, measured>>
           /\ \/ m_pendingPing' = m_pendingPing
              \/ m_pendingPing = None
              \/ /\ call = "pumpSend"
                 /\ config.pingInterval <= now + MaxWait - m_pendingPing.timePingSent
<1> USE DEF PingClockInvariant
<1>1. UNCHANGED <<config, m_pingMs, measured, pongs>> /\ call' = "pumpReceive" /\ call = "pumpSend"
  BY DEF PumpSend
<1>2. now' \in Nat /\ now <= now' /\ now' <= now + MaxWait /\ 0 .. now \subseteq 0 .. now' /\ sentAt \in Seq(0 .. now')
      /\ m_pendingPing \in {None} \cup [timePingSent: 0 .. now', seq: 1 .. Len(sentAt)]
      /\ m_pingMs \in {None} \cup {<<t>> : t \in 0 .. now'}
  BY TimeGoesOn DEF PumpSend
<1>3. CASE IsPingInProgress
  <2>1. UNCHANGED <<sentAt, m_pendingPing, pings>>
    BY <1>3 DEF PumpSend
  <2>2. PingTypeOK'
    BY <1>1, <1>2, <2>1 DEF PingTypeOK
  <2>3. Pending'
    BY <1>1, <1>3, <2>1 DEF Pending, IsPingInProgress
  <2>4. AnswerDue'
    BY <1>1, <2>1 DEF AnswerDue
  <2> QED BY <1>1, <2>1, <2>2, <2>3, <2>4
<1>4. CASE ~IsPingInProgress
  <2> DEFINE n == Len(sentAt)
             ping == [timePingSent |-> now', seq |-> n + 1]
  <2>1. /\ n < MaxPings
        /\ sentAt' = Append(sentAt, now')
        /\ m_pendingPing' = ping
        /\ pings' = pings \cup {n + 1}
    BY <1>4 DEF PumpSend, m_nextPingSeq
  <2>2. n \in Nat /\ MaxPings \in Nat /\ config.pingInterval \in Nat \ {0} /\ MaxWait \in Nat
    BY PingFacts, PingAssumption DEF PingTypeOK, Config
  <2>3. sentAt' \in Seq(0 .. now') /\ Len(sentAt') = n + 1 /\ sentAt'[n + 1] = now'
    BY <1>2, <2>1, AppendProperties
  <2> HIDE DEF n
  <2>4. PingTypeOK'
    <3>1. config' \in Configs /\ call' \in {"pumpReceive", "pumpSend"} /\ Len(sentAt') <= MaxPings
      BY <1>1, <2>1, <2>2, <2>3 DEF PingTypeOK
    <3>2. m_pendingPing' \in [timePingSent: 0 .. now', seq: 1 .. Len(sentAt')]
      BY <1>2, <2>1, <2>2, <2>3
    <3>3. measured' \in 0 .. Len(sentAt') /\ pings' \subseteq 1 .. Len(sentAt') /\ pongs' \subseteq 1 .. Len(sentAt')
      <4>1. measured \in 0 .. n /\ pings \subseteq 1 .. n /\ pongs \subseteq 1 .. n
        BY DEF PingTypeOK, n
      <4> QED BY <1>1, <2>1, <2>2, <2>3, <4>1
    <3> QED BY <1>1, <1>2, <2>3, <3>1, <3>2, <3>3 DEF PingTypeOK
  <2>5. Pending'
    BY <1>1, <1>2, <2>1, <2>2, <2>3 DEF Pending
  <2>6. AnswerDue'
    BY <1>1, <2>1 DEF AnswerDue
  <2>7. m_pendingPing # None => config.pingInterval <= now + MaxWait - m_pendingPing.timePingSent
    <3> SUFFICES ASSUME m_pendingPing # None
                 PROVE  config.pingInterval <= now + MaxWait - m_pendingPing.timePingSent
      OBVIOUS
    <3>1. m_pendingPing.timePingSent \in Nat /\ now \in Nat
      BY PingFacts
    <3>2. ~(now' - m_pendingPing.timePingSent < config.pingInterval)
      BY <1>4 DEF IsPingInProgress
    <3> QED BY <1>2, <2>2, <3>1, <3>2
  <2> QED BY <1>1, <2>4, <2>5, <2>6, <2>7
<1> QED BY <1>3, <1>4

(* What the network does to pings and pongs. *)
LEMMA PingTravels ==
    ASSUME PingClockInvariant,
           \/ \E seq \in pings : HandlePing(seq) \/ LosePing(seq)
           \/ \E seq \in pongs : LosePong(seq)
    PROVE  PingClockInvariant' /\ UNCHANGED <<config, m_pendingPing, m_pingMs, measured>>
<1> USE DEF PingClockInvariant
<1>1. UNCHANGED <<config, now, call, sentAt, m_pendingPing, m_pingMs, measured>>
  BY DEF HandlePing, LosePing, LosePong
<1>2. /\ pings' \subseteq pings /\ pongs' \subseteq pings \cup pongs
      /\ config.pingTransport = "TCP" => pings' \cup pongs' = pings \cup pongs
  BY DEF HandlePing, LosePing, LosePong, Left
<1>3. PingTypeOK' /\ Pending'
  BY <1>1, <1>2 DEF PingTypeOK, Pending
<1>4. AnswerDue'
  BY <1>1, <1>2 DEF AnswerDue
<1> QED BY <1>1, <1>3, <1>4

LEMMA PingSteps == PingClockInvariant /\ [PingNext]_pingVars => PingClockInvariant'
<1> SUFFICES ASSUME PingClockInvariant, [PingNext]_pingVars PROVE PingClockInvariant'
  OBVIOUS
<1>1. ASSUME NEW d \in 0 .. MaxWait, NEW arrived \in Arriving(pongs), PumpReceive(d, arrived)
      PROVE  PingClockInvariant'
  BY <1>1, PongsHandled
<1>2. ASSUME NEW d \in 0 .. MaxWait, PumpSend(d) PROVE PingClockInvariant'
  BY <1>2, PingQueued
<1>3. CASE \/ \E seq \in pings : HandlePing(seq) \/ LosePing(seq)
           \/ \E seq \in pongs : LosePong(seq)
  BY <1>3, PingTravels
<1>4. CASE UNCHANGED pingVars
  BY <1>4 DEF pingVars, PingClockInvariant, PingTypeOK, Pending, AnswerDue
<1> QED BY <1>1, <1>2, <1>3, <1>4 DEF PingNext

(* What a NetworkClient knows of its pings: the pending one has been sent, the one
   measured too, and no time lies in the future. *)
THEOREM PingClockTypeCorrect == PingSpec => []PingTypeOK
<1>1. PingClockInvariant => PingTypeOK
  BY DEF PingClockInvariant
<1> QED BY <1>1, PingStarts, PingSteps, PTL DEF PingSpec

(* The ping a client shows is that of a Pong it has read, is not older than the one
   before, and is less than pingInterval and a turn, whatever is lost, delayed or
   delivered twice. *)
THEOREM PingShown == PingSpec => PingIsRoundTrip
<1> DEFINE Round == measured <= measured' /\ m_pingMs' = <<now' - sentAt[measured']>>
                    /\ m_pingMs'[1] < config.pingInterval + MaxWait
<1>1. ASSUME PingClockInvariant, PingNext, m_pingMs' # m_pingMs \/ measured' # measured PROVE Round
  <2>1. PICK d \in 0 .. MaxWait, arrived \in Arriving(pongs) : PumpReceive(d, arrived)
    BY <1>1, PingQueued, PingTravels DEF PingNext
  <2>2. m_pendingPing # None /\ measured' = m_pendingPing.seq /\ m_pingMs' = <<now' - m_pendingPing.timePingSent>>
    BY <1>1, <2>1, PongsHandled
  <2>3. /\ m_pendingPing.seq = Len(sentAt) /\ m_pendingPing.timePingSent = sentAt[m_pendingPing.seq]
        /\ now - m_pendingPing.timePingSent < config.pingInterval
    BY <1>1, <2>1, <2>2 DEF PingClockInvariant, Pending, PumpReceive
  <2>4. now' \in Nat /\ now' <= now + MaxWait
    BY <1>1, <2>1, TimeGoesOn DEF PingClockInvariant, PumpReceive
  <2>5. measured <= Len(sentAt)
    BY <1>1 DEF PingClockInvariant, PingTypeOK
  <2>6. now' - m_pendingPing.timePingSent < config.pingInterval + MaxWait
    BY <1>1, <2>2, <2>3, <2>4, PingFacts DEF PingClockInvariant
  <2> QED BY <2>2, <2>3, <2>5, <2>6
<1>2. PingClockInvariant /\ [PingNext]_pingVars => [m_pingMs' # m_pingMs \/ measured' # measured => Round]_pingVars
  BY <1>1
<1> QED BY <1>2, PingStarts, PingSteps, PTL DEF PingSpec, PingIsRoundTrip

(* Over TCP, no ping is replaced before it is measured, if round trips are as
   short as that. *)
THEOREM PingsMeasured == PingSpec => EveryPingMeasured
<1> DEFINE Replaced == config.pingTransport = "TCP" /\ config.roundTrip + MaxWait <= config.pingInterval
                       /\ m_pendingPing # None /\ m_pendingPing' # m_pendingPing
<1>1. ASSUME PingClockInvariant, PingNext, Replaced PROVE measured = m_pendingPing.seq
  <2>1. PICK d \in 0 .. MaxWait : PumpSend(d)
    BY <1>1, PongsHandled, PingTravels DEF PingNext
  <2>2. call = "pumpSend" /\ config.pingInterval <= now + MaxWait - m_pendingPing.timePingSent
    BY <1>1, <2>1, PingQueued
  <2>3. measured # m_pendingPing.seq => now - m_pendingPing.timePingSent < config.roundTrip
    BY <1>1, <2>2 DEF PingClockInvariant, AnswerDue
  <2>4. /\ m_pendingPing.timePingSent \in Nat /\ now \in Nat /\ MaxWait \in Nat
        /\ config.pingInterval \in Nat /\ config.roundTrip \in Nat
    BY <1>1, PingFacts DEF PingClockInvariant
  <2>5. config.roundTrip + MaxWait <= config.pingInterval
    BY <1>1
  <2> QED BY <2>2, <2>3, <2>4, <2>5
<1>2. PingClockInvariant /\ [PingNext]_pingVars => [Replaced => measured = m_pendingPing.seq]_pingVars
  BY <1>1
<1> QED BY <1>2, PingStarts, PingSteps, PTL DEF PingSpec, EveryPingMeasured

-----------------------------------------------------------------------------
(* The copies of a position *)

LEMMA SyncFacts ==
    ASSUME SyncTypeOK
    PROVE  /\ \A c \in Copy : copy[c] \in Place
           /\ \A i \in 1 .. Len(tcpToOwner) : tcpToOwner[i] \in Place
           /\ \A i \in 1 .. Len(tcpToOther) : tcpToOther[i] \in Place
           /\ Len(tcpToOwner) \in Nat /\ Len(tcpToOther) \in Nat
           /\ MaxPosition \in Nat /\ MaxMoves \in Nat /\ MaxRespawns \in Nat
           /\ moves \in 0 .. MaxMoves /\ respawns \in 0 .. MaxRespawns
           /\ {"owner", "server", "other"} \subseteq Copy
           /\ \A p \in Place : p.life \in Nat
<1>1. tcpToOwner \in Seq(Place) /\ tcpToOther \in Seq(Place)
  BY DEF SyncTypeOK
<1>2. /\ \A i \in 1 .. Len(tcpToOwner) : tcpToOwner[i] \in Place
      /\ \A i \in 1 .. Len(tcpToOther) : tcpToOther[i] \in Place
      /\ Len(tcpToOwner) \in Nat /\ Len(tcpToOther) \in Nat
  BY <1>1, ElementOfSeq
<1>3. \A p \in Place : p.life \in Nat
  BY PositionAssumption DEF Place
<1> QED BY <1>2, <1>3, PositionAssumption DEF SyncTypeOK, Copy

(* Reading the first n messages of a queue leaves the others behind them. *)
LEMMA RestOfQueue ==
    ASSUME NEW queue \in Seq(Place), NEW n \in 0 .. Len(queue)
    PROVE  /\ Rest(queue, n) \in Seq(Place)
           /\ \A place \in Place : AfterTCP(place, queue, n) \in Place
<1>1. n + 1 \in 1 .. Len(queue) + 1 /\ Len(queue) \in n .. Len(queue)
  OBVIOUS
<1>2. SubSeq(queue, n + 1, Len(queue)) \in Seq(Place)
  BY SubSeqProperties
<1>3. \A i \in 1 .. Len(queue) : queue[i] \in Place
  BY ElementOfSeq
<1> QED BY <1>2, <1>3 DEF Rest, AfterTCP

LEMMA SpawnIsPlace ==
    /\ \A life \in 0 .. MaxRespawns : Spawned(life) \in Place
    /\ \A life : Spawned(life).life = life
BY PositionAssumption DEF Spawned, Place

LEMMA SyncStarts == SyncInit => SyncTypeOK
<1> SUFFICES ASSUME SyncInit PROVE SyncTypeOK
  OBVIOUS
<1>1. Spawned(0) \in Place /\ Spawned(0).life = 0
  BY SpawnIsPlace, PositionAssumption
<1>2. Len(tcpToOwner) = 0 /\ tcpToOwner \in Seq(Place) /\ tcpToOther \in Seq(Place)
  BY DEF SyncInit
<1>3. 0 \in 0 .. MaxMoves /\ 0 \in 0 .. MaxRespawns
  BY PositionAssumption
<1> QED BY <1>1, <1>2, <1>3 DEF SyncInit, SyncTypeOK

(* A copy is replaced, and the others are what they were. *)
LEMMA CopyReplaced ==
    ASSUME SyncTypeOK, NEW c \in Copy, NEW place \in Place
    PROVE  /\ [copy EXCEPT ![c] = place] \in [Copy -> Place]
           /\ [copy EXCEPT ![c] = place][c] = place
BY DEF SyncTypeOK

(* The owner begins where it was put last, or where players start. *)
LEMMA OwnerJoinsKeeps ==
    ASSUME SyncTypeOK, NEW n \in 0 .. Len(tcpToOwner), OwnerJoins(n)
    PROVE  SyncTypeOK'
<1> DEFINE life == IF n = 0 THEN 0 ELSE tcpToOwner[n].life
           spawned == Spawned(life)
<1>1. tcpToOwner \in Seq(Place) /\ "owner" \in Copy
  BY SyncFacts DEF SyncTypeOK
<1>2. life \in 0 .. MaxRespawns
  <2>1. CASE n = 0
    BY <2>1, PositionAssumption
  <2>2. CASE n # 0
    <3>1. n \in 1 .. Len(tcpToOwner)
      BY <2>2
    <3>2. tcpToOwner[n] \in Place
      BY <3>1, SyncFacts
    <3> QED BY <2>2, <3>2 DEF Place
  <2> QED BY <2>1, <2>2
<1>3. /\ inGame' = TRUE /\ copy' = [copy EXCEPT !["owner"] = spawned]
      /\ tcpToOwner' = Rest(tcpToOwner, n)
      /\ UNCHANGED <<joined, stateToServer, stateToOther, tcpToOther, moves, respawns>>
  BY DEF OwnerJoins
<1> HIDE DEF life
<1>4. spawned \in Place
  BY <1>2, SpawnIsPlace
<1> HIDE DEF spawned
<1>5. copy' \in [Copy -> Place] /\ tcpToOwner' \in Seq(Place)
  BY <1>1, <1>3, <1>4, CopyReplaced, RestOfQueue
<1> QED BY <1>3, <1>5 DEF SyncTypeOK

LEMMA OwnerFrameKeeps ==
    ASSUME SyncTypeOK, OwnerFrame
    PROVE  SyncTypeOK'
<1>1. PICK n \in 0 .. Len(tcpToOwner) :
        LET place == AfterTCP(copy["owner"], tcpToOwner, n) IN
        /\ tcpToOwner' = Rest(tcpToOwner, n)
        /\ \E q \in Moved(place.position) :
              /\ moves' = moves + (IF q = place.position THEN 0 ELSE 1)
              /\ moves' <= MaxMoves
              /\ copy' = [copy EXCEPT !["owner"] = [place EXCEPT !.position = q]]
              /\ stateToServer' = stateToServer \cup Sent(copy'["owner"])
  BY DEF OwnerFrame
<1> DEFINE place == AfterTCP(copy["owner"], tcpToOwner, n)
<1>2. PICK q \in Moved(place.position) :
              /\ moves' = moves + (IF q = place.position THEN 0 ELSE 1)
              /\ moves' <= MaxMoves
              /\ copy' = [copy EXCEPT !["owner"] = [place EXCEPT !.position = q]]
              /\ stateToServer' = stateToServer \cup Sent(copy'["owner"])
  BY <1>1
<1>3. tcpToOwner \in Seq(Place) /\ "owner" \in Copy /\ copy["owner"] \in Place
  BY SyncFacts DEF SyncTypeOK
<1>4. place \in Place
  BY <1>3, RestOfQueue
<1> HIDE DEF place
<1> DEFINE moved == [place EXCEPT !.position = q]
<1>5. moved \in Place
  BY <1>4 DEF Moved, Place
<1> HIDE DEF moved
<1>6. copy' \in [Copy -> Place] /\ copy'["owner"] = moved
  BY <1>2, <1>3, <1>5, CopyReplaced DEF moved
<1>7. moves' \in 0 .. MaxMoves
  BY <1>2, SyncFacts
<1>8. UNCHANGED <<inGame, joined, stateToOther, tcpToOther, respawns>>
  BY DEF OwnerFrame
<1>9. stateToServer' \subseteq Place
  BY <1>2, <1>5, <1>6 DEF Sent, SyncTypeOK
<1>10. tcpToOwner' \in Seq(Place)
  BY <1>1, <1>3, RestOfQueue
<1> QED BY <1>6, <1>7, <1>8, <1>9, <1>10 DEF SyncTypeOK

LEMMA ServerReadsTyped ==
    ASSUME SyncTypeOK, NEW datagrams \in Readable(stateToServer), ServerReads(datagrams)
    PROVE  /\ stateToServer' \subseteq Place /\ stateToOther' \subseteq Place
           /\ \A place \in Place : AfterUDP(place, datagrams) \in Place
BY DEF SyncTypeOK, Readable, ServerReads, AfterUDP

LEMMA ServerAppliesKeeps ==
    ASSUME SyncTypeOK, NEW datagrams \in Readable(stateToServer), ServerApplies(datagrams)
    PROVE  SyncTypeOK'
<1>1. stateToServer' \subseteq Place /\ stateToOther' \subseteq Place
      /\ AfterUDP(copy["server"], datagrams) \in Place
  BY ServerReadsTyped, SyncFacts DEF ServerApplies, Copy
<1>2. copy' = [copy EXCEPT !["server"] = AfterUDP(copy["server"], datagrams)]
      /\ UNCHANGED <<inGame, joined, tcpToOwner, tcpToOther, moves, respawns>>
  BY DEF ServerApplies, SyncTypeOK
<1>3. copy' \in [Copy -> Place]
  BY <1>1, <1>2, CopyReplaced DEF Copy
<1> QED BY <1>1, <1>2, <1>3 DEF SyncTypeOK

LEMMA ServerRespawnsKeeps ==
    ASSUME SyncTypeOK, NEW datagrams \in Readable(stateToServer), ServerRespawns(datagrams)
    PROVE  SyncTypeOK'
<1>1. stateToServer' \subseteq Place /\ stateToOther' \subseteq Place
  BY ServerReadsTyped DEF ServerRespawns
<1>2. respawns' \in 0 .. MaxRespawns
  BY SyncFacts DEF ServerRespawns
<1> DEFINE spawned == Spawned(respawns')
<1>3. spawned \in Place
  BY <1>2, SpawnIsPlace
<1>4. /\ copy' = [copy EXCEPT !["server"] = spawned]
      /\ tcpToOwner' = Append(tcpToOwner, spawned)
      /\ tcpToOther' = IF joined THEN Append(tcpToOther, spawned) ELSE tcpToOther
      /\ UNCHANGED <<inGame, joined, moves>>
  BY DEF ServerRespawns
<1> HIDE DEF spawned
<1>5. copy' \in [Copy -> Place]
  BY <1>3, <1>4, CopyReplaced DEF Copy
<1>6. tcpToOwner \in Seq(Place) /\ tcpToOther \in Seq(Place)
  BY DEF SyncTypeOK
<1>7. tcpToOwner' \in Seq(Place) /\ tcpToOther' \in Seq(Place)
  BY <1>3, <1>4, <1>6
<1> QED BY <1>1, <1>2, <1>4, <1>5, <1>7 DEF SyncTypeOK

(* What the network and the other client do. *)
LEMMA OthersKeep ==
    ASSUME SyncTypeOK,
           \/ OtherJoins
           \/ OtherStep
           \/ \E place \in stateToServer : LoseToServer(place)
           \/ \E place \in stateToOther : LoseToOther(place)
    PROVE  SyncTypeOK'
<1>1. CASE OtherJoins
  <2>1. copy["server"] \in Place /\ tcpToOther \in Seq(Place)
    BY SyncFacts DEF SyncTypeOK, Copy
  <2>2. tcpToOther' \in Seq(Place)
    BY <1>1, <2>1 DEF OtherJoins
  <2> QED BY <1>1, <2>2 DEF OtherJoins, SyncTypeOK
<1>2. CASE OtherStep
  <2>1. PICK n \in 0 .. Len(tcpToOther), datagrams \in Readable(stateToOther) : OtherFrame(n, datagrams)
    BY <1>2 DEF OtherStep
  <2>2. tcpToOther \in Seq(Place) /\ copy["other"] \in Place /\ "other" \in Copy
    BY SyncFacts DEF SyncTypeOK, Copy
  <2> DEFINE place == AfterUDP(AfterTCP(copy["other"], tcpToOther, n), datagrams)
  <2>3. AfterTCP(copy["other"], tcpToOther, n) \in Place /\ Rest(tcpToOther, n) \in Seq(Place)
    BY <2>2, RestOfQueue
  <2>4. place \in Place
    BY <2>3 DEF AfterUDP, Readable, SyncTypeOK
  <2>5. /\ copy' = [copy EXCEPT !["other"] = place]
        /\ tcpToOther' = Rest(tcpToOther, n)
        /\ stateToOther' \subseteq Place
        /\ UNCHANGED <<inGame, joined, stateToServer, tcpToOwner, moves, respawns>>
    BY <2>1, <2>2 DEF OtherFrame, SyncTypeOK
  <2> HIDE DEF place
  <2>6. copy' \in [Copy -> Place]
    BY <2>2, <2>4, <2>5, CopyReplaced
  <2> QED BY <2>3, <2>5, <2>6 DEF SyncTypeOK
<1>3. CASE \/ \E place \in stateToServer : LoseToServer(place)
           \/ \E place \in stateToOther : LoseToOther(place)
  BY <1>3 DEF LoseToServer, LoseToOther, SyncTypeOK
<1> QED BY <1>1, <1>2, <1>3

LEMMA SyncSteps == SyncTypeOK /\ [SyncNext]_syncVars => SyncTypeOK'
<1> SUFFICES ASSUME SyncTypeOK, [SyncNext]_syncVars PROVE SyncTypeOK'
  OBVIOUS
<1>1. ASSUME NEW datagrams \in Readable(stateToServer),
             ServerApplies(datagrams) \/ ServerRespawns(datagrams)
      PROVE  SyncTypeOK'
  BY <1>1, ServerAppliesKeeps, ServerRespawnsKeeps
<1>2. CASE UNCHANGED syncVars
  BY <1>2 DEF syncVars, SyncTypeOK
<1> QED BY <1>1, <1>2, OwnerJoinsKeeps, OwnerFrameKeeps, OthersKeep DEF SyncNext

(* Wherever a place is, at a client, at the server or under way, it is in the
   window and of a respawn that has happened. *)
THEOREM SyncTypeCorrect == SyncSpec => []SyncTypeOK
BY SyncStarts, SyncSteps, PTL DEF SyncSpec

-----------------------------------------------------------------------------
(* Player *)

USE WindowAssumption, StepAssumption

-----------------------------------------------------------------------------
(* Arithmetic *)

(* A distance of up to d whole pixels is up to d in whole pixels: what
   static_cast<int> in getBoundingBox makes of a position in the window. *)
LEMMA DivInRange ==
    ASSUME NEW s \in Nat \ {0}, NEW d \in Nat, NEW x \in Nat, x <= s * d
    PROVE  x \div s \in 0 .. d
<1> DEFINE q == x \div s
<1>1. q \in Int /\ s * q <= x /\ x < s * q + s
  OBVIOUS
<1>2. q >= 0
  <2> SUFFICES ASSUME q <= -1 PROVE FALSE
    BY <1>1
  <2>1. s * q <= s * (-1)
    BY <1>1
  <2> QED BY <1>1, <2>1
<1>3. q <= d
  <2> SUFFICES ASSUME q >= d + 1 PROVE FALSE
    BY <1>1
  <2>1. s * q >= s * (d + 1)
    BY <1>1
  <2> QED BY <1>1, <2>1
<1> QED BY <1>1, <1>2, <1>3

(* Centre and SpawnPosition, the two places where a player is put, are inside
   the window; both are integer divisions in the code. *)
LEMMA PlacesInWindow ==
    ASSUME NEW a \in Axis
    PROVE  /\ Centre[a] \in Int /\ Pixel(Centre[a]) \in 0 .. (WindowOf(a) - Width)
           /\ SpawnPosition[a] \in Int /\ Pixel(SpawnPosition[a]) \in 0 .. (WindowOf(a) - Width)
<1> DEFINE w == WindowOf(a)
           d == w - Width
           c == (w \div 2) - (Width \div 2)
<1>1. w \in Nat /\ d \in Nat
  BY DEF WindowOf, Axis
<1>2. c \in 0 .. d
  BY <1>1
<1>3. SubPixels * c \in Nat /\ SubPixels * c <= SubPixels * d
  <2> HIDE DEF c, d
  <2> QED BY <1>1, <1>2
<1>4. (SubPixels * d) \div 2 \in Nat /\ (SubPixels * d) \div 2 <= SubPixels * d
  <2>1. SubPixels * d \in Nat
    <3> HIDE DEF d
    <3> QED BY <1>1
  <2> HIDE DEF d
  <2> QED BY <2>1
<1>5. (SubPixels * c) \div SubPixels \in 0 .. d
  <2> HIDE DEF c, d
  <2> QED BY <1>1, <1>3, DivInRange
<1>6. ((SubPixels * d) \div 2) \div SubPixels \in 0 .. d
  <2> HIDE DEF d
  <2> QED BY <1>1, <1>4, DivInRange
<1>7. Centre[a] = SubPixels * c /\ SpawnPosition[a] = (SubPixels * d) \div 2
  BY DEF Centre, SpawnPosition
<1> HIDE DEF c, d, w
<1> QED BY <1>1, <1>3, <1>4, <1>5, <1>6, <1>7 DEF Pixel, d, w

(* boundPosition leaves any position inside the window in whole pixels, though
   it looks at the truncated position and moves the exact one. *)
LEMMA BoundedInWindow ==
    ASSUME NEW a \in Axis, NEW x \in Int
    PROVE  /\ Bounded(a, x) \in Int
           /\ Pixel(Bounded(a, x)) \in 0 .. (WindowOf(a) - Width)
<1> DEFINE d == WindowOf(a) - Width
<1>1. d \in Nat /\ WindowOf(a) \in Nat
  BY DEF WindowOf, Axis
<1>2. Pixel(x) \in Int /\ Pixel(0) = 0
  BY DEF Pixel
<1>3. SubPixels * d \in Nat /\ (SubPixels * d) \div SubPixels \in 0 .. d
  <2> HIDE DEF d
  <2>1. SubPixels * d \in Nat
    BY <1>1
  <2> QED BY <1>1, <2>1, DivInRange
<1>4. Pixel(SubPixels * d) \in 0 .. d
  <2> HIDE DEF d
  <2> QED BY <1>3 DEF Pixel
<1>5. CASE Pixel(x) < 0
  BY <1>1, <1>2, <1>5 DEF Bounded
<1>6. CASE ~(Pixel(x) < 0) /\ Pixel(x) + Width > WindowOf(a)
  <2>1. Bounded(a, x) = SubPixels * d
    BY <1>6 DEF Bounded
  <2> HIDE DEF d
  <2>2. Bounded(a, x) \in Int /\ Pixel(Bounded(a, x)) \in 0 .. d
    BY <1>3, <1>4, <2>1
  <2> QED BY <2>2 DEF d
<1>7. CASE ~(Pixel(x) < 0) /\ ~(Pixel(x) + Width > WindowOf(a))
  <2>1. Bounded(a, x) = x
    BY <1>7 DEF Bounded
  <2> QED BY <1>1, <1>2, <1>7, <2>1
<1> QED BY <1>5, <1>6, <1>7

-----------------------------------------------------------------------------
(* The inductive invariant *)

(* m_currentState and the state object differ only by what m_currentState held
   when the player was made, and then the object is still an idle one.  Without
   this a running player whose m_currentState says Idle could never stop. *)
StatesAgree == m_currentState = m_stateObject \/ m_stateObject = "Idle"

PlayerInv == TypeOK /\ KeysDecide /\ StatesAgree /\ StillWhenIdle /\ BoxInWindow

(* Player::Player makes a player that satisfies the invariant, whatever
   m_currentState happens to hold. *)
LEMMA PlayerInit == Init => PlayerInv
<1> SUFFICES ASSUME Init PROVE PlayerInv
  OBVIOUS
<1> USE DEF Init
<1>1. TypeOK
  <2>1. m_position \in [Axis -> Int]
    BY PlacesInWindow DEF Centre
  <2> QED BY <2>1 DEF TypeOK, Still, Sign, State, Axis
<1>2. KeysDecide /\ StatesAgree /\ StillWhenIdle
  BY DEF KeysDecide, StatesAgree, StillWhenIdle
<1>3. BoxInWindow
  <2> SUFFICES ASSUME NEW a \in Axis
               PROVE  0 <= Pixel(m_position[a]) /\ Pixel(m_position[a]) + Width <= WindowOf(a)
    BY DEF BoxInWindow, InWindow
  <2>1. Pixel(Centre[a]) \in 0 .. (WindowOf(a) - Width) /\ WindowOf(a) \in Nat
    BY PlacesInWindow DEF WindowOf, Axis
  <2> QED BY <2>1
<1> QED BY <1>1, <1>2, <1>3 DEF PlayerInv

(* A change of state by maybeChangeState keeps the types, leaves the object and
   m_currentState agreeing, and an idle player still. *)
LEMMA ChangeOfState ==
    ASSUME TypeOK, StatesAgree, StillWhenIdle, NEW state \in State, MaybeChangeState(state)
    PROVE  /\ m_currentState' \in State \cup {"other"} /\ m_stateObject' \in State
           /\ m_velocity' \in [Axis -> Sign]
           /\ StatesAgree'
           /\ m_stateObject' = "Idle" => m_velocity' = Still
           /\ m_currentState' = state
           /\ m_currentState # state => m_stateObject' = state
           /\ m_currentState = state => m_stateObject' = m_stateObject
<1>1. CASE m_currentState = state
  BY <1>1 DEF MaybeChangeState, TypeOK, StatesAgree, StillWhenIdle
<1>2. CASE m_currentState # state
  <2>1. m_velocity' = Still
    BY <1>2 DEF MaybeChangeState, ExitState, StillWhenIdle, TypeOK, State
  <2>2. m_stateObject' = state /\ m_currentState' = state
    BY <1>2 DEF MaybeChangeState
  <2>3. Still \in [Axis -> Sign]
    BY DEF Still, Sign
  <2> QED BY <1>2, <2>1, <2>2, <2>3 DEF StatesAgree
<1> QED BY <1>1, <1>2

(* A key pressed or released changes the state exactly when the first key goes
   down or the last one up. *)
LEMMA InputIInv ==
    ASSUME PlayerInv, NEW action \in Action, NEW pressed \in BOOLEAN, Input(action, pressed)
    PROVE  PlayerInv'
<1> USE DEF PlayerInv
<1> DEFINE anyPressed == \E a \in Action : m_keyState'[a]
<1>1. m_keyState' \in [Action -> BOOLEAN]
  BY DEF Input, TypeOK
<1>2. UNCHANGED <<m_facingDirection, m_position>>
  BY DEF Input
<1>3. BoxInWindow'
  BY <1>2 DEF BoxInWindow, InWindow, Pixel, WindowOf
<1>4. CASE m_stateObject = "Idle" /\ anyPressed
  <2>1. MaybeChangeState("Run")
    BY <1>4 DEF Input, StateFor, AllReleased
  <2>2. "Run" \in State
    BY DEF State
  <2>3. /\ m_currentState' \in State \cup {"other"} /\ m_stateObject' \in State
        /\ m_velocity' \in [Axis -> Sign]
        /\ StatesAgree'
        /\ m_stateObject' = "Idle" => m_velocity' = Still
        /\ m_currentState' = "Run"
        /\ m_currentState # "Run" => m_stateObject' = "Run"
        /\ m_currentState = "Run" => m_stateObject' = m_stateObject
    BY <2>1, <2>2, ChangeOfState
  <2>4. TypeOK'
    BY <1>1, <1>2, <2>3 DEF TypeOK
  <2>5. StillWhenIdle'
    BY <2>3 DEF StillWhenIdle, Still
  <2>6. KeysDecide'
    <3>1. CASE m_currentState = "Run"
      BY <1>4, <2>3, <3>1 DEF KeysDecide, Stuck
    <3>2. CASE m_currentState # "Run"
      BY <1>4, <2>3, <3>2 DEF KeysDecide
    <3> QED BY <3>1, <3>2
  <2> QED BY <1>3, <2>3, <2>4, <2>5, <2>6
<1>5. CASE m_stateObject = "Run" /\ ~anyPressed
  <2>1. MaybeChangeState("Idle")
    BY <1>5 DEF Input, StateFor, AllReleased
  <2>2. "Idle" \in State
    BY DEF State
  <2>3. /\ m_currentState' \in State \cup {"other"} /\ m_stateObject' \in State
        /\ m_velocity' \in [Axis -> Sign]
        /\ StatesAgree'
        /\ m_stateObject' = "Idle" => m_velocity' = Still
        /\ m_currentState # "Idle" => m_stateObject' = "Idle"
    BY <2>1, <2>2, ChangeOfState
  <2>4. m_stateObject' = "Idle"
    BY <1>5, <2>3 DEF StatesAgree
  <2>5. TypeOK'
    BY <1>1, <1>2, <2>3 DEF TypeOK
  <2>6. StillWhenIdle' /\ KeysDecide'
    BY <1>5, <2>3, <2>4 DEF StillWhenIdle, KeysDecide, Still
  <2> QED BY <1>3, <2>3, <2>5, <2>6
<1>6. CASE (m_stateObject = "Idle" /\ ~anyPressed) \/ (m_stateObject = "Run" /\ anyPressed)
  <2>1. UNCHANGED <<m_currentState, m_stateObject, m_velocity>>
    BY <1>6 DEF Input, StateFor, AllReleased
  <2>2. TypeOK'
    BY <1>1, <1>2, <2>1 DEF TypeOK
  <2>3. StatesAgree' /\ StillWhenIdle'
    BY <2>1 DEF StatesAgree, StillWhenIdle, Still
  <2>4. KeysDecide'
    BY <1>6, <2>1 DEF KeysDecide
  <2> QED BY <1>3, <2>2, <2>3, <2>4
<1> QED BY <1>4, <1>5, <1>6 DEF TypeOK, State

(* The sum of two opposite keys is a sign. *)
LEMMA DirectionType == ASSUME TypeOK PROVE Direction \in [Axis -> Sign]
BY DEF Direction, Sum, Sign, TypeOK, Axis, Action

(* A frame moves the player by its keys and puts it back into the window. *)
LEMMA UpdateIInv ==
    ASSUME PlayerInv, NEW step \in 0 .. MaxStep, Update(step)
    PROVE  PlayerInv'
<1> USE DEF PlayerInv
<1>1. UNCHANGED <<m_keyState, m_currentState, m_stateObject>>
  BY DEF Update
<1>2. /\ m_facingDirection' \in [Axis -> Sign] /\ m_velocity' \in [Axis -> Sign]
      /\ m_stateObject = "Idle" => m_velocity' = Still
  BY DirectionType DEF Update, TypeOK, State, Facing, RunVelocity, StillWhenIdle
<1>3. PICK x \in [Axis -> Int] : m_position' = [a \in Axis |-> Bounded(a, x[a])]
  <2>1. CASE m_stateObject = "Run"
    <3> DEFINE y == [a \in Axis |-> m_position[a] + step * m_velocity'[a]]
    <3>1. y \in [Axis -> Int]
      <4> SUFFICES ASSUME NEW a \in Axis PROVE m_position[a] + step * m_velocity'[a] \in Int
        OBVIOUS
      <4>1. m_position[a] \in Int /\ m_velocity'[a] \in Int /\ step \in Int
        BY <1>2 DEF TypeOK, Sign
      <4> QED BY <4>1
    <3>2. m_position' = [a \in Axis |-> Bounded(a, y[a])]
      BY <2>1 DEF Update
    <3> HIDE DEF y
    <3> QED BY <3>1, <3>2
  <2>2. CASE m_stateObject # "Run"
    BY <2>2 DEF Update, TypeOK
  <2> QED BY <2>1, <2>2
<1>4. \A a \in Axis : m_position'[a] \in Int /\ Pixel(m_position'[a]) \in 0 .. (WindowOf(a) - Width)
  BY <1>3, BoundedInWindow
<1>5. TypeOK'
  BY <1>1, <1>2, <1>3, <1>4 DEF TypeOK
<1>6. BoxInWindow'
  <2> SUFFICES ASSUME NEW a \in Axis
               PROVE  0 <= Pixel(m_position'[a]) /\ Pixel(m_position'[a]) + Width <= WindowOf(a)
    BY DEF BoxInWindow, InWindow, Pixel, WindowOf
  <2>1. WindowOf(a) \in Nat
    BY DEF WindowOf, Axis
  <2> QED BY <1>4, <2>1
<1>7. StillWhenIdle' /\ StatesAgree' /\ KeysDecide'
  BY <1>1, <1>2 DEF StillWhenIdle, Still, StatesAgree, KeysDecide, Stuck
<1> QED BY <1>5, <1>6, <1>7

(* A respawn puts the player inside the window without touching what it runs by. *)
LEMMA RespawnedIInv == ASSUME PlayerInv, Respawned PROVE PlayerInv'
<1> USE DEF PlayerInv
<1>1. UNCHANGED <<m_keyState, m_currentState, m_stateObject, m_facingDirection>>
  BY DEF Respawned
<1>2. m_velocity' = Still /\ Still \in [Axis -> Sign]
  BY DEF Respawned, Still, Sign
<1>3. /\ m_position' \in [Axis -> Int]
      /\ \A a \in Axis : Pixel(m_position'[a]) \in 0 .. (WindowOf(a) - Width)
  <2>1. m_position' = SpawnPosition
    BY DEF Respawned
  <2> QED BY <2>1, PlacesInWindow DEF SpawnPosition
<1>4. TypeOK'
  BY <1>1, <1>2, <1>3 DEF TypeOK
<1>5. BoxInWindow'
  <2> SUFFICES ASSUME NEW a \in Axis
               PROVE  0 <= Pixel(m_position'[a]) /\ Pixel(m_position'[a]) + Width <= WindowOf(a)
    BY DEF BoxInWindow, InWindow, Pixel, WindowOf
  <2>1. WindowOf(a) \in Nat
    BY DEF WindowOf, Axis
  <2> QED BY <1>3, <2>1
<1>6. StillWhenIdle' /\ StatesAgree' /\ KeysDecide'
  BY <1>1, <1>2 DEF StillWhenIdle, Still, StatesAgree, KeysDecide, Stuck
<1> QED BY <1>4, <1>5, <1>6

(* Every step of the player keeps the invariant. *)
LEMMA PlayerNext == PlayerInv /\ [Next]_vars => PlayerInv'
<1> SUFFICES ASSUME PlayerInv, [Next]_vars PROVE PlayerInv'
  OBVIOUS
<1>1. CASE \E action \in Action, pressed \in BOOLEAN : Input(action, pressed)
  BY <1>1, InputIInv
<1>2. CASE \E step \in 0 .. MaxStep : Update(step)
  BY <1>2, UpdateIInv
<1>3. CASE Respawned
  BY <1>3, RespawnedIInv
<1>4. CASE UNCHANGED vars
  BY <1>4 DEF vars, PlayerInv, TypeOK, KeysDecide, Stuck, StatesAgree, StillWhenIdle, Still,
              BoxInWindow, InWindow, Pixel, WindowOf
<1> QED BY <1>1, <1>2, <1>3, <1>4 DEF Next

(* The inductive invariant of Player, InputManager and the state objects. *)
THEOREM PlayerCorrect == Spec => []PlayerInv
BY PlayerInit, PlayerNext, PTL DEF Spec

(* Every member of Player keeps its type: velocities and directions are signs. *)
THEOREM PlayerTypeCorrect == Spec => []TypeOK
<1>1. PlayerInv => TypeOK
  BY DEF PlayerInv
<1> QED BY <1>1, PlayerCorrect, PTL

(* After any presses and releases a player that is not stuck runs exactly while
   a key is down. *)
THEOREM KeysDecideAlways == Spec => []KeysDecide
<1>1. PlayerInv => KeysDecide
  BY DEF PlayerInv
<1> QED BY <1>1, PlayerCorrect, PTL

(* PlayerStateRun::exit is enough for a player that stands to have no velocity. *)
THEOREM IdleIsStill == Spec => []StillWhenIdle
<1>1. PlayerInv => StillWhenIdle
  BY DEF PlayerInv
<1> QED BY <1>1, PlayerCorrect, PTL

(* boundPosition keeps the bounding box in the window, for every fraction of a
   pixel and however far one frame moves the player. *)
THEOREM AlwaysInWindow == Spec => []BoxInWindow
<1>1. PlayerInv => BoxInWindow
  BY DEF PlayerInv
<1> QED BY <1>1, PlayerCorrect, PTL

(* A player made with m_currentState holding Run never moves: no key, frame or
   respawn gets it out of that (player.cpp:191). *)
THEOREM StuckForEver == Spec => (Stuck => []Stuck)
<1>1. ASSUME Stuck, [Next]_vars PROVE Stuck'
  <2>1. CASE \E action \in Action, pressed \in BOOLEAN : Input(action, pressed)
    BY <1>1, <2>1 DEF Stuck, Input, StateFor, MaybeChangeState
  <2>2. CASE (\E step \in 0 .. MaxStep : Update(step)) \/ Respawned
    BY <1>1, <2>2 DEF Stuck, Update, Respawned
  <2>3. CASE UNCHANGED vars
    BY <1>1, <2>3 DEF Stuck, vars
  <2> QED BY <1>1, <2>1, <2>2, <2>3 DEF Next
<1> QED BY <1>1, PTL DEF Spec

-----------------------------------------------------------------------------
(* What TLC runs *)

(* A behaviour of the three together is one of each: the others stutter. *)
LEMMA EachPartSteps ==
    ASSUME [MCNext]_<<part, vars, arenaVars, syncVars>>
    PROVE  [Next]_vars /\ [ArenaNext]_arenaVars /\ [SyncNext]_syncVars
BY DEF MCNext

(* So what is proved of each holds of what the run checks. *)
THEOREM EachPartRuns == MCSpec => Spec /\ ArenaSpec /\ SyncSpec
<1>1. MCInit => Init /\ ArenaInit /\ SyncInit
  BY DEF MCInit
<1>2. [MCNext]_<<part, vars, arenaVars, syncVars>>
         => [Next]_vars /\ [ArenaNext]_arenaVars /\ [SyncNext]_syncVars
  BY EachPartSteps
<1> QED BY <1>1, <1>2, PTL DEF MCSpec, Spec, ArenaSpec, SyncSpec

(* The types of player, arena and copies, in the specification the run checks. *)
THEOREM SimulationTypeCorrect ==
    ASSUME SizeAssumption, IDAssumption
    PROVE  MCSpec => []AllTypesOK
<1>1. TypeOK /\ ArenaTypeOK /\ SyncTypeOK => AllTypesOK
  BY DEF AllTypesOK
<1> QED BY <1>1, EachPartRuns, PlayerTypeCorrect, ArenaTypeCorrect, SyncTypeCorrect, PTL

(* And for the clocks. *)
LEMMA EachClockSteps ==
    ASSUME [ClocksNext]_<<clock, pingVars, clockVars>>
    PROVE  [PingNext]_pingVars /\ [ClockNext]_clockVars
BY DEF ClocksNext

THEOREM EachClockRuns == ClocksSpec => PingSpec /\ ClockSpec
<1>1. ClocksInit => PingInit /\ ClockInit
  BY DEF ClocksInit
<1>2. [ClocksNext]_<<clock, pingVars, clockVars>> => [PingNext]_pingVars /\ [ClockNext]_clockVars
  BY EachClockSteps
<1> QED BY <1>1, <1>2, PTL DEF ClocksSpec, PingSpec, ClockSpec
==============================================================================
