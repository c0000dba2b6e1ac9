-------------------------- MODULE GameServer_proofs --------------------------
(* What the operators of the server's tick compute, for any number of clients,
   players, projectiles and messages: the loops of game_simulation.h and
   game_server.h, and with them one call of update(). *)
EXTENDS GameServer, Network_proofs, Recursion_proofs

(* Messages of one kind. *)
Updates == {m \in AppMessage : m.type = "PlayerStateUpdate"}
Spawns == {m \in AppMessage : m.type = "ProjectileSpawn"}
Healths == {m \in AppMessage : /\ m.type \in {"PlayerHealthUpdate", "PlayerRespawned"}
                               /\ m.health \in 1 .. MaxHealth}
HealthsOf(D) == {m \in Healths : m.playerID \in D}

Games(D) == [D -> 1 .. MaxHealth]

LEMMA KindsAreMessages ==
    /\ Updates \subseteq AppMessage /\ Spawns \subseteq AppMessage /\ Healths \subseteq AppMessage
    /\ AppMessage \subseteq Message
    /\ \A m \in Message : m.type = "PlayerStateUpdate" => m \in Updates
    /\ \A m \in Message : m.type = "ProjectileSpawn" => m \in Spawns
    /\ \A m \in Updates : m.playerID \in Nat
    /\ \A m \in Spawns : m.ownerPlayerID \in Nat /\ m.projectileID \in Nat
BY DEF Updates, Spawns, Healths, Message, NetMessage, AppMessage

LEMMA GameMessagesTyped ==
    ASSUME NEW id \in Nat
    PROVE  /\ AssignLocalPlayerID(id) \in AppMessage
           /\ PlayerStateUpdate(id) \in Updates
           /\ PlayerJoined(id) \in AppMessage
           /\ PlayerLeft(id) \in AppMessage
           /\ \A health \in 1 .. MaxHealth : /\ PlayerHealthUpdate(id, health) \in Healths
                                             /\ PlayerRespawned(id, health) \in Healths
           /\ \A n \in Nat : ProjectileSpawn(id, n) \in Spawns
<1>1. \A health \in 1 .. MaxHealth : health \in Nat
  BY HealthAssumption
<1> QED BY <1>1 DEF AppMessage, Updates, Spawns, Healths, AssignLocalPlayerID, PlayerStateUpdate,
                    PlayerJoined, PlayerLeft, PlayerHealthUpdate, PlayerRespawned, ProjectileSpawn

-----------------------------------------------------------------------------
(* The loops: whatever set the turns stay in, the result is in. *)

LEMMA ApplyAllIn ==
    ASSUME NEW game, NEW msgs, Len(msgs) \in Nat, NEW V, game \in V,
           \A k \in 1 .. Len(msgs), v \in V : ApplyIncomingMessage(v, msgs[k]) \in V
    PROVE  ApplyAll(game, msgs) \in V
<1> DEFINE n == Len(msgs)
           G(f, k) == IF k = 0 THEN game ELSE ApplyIncomingMessage(f[k - 1], msgs[k])
           Is(f) == f = [k \in 0 .. n |-> G(f, k)]
           after == CHOOSE f : Is(f)
           step == [k \in 1 .. n |-> [v \in V |-> ApplyIncomingMessage(v, msgs[k])]]
<1>1. ApplyAll(game, msgs) = after[n]
  BY DEF ApplyAll
<1>2. \E f : Is(f)
  <2>1. step \in [1 .. n -> [V -> V]]
    OBVIOUS
  <2> HIDE DEF step
  <2>2. PICK f : Runs(f, n, game, step) /\ \A k \in 0 .. n : f[k] \in V
    BY <2>1, LoopExists
  <2>3. ASSUME NEW k \in 0 .. n
        PROVE  (IF k = 0 THEN game ELSE step[k][f[k - 1]]) = G(f, k)
    BY <2>2 DEF step
  <2>4. f = [k \in 0 .. n |-> IF k = 0 THEN game ELSE step[k][f[k - 1]]]
    BY <2>2 DEF Runs
  <2>5. Is(f)
    <3> HIDE DEF G
    <3> QED BY <2>3, <2>4
  <2> QED BY <2>5
<1>3. Is(after)
  <2> HIDE DEF Is
  <2> QED BY <1>2
<1> HIDE DEF after
<1>4. after[0] \in V
  BY <1>3
<1>5. ASSUME NEW k \in 1 .. n, after[k - 1] \in V PROVE after[k] \in V
  <2>1. k # 0 /\ k \in 0 .. n
    OBVIOUS
  <2>2. after[k] = G(after, k)
    <3> HIDE DEF G
    <3> QED BY <1>3, <2>1
  <2>3. G(after, k) \in V
    BY <1>5, <2>1
  <2> QED BY <2>2, <2>3
<1>6. n \in Nat
  OBVIOUS
<1> HIDE DEF n
<1>7. \A k \in 0 .. n : after[k] \in V
  BY <1>4, <1>5, <1>6, KeptThroughout
<1>8. after[n] \in V
  BY <1>6, <1>7
<1> QED BY <1>1, <1>8

LEMMA RegisterHitsIn ==
    ASSUME NEW game, NEW victims, Len(victims) \in Nat, NEW V,
           [players |-> game, outgoing |-> <<>>] \in V,
           \A k \in 1 .. Len(victims), v \in V : RegisterHit(v, victims[k]) \in V
    PROVE  RegisterHits(game, victims) \in V
<1> DEFINE n == Len(victims)
           start == [players |-> game, outgoing |-> <<>>]
           G(f, k) == IF k = 0 THEN start ELSE RegisterHit(f[k - 1], victims[k])
           Is(f) == f = [k \in 0 .. n |-> G(f, k)]
           after == CHOOSE f : Is(f)
           step == [k \in 1 .. n |-> [v \in V |-> RegisterHit(v, victims[k])]]
<1>1. RegisterHits(game, victims) = after[n]
  BY DEF RegisterHits
<1> HIDE DEF start
<1>2. \E f : Is(f)
  <2>1. step \in [1 .. n -> [V -> V]]
    OBVIOUS
  <2> HIDE DEF step
  <2>2. PICK f : Runs(f, n, start, step) /\ \A k \in 0 .. n : f[k] \in V
    BY <2>1, LoopExists DEF start
  <2>3. ASSUME NEW k \in 0 .. n
        PROVE  (IF k = 0 THEN start ELSE step[k][f[k - 1]]) = G(f, k)
    BY <2>2 DEF step
  <2>4. f = [k \in 0 .. n |-> IF k = 0 THEN start ELSE step[k][f[k - 1]]]
    BY <2>2 DEF Runs
  <2>5. Is(f)
    <3> HIDE DEF G
    <3> QED BY <2>3, <2>4
  <2> QED BY <2>5
<1>3. Is(after)
  <2> HIDE DEF Is
  <2> QED BY <1>2
<1> HIDE DEF after
<1>4. after[0] \in V
  BY <1>3 DEF start
<1>5. ASSUME NEW k \in 1 .. n, after[k - 1] \in V PROVE after[k] \in V
  <2>1. k # 0 /\ k \in 0 .. n
    OBVIOUS
  <2>2. after[k] = G(after, k)
    <3> HIDE DEF G
    <3> QED BY <1>3, <2>1
  <2>3. G(after, k) \in V
    BY <1>5, <2>1
  <2> QED BY <2>2, <2>3
<1>6. n \in Nat
  OBVIOUS
<1> HIDE DEF n
<1>7. \A k \in 0 .. n : after[k] \in V
  BY <1>4, <1>5, <1>6, KeptThroughout
<1>8. after[n] \in V
  BY <1>6, <1>7
<1> QED BY <1>1, <1>8

LEMMA OfTypeIn ==
    ASSUME NEW msgs, NEW type, Len(msgs) \in Nat, NEW V,
           <<>> \in V,
           \A k \in 1 .. Len(msgs), v \in V : (IF msgs[k].type = type THEN Append(v, msgs[k]) ELSE v) \in V
    PROVE  OfType(msgs, type) \in V
<1> DEFINE n == Len(msgs)
           start == <<>>
           G(f, k) == IF k = 0 THEN start ELSE (IF msgs[k].type = type THEN Append(f[k - 1], msgs[k]) ELSE f[k - 1])
           Is(f) == f = [k \in 0 .. n |-> G(f, k)]
           after == CHOOSE f : Is(f)
           step == [k \in 1 .. n |-> [v \in V |-> (IF msgs[k].type = type THEN Append(v, msgs[k]) ELSE v)]]
<1>1. OfType(msgs, type) = after[n]
  BY DEF OfType
<1> HIDE DEF start
<1>2. \E f : Is(f)
  <2>1. step \in [1 .. n -> [V -> V]]
    OBVIOUS
  <2> HIDE DEF step
  <2>2. PICK f : Runs(f, n, start, step) /\ \A k \in 0 .. n : f[k] \in V
    BY <2>1, LoopExists DEF start
  <2>3. ASSUME NEW k \in 0 .. n
        PROVE  (IF k = 0 THEN start ELSE step[k][f[k - 1]]) = G(f, k)
    BY <2>2 DEF step
  <2>4. f = [k \in 0 .. n |-> IF k = 0 THEN start ELSE step[k][f[k - 1]]]
    BY <2>2 DEF Runs
  <2>5. Is(f)
    <3> HIDE DEF G
    <3> QED BY <2>3, <2>4
  <2> QED BY <2>5
<1>3. Is(after)
  <2> HIDE DEF Is
  <2> QED BY <1>2
<1> HIDE DEF after
<1>4. after[0] \in V
  BY <1>3 DEF start
<1>5. ASSUME NEW k \in 1 .. n, after[k - 1] \in V PROVE after[k] \in V
  <2>1. k # 0 /\ k \in 0 .. n
    OBVIOUS
  <2>2. after[k] = G(after, k)
    <3> HIDE DEF G
    <3> QED BY <1>3, <2>1
  <2>3. G(after, k) \in V
    BY <1>5, <2>1
  <2> QED BY <2>2, <2>3
<1>6. n \in Nat
  OBVIOUS
<1> HIDE DEF n
<1>7. \A k \in 0 .. n : after[k] \in V
  BY <1>4, <1>5, <1>6, KeptThroughout
<1>8. after[n] \in V
  BY <1>6, <1>7
<1> QED BY <1>1, <1>8

(* The messages gathered while the loop over the players runs. *)
SnapshotRun(f) ==
    /\ f[0] = <<>>
    /\ \A k \in 1 .. m_nextPlayerID :
         f[k] = IF k - 1 \in DOMAIN players
                THEN f[k - 1] \o <<PlayerStateUpdate(k - 1), PlayerHealthUpdate(k - 1, players[k - 1])>>
                ELSE f[k - 1]

LEMMA SnapshotRunsIn ==
    ASSUME m_nextPlayerID \in Nat, NEW V,
           <<>> \in V,
           \A k \in 1 .. m_nextPlayerID, v \in V : (IF k - 1 \in DOMAIN players
              THEN v \o <<PlayerStateUpdate(k - 1), PlayerHealthUpdate(k - 1, players[k - 1])>>
              ELSE v) \in V
    PROVE  \E f : SnapshotRun(f) /\ Snapshot = f[m_nextPlayerID] /\ \A k \in 0 .. m_nextPlayerID : f[k] \in V
<1> DEFINE n == m_nextPlayerID
           start == <<>>
           G(f, k) == IF k = 0 THEN start ELSE (IF k - 1 \in DOMAIN players
              THEN f[k - 1] \o <<PlayerStateUpdate(k - 1), PlayerHealthUpdate(k - 1, players[k - 1])>>
              ELSE f[k - 1])
           Is(f) == f = [k \in 0 .. n |-> G(f, k)]
           after == CHOOSE f : Is(f)
           step == [k \in 1 .. n |-> [v \in V |-> (IF k - 1 \in DOMAIN players
              THEN v \o <<PlayerStateUpdate(k - 1), PlayerHealthUpdate(k - 1, players[k - 1])>>
              ELSE v)]]
<1>1. Snapshot = after[n]
  BY DEF Snapshot
<1> HIDE DEF start
<1>2. \E f : Is(f)
  <2>1. step \in [1 .. n -> [V -> V]]
    OBVIOUS
  <2> HIDE DEF step
  <2>2. PICK f : Runs(f, n, start, step) /\ \A k \in 0 .. n : f[k] \in V
    BY <2>1, LoopExists DEF start
  <2>3. ASSUME NEW k \in 0 .. n
        PROVE  (IF k = 0 THEN start ELSE step[k][f[k - 1]]) = G(f, k)
    BY <2>2 DEF step
  <2>4. f = [k \in 0 .. n |-> IF k = 0 THEN start ELSE step[k][f[k - 1]]]
    BY <2>2 DEF Runs
  <2>5. Is(f)
    <3> HIDE DEF G
    <3> QED BY <2>3, <2>4
  <2> QED BY <2>5
<1>3. Is(after)
  <2> HIDE DEF Is
  <2> QED BY <1>2
<1> HIDE DEF after
<1>4. after[0] \in V
  BY <1>3 DEF start
<1>5. ASSUME NEW k \in 1 .. n, after[k - 1] \in V PROVE after[k] \in V
  <2>1. k # 0 /\ k \in 0 .. n
    OBVIOUS
  <2>2. after[k] = G(after, k)
    <3> HIDE DEF G
    <3> QED BY <1>3, <2>1
  <2>3. G(after, k) \in V
    BY <1>5, <2>1
  <2> QED BY <2>2, <2>3
<1>8. ASSUME NEW k \in 1 .. n
      PROVE  after[k] = IF k - 1 \in DOMAIN players
                THEN after[k - 1] \o <<PlayerStateUpdate(k - 1), PlayerHealthUpdate(k - 1, players[k - 1])>>
                ELSE after[k - 1]
  <2>1. k # 0 /\ k \in 0 .. n
    OBVIOUS
  <2>2. after[k] = G(after, k)
    <3> HIDE DEF G
    <3> QED BY <1>3, <2>1
  <2> QED BY <2>1, <2>2
<1>9. SnapshotRun(after)
  <2>1. after[0] = <<>>
    BY <1>3 DEF start
  <2> HIDE DEF G
  <2> QED BY <1>8, <2>1 DEF SnapshotRun
<1>6. n \in Nat
  OBVIOUS
<1>7. \A k \in 0 .. n : after[k] \in V
  <2> HIDE DEF n
  <2> QED BY <1>4, <1>5, <1>6, KeptThroughout
<1> QED BY <1>1, <1>7, <1>9

LEMMA ConsumeAllIn ==
    ASSUME NEW order, Len(order) \in Nat, NEW V,
           [players |-> players, projectiles |-> m_projectiles, clients |-> m_clients] \in V,
           \A k \in 1 .. Len(order), v \in V : ConsumeClient(v, order[k]) \in V
    PROVE  ConsumeAll(order) \in V
<1> DEFINE n == Len(order)
           start == [players |-> players, projectiles |-> m_projectiles, clients |-> m_clients]
           G(f, k) == IF k = 0 THEN start ELSE ConsumeClient(f[k - 1], order[k])
           Is(f) == f = [k \in 0 .. n |-> G(f, k)]
           after == CHOOSE f : Is(f)
           step == [k \in 1 .. n |-> [v \in V |-> ConsumeClient(v, order[k])]]
<1>1. ConsumeAll(order) = after[n]
  BY DEF ConsumeAll
<1> HIDE DEF start
<1>2. \E f : Is(f)
  <2>1. step \in [1 .. n -> [V -> V]]
    OBVIOUS
  <2> HIDE DEF step
  <2>2. PICK f : Runs(f, n, start, step) /\ \A k \in 0 .. n : f[k] \in V
    BY <2>1, LoopExists DEF start
  <2>3. ASSUME NEW k \in 0 .. n
        PROVE  (IF k = 0 THEN start ELSE step[k][f[k - 1]]) = G(f, k)
    BY <2>2 DEF step
  <2>4. f = [k \in 0 .. n |-> IF k = 0 THEN start ELSE step[k][f[k - 1]]]
    BY <2>2 DEF Runs
  <2>5. Is(f)
    <3> HIDE DEF G
    <3> QED BY <2>3, <2>4
  <2> QED BY <2>5
<1>3. Is(after)
  <2> HIDE DEF Is
  <2> QED BY <1>2
<1> HIDE DEF after
<1>4. after[0] \in V
  BY <1>3 DEF start
<1>5. ASSUME NEW k \in 1 .. n, after[k - 1] \in V PROVE after[k] \in V
  <2>1. k # 0 /\ k \in 0 .. n
    OBVIOUS
  <2>2. after[k] = G(after, k)
    <3> HIDE DEF G
    <3> QED BY <1>3, <2>1
  <2>3. G(after, k) \in V
    BY <1>5, <2>1
  <2> QED BY <2>2, <2>3
<1>6. n \in Nat
  OBVIOUS
<1> HIDE DEF n
<1>7. \A k \in 0 .. n : after[k] \in V
  BY <1>4, <1>5, <1>6, KeptThroughout
<1>8. after[n] \in V
  BY <1>6, <1>7
<1> QED BY <1>1, <1>8

-----------------------------------------------------------------------------
(* applyIncomingMessage on copies of the game *)

(* Any map from players to healths, and messages to apply to it. *)
AllGames == UNION {Games(D) : D \in SUBSET Nat}

GameMessages ==
    {m \in Message : m.type \in {"PlayerHealthUpdate", "PlayerRespawned"} => m.health \in 1 .. MaxHealth}

LEMMA AllGamesAre ==
    ASSUME NEW game
    PROVE  game \in AllGames <=> DOMAIN game \subseteq Nat /\ game \in [DOMAIN game -> 1 .. MaxHealth]
BY DEF AllGames, Games

LEMMA AppliedGame ==
    ASSUME NEW game \in AllGames, NEW msg \in GameMessages
    PROVE  ApplyIncomingMessage(game, msg) \in AllGames
<1> DEFINE after == ApplyIncomingMessage(game, msg)
<1>1. MaxHealth \in 1 .. MaxHealth
  BY HealthAssumption
<1>0. DOMAIN game \subseteq Nat /\ game \in [DOMAIN game -> 1 .. MaxHealth] /\ msg \in Message
  BY AllGamesAre DEF GameMessages
<1>2. CASE msg.type \in {"PlayerJoined", "PlayerStateUpdate"}
  <2>1. after = AddPlayer(game, msg.playerID)
    BY <1>2 DEF ApplyIncomingMessage
  <2>2. msg.playerID \in Nat
    BY <1>0, <1>2 DEF Message, NetMessage, AppMessage
  <2>3. DOMAIN after \subseteq Nat /\ after \in [DOMAIN after -> 1 .. MaxHealth]
    BY <1>0, <1>1, <1>2, <2>1, <2>2 DEF AddPlayer
  <2> QED BY <2>3, AllGamesAre
<1>3. CASE msg.type = "PlayerLeft"
  <2>1. after = RemovePlayer(game, msg.playerID)
    BY <1>3 DEF ApplyIncomingMessage
  <2>2. DOMAIN after \subseteq Nat /\ after \in [DOMAIN after -> 1 .. MaxHealth]
    BY <1>0, <1>3, <2>1 DEF RemovePlayer
  <2> QED BY <2>2, AllGamesAre
<1>4. CASE msg.type \in {"PlayerHealthUpdate", "PlayerRespawned"}
  <2>1. after = SetHealth(game, msg.playerID, msg.health) /\ msg.health \in 1 .. MaxHealth
    BY <1>4 DEF ApplyIncomingMessage, GameMessages
  <2>2. after = game \/ after = [game EXCEPT ![msg.playerID] = msg.health]
    <3>1. (IF msg.health > MaxHealth THEN MaxHealth ELSE msg.health) = msg.health
      BY <2>1, HealthAssumption
    <3> QED BY <2>1, <3>1 DEF SetHealth
  <2>3. DOMAIN after \subseteq Nat /\ after \in [DOMAIN after -> 1 .. MaxHealth]
    BY <1>0, <2>1, <2>2
  <2> QED BY <2>3, AllGamesAre
<1>5. CASE msg.type \notin {"PlayerJoined", "PlayerStateUpdate", "PlayerLeft", "PlayerHealthUpdate",
                            "PlayerRespawned"}
  BY <1>5 DEF ApplyIncomingMessage
<1> QED BY <1>2, <1>3, <1>4, <1>5

(* Two games say the same of player id. *)
SameOf(v, w, id) == (id \in DOMAIN v <=> id \in DOMAIN w) /\ (id \in DOMAIN v => v[id] = w[id])

About(msg, id) == Adds(msg, id) \/ Removes(msg, id) \/ SetsHealth(msg, id)

(* What a message does to a player, for games in which they are in range. *)
LEMMA Applied ==
    ASSUME NEW game \in AllGames, NEW msg \in GameMessages, NEW id
    PROVE  LET after == ApplyIncomingMessage(game, msg) IN
             /\ ~About(msg, id) => SameOf(game, after, id)
             /\ Adds(msg, id) => /\ id \in DOMAIN after
                                 /\ after[id] = IF id \in DOMAIN game THEN game[id] ELSE MaxHealth
             /\ Removes(msg, id) => id \notin DOMAIN after
             /\ SetsHealth(msg, id) => /\ id \in DOMAIN after <=> id \in DOMAIN game
                                       /\ id \in DOMAIN game => after[id] = msg.health
<1> DEFINE after == ApplyIncomingMessage(game, msg)
<1>0. game = [q \in DOMAIN game |-> game[q]]
  BY AllGamesAre
<1>2. CASE msg.type \in {"PlayerJoined", "PlayerStateUpdate"}
  <2>1. after = AddPlayer(game, msg.playerID)
    BY <1>2 DEF ApplyIncomingMessage
  <2> QED BY <1>2, <2>1 DEF AddPlayer, About, Adds, Removes, SetsHealth, SameOf
<1>3. CASE msg.type = "PlayerLeft"
  <2>1. after = RemovePlayer(game, msg.playerID)
    BY <1>3 DEF ApplyIncomingMessage
  <2> QED BY <1>3, <2>1 DEF RemovePlayer, About, Adds, Removes, SetsHealth, SameOf
<1>4. CASE msg.type \in {"PlayerHealthUpdate", "PlayerRespawned"}
  <2>1. after = SetHealth(game, msg.playerID, msg.health) /\ msg.health \in 1 .. MaxHealth
    BY <1>4 DEF ApplyIncomingMessage, GameMessages
  <2>2. after = IF msg.playerID \in DOMAIN game THEN [game EXCEPT ![msg.playerID] = msg.health] ELSE game
    <3>1. (IF msg.health > MaxHealth THEN MaxHealth ELSE msg.health) = msg.health
      BY <2>1, HealthAssumption
    <3> QED BY <2>1, <3>1 DEF SetHealth
  <2> QED BY <1>0, <1>4, <2>2 DEF About, Adds, Removes, SetsHealth, SameOf
<1>5. CASE msg.type \notin {"PlayerJoined", "PlayerStateUpdate", "PlayerLeft", "PlayerHealthUpdate",
                            "PlayerRespawned"}
  <2>1. after = game
    BY <1>5 DEF ApplyIncomingMessage
  <2> QED BY <1>5, <2>1 DEF About, Adds, Removes, SetsHealth, SameOf
<1> QED BY <1>2, <1>3, <1>4, <1>5

-----------------------------------------------------------------------------
(* The games passed through while messages are applied. *)
Applies(f, game, msgs) ==
    /\ f[0] = game
    /\ \A k \in 1 .. Len(msgs) : f[k] = ApplyIncomingMessage(f[k - 1], msgs[k])

LEMMA ApplyAllRuns ==
    ASSUME NEW game \in AllGames, NEW msgs \in Seq(GameMessages)
    PROVE  \E f : /\ Applies(f, game, msgs)
                  /\ \A k \in 0 .. Len(msgs) : f[k] \in AllGames
                  /\ ApplyAll(game, msgs) = f[Len(msgs)]
<1> DEFINE n == Len(msgs)
           G(f, k) == IF k = 0 THEN game ELSE ApplyIncomingMessage(f[k - 1], msgs[k])
           Is(f) == f = [k \in 0 .. n |-> G(f, k)]
           after == CHOOSE f : Is(f)
           step == [k \in 1 .. n |-> [v \in AllGames |-> ApplyIncomingMessage(v, msgs[k])]]
<1>1. ApplyAll(game, msgs) = after[n] /\ n \in Nat
  BY DEF ApplyAll
<1>2. \E f : Is(f)
  <2>1. step \in [1 .. n -> [AllGames -> AllGames]]
    BY AppliedGame
  <2> HIDE DEF step, n, Is
  <2>2. PICK f : Runs(f, n, game, step) /\ \A k \in 0 .. n : f[k] \in AllGames
    BY <1>1, <2>1, LoopExists
  <2> USE DEF n, Is
  <2>3. ASSUME NEW k \in 0 .. n
        PROVE  (IF k = 0 THEN game ELSE step[k][f[k - 1]]) = G(f, k)
    BY <2>2 DEF step
  <2>4. f = [k \in 0 .. n |-> IF k = 0 THEN game ELSE step[k][f[k - 1]]]
    BY <2>2 DEF Runs
  <2>5. Is(f)
    <3> HIDE DEF G
    <3> QED BY <2>3, <2>4
  <2> QED BY <2>5
<1>3. Is(after)
  <2> HIDE DEF Is
  <2> QED BY <1>2
<1> HIDE DEF after
<1>4. Applies(after, game, msgs)
  BY <1>3 DEF Applies
<1>5. ASSUME NEW k \in 1 .. n, after[k - 1] \in AllGames PROVE after[k] \in AllGames
  <2>1. after[k] = ApplyIncomingMessage(after[k - 1], msgs[k]) /\ msgs[k] \in GameMessages
    BY <1>4 DEF Applies
  <2> QED BY <1>5, <2>1, AppliedGame
<1>6. after[0] \in AllGames
  BY <1>4 DEF Applies
<1> HIDE DEF n
<1>7. \A k \in 0 .. n : after[k] \in AllGames
  BY <1>1, <1>5, <1>6, KeptThroughout
<1> QED BY <1>1, <1>4, <1>7 DEF n

LEMMA ApplyAllIs ==
    ASSUME NEW game \in AllGames, NEW msgs \in Seq(GameMessages), NEW f, Applies(f, game, msgs)
    PROVE  ApplyAll(game, msgs) = f[Len(msgs)] /\ \A k \in 0 .. Len(msgs) : f[k] \in AllGames
<1>1. PICK g : /\ Applies(g, game, msgs)
               /\ \A k \in 0 .. Len(msgs) : g[k] \in AllGames
               /\ ApplyAll(game, msgs) = g[Len(msgs)]
  BY ApplyAllRuns
<1> DEFINE n == Len(msgs)
           T == {k \in 0 .. n : f[k] = g[k]}
<1>2. n \in Nat /\ 0 \in T
  BY <1>1 DEF Applies
<1>3. ASSUME NEW k \in 1 .. n, k - 1 \in T PROVE k \in T
  BY <1>1, <1>3 DEF Applies
<1> HIDE DEF T
<1>4. 0 .. n \subseteq T
  BY <1>2, <1>3, AllReached
<1>5. \A k \in 0 .. n : f[k] = g[k]
  BY <1>4 DEF T
<1> QED BY <1>1, <1>2, <1>5

LEMMA ApplyAllNone ==
    ASSUME NEW game \in AllGames
    PROVE  ApplyAll(game, <<>>) = game
<1> DEFINE f == [k \in 0 .. 0 |-> game]
<1>1. Applies(f, game, <<>>) /\ <<>> \in Seq(GameMessages) /\ f[Len(<<>>)] = game
  BY DEF Applies
<1> HIDE DEF f
<1> QED BY <1>1, ApplyAllIs

LEMMA ApplyAllOne ==
    ASSUME NEW game \in AllGames, NEW msg \in GameMessages
    PROVE  ApplyAll(game, <<msg>>) = ApplyIncomingMessage(game, msg)
<1> DEFINE after == ApplyIncomingMessage(game, msg)
           f == [k \in 0 .. 1 |-> IF k = 0 THEN game ELSE after]
<1>1. Applies(f, game, <<msg>>) /\ <<msg>> \in Seq(GameMessages) /\ f[Len(<<msg>>)] = after
  <2> HIDE DEF after
  <2>1. f[0] = game /\ f[1] = after /\ Len(<<msg>>) = 1 /\ <<msg>>[1] = msg
    OBVIOUS
  <2> HIDE DEF f
  <2> QED BY <2>1 DEF Applies, after
<1> HIDE DEF f, after
<1>2. ApplyAll(game, <<msg>>) = f[Len(<<msg>>)]
  BY <1>1, ApplyAllIs
<1> QED BY <1>1, <1>2 DEF after

(* Messages in two parts are applied one after the other. *)
LEMMA ApplyAllAppended ==
    ASSUME NEW game \in AllGames, NEW msgs \in Seq(GameMessages), NEW more \in Seq(GameMessages)
    PROVE  /\ ApplyAll(game, msgs) \in AllGames
           /\ ApplyAll(game, msgs \o more) = ApplyAll(ApplyAll(game, msgs), more)
<1> DEFINE all == msgs \o more
           n == Len(msgs)
           m == Len(more)
<1>1. /\ all \in Seq(GameMessages) /\ Len(all) = n + m /\ n \in Nat /\ m \in Nat
      /\ \A k \in 1 .. n : k \in 1 .. n + m /\ all[k] = msgs[k]
      /\ \A k \in 1 .. m : n + k \in 1 .. n + m /\ all[n + k] = more[k] /\ n + k - 1 = n + (k - 1)
  OBVIOUS
<1> HIDE DEF all
<1>2. PICK f : /\ Applies(f, game, all)
               /\ \A k \in 0 .. Len(all) : f[k] \in AllGames
               /\ ApplyAll(game, all) = f[Len(all)]
  BY <1>1, ApplyAllRuns
<1>3. Applies(f, game, msgs)
  BY <1>1, <1>2 DEF Applies
<1>4. ApplyAll(game, msgs) = f[n]
  BY <1>3, ApplyAllIs
<1> DEFINE g == [k \in 0 .. m |-> f[n + k]]
<1>5. g[0] = f[n] /\ \A k \in 1 .. m : g[k] = f[n + k] /\ g[k - 1] = f[n + (k - 1)]
  BY <1>1
<1>6. g[m] = f[n + m]
  BY <1>1
<1> HIDE DEF g
<1>7. Applies(g, f[n], more)
  BY <1>1, <1>2, <1>5 DEF Applies
<1>8. f[n] \in AllGames
  BY <1>1, <1>2
<1>9. ApplyAll(f[n], more) = g[m]
  BY <1>7, <1>8, ApplyAllIs
<1> QED BY <1>1, <1>2, <1>4, <1>6, <1>8, <1>9 DEF all

LEMMA ApplyAllHead ==
    ASSUME NEW game \in AllGames, NEW msgs \in Seq(GameMessages), msgs # <<>>
    PROVE  ApplyAll(game, msgs) = ApplyAll(ApplyIncomingMessage(game, Head(msgs)), Tail(msgs))
<1> DEFINE first == <<Head(msgs)>>
           rest == Tail(msgs)
<1>1. Head(msgs) \in GameMessages /\ rest \in Seq(GameMessages) /\ first \in Seq(GameMessages)
      /\ msgs = first \o rest
  OBVIOUS
<1>2. ApplyAll(game, first) = ApplyIncomingMessage(game, Head(msgs))
  BY <1>1, ApplyAllOne
<1> HIDE DEF first, rest
<1>3. ApplyAll(game, first \o rest) = ApplyAll(ApplyAll(game, first), rest)
  BY <1>1, ApplyAllAppended
<1> QED BY <1>1, <1>2, <1>3 DEF rest

(* Of a player no message is about, nothing changes; what two games say the same
   of a player they say the same of after the same messages. *)
LEMMA ApplyAllOther ==
    ASSUME NEW game \in AllGames, NEW msgs \in Seq(GameMessages), NEW id,
           \A k \in 1 .. Len(msgs) : ~About(msgs[k], id)
    PROVE  SameOf(game, ApplyAll(game, msgs), id)
<1> DEFINE V == {v \in AllGames : SameOf(game, v, id)}
<1>1. game \in V /\ Len(msgs) \in Nat
  BY DEF SameOf
<1>2. ASSUME NEW k \in 1 .. Len(msgs), NEW v \in V PROVE ApplyIncomingMessage(v, msgs[k]) \in V
  <2>1. msgs[k] \in GameMessages /\ v \in AllGames /\ SameOf(game, v, id)
    OBVIOUS
  <2>2. SameOf(v, ApplyIncomingMessage(v, msgs[k]), id)
    BY <2>1, Applied
  <2>3. SameOf(game, ApplyIncomingMessage(v, msgs[k]), id)
    BY <2>1, <2>2 DEF SameOf
  <2> QED BY <2>1, <2>3, AppliedGame
<1> HIDE DEF V
<1>3. ApplyAll(game, msgs) \in V
  BY <1>1, <1>2, ApplyAllIn
<1> QED BY <1>3 DEF V

LEMMA ApplyAllSame ==
    ASSUME NEW v \in AllGames, NEW w \in AllGames, NEW id, SameOf(v, w, id), NEW msgs \in Seq(GameMessages)
    PROVE  SameOf(ApplyAll(v, msgs), ApplyAll(w, msgs), id)
<1>1. PICK f : /\ Applies(f, v, msgs)
               /\ \A k \in 0 .. Len(msgs) : f[k] \in AllGames
               /\ ApplyAll(v, msgs) = f[Len(msgs)]
  BY ApplyAllRuns
<1>2. PICK g : /\ Applies(g, w, msgs)
               /\ \A k \in 0 .. Len(msgs) : g[k] \in AllGames
               /\ ApplyAll(w, msgs) = g[Len(msgs)]
  BY ApplyAllRuns
<1> DEFINE n == Len(msgs)
           T == {k \in 0 .. n : SameOf(f[k], g[k], id)}
<1>3. n \in Nat /\ 0 \in T
  BY <1>1, <1>2 DEF Applies
<1>4. ASSUME NEW k \in 1 .. n, k - 1 \in T PROVE k \in T
  <2>1. f[k - 1] \in AllGames /\ g[k - 1] \in AllGames /\ msgs[k] \in GameMessages
        /\ f[k] = ApplyIncomingMessage(f[k - 1], msgs[k]) /\ g[k] = ApplyIncomingMessage(g[k - 1], msgs[k])
    BY <1>1, <1>2 DEF Applies
  <2>2. SameOf(f[k - 1], g[k - 1], id)
    BY <1>4
  <2>3. SameOf(f[k], g[k], id)
    BY <2>1, <2>2, Applied DEF SameOf, About
  <2> QED BY <2>3
<1> HIDE DEF T
<1>5. 0 .. n \subseteq T
  BY <1>3, <1>4, AllReached
<1>6. n \in T
  BY <1>3, <1>5
<1> QED BY <1>1, <1>2, <1>6 DEF T

(* A player who is in no game before is in it after only if a message adds it. *)
LEMMA AddedBy ==
    ASSUME NEW game \in AllGames, NEW msgs \in Seq(GameMessages), NEW id,
           id \notin DOMAIN game, id \in DOMAIN ApplyAll(game, msgs)
    PROVE  \E k \in 1 .. Len(msgs) : Adds(msgs[k], id)
<1> SUFFICES ASSUME \A k \in 1 .. Len(msgs) : ~Adds(msgs[k], id) PROVE FALSE
  OBVIOUS
<1> DEFINE V == {v \in AllGames : id \notin DOMAIN v}
<1>1. game \in V /\ Len(msgs) \in Nat
  OBVIOUS
<1>2. ASSUME NEW k \in 1 .. Len(msgs), NEW v \in V PROVE ApplyIncomingMessage(v, msgs[k]) \in V
  <2>1. msgs[k] \in GameMessages /\ v \in AllGames /\ id \notin DOMAIN v /\ ~Adds(msgs[k], id)
    OBVIOUS
  <2>2. id \notin DOMAIN ApplyIncomingMessage(v, msgs[k])
    BY <2>1, Applied DEF SameOf, About
  <2> QED BY <2>1, <2>2, AppliedGame
<1> HIDE DEF V
<1>3. ApplyAll(game, msgs) \in V
  BY <1>1, <1>2, ApplyAllIn
<1> QED BY <1>3 DEF V

(* A state update of a player that overtakes its PlayerJoined makes no
   difference in the end, if no health of the player is told before it joins. *)
LEMMA AddedEarly ==
    ASSUME NEW game \in AllGames, NEW msgs \in Seq(GameMessages), NEW id \in Nat, id \notin DOMAIN game,
           \A k \in 1 .. Len(msgs) : ~Removes(msgs[k], id), Introduced(msgs, id),
           id \in DOMAIN ApplyAll(game, msgs)
    PROVE  SameOf(ApplyAll(AddPlayer(game, id), msgs), ApplyAll(game, msgs), id)
<1> DEFINE early == AddPlayer(game, id)
           n == Len(msgs)
<1>1. early \in AllGames /\ id \in DOMAIN early /\ early[id] = MaxHealth
  <2>1. DOMAIN game \subseteq Nat /\ game \in [DOMAIN game -> 1 .. MaxHealth] /\ MaxHealth \in 1 .. MaxHealth
    BY AllGamesAre, HealthAssumption
  <2>2. /\ DOMAIN early \subseteq Nat /\ early \in [DOMAIN early -> 1 .. MaxHealth]
        /\ id \in DOMAIN early /\ early[id] = MaxHealth
    BY <2>1 DEF AddPlayer
  <2> QED BY <2>2, AllGamesAre
<1> HIDE DEF early
<1>2. PICK f : /\ Applies(f, early, msgs)
               /\ \A k \in 0 .. Len(msgs) : f[k] \in AllGames
               /\ ApplyAll(early, msgs) = f[Len(msgs)]
  BY <1>1, ApplyAllRuns
<1>3. PICK g : /\ Applies(g, game, msgs)
               /\ \A k \in 0 .. Len(msgs) : g[k] \in AllGames
               /\ ApplyAll(game, msgs) = g[Len(msgs)]
  BY ApplyAllRuns
<1> DEFINE Ahead(k) == /\ id \in DOMAIN f[k] /\ f[k][id] = MaxHealth /\ id \notin DOMAIN g[k]
                       /\ \A j \in 1 .. k : ~Adds(msgs[j], id)
           T == {k \in 0 .. n : Ahead(k) \/ SameOf(f[k], g[k], id)}
<1>4. n \in Nat /\ 0 \in T
  BY <1>1, <1>2, <1>3 DEF Applies
<1>5. ASSUME NEW k \in 1 .. n, k - 1 \in T PROVE k \in T
  <2>1. f[k - 1] \in AllGames /\ g[k - 1] \in AllGames /\ msgs[k] \in GameMessages
        /\ f[k] = ApplyIncomingMessage(f[k - 1], msgs[k]) /\ g[k] = ApplyIncomingMessage(g[k - 1], msgs[k])
    BY <1>2, <1>3 DEF Applies
  <2>2. ASSUME SameOf(f[k - 1], g[k - 1], id) PROVE SameOf(f[k], g[k], id)
    BY <2>1, <2>2, Applied DEF SameOf, About
  <2>3. ASSUME Ahead(k - 1) PROVE Ahead(k) \/ SameOf(f[k], g[k], id)
    <3>1. ~Removes(msgs[k], id) /\ ~SetsHealth(msgs[k], id)
      BY <2>3 DEF Introduced
    <3>2. CASE Adds(msgs[k], id)
      <4>1. id \in DOMAIN f[k] /\ f[k][id] = MaxHealth /\ id \in DOMAIN g[k] /\ g[k][id] = MaxHealth
        BY <2>1, <2>3, <3>2, Applied
      <4> QED BY <4>1 DEF SameOf
    <3>3. CASE ~Adds(msgs[k], id)
      <4>1. SameOf(f[k - 1], f[k], id) /\ SameOf(g[k - 1], g[k], id)
        BY <2>1, <3>1, <3>3, Applied DEF About
      <4>2. \A j \in 1 .. k : j \in 1 .. k - 1 \/ j = k
        OBVIOUS
      <4> QED BY <2>3, <3>3, <4>1, <4>2 DEF SameOf
    <3> QED BY <3>2, <3>3
  <2>4. Ahead(k - 1) \/ SameOf(f[k - 1], g[k - 1], id)
    BY <1>5
  <2> HIDE DEF Ahead
  <2> QED BY <2>2, <2>3, <2>4
<1> HIDE DEF T, Ahead
<1>6. 0 .. n \subseteq T
  BY <1>4, <1>5, AllReached
<1>7. Ahead(n) \/ SameOf(f[n], g[n], id)
  BY <1>4, <1>6 DEF T
<1> QED BY <1>2, <1>3, <1>7 DEF Ahead, early

(* A copy stays on its way to the game when messages are added to those still to
   be applied and the game changes as they say. *)
LEMMA AgreesTold ==
    ASSUME NEW known \in AllGames, NEW msgs \in Seq(GameMessages), NEW more \in Seq(GameMessages),
           NEW game \in AllGames, NEW after, NEW q \in DOMAIN game, Agrees(known, msgs, q, game[q]),
           q \in DOMAIN after, SameOf(ApplyAll(game, more), after, q)
    PROVE  Agrees(known, msgs \o more, q, after[q])
<1> DEFINE then == ApplyAll(known, msgs)
<1>1. then \in AllGames /\ ApplyAll(known, msgs \o more) = ApplyAll(then, more)
  BY ApplyAllAppended
<1>2. SameOf(then, game, q)
  BY DEF Agrees, SameOf
<1>3. q \in DOMAIN known \/ \E j \in 1 .. Len(msgs) : Adds(msgs[j], q)
  BY AddedBy DEF Agrees
<1> HIDE DEF then
<1>4. SameOf(ApplyAll(then, more), ApplyAll(game, more), q)
  BY <1>1, <1>2, ApplyAllSame
<1>5. q \in DOMAIN ApplyAll(then, more) /\ ApplyAll(then, more)[q] = after[q]
  BY <1>4 DEF SameOf
<1>6. ASSUME q \notin DOMAIN known PROVE Introduced(msgs \o more, q)
  <2> DEFINE all == msgs \o more
  <2>1. /\ Len(msgs) \in Nat /\ Len(all) \in Nat
        /\ \A i \in 1 .. Len(msgs) : i \in 1 .. Len(all) /\ all[i] = msgs[i]
    OBVIOUS
  <2> HIDE DEF all
  <2>2. ASSUME NEW i \in 1 .. Len(all), SetsHealth(all[i], q)
        PROVE  \E j \in 1 .. i - 1 : Adds(all[j], q)
    <3>1. CASE i <= Len(msgs)
      <4>1. i \in 1 .. Len(msgs)
        BY <2>1, <3>1
      <4>2. PICK j \in 1 .. i - 1 : Adds(msgs[j], q)
        BY <1>6, <2>1, <2>2, <4>1 DEF Agrees, Introduced
      <4>3. j \in 1 .. Len(msgs)
        BY <2>1, <4>1
      <4> QED BY <2>1, <4>2, <4>3
    <3>2. CASE ~(i <= Len(msgs))
      <4>1. PICK j \in 1 .. Len(msgs) : Adds(msgs[j], q)
        BY <1>3, <1>6
      <4>2. j \in 1 .. i - 1
        BY <2>1, <3>2
      <4> QED BY <2>1, <4>1, <4>2
    <3> QED BY <3>1, <3>2
  <2> QED BY <2>2 DEF Introduced, all
<1> QED BY <1>1, <1>5, <1>6 DEF Agrees

(* When the first of them is applied. *)
LEMMA AgreesRead ==
    ASSUME NEW known \in AllGames, NEW msgs \in Seq(GameMessages), msgs # <<>>,
           NEW q, NEW health, Agrees(known, msgs, q, health), ~Removes(Head(msgs), q)
    PROVE  Agrees(ApplyIncomingMessage(known, Head(msgs)), Tail(msgs), q, health)
<1> DEFINE first == Head(msgs)
           rest == Tail(msgs)
           now == ApplyIncomingMessage(known, first)
<1>1. /\ first \in GameMessages /\ rest \in Seq(GameMessages)
      /\ Len(msgs) \in Nat /\ Len(rest) = Len(msgs) - 1 /\ first = msgs[1]
      /\ \A i \in 1 .. Len(rest) : i + 1 \in 1 .. Len(msgs) /\ rest[i] = msgs[i + 1]
  OBVIOUS
<1>2. ApplyAll(known, msgs) = ApplyAll(now, rest)
  BY ApplyAllHead
<1>3. (q \in DOMAIN known \/ Adds(first, q)) => q \in DOMAIN now
  BY <1>1, Applied DEF SameOf, About
<1> HIDE DEF first, rest, now
<1>4. ASSUME q \notin DOMAIN now PROVE Introduced(rest, q)
  <2>1. Introduced(msgs, q) /\ ~Adds(msgs[1], q)
    BY <1>1, <1>3, <1>4 DEF Agrees
  <2>2. ASSUME NEW i \in 1 .. Len(rest), SetsHealth(rest[i], q)
        PROVE  \E j \in 1 .. i - 1 : Adds(rest[j], q)
    <3>1. PICK j \in 1 .. (i + 1) - 1 : Adds(msgs[j], q)
      BY <1>1, <2>1, <2>2 DEF Introduced
    <3>2. j # 1
      BY <2>1, <3>1
    <3>3. j - 1 \in 1 .. i - 1 /\ j - 1 \in 1 .. Len(rest) /\ (j - 1) + 1 = j
      BY <1>1, <3>1, <3>2
    <3> QED BY <1>1, <3>1, <3>3
  <2> QED BY <2>2 DEF Introduced
<1> QED BY <1>2, <1>4 DEF Agrees, now, rest, first

(* When a player is added to the copy in another way. *)
LEMMA AddedTyped ==
    ASSUME NEW known \in AllGames, NEW id \in Nat
    PROVE  AddPlayer(known, id) \in AllGames
<1>1. DOMAIN known \subseteq Nat /\ known \in [DOMAIN known -> 1 .. MaxHealth] /\ MaxHealth \in 1 .. MaxHealth
  BY AllGamesAre, HealthAssumption
<1>2. DOMAIN AddPlayer(known, id) \subseteq Nat
      /\ AddPlayer(known, id) \in [DOMAIN AddPlayer(known, id) -> 1 .. MaxHealth]
  BY <1>1 DEF AddPlayer
<1> QED BY <1>2, AllGamesAre

LEMMA AgreesAdded ==
    ASSUME NEW known \in AllGames, NEW msgs \in Seq(GameMessages), NEW id \in Nat, NEW q, NEW health,
           Agrees(known, msgs, q, health), \A k \in 1 .. Len(msgs) : ~Removes(msgs[k], q)
    PROVE  Agrees(AddPlayer(known, id), msgs, q, health)
<1> DEFINE now == AddPlayer(known, id)
<1>1. now \in AllGames
  BY AddedTyped
<1>2. CASE id # q \/ q \in DOMAIN known
  <2>1. SameOf(known, now, q)
    BY <1>2 DEF AddPlayer, SameOf
  <2> HIDE DEF now
  <2>2. SameOf(ApplyAll(known, msgs), ApplyAll(now, msgs), q)
    BY <1>1, <2>1, ApplyAllSame
  <2> QED BY <2>1, <2>2 DEF Agrees, SameOf, now
<1>3. CASE id = q /\ q \notin DOMAIN known
  <2>1. q \in DOMAIN now
    BY <1>3 DEF AddPlayer
  <2>2. SameOf(ApplyAll(now, msgs), ApplyAll(known, msgs), q)
    BY <1>3, AddedEarly DEF Agrees
  <2> HIDE DEF now
  <2> QED BY <2>1, <2>2 DEF Agrees, SameOf, now
<1> QED BY <1>2, <1>3

(* When it is told of a player it could not know of. *)
LEMMA AgreesJoined ==
    ASSUME NEW known \in AllGames, NEW msgs \in Seq(GameMessages), NEW id \in Nat,
           id \notin DOMAIN known, \A k \in 1 .. Len(msgs) : ~Adds(msgs[k], id) /\ ~SetsHealth(msgs[k], id)
    PROVE  Agrees(known, msgs \o <<PlayerJoined(id)>>, id, MaxHealth)
<1> DEFINE then == ApplyAll(known, msgs)
           news == <<PlayerJoined(id)>>
           all == msgs \o news
           joined == PlayerJoined(id)
<1>1. joined \in GameMessages /\ Adds(joined, id) /\ ~SetsHealth(joined, id)
  <2>1. joined \in Message /\ joined.type = "PlayerJoined" /\ joined.playerID = id
    BY GameMessagesTyped, KindsAreMessages DEF PlayerJoined
  <2> QED BY <2>1 DEF GameMessages, Adds, SetsHealth
<1>2. news = <<joined>>
  OBVIOUS
<1> HIDE DEF joined
<1>9. news \in Seq(GameMessages)
  BY <1>1, <1>2
<1> HIDE DEF news
<1>3. then \in AllGames /\ ApplyAll(known, all) = ApplyAll(then, news)
  BY <1>9, ApplyAllAppended
<1>4. id \notin DOMAIN then
  BY AddedBy
<1> HIDE DEF then
<1>5. ApplyAll(then, <<joined>>) = ApplyIncomingMessage(then, joined)
  BY <1>1, <1>3, ApplyAllOne
<1> HIDE DEF all
<1>6. id \in DOMAIN ApplyAll(known, all) /\ ApplyAll(known, all)[id] = MaxHealth
  BY <1>1, <1>2, <1>3, <1>4, <1>5, Applied
<1>7. Introduced(all, id)
  <2>1. /\ Len(msgs) \in Nat /\ Len(all) = Len(msgs) + 1 /\ all[Len(msgs) + 1] = joined
        /\ \A k \in 1 .. Len(msgs) : all[k] = msgs[k]
    BY <1>2, <1>9 DEF all
  <2>2. \A i \in 1 .. Len(all) : ~SetsHealth(all[i], id)
    <3> TAKE i \in 1 .. Len(all)
    <3>1. i \in 1 .. Len(msgs) \/ i = Len(msgs) + 1
      BY <2>1
    <3> QED BY <1>1, <2>1, <3>1
  <2> QED BY <2>2 DEF Introduced
<1> QED BY <1>6, <1>7 DEF Agrees, all, news

-----------------------------------------------------------------------------
(* Hits *)

LEMMA HealthsAreGameMessages ==
    /\ Healths \subseteq GameMessages /\ Spawns \subseteq GameMessages
    /\ \A m \in Spawns : \A id : ~About(m, id)
    /\ \A m \in Healths : \A id : ~Adds(m, id) /\ ~Removes(m, id)
BY KindsAreMessages DEF Healths, Spawns, GameMessages, About, Adds, Removes, SetsHealth

(* What the server broadcasts of the hits is what they did to its own game. *)
LEMMA HitsAreTold ==
    ASSUME NEW D \in SUBSET Nat, NEW game \in Games(D), NEW victims, Len(victims) \in Nat,
           \A k \in 1 .. Len(victims) : victims[k] \in D
    PROVE  /\ RegisterHits(game, victims).players \in Games(D)
           /\ RegisterHits(game, victims).outgoing \in Seq(HealthsOf(D))
           /\ RegisterHits(game, victims).players = ApplyAll(game, RegisterHits(game, victims).outgoing)
<1> DEFINE V == {v \in [players: Games(D), outgoing: Seq(HealthsOf(D))] : v.players = ApplyAll(game, v.outgoing)}
<1>0. game \in AllGames /\ HealthsOf(D) \subseteq GameMessages /\ Games(D) \subseteq AllGames
  BY HealthsAreGameMessages DEF AllGames, HealthsOf
<1>1. [players |-> game, outgoing |-> <<>>] \in V
  BY <1>0, ApplyAllNone
<1>2. ASSUME NEW v \in V, NEW id \in D PROVE RegisterHit(v, id) \in V
  <2> DEFINE now == v.players
             told == v.outgoing
             health == now[id]
             msg == HitMessage(health, id)
             next == [now EXCEPT ![id] = HealthAfterHit(health)]
  <2>0. now \in Games(D) /\ told \in Seq(HealthsOf(D)) /\ now = ApplyAll(game, told)
    OBVIOUS
  <2> HIDE DEF now, told
  <2>1. health \in 1 .. MaxHealth /\ id \in Nat
    BY <2>0 DEF Games
  <2>2. MaxHealth \in 1 .. MaxHealth /\ MaxHealth \in Nat /\ ProjectileDamage \in Nat \ {0}
    BY HealthAssumption
  <2> HIDE DEF health
  <2>3. health > ProjectileDamage => health - ProjectileDamage \in 1 .. MaxHealth
    BY <2>1, <2>2
  <2>4. HealthAfterHit(health) \in 1 .. MaxHealth
    BY <2>1, <2>2, <2>3 DEF HealthAfterHit
  <2>5. /\ msg \in HealthsOf(D) /\ msg.type \in {"PlayerHealthUpdate", "PlayerRespawned"}
        /\ msg.playerID = id /\ msg.health = HealthAfterHit(health)
    <3>1. CASE health > ProjectileDamage
      <4>1. msg = PlayerHealthUpdate(id, health - ProjectileDamage) /\ HealthAfterHit(health) = health - ProjectileDamage
        BY <3>1 DEF HitMessage, HealthAfterHit
      <4>2. msg \in Healths
        BY <2>1, <2>3, <3>1, <4>1, GameMessagesTyped
      <4> HIDE DEF msg
      <4> QED BY <4>1, <4>2 DEF HealthsOf, PlayerHealthUpdate
    <3>2. CASE ~(health > ProjectileDamage)
      <4>1. msg = PlayerRespawned(id, MaxHealth) /\ HealthAfterHit(health) = MaxHealth
        BY <3>2 DEF HitMessage, HealthAfterHit
      <4>2. msg \in Healths
        BY <2>1, <2>2, <4>1, GameMessagesTyped
      <4> HIDE DEF msg
      <4> QED BY <4>1, <4>2 DEF HealthsOf, PlayerRespawned
    <3> QED BY <3>1, <3>2
  <2> HIDE DEF msg
  <2>6. next \in Games(D)
    BY <2>0, <2>4 DEF Games
  <2>7. Append(told, msg) \in Seq(HealthsOf(D)) /\ Append(told, msg) = told \o <<msg>>
    BY <2>0, <2>5
  <2>8. ApplyIncomingMessage(now, msg) = next
    <3>1. ApplyIncomingMessage(now, msg) = SetHealth(now, id, HealthAfterHit(health))
      BY <2>5 DEF ApplyIncomingMessage
    <3>2. id \in DOMAIN now /\ ~(HealthAfterHit(health) > MaxHealth)
      BY <2>0, <2>2, <2>4 DEF Games
    <3> QED BY <3>1, <3>2 DEF SetHealth
  <2>9. ApplyAll(game, Append(told, msg)) = next
    <3>1. told \in Seq(GameMessages) /\ msg \in GameMessages /\ <<msg>> \in Seq(GameMessages) /\ now \in AllGames
      BY <1>0, <2>0, <2>5
    <3>2. ApplyAll(game, told \o <<msg>>) = ApplyAll(now, <<msg>>)
      BY <1>0, <2>0, <3>1, ApplyAllAppended
    <3> QED BY <2>7, <2>8, <3>1, <3>2, ApplyAllOne
  <2>10. RegisterHit(v, id) = [players |-> next, outgoing |-> Append(told, msg)]
    BY DEF RegisterHit, now, told, msg, health
  <2> DEFINE outgoing == Append(told, msg)
             hit == [players |-> next, outgoing |-> outgoing]
  <2>11. outgoing \in Seq(HealthsOf(D)) /\ next = ApplyAll(game, outgoing)
    BY <2>7, <2>9
  <2> HIDE DEF next, outgoing
  <2>12. hit \in V
    BY <2>6, <2>11
  <2> QED BY <2>10, <2>12 DEF outgoing
<1>3. \A k \in 1 .. Len(victims), v \in V : RegisterHit(v, victims[k]) \in V
  <2> HIDE DEF V
  <2> QED BY <1>2
<1>4. RegisterHits(game, victims) \in V
  <2> HIDE DEF V
  <2> QED BY <1>1, <1>3, RegisterHitsIn
<1> QED BY <1>4

-----------------------------------------------------------------------------
(* What they compute *)

LEMMA OfTypeTyped ==
    ASSUME NEW msgs \in Seq(Message), NEW type
    PROVE  OfType(msgs, type) \in Seq({m \in Message : m.type = type /\ m \in ToSet(msgs)})
<1> DEFINE V == Seq({m \in Message : m.type = type /\ m \in ToSet(msgs)})
<1>1. Len(msgs) \in Nat /\ <<>> \in V
  OBVIOUS
<1>2. ASSUME NEW k \in 1 .. Len(msgs), NEW v \in V
      PROVE  (IF msgs[k].type = type THEN Append(v, msgs[k]) ELSE v) \in V
  <2>1. msgs[k] \in Message /\ msgs[k] \in ToSet(msgs)
    BY DEF ToSet
  <2> QED BY <2>1
<1> HIDE DEF V
<1>3. OfType(msgs, type) \in V
  BY <1>1, <1>2, OfTypeIn
<1> QED BY <1>3 DEF V

(* What a new client is told of the players. *)
Introductions == {PlayerStateUpdate(id) : id \in DOMAIN players} \cup HealthsOf(DOMAIN players)

LEMMA SnapshotRuns ==
    ASSUME m_nextPlayerID \in Nat, players \in Games(DOMAIN players)
    PROVE  \E f : /\ SnapshotRun(f) /\ Snapshot = f[m_nextPlayerID]
                  /\ \A k \in 0 .. m_nextPlayerID : f[k] \in Seq(Introductions)
<1> DEFINE V == Seq(Introductions)
<1>1. <<>> \in V
  OBVIOUS
<1>2. ASSUME NEW k \in 1 .. m_nextPlayerID, NEW v \in V
      PROVE  (IF k - 1 \in DOMAIN players
              THEN v \o <<PlayerStateUpdate(k - 1), PlayerHealthUpdate(k - 1, players[k - 1])>>
              ELSE v) \in V
  <2>1. CASE k - 1 \in DOMAIN players
    <3>1. k - 1 \in Nat /\ players[k - 1] \in 1 .. MaxHealth
      BY <2>1 DEF Games
    <3>2. /\ PlayerStateUpdate(k - 1) \in Introductions
          /\ PlayerHealthUpdate(k - 1, players[k - 1]) \in Introductions
      <4>1. PlayerHealthUpdate(k - 1, players[k - 1]) \in Healths
        BY <3>1, GameMessagesTyped
      <4>2. PlayerHealthUpdate(k - 1, players[k - 1]).playerID = k - 1
        BY DEF PlayerHealthUpdate
      <4> QED BY <2>1, <4>1, <4>2 DEF Introductions, HealthsOf
    <3>3. <<PlayerStateUpdate(k - 1), PlayerHealthUpdate(k - 1, players[k - 1])>> \in Seq(Introductions)
      BY <3>2
    <3> QED BY <2>1, <3>3
  <2>2. CASE k - 1 \notin DOMAIN players
    BY <2>2
  <2> QED BY <2>1, <2>2
<1> HIDE DEF V
<1>3. \E f : SnapshotRun(f) /\ Snapshot = f[m_nextPlayerID] /\ \A k \in 0 .. m_nextPlayerID : f[k] \in V
  BY <1>1, <1>2, SnapshotRunsIn
<1> QED BY <1>3 DEF V

LEMMA SnapshotTyped ==
    ASSUME m_nextPlayerID \in Nat, players \in Games(DOMAIN players)
    PROVE  Snapshot \in Seq(Introductions)
BY SnapshotRuns

(* State updates of players in the game leave who is in it, and their healths. *)
LEMMA UpdatesAddNobody ==
    ASSUME NEW game, NEW msgs, Len(msgs) \in Nat,
           \A k \in 1 .. Len(msgs) : /\ msgs[k].type = "PlayerStateUpdate"
                                     /\ msgs[k].playerID \in DOMAIN game
    PROVE  ApplyAll(game, msgs) = game
<1>1. \A k \in 1 .. Len(msgs), v \in {game} : ApplyIncomingMessage(v, msgs[k]) \in {game}
  BY DEF ApplyIncomingMessage, AddPlayer
<1>2. ApplyAll(game, msgs) \in {game}
  <2>1. game \in {game}
    OBVIOUS
  <2> QED BY <1>1, <2>1, ApplyAllIn
<1> QED BY <1>2

-----------------------------------------------------------------------------
(* Finite sets of projectiles *)

LEMMA IndexedFinite ==
    ASSUME NEW n \in Nat, NEW f, NEW T, T \subseteq {f[i] : i \in 1 .. n}
    PROVE  IsFiniteSet(T)
<1> DEFINE R == {f[i] : i \in 1 .. n}
           g == [i \in 1 .. n |-> f[i]]
<1>1. g \in Surjection(1 .. n, R)
  BY DEF Surjection
<1>2. IsFiniteSet(1 .. n)
  BY FS_Interval
<1>3. IsFiniteSet(R)
  <2> HIDE DEF g, R
  <2> QED BY <1>1, <1>2, FS_Surjection
<1> HIDE DEF R
<1> QED BY <1>3, FS_Subset DEF R

LEMMA ProjectilesAdded ==
    ASSUME NEW projectiles, IsFiniteSet(projectiles), projectiles \subseteq Projectile,
           NEW spawns \in Seq(Spawns)
    PROVE  /\ IsFiniteSet(AddProjectiles(projectiles, spawns))
           /\ AddProjectiles(projectiles, spawns) \subseteq Projectile
<1> DEFINE New == {s \in ToSet(spawns) : \A x \in projectiles : x.id # s.projectileID}
           Added == {[id |-> m.projectileID, owner |-> m.ownerPlayerID] : m \in New}
           f == [i \in 1 .. Len(spawns) |-> [id    |-> spawns[i].projectileID,
                                             owner |-> spawns[i].ownerPlayerID]]
<1>1. ASSUME NEW m \in New PROVE \E i \in 1 .. Len(spawns) : m = spawns[i]
  BY DEF ToSet
<1>2. Added \subseteq {f[i] : i \in 1 .. Len(spawns)}
  <2> HIDE DEF New
  <2> QED BY <1>1
<1>3. Added \subseteq Projectile
  <2>1. ASSUME NEW m \in New PROVE m.projectileID \in Nat /\ m.ownerPlayerID \in Nat
    BY <1>1, KindsAreMessages
  <2> HIDE DEF New
  <2> QED BY <2>1 DEF Projectile
<1>4. AddProjectiles(projectiles, spawns) = projectiles \cup Added
  BY DEF AddProjectiles
<1>5. Len(spawns) \in Nat
  OBVIOUS
<1> HIDE DEF Added, f
<1>6. IsFiniteSet(Added)
  BY <1>2, <1>5, IndexedFinite
<1>7. IsFiniteSet(projectiles \cup Added)
  BY <1>6, FS_Union
<1> QED BY <1>3, <1>4, <1>7

-----------------------------------------------------------------------------
(* What the application leaves of the queues of a client: at their ends the
   outbox for TCP has messages of M more, the one for UDP state updates of
   players in the game. *)
Relayed == {m \in Updates : m.playerID \in DOMAIN players}

Grows(before, after, M) ==
    /\ after \in Seq(Message)
    /\ Len(before) <= Len(after)
    /\ \A i \in 1 .. Len(after) :
         IF i <= Len(before) THEN after[i] = before[i] ELSE after[i] \in M

Served(old, new, M) ==
    /\ SameBinding(new, old)
    /\ Grows(old.tcpOutbox, new.tcpOutbox, M)
    /\ Grows(old.udpOutbox, new.udpOutbox, Relayed)
    /\ new.inbox \in {old.inbox, <<>>}

AllServed(old, new, M) ==
    /\ new \in [DOMAIN old -> NetworkClientRecord]
    /\ \A c \in DOMAIN old : Served(old[c], new[c], M)

LEMMA GrowsSame ==
    ASSUME NEW msgs \in Seq(Message), NEW M
    PROVE  Grows(msgs, msgs, M)
BY DEF Grows

LEMMA GrowsAppended ==
    ASSUME NEW old \in Seq(Message), NEW M \in SUBSET Message, NEW msgs \in Seq(M)
    PROVE  Grows(old, old \o msgs, M)
<1>1. old \o msgs \in Seq(Message) /\ Len(old \o msgs) = Len(old) + Len(msgs)
  OBVIOUS
<1>2. ASSUME NEW i \in 1 .. Len(old \o msgs)
      PROVE  IF i <= Len(old) THEN (old \o msgs)[i] = old[i] ELSE (old \o msgs)[i] \in M
  <2>1. CASE i <= Len(old)
    BY <2>1
  <2>2. CASE ~(i <= Len(old))
    <3>1. i - Len(old) \in 1 .. Len(msgs) /\ (old \o msgs)[i] = msgs[i - Len(old)]
      BY <1>1, <2>2
    <3>2. \A k \in 1 .. Len(msgs) : msgs[k] \in M
      OBVIOUS
    <3> QED BY <2>2, <3>1, <3>2
  <2> QED BY <2>1, <2>2
<1>3. Len(old) <= Len(old \o msgs)
  BY <1>1
<1> QED BY <1>1, <1>2, <1>3 DEF Grows

LEMMA GrowsOn ==
    ASSUME NEW a \in Seq(Message), NEW b \in Seq(Message), NEW c, NEW M,
           Grows(a, b, M), Grows(b, c, M)
    PROVE  Grows(a, c, M)
<1>1. c \in Seq(Message) /\ Len(a) \in Nat /\ Len(b) \in Nat /\ Len(c) \in Nat
  BY DEF Grows
<1>2. Len(a) <= Len(c)
  BY <1>1 DEF Grows
<1>3. ASSUME NEW i \in 1 .. Len(c) PROVE IF i <= Len(a) THEN c[i] = a[i] ELSE c[i] \in M
  <2>1. IF i <= Len(b) THEN c[i] = b[i] ELSE c[i] \in M
    BY DEF Grows
  <2>2. i <= Len(b) => IF i <= Len(a) THEN b[i] = a[i] ELSE b[i] \in M
    BY <1>1 DEF Grows
  <2>3. i <= Len(a) => i <= Len(b)
    BY <1>1 DEF Grows
  <2> QED BY <2>1, <2>2, <2>3
<1> QED BY <1>1, <1>2, <1>3 DEF Grows

LEMMA GrowsMore ==
    ASSUME NEW a, NEW b, NEW M, NEW N, M \subseteq N, Grows(a, b, M)
    PROVE  Grows(a, b, N)
BY DEF Grows

LEMMA GrowsBy ==
    ASSUME NEW old \in Seq(Message), NEW new, NEW M, Grows(old, new, M)
    PROVE  \E msgs \in Seq(M) : new = old \o msgs
<1> DEFINE n == Len(old)
           k == Len(new) - n
           msgs == [i \in 1 .. k |-> new[n + i]]
<1>1. new \in Seq(Message) /\ n \in Nat /\ Len(new) \in Nat /\ n <= Len(new) /\ k \in Nat /\ n + k = Len(new)
  BY DEF Grows
<1>2. \A i \in 1 .. k : n + i \in 1 .. Len(new) /\ ~(n + i <= n)
  BY <1>1
<1>3. \A i \in 1 .. k : new[n + i] \in M
  BY <1>2 DEF Grows
<1>4. msgs \in Seq(M) /\ Len(msgs) = k
  BY <1>1, <1>3
<1> DEFINE all == old \o msgs
<1>5. Len(all) = Len(new) /\ all \in Seq(Message)
  <2>1. msgs \in Seq(Message)
    BY <1>1, <1>2
  <2> HIDE DEF msgs, n, k
  <2> QED BY <1>1, <1>4, <2>1 DEF n
<1>6. ASSUME NEW i \in 1 .. Len(new) PROVE new[i] = all[i]
  <2>1. CASE i <= n
    <3>1. new[i] = old[i] /\ i \in 1 .. n
      BY <2>1, <1>1 DEF Grows
    <3> HIDE DEF msgs
    <3> QED BY <3>1, <1>4
  <2>2. CASE ~(i <= n)
    <3>1. i - n \in 1 .. k /\ n + (i - n) = i
      BY <2>2, <1>1
    <3>2. msgs[i - n] = new[i]
      BY <3>1
    <3>3. all[i] = msgs[i - n]
      <4> HIDE DEF msgs
      <4> QED BY <1>1, <1>4, <1>5, <2>2
    <3> QED BY <3>2, <3>3
  <2> QED BY <2>1, <2>2
<1> HIDE DEF all, msgs, k, n
<1>7. new = all
  BY <1>1, <1>5, <1>6
<1> QED BY <1>4, <1>7 DEF all

LEMMA ServedOn ==
    ASSUME NEW a \in NetworkClientRecord, NEW b \in NetworkClientRecord, NEW c, NEW M, NEW N,
           Served(a, b, M), Served(b, c, N)
    PROVE  Served(a, c, M \cup N)
<1>1. /\ a.tcpOutbox \in Seq(Message) /\ a.udpOutbox \in Seq(Message)
      /\ b.tcpOutbox \in Seq(Message) /\ b.udpOutbox \in Seq(Message)
  BY QueuesTyped
<1>2. SameBinding(c, a) /\ c.inbox \in {a.inbox, <<>>}
  BY DEF Served, SameBinding
<1>3. Grows(a.tcpOutbox, b.tcpOutbox, M \cup N) /\ Grows(b.tcpOutbox, c.tcpOutbox, M \cup N)
  <2>1. M \subseteq M \cup N /\ N \subseteq M \cup N
    OBVIOUS
  <2>2. Grows(a.tcpOutbox, b.tcpOutbox, M) /\ Grows(b.tcpOutbox, c.tcpOutbox, N)
    BY DEF Served
  <2> QED BY <2>1, <2>2, GrowsMore
<1>4. Grows(a.tcpOutbox, c.tcpOutbox, M \cup N)
  BY <1>1, <1>3, GrowsOn
<1>5. Grows(a.udpOutbox, b.udpOutbox, Relayed) /\ Grows(b.udpOutbox, c.udpOutbox, Relayed)
  BY DEF Served
<1>6. Grows(a.udpOutbox, c.udpOutbox, Relayed)
  BY <1>1, <1>5, GrowsOn
<1> QED BY <1>2, <1>4, <1>6 DEF Served

LEMMA AllServedOn ==
    ASSUME NEW a, a \in [DOMAIN a -> NetworkClientRecord], NEW b, NEW c, NEW M, NEW N,
           AllServed(a, b, M), AllServed(b, c, N)
    PROVE  AllServed(a, c, M \cup N)
<1>1. DOMAIN b = DOMAIN a /\ c \in [DOMAIN a -> NetworkClientRecord]
  BY DEF AllServed
<1>2. ASSUME NEW k \in DOMAIN a PROVE Served(a[k], c[k], M \cup N)
  <2>1. a[k] \in NetworkClientRecord /\ b[k] \in NetworkClientRecord
    BY <1>1 DEF AllServed
  <2>2. Served(a[k], b[k], M) /\ Served(b[k], c[k], N)
    BY <1>1 DEF AllServed
  <2> QED BY <2>1, <2>2, ServedOn
<1> QED BY <1>1, <1>2 DEF AllServed

-----------------------------------------------------------------------------
(* queueOutgoingMessage, queueBroadcast, consumeIncomingMessages *)

LEMMA SameServed ==
    ASSUME NEW r \in NetworkClientRecord, NEW M
    PROVE  Served(r, r, M)
<1>1. r.tcpOutbox \in Seq(Message) /\ r.udpOutbox \in Seq(Message)
  BY QueuesTyped
<1> QED BY <1>1, GrowsSame DEF Served, SameBinding

LEMMA AllSameServed ==
    ASSUME NEW clients, clients \in [DOMAIN clients -> NetworkClientRecord], NEW M
    PROVE  AllServed(clients, clients, M)
BY SameServed DEF AllServed

LEMMA QueueTCPServes ==
    ASSUME NEW clients, clients \in [DOMAIN clients -> NetworkClientRecord], NEW C,
           NEW M \in SUBSET Message, NEW msgs \in Seq(M)
    PROVE  AllServed(clients, QueueTCP(clients, C, msgs), M)
<1> DEFINE after == QueueTCP(clients, C, msgs)
<1>1. after = QueueMessages(clients, C, msgs, "TCP") /\ msgs \in Seq(Message)
  BY DEF QueueMessages
<1>2. after \in [DOMAIN clients -> NetworkClientRecord]
  BY <1>1, QueueMessagesTyped
<1>3. ASSUME NEW c \in DOMAIN clients PROVE Served(clients[c], after[c], M)
  <2>1. clients[c] \in NetworkClientRecord
    OBVIOUS
  <2> DEFINE new == [clients[c] EXCEPT !.tcpOutbox = @ \o msgs]
  <2>2. CASE c \in C
    <3>1. after[c] = new
      BY <2>2 DEF QueueTCP
    <3>2. /\ new.tcpOutbox = clients[c].tcpOutbox \o msgs /\ new.udpOutbox = clients[c].udpOutbox
          /\ new.inbox = clients[c].inbox /\ SameBinding(new, clients[c])
      BY <2>1 DEF NetworkClientRecord, SameBinding
    <3>3. clients[c].tcpOutbox \in Seq(Message) /\ clients[c].udpOutbox \in Seq(Message)
      BY <2>1, QueuesTyped
    <3> HIDE DEF new
    <3> QED BY <3>1, <3>2, <3>3, GrowsSame, GrowsAppended DEF Served
  <2>3. CASE c \notin C
    <3>1. after[c] = clients[c]
      BY <2>3 DEF QueueTCP
    <3> QED BY <2>1, <3>1, SameServed
  <2> QED BY <2>2, <2>3
<1> QED BY <1>2, <1>3 DEF AllServed

LEMMA QueueUDPServes ==
    ASSUME NEW clients, clients \in [DOMAIN clients -> NetworkClientRecord], NEW C, NEW M,
           NEW msgs \in Seq(Relayed)
    PROVE  AllServed(clients, QueueUDP(clients, C, msgs), M)
<1> DEFINE after == QueueUDP(clients, C, msgs)
<1>1. after = QueueMessages(clients, C, msgs, "UDP") /\ msgs \in Seq(Message) /\ Relayed \subseteq Message
  <2>1. Relayed \subseteq Message
    BY KindsAreMessages DEF Relayed
  <2> QED BY <2>1 DEF QueueMessages
<1>2. after \in [DOMAIN clients -> NetworkClientRecord]
  BY <1>1, QueueMessagesTyped
<1>3. ASSUME NEW c \in DOMAIN clients PROVE Served(clients[c], after[c], M)
  <2>1. clients[c] \in NetworkClientRecord
    OBVIOUS
  <2> DEFINE new == [clients[c] EXCEPT !.udpOutbox = @ \o msgs]
  <2>2. CASE c \in C
    <3>1. after[c] = new
      BY <2>2 DEF QueueUDP
    <3>2. /\ new.udpOutbox = clients[c].udpOutbox \o msgs /\ new.tcpOutbox = clients[c].tcpOutbox
          /\ new.inbox = clients[c].inbox /\ SameBinding(new, clients[c])
      BY <2>1 DEF NetworkClientRecord, SameBinding
    <3>3. clients[c].tcpOutbox \in Seq(Message) /\ clients[c].udpOutbox \in Seq(Message)
      BY <2>1, QueuesTyped
    <3> HIDE DEF new
    <3> QED BY <1>1, <3>1, <3>2, <3>3, GrowsSame, GrowsAppended DEF Served
  <2>3. CASE c \notin C
    <3>1. after[c] = clients[c]
      BY <2>3 DEF QueueUDP
    <3> QED BY <2>1, <3>1, SameServed
  <2> QED BY <2>2, <2>3
<1> QED BY <1>2, <1>3 DEF AllServed

LEMMA ConsumedServes ==
    ASSUME NEW clients, clients \in [DOMAIN clients -> NetworkClientRecord], NEW c, NEW M
    PROVE  AllServed(clients, Consumed(clients, c), M)
<1> DEFINE after == Consumed(clients, c)
<1>1. ASSUME NEW b \in DOMAIN clients
      PROVE  after[b] \in NetworkClientRecord /\ Served(clients[b], after[b], M)
  <2>1. clients[b] \in NetworkClientRecord
    OBVIOUS
  <2> DEFINE new == [clients[b] EXCEPT !.inbox = <<>>]
  <2>2. /\ new.udpOutbox = clients[b].udpOutbox /\ new.tcpOutbox = clients[b].tcpOutbox
        /\ new.inbox = <<>> /\ SameBinding(new, clients[b])
    BY <2>1 DEF NetworkClientRecord, SameBinding
  <2>3. new \in NetworkClientRecord
    BY <2>1, NoMessages, QueueReplaced
  <2>4. clients[b].tcpOutbox \in Seq(Message) /\ clients[b].udpOutbox \in Seq(Message)
    BY <2>1, QueuesTyped
  <2>5. Served(clients[b], new, M)
    <3> HIDE DEF new
    <3> QED BY <2>2, <2>4, GrowsSame DEF Served
  <2>6. after[b] \in {new, clients[b]}
    BY DEF Consumed
  <2> HIDE DEF new, after
  <2> QED BY <2>1, <2>3, <2>5, <2>6, SameServed
<1>2. DOMAIN after = DOMAIN clients /\ after = [b \in DOMAIN clients |-> after[b]]
  BY DEF Consumed
<1> HIDE DEF after
<1>3. after \in [DOMAIN clients -> NetworkClientRecord]
  BY <1>1, <1>2
<1>4. AllServed(clients, after, M)
  BY <1>1, <1>3 DEF AllServed
<1> QED BY <1>4 DEF after

-----------------------------------------------------------------------------
(* The loop over the clients, and with it all of update() *)

(* Every state update that waits in an inbox is of a player in the game. *)
UpdatesKnown ==
    \A c \in DOMAIN m_clients : \A m \in ToSet(m_clients[c].inbox) :
        m.type = "PlayerStateUpdate" => m.playerID \in DOMAIN players

ServerTyped ==
    /\ ServerTypeOK /\ GameServerTypeOK
    /\ IsFiniteSet(m_projectiles) /\ IsFiniteSet(DOMAIN m_clients)

(* The games the loop passes through: the players are as they were. *)
BetweenClients ==
    {game \in [players: {players}, projectiles: SUBSET Projectile,
               clients: [DOMAIN m_clients -> NetworkClientRecord]] :
        IsFiniteSet(game.projectiles) /\ AllServed(m_clients, game.clients, Spawns)}

LEMMA ConsumeClientStays ==
    ASSUME ServerTyped, UpdatesKnown, NEW game \in BetweenClients, NEW c \in DOMAIN m_clients
    PROVE  ConsumeClient(game, c) \in BetweenClients
<1> DEFINE clients == game.clients
           inbox == game.clients[c].inbox
           others == DOMAIN clients \ {c}
           updates == OfType(inbox, "PlayerStateUpdate")
           spawns == OfType(inbox, "ProjectileSpawn")
           consumed == Consumed(clients, c)
           relayed == QueueTCP(consumed, others, spawns)
           after == QueueUDP(relayed, others, updates)
<1>1. /\ DOMAIN clients = DOMAIN m_clients /\ clients \in [DOMAIN clients -> NetworkClientRecord]
      /\ m_clients \in [DOMAIN m_clients -> NetworkClientRecord]
      /\ AllServed(m_clients, clients, Spawns)
      /\ game.players = players /\ IsFiniteSet(game.projectiles) /\ game.projectiles \subseteq Projectile
  BY DEF BetweenClients, ServerTyped, ServerTypeOK
<1>2. inbox \in Seq(Message) /\ inbox \in {m_clients[c].inbox, <<>>}
  <2>1. clients[c] \in NetworkClientRecord
    BY <1>1
  <2> QED BY <1>1, <2>1, QueuesTyped DEF AllServed, Served
<1> HIDE DEF inbox, clients, others
<1>3. /\ updates \in Seq({m \in Message : m.type = "PlayerStateUpdate" /\ m \in ToSet(inbox)})
      /\ spawns \in Seq({m \in Message : m.type = "ProjectileSpawn" /\ m \in ToSet(inbox)})
  BY <1>2, OfTypeTyped
<1>4. updates \in Seq(Relayed) /\ spawns \in Seq(Spawns)
  <2>1. /\ {m \in Message : m.type = "PlayerStateUpdate" /\ m \in ToSet(inbox)} \subseteq Relayed
        /\ {m \in Message : m.type = "ProjectileSpawn" /\ m \in ToSet(inbox)} \subseteq Spawns
    <3>1. \A m \in ToSet(inbox) : m.type = "PlayerStateUpdate" => m.playerID \in DOMAIN players
      BY <1>2 DEF UpdatesKnown, ToSet
    <3> QED BY <3>1, KindsAreMessages DEF Relayed
  <2> HIDE DEF updates, spawns
  <2> QED BY <1>3, <2>1
<1>5. \A k \in 1 .. Len(updates) : /\ updates[k].type = "PlayerStateUpdate"
                                   /\ updates[k].playerID \in DOMAIN players
  <2>1. ASSUME NEW k \in 1 .. Len(updates)
        PROVE  updates[k].type = "PlayerStateUpdate" /\ updates[k] \in ToSet(inbox)
    <3> HIDE DEF updates
    <3> QED BY <1>3
  <2>2. \A m \in ToSet(inbox) : m.type = "PlayerStateUpdate" => m.playerID \in DOMAIN players
    BY <1>2 DEF UpdatesKnown, ToSet
  <2> HIDE DEF updates
  <2> QED BY <2>1, <2>2
<1> HIDE DEF updates, spawns
<1>6. ApplyAll(game.players, updates) = players
  <2>1. Len(updates) \in Nat
    BY <1>4
  <2> QED BY <1>1, <1>5, <2>1, UpdatesAddNobody
<1>7. /\ IsFiniteSet(AddProjectiles(game.projectiles, spawns))
      /\ AddProjectiles(game.projectiles, spawns) \subseteq Projectile
  BY <1>1, <1>4, ProjectilesAdded
<1>8. AllServed(m_clients, after, Spawns)
  <2>1. Spawns \in SUBSET Message
    BY KindsAreMessages
  <2>2. AllServed(clients, consumed, Spawns)
    BY <1>1, ConsumedServes
  <2>3. consumed \in [DOMAIN consumed -> NetworkClientRecord]
    BY <2>2 DEF AllServed
  <2> HIDE DEF consumed
  <2>4. AllServed(consumed, relayed, Spawns)
    BY <1>4, <2>1, <2>3, QueueTCPServes
  <2>5. relayed \in [DOMAIN relayed -> NetworkClientRecord]
    BY <2>4 DEF AllServed
  <2> HIDE DEF relayed
  <2>6. AllServed(relayed, after, Spawns)
    BY <1>4, <2>5, QueueUDPServes
  <2> HIDE DEF after
  <2>7. AllServed(m_clients, consumed, Spawns \cup Spawns)
    BY <1>1, <2>2, AllServedOn
  <2>8. Spawns \cup Spawns = Spawns
    OBVIOUS
  <2>9. AllServed(m_clients, relayed, Spawns \cup Spawns)
    BY <1>1, <2>4, <2>7, <2>8, AllServedOn
  <2>10. AllServed(m_clients, after, Spawns \cup Spawns)
    BY <1>1, <2>6, <2>8, <2>9, AllServedOn
  <2> QED BY <2>8, <2>10
<1>9. ConsumeClient(game, c) = [players     |-> ApplyAll(game.players, updates),
                                projectiles |-> AddProjectiles(game.projectiles, spawns),
                                clients     |-> after]
  BY DEF ConsumeClient, clients, inbox, others, updates, spawns
<1>10. after \in [DOMAIN m_clients -> NetworkClientRecord]
  BY <1>8 DEF AllServed
<1> HIDE DEF after
<1> QED BY <1>6, <1>7, <1>8, <1>9, <1>10 DEF BetweenClients

(* An order of a finite set is a sequence of its elements. *)
LEMMA OrdersTyped ==
    ASSUME NEW S, IsFiniteSet(S), NEW order \in SetToSeqs(S)
    PROVE  Len(order) \in Nat /\ order \in Seq(S) /\ \A k \in 1 .. Len(order) : order[k] \in S
<1>1. Cardinality(S) \in Nat
  BY FS_CardinalityType
<1>2. order \in [1 .. Cardinality(S) -> S]
  BY DEF SetToSeqs
<1> QED BY <1>1, <1>2

LEMMA ConsumeAllTyped ==
    ASSUME ServerTyped, UpdatesKnown, NEW order \in SetToSeqs(DOMAIN m_clients)
    PROVE  ConsumeAll(order) \in BetweenClients
<1>1. Len(order) \in Nat /\ \A k \in 1 .. Len(order) : order[k] \in DOMAIN m_clients
  BY OrdersTyped DEF ServerTyped
<1>2. [players |-> players, projectiles |-> m_projectiles, clients |-> m_clients] \in BetweenClients
  <2>1. m_clients \in [DOMAIN m_clients -> NetworkClientRecord]
    BY DEF ServerTyped, ServerTypeOK
  <2>2. AllServed(m_clients, m_clients, Spawns)
    BY <2>1, AllSameServed
  <2> QED BY <2>1, <2>2 DEF BetweenClients, ServerTyped, GameServerTypeOK
<1>3. \A k \in 1 .. Len(order), v \in BetweenClients : ConsumeClient(v, order[k]) \in BetweenClients
  BY <1>1, ConsumeClientStays
<1> QED BY <1>1, <1>2, <1>3, ConsumeAllIn

(* update() takes what waits, adds to the outboxes what it relays and what the
   hits come to, and neither adds players nor loses any: a client's state updates
   are of players in the game. *)
LEMMA UpdateTyped ==
    ASSUME ServerTyped, UpdatesKnown, Update
    PROVE  /\ AllServed(m_clients, m_clients', Spawns \cup HealthsOf(DOMAIN players))
           /\ players' \in Games(DOMAIN players)
           /\ m_projectiles' \subseteq Projectile /\ IsFiniteSet(m_projectiles')
           /\ \E clients : \E hits \in Seq(HealthsOf(DOMAIN players)) :
                /\ AllServed(m_clients, clients, Spawns)
                /\ m_clients' = QueueTCP(clients, DOMAIN clients, hits)
                /\ players' = ApplyAll(players, hits)
<1>1. PICK order \in SetToSeqs(DOMAIN m_clients) :
        \E gone \in SUBSET ConsumeAll(order).projectiles :
          \E hitting \in SUBSET (ConsumeAll(order).projectiles \ gone) :
            UpdateSimulation(ConsumeAll(order), gone, hitting)
  BY DEF Update
<1> DEFINE game == ConsumeAll(order)
<1>2. game \in BetweenClients
  BY ConsumeAllTyped
<1>3. PICK gone \in SUBSET game.projectiles :
        \E hitting \in SUBSET (game.projectiles \ gone) : UpdateSimulation(game, gone, hitting)
  BY <1>1
<1>4. PICK hitting \in SUBSET (game.projectiles \ gone) : UpdateSimulation(game, gone, hitting)
  BY <1>3
<1> HIDE DEF game
<1>5. /\ game.players = players /\ IsFiniteSet(game.projectiles) /\ game.projectiles \subseteq Projectile
      /\ AllServed(m_clients, game.clients, Spawns)
      /\ game.clients \in [DOMAIN game.clients -> NetworkClientRecord]
      /\ DOMAIN game.clients = DOMAIN m_clients
  BY <1>2 DEF BetweenClients
<1>6. PICK hit \in PossibleHits(hitting, DOMAIN game.players), turns \in SetToSeqs(hitting) :
        LET victims == [i \in 1 .. Len(turns) |-> hit[turns[i]]]
            result  == RegisterHits(game.players, victims)
        IN /\ players' = result.players
           /\ m_clients' = QueueTCP(game.clients, DOMAIN game.clients, result.outgoing)
           /\ m_projectiles' = game.projectiles \ (gone \cup hitting)
  BY <1>4 DEF UpdateSimulation
<1> DEFINE victims == [i \in 1 .. Len(turns) |-> hit[turns[i]]]
           result == RegisterHits(game.players, victims)
<1>7. Len(turns) \in Nat /\ \A k \in 1 .. Len(turns) : turns[k] \in hitting
  <2>1. IsFiniteSet(hitting)
    BY <1>5, FS_Subset
  <2> QED BY <2>1, OrdersTyped
<1>8. Len(victims) = Len(turns) /\ \A k \in 1 .. Len(victims) : victims[k] \in DOMAIN players
  <2>1. hit \in [hitting -> DOMAIN players]
    BY <1>5 DEF PossibleHits
  <2>2. victims \in Seq(DOMAIN players) /\ Len(victims) = Len(turns)
    BY <1>7, <2>1
  <2> QED BY <1>7, <2>1, <2>2
<1> HIDE DEF victims
<1>9. DOMAIN players \in SUBSET Nat /\ game.players \in Games(DOMAIN players)
  BY <1>5 DEF ServerTyped, GameServerTypeOK, Games
<1>10. /\ result.players \in Games(DOMAIN players) /\ result.outgoing \in Seq(HealthsOf(DOMAIN players))
       /\ result.players = ApplyAll(players, result.outgoing)
  BY <1>5, <1>7, <1>8, <1>9, HitsAreTold
<1>11. m_clients' = QueueTCP(game.clients, DOMAIN game.clients, result.outgoing)
  BY <1>6 DEF victims
<1>12. players' = result.players /\ m_projectiles' = game.projectiles \ (gone \cup hitting)
  BY <1>6 DEF victims
<1> HIDE DEF result
<1>13. AllServed(game.clients, m_clients', HealthsOf(DOMAIN players))
  <2>1. HealthsOf(DOMAIN players) \in SUBSET Message
    BY KindsAreMessages DEF HealthsOf
  <2> QED BY <1>5, <1>10, <1>11, <2>1, QueueTCPServes
<1>14. AllServed(m_clients, m_clients', Spawns \cup HealthsOf(DOMAIN players))
  <2>1. m_clients \in [DOMAIN m_clients -> NetworkClientRecord]
    BY DEF ServerTyped, ServerTypeOK
  <2> QED BY <1>5, <1>13, <2>1, AllServedOn
<1>15. m_projectiles' \subseteq Projectile /\ IsFiniteSet(m_projectiles')
  BY <1>5, <1>12, FS_Subset
<1>16. \E clients : \E hits \in Seq(HealthsOf(DOMAIN players)) :
         /\ AllServed(m_clients, clients, Spawns)
         /\ m_clients' = QueueTCP(clients, DOMAIN clients, hits)
         /\ players' = ApplyAll(players, hits)
  BY <1>5, <1>10, <1>11, <1>12
<1> QED BY <1>10, <1>12, <1>14, <1>15, <1>16

(* The callbacks: who is told what. *)
LEMMA OnClientConnectedTyped ==
    ASSUME ServerTyped, OnClientConnected
    PROVE  /\ m_nextPlayerID \in Nat
           /\ AllServed(m_clients, m_clients',
                        {AssignLocalPlayerID(m_nextPlayerID), PlayerJoined(m_nextPlayerID)}
                          \cup Introductions)
           /\ \A c \in DOMAIN m_clients \ {callback.client} :
                Served(m_clients[c], m_clients'[c], {PlayerJoined(m_nextPlayerID)})
<1> DEFINE c == callback.client
           id == m_nextPlayerID
           told == <<AssignLocalPlayerID(id)>> \o Snapshot
           M == {AssignLocalPlayerID(id)} \cup Introductions
           J == {PlayerJoined(id)}
           first == QueueTCP(m_clients, {c}, told)
           news == <<PlayerJoined(id)>>
<1>1. /\ m_clients \in [DOMAIN m_clients -> NetworkClientRecord] /\ id \in Nat
      /\ players \in Games(DOMAIN players)
  BY DEF ServerTyped, ServerTypeOK, GameServerTypeOK, Games
<1>2. m_clients' = QueueTCP(first, DOMAIN m_clients \ {c}, news)
  BY DEF OnClientConnected
<1>3. M \in SUBSET Message /\ J \in SUBSET Message
  <2>1. AssignLocalPlayerID(id) \in Message /\ PlayerJoined(id) \in Message
    BY <1>1, GameMessagesTyped, KindsAreMessages
  <2>2. Introductions \subseteq Message
    <3>1. DOMAIN players \subseteq Nat
      BY DEF ServerTyped, GameServerTypeOK
    <3> QED BY <3>1, GameMessagesTyped, KindsAreMessages DEF Introductions, HealthsOf
  <2> QED BY <2>1, <2>2
<1>4. told \in Seq(M) /\ news \in Seq(J)
  <2>1. Snapshot \in Seq(Introductions)
    BY <1>1, SnapshotTyped
  <2>2. Snapshot \in Seq(M)
    BY <2>1
  <2>3. <<AssignLocalPlayerID(id)>> \in Seq(M)
    OBVIOUS
  <2> HIDE DEF M
  <2> QED BY <2>2, <2>3
<1> HIDE DEF M, J, told, news
<1>5. AllServed(m_clients, first, M)
  BY <1>1, <1>3, <1>4, QueueTCPServes
<1>6. first \in [DOMAIN first -> NetworkClientRecord] /\ DOMAIN first = DOMAIN m_clients
  BY <1>5 DEF AllServed
<1>7. ASSUME NEW b \in DOMAIN m_clients, b # c PROVE first[b] = m_clients[b]
  BY <1>7 DEF QueueTCP
<1> HIDE DEF first
<1>8. AllServed(first, m_clients', J)
  BY <1>2, <1>3, <1>4, <1>6, QueueTCPServes
<1>9. AllServed(m_clients, m_clients', M \cup J)
  BY <1>1, <1>5, <1>8, AllServedOn
<1>10. ASSUME NEW b \in DOMAIN m_clients, b # c PROVE Served(m_clients[b], m_clients'[b], J)
  BY <1>6, <1>7, <1>8, <1>10 DEF AllServed
<1>11. M \cup J = {AssignLocalPlayerID(id), PlayerJoined(id)} \cup Introductions
  BY DEF M, J
<1> QED BY <1>1, <1>9, <1>10, <1>11 DEF J

LEMMA OnClientDisconnectedTyped ==
    ASSUME ServerTyped, OnClientDisconnected
    PROVE  /\ callback.client \in DOMAIN m_clientIDToPlayerID =>
                AllServed(m_clients, m_clients',
                          {PlayerLeft(m_clientIDToPlayerID[callback.client])})
           /\ callback.client \notin DOMAIN m_clientIDToPlayerID => UNCHANGED m_clients
<1> DEFINE c == callback.client
           id == m_clientIDToPlayerID[c]
           J == {PlayerLeft(id)}
           news == <<PlayerLeft(id)>>
<1>1. ASSUME c \in DOMAIN m_clientIDToPlayerID PROVE AllServed(m_clients, m_clients', J)
  <2>1. m_clients \in [DOMAIN m_clients -> NetworkClientRecord] /\ id \in Nat
    BY <1>1 DEF ServerTyped, ServerTypeOK, GameServerTypeOK
  <2>2. m_clients' = QueueTCP(m_clients, DOMAIN m_clients \ {c}, news)
    BY <1>1 DEF OnClientDisconnected
  <2>3. J \in SUBSET Message /\ news \in Seq(J)
    BY <2>1, GameMessagesTyped, KindsAreMessages
  <2> HIDE DEF J, news
  <2> QED BY <2>1, <2>2, <2>3, QueueTCPServes
<1>2. c \notin DOMAIN m_clientIDToPlayerID => UNCHANGED m_clients
  BY DEF OnClientDisconnected
<1> QED BY <1>1, <1>2

-----------------------------------------------------------------------------
(* A copy is told of a player and then of its health. *)
LEMMA AgreesIntroduced ==
    ASSUME NEW known \in AllGames, NEW msgs \in Seq(GameMessages), NEW q \in Nat, NEW health \in 1 .. MaxHealth,
           \A k \in 1 .. Len(msgs) : ~About(msgs[k], q)
    PROVE  Agrees(known, msgs \o <<PlayerStateUpdate(q), PlayerHealthUpdate(q, health)>>, q, health)
<1> DEFINE then == ApplyAll(known, msgs)
           a == PlayerStateUpdate(q)
           b == PlayerHealthUpdate(q, health)
           news == <<a, b>>
           all == msgs \o news
<1>1. /\ a \in GameMessages /\ b \in GameMessages
      /\ Adds(a, q) /\ SetsHealth(b, q) /\ b.health = health /\ ~SetsHealth(a, q)
  <2>1. a \in Message /\ a.type = "PlayerStateUpdate" /\ a.playerID = q
    BY GameMessagesTyped, KindsAreMessages DEF PlayerStateUpdate
  <2>2. b \in Message /\ b.type = "PlayerHealthUpdate" /\ b.playerID = q /\ b.health = health
    BY GameMessagesTyped, KindsAreMessages DEF PlayerHealthUpdate
  <2> QED BY <2>1, <2>2 DEF GameMessages, Adds, SetsHealth
<1> HIDE DEF a, b
<1>2. news \in Seq(GameMessages) /\ news # <<>> /\ Head(news) = a /\ Tail(news) = <<b>>
  BY <1>1
<1>3. /\ Len(msgs) \in Nat /\ Len(all) = Len(msgs) + 2 /\ all[Len(msgs) + 1] = a /\ all[Len(msgs) + 2] = b
      /\ \A k \in 1 .. Len(msgs) : all[k] = msgs[k]
  BY <1>1
<1> HIDE DEF news
<1>4. then \in AllGames /\ ApplyAll(known, all) = ApplyAll(then, news)
  BY <1>2, ApplyAllAppended
<1> HIDE DEF then, all
<1>5. ApplyAll(then, news) = ApplyIncomingMessage(ApplyIncomingMessage(then, a), b)
  <2> DEFINE next == ApplyIncomingMessage(then, a)
  <2>1. next \in AllGames
    BY <1>1, <1>4, AppliedGame
  <2>2. ApplyAll(then, news) = ApplyAll(next, <<b>>)
    BY <1>2, <1>4, ApplyAllHead
  <2> HIDE DEF next
  <2>3. ApplyAll(next, <<b>>) = ApplyIncomingMessage(next, b)
    BY <1>1, <2>1, ApplyAllOne
  <2> QED BY <2>2, <2>3 DEF next
<1>6. q \in DOMAIN ApplyAll(known, all) /\ ApplyAll(known, all)[q] = health
  <2> DEFINE next == ApplyIncomingMessage(then, a)
  <2>1. next \in AllGames /\ q \in DOMAIN next
    BY <1>1, <1>4, AppliedGame, Applied
  <2> HIDE DEF next
  <2>2. q \in DOMAIN ApplyIncomingMessage(next, b) /\ ApplyIncomingMessage(next, b)[q] = health
    BY <1>1, <2>1, Applied
  <2> QED BY <1>4, <1>5, <2>2 DEF next
<1>7. Introduced(all, q)
  <2> SUFFICES ASSUME NEW i \in 1 .. Len(all), SetsHealth(all[i], q)
               PROVE  \E j \in 1 .. i - 1 : Adds(all[j], q)
    BY DEF Introduced
  <2>1. i \in 1 .. Len(msgs) \/ i = Len(msgs) + 1 \/ i = Len(msgs) + 2
    BY <1>3
  <2>2. i = Len(msgs) + 2
    BY <1>1, <1>3, <2>1 DEF About
  <2>3. Len(msgs) + 1 \in 1 .. i - 1
    BY <1>3, <2>2
  <2> QED BY <1>1, <1>3, <2>3
<1> QED BY <1>6, <1>7 DEF Agrees, all, news, a, b

-----------------------------------------------------------------------------
(* The snapshot after pre brings any copy to the players and healths of the
   server's game. *)
LEMMA SnapshotAgrees ==
    ASSUME GameServerTypeOK, \A id \in DOMAIN players : id < m_nextPlayerID,
           NEW known \in AllGames, NEW pre \in Seq(GameMessages), NEW q \in DOMAIN players,
           \A k \in 1 .. Len(pre) : ~About(pre[k], q)
    PROVE  Agrees(known, pre \o Snapshot, q, players[q])
<1> DEFINE n == m_nextPlayerID
           Told(v) == IF q \in DOMAIN players THEN Agrees(known, pre \o v, q, players[q]) ELSE TRUE
           Untold(v) == \A k \in 1 .. Len(pre \o v) : ~About((pre \o v)[k], q)
           both(k) == <<PlayerStateUpdate(k - 1), PlayerHealthUpdate(k - 1, players[k - 1])>>
<1>1. n \in Nat /\ players \in AllGames /\ players \in Games(DOMAIN players) /\ DOMAIN players \subseteq Nat
  BY AllGamesAre DEF GameServerTypeOK, Games
<1>2. PICK f : SnapshotRun(f) /\ Snapshot = f[n] /\ \A k \in 0 .. n : f[k] \in Seq(Introductions)
  BY <1>1, SnapshotRuns
<1>3. Seq(Introductions) \subseteq Seq(GameMessages)
  <2>1. \A id \in Nat : PlayerStateUpdate(id) \in Message /\ PlayerStateUpdate(id).type = "PlayerStateUpdate"
    BY GameMessagesTyped, KindsAreMessages DEF PlayerStateUpdate
  <2>2. Introductions \subseteq GameMessages
    BY <1>1, <2>1, HealthsAreGameMessages DEF Introductions, HealthsOf, GameMessages
  <2> QED BY <2>2
<1>4. q \in Nat /\ q < n /\ q + 1 \in 1 .. n
  BY <1>1
<1> DEFINE T == {k \in 0 .. n : IF k <= q THEN Untold(f[k]) ELSE Told(f[k])}
<1>5. 0 \in T
  <2>1. f[0] = <<>> /\ pre \o <<>> = pre
    BY <1>2 DEF SnapshotRun
  <2>2. Untold(f[0])
    BY <2>1
  <2> HIDE DEF Untold, Told
  <2> QED BY <1>1, <1>4, <2>2
<1>6. ASSUME NEW k \in 1 .. n, k - 1 \in T PROVE k \in T
  <2> DEFINE v == f[k - 1]
             all == pre \o v
             more == both(k)
  <2>1. k - 1 \in 0 .. n /\ k \in 0 .. n /\ k # 0 /\ v \in Seq(GameMessages)
    BY <1>1, <1>2, <1>3
  <2>2. f[k] = IF k - 1 \in DOMAIN players THEN v \o more ELSE v
    BY <1>2 DEF SnapshotRun
  <2>3. CASE k - 1 \notin DOMAIN players
    <3>1. f[k] = v /\ k - 1 # q
      BY <2>2, <2>3
    <3>2. k <= q <=> k - 1 <= q
      BY <1>1, <1>4, <3>1
    <3> HIDE DEF Told, Untold
    <3> QED BY <1>6, <2>1, <3>1, <3>2
  <2>4. CASE k - 1 \in DOMAIN players
    <3>1. /\ players[k - 1] \in 1 .. MaxHealth /\ k - 1 \in Nat
          /\ PlayerStateUpdate(k - 1) \in GameMessages /\ PlayerHealthUpdate(k - 1, players[k - 1]) \in GameMessages
          /\ k - 1 # q => ~About(PlayerStateUpdate(k - 1), q) /\ ~About(PlayerHealthUpdate(k - 1, players[k - 1]), q)
      <4>1. players[k - 1] \in 1 .. MaxHealth /\ k - 1 \in Nat
        BY <1>1, <2>4 DEF Games
      <4>2. PlayerStateUpdate(k - 1) \in Message /\ PlayerStateUpdate(k - 1).type = "PlayerStateUpdate"
            /\ PlayerStateUpdate(k - 1).playerID = k - 1
        BY <4>1, GameMessagesTyped, KindsAreMessages DEF PlayerStateUpdate
      <4>3. /\ PlayerHealthUpdate(k - 1, players[k - 1]) \in Message
            /\ PlayerHealthUpdate(k - 1, players[k - 1]).type = "PlayerHealthUpdate"
            /\ PlayerHealthUpdate(k - 1, players[k - 1]).playerID = k - 1
            /\ PlayerHealthUpdate(k - 1, players[k - 1]).health = players[k - 1]
        BY <4>1, GameMessagesTyped, KindsAreMessages DEF PlayerHealthUpdate
      <4> QED BY <4>1, <4>2, <4>3 DEF GameMessages, About, Adds, Removes, SetsHealth
    <3>2. /\ more \in Seq(GameMessages) /\ Len(more) = 2
          /\ k - 1 # q => \A i \in 1 .. Len(more) : ~About(more[i], q)
      BY <3>1
    <3>3. f[k] = v \o more /\ all \in Seq(GameMessages)
      BY <2>1, <2>2, <2>4
    <3>4. pre \o f[k] = all \o more
      <4> HIDE DEF more, v
      <4>1. (pre \o v) \o more = pre \o (v \o more)
        BY <2>1, <3>2, ConcatAssociative
      <4> QED BY <3>3, <4>1
    <3>5. CASE k - 1 = q
      <4>1. Untold(v)
        BY <1>4, <1>6, <2>1, <3>5
      <4>2. Agrees(known, all \o more, q, players[q])
        <5>1. \A i \in 1 .. Len(all) : ~About(all[i], q)
          BY <4>1
        <5> HIDE DEF all
        <5> QED BY <1>4, <3>1, <3>3, <3>5, <5>1, AgreesIntroduced
      <4>3. ~(k <= q)
        BY <1>4, <3>5
      <4> HIDE DEF all, more
      <4> QED BY <2>1, <3>4, <4>2, <4>3
    <3>6. CASE k - 1 # q /\ k <= q
      <4>1. Untold(v)
        BY <1>1, <1>4, <1>6, <2>1, <3>6
      <4>2. \A i \in 1 .. Len(all) : ~About(all[i], q)
        BY <4>1
      <4>3. Untold(f[k])
        <5> HIDE DEF all, more
        <5>1. \A i \in 1 .. Len(all \o more) : ~About((all \o more)[i], q)
          <6> TAKE i \in 1 .. Len(all \o more)
          <6>1. /\ Len(all \o more) = Len(all) + Len(more) /\ Len(all) \in Nat /\ Len(more) \in Nat
                /\ (all \o more)[i] = IF i <= Len(all) THEN all[i] ELSE more[i - Len(all)]
            <7>1. all \in Seq(GameMessages) /\ more \in Seq(GameMessages)
              BY <3>2, <3>3
            <7> QED BY ONLY <7>1, i \in 1 .. Len(all \o more)
          <6>2. IF i <= Len(all) THEN i \in 1 .. Len(all) ELSE i - Len(all) \in 1 .. Len(more)
            BY <6>1
          <6>3. CASE i <= Len(all)
            BY <4>2, <6>1, <6>2, <6>3
          <6>4. CASE ~(i <= Len(all))
            <7>1. ~About(more[i - Len(all)], q)
              BY <3>2, <3>6, <6>2, <6>4
            <7> QED BY <6>1, <6>4, <7>1
          <6> QED BY <6>3, <6>4
        <5> QED BY <3>4, <5>1
      <4> HIDE DEF Untold
      <4> QED BY <2>1, <3>6, <4>3
    <3>7. CASE k - 1 # q /\ ~(k <= q)
      <4>1. ~(k - 1 <= q)
        BY <1>1, <1>4, <3>7
      <4>2. Agrees(known, all, q, players[q])
        <5>1. Told(v)
          <6> HIDE DEF Told, Untold
          <6> QED BY <1>6, <4>1
        <5> QED BY <5>1
      <4>3. SameOf(ApplyAll(players, more), players, q)
        <5> HIDE DEF more
        <5>1. SameOf(players, ApplyAll(players, more), q)
          <6>1. \A i \in 1 .. Len(more) : ~About(more[i], q)
            BY <3>2, <3>7
          <6>2. players \in AllGames /\ more \in Seq(GameMessages)
            BY <1>1, <3>2
          <6> QED BY ONLY <6>1, <6>2, ApplyAllOther
        <5> QED BY <5>1 DEF SameOf
      <4> HIDE DEF all, more
      <4>4. Agrees(known, all \o more, q, players[q])
        <5>1. players \in AllGames /\ more \in Seq(GameMessages) /\ all \in Seq(GameMessages) /\ q \in DOMAIN players
          BY <1>1, <3>2, <3>3
        <5> QED BY ONLY <4>2, <4>3, <5>1, known \in AllGames, AgreesTold
      <4>5. Told(f[k])
        BY <3>4, <4>4
      <4> HIDE DEF Told, Untold
      <4> QED BY <2>1, <3>7, <4>5
    <3> QED BY <3>5, <3>6, <3>7
  <2> QED BY <2>3, <2>4
<1> HIDE DEF T
<1>7. n \in T
  <2>1. 0 .. n \subseteq T
    BY <1>1, <1>5, <1>6, AllReached
  <2> QED BY <1>1, <2>1
<1>8. Told(f[n])
  <2>1. ~(n <= q)
    BY <1>1, <1>4
  <2> HIDE DEF Told, Untold
  <2> QED BY <1>7, <2>1 DEF T
<1> QED BY <1>2, <1>8

-----------------------------------------------------------------------------
(* What the server's game tells each client, in order. *)
LEMMA QueuedTCP ==
    ASSUME NEW clients, clients \in [DOMAIN clients -> NetworkClientRecord], NEW C, NEW msgs,
           NEW c \in DOMAIN clients
    PROVE  QueueTCP(clients, C, msgs)[c].tcpOutbox =
             IF c \in C THEN clients[c].tcpOutbox \o msgs ELSE clients[c].tcpOutbox
<1>1. clients[c] \in NetworkClientRecord
  OBVIOUS
<1> QED BY <1>1 DEF QueueTCP, NetworkClientRecord

LEMMA OnClientConnectedTells ==
    ASSUME ServerTyped, OnClientConnected, NEW c \in DOMAIN m_clients
    PROVE  m_clients'[c].tcpOutbox = m_clients[c].tcpOutbox \o
             (IF c = callback.client THEN <<AssignLocalPlayerID(m_nextPlayerID)>> \o Snapshot
              ELSE <<PlayerJoined(m_nextPlayerID)>>)
<1> DEFINE b == callback.client
           told == <<AssignLocalPlayerID(m_nextPlayerID)>> \o Snapshot
           news == <<PlayerJoined(m_nextPlayerID)>>
           first == QueueTCP(m_clients, {b}, told)
<1>1. m_clients \in [DOMAIN m_clients -> NetworkClientRecord]
  BY DEF ServerTyped, ServerTypeOK
<1>2. first \in [DOMAIN first -> NetworkClientRecord] /\ DOMAIN first = DOMAIN m_clients
  <2>1. told \in Seq(Message)
    <3>1. m_nextPlayerID \in Nat /\ players \in Games(DOMAIN players) /\ DOMAIN players \subseteq Nat
      BY DEF ServerTyped, GameServerTypeOK, Games
    <3>2. Snapshot \in Seq(Introductions) /\ Introductions \subseteq Message
      BY <3>1, SnapshotTyped, GameMessagesTyped, KindsAreMessages DEF Introductions, HealthsOf
    <3>3. AssignLocalPlayerID(m_nextPlayerID) \in Message /\ Snapshot \in Seq(Message)
      BY <3>1, <3>2, GameMessagesTyped, KindsAreMessages
    <3> QED BY <3>3
  <2>2. first = QueueMessages(m_clients, {b}, told, "TCP")
    BY DEF QueueMessages
  <2> HIDE DEF told, first
  <2>3. first \in [DOMAIN m_clients -> NetworkClientRecord]
    BY <1>1, <2>1, <2>2, QueueMessagesTyped
  <2> QED BY <2>3
<1>3. m_clients' = QueueTCP(first, DOMAIN m_clients \ {b}, news)
  BY DEF OnClientConnected
<1>4. first[c].tcpOutbox = IF c = b THEN m_clients[c].tcpOutbox \o told ELSE m_clients[c].tcpOutbox
  <2> HIDE DEF told, b
  <2> QED BY <1>1, QueuedTCP
<1> HIDE DEF first, told, news, b
<1>5. m_clients'[c].tcpOutbox = IF c = b THEN first[c].tcpOutbox ELSE first[c].tcpOutbox \o news
  BY <1>2, <1>3, QueuedTCP
<1> QED BY <1>4, <1>5 DEF told, news, b

LEMMA OnClientDisconnectedTells ==
    ASSUME ServerTyped, OnClientDisconnected, callback.client \in DOMAIN m_clientIDToPlayerID,
           NEW c \in DOMAIN m_clients, c # callback.client
    PROVE  m_clients'[c].tcpOutbox =
             m_clients[c].tcpOutbox \o <<PlayerLeft(m_clientIDToPlayerID[callback.client])>>
<1> DEFINE news == <<PlayerLeft(m_clientIDToPlayerID[callback.client])>>
<1>1. m_clients \in [DOMAIN m_clients -> NetworkClientRecord]
  BY DEF ServerTyped, ServerTypeOK
<1>2. m_clients' = QueueTCP(m_clients, DOMAIN m_clients \ {callback.client}, news)
  BY DEF OnClientDisconnected
<1> DEFINE C == DOMAIN m_clients \ {callback.client}
<1>3. c \in C
  OBVIOUS
<1> HIDE DEF news, C
<1>4. m_clients'[c].tcpOutbox = m_clients[c].tcpOutbox \o news
  <2>1. m_clients' = QueueTCP(m_clients, C, news)
    BY <1>2 DEF C
  <2>2. QueueTCP(m_clients, C, news)[c].tcpOutbox = IF c \in C THEN m_clients[c].tcpOutbox \o news
                                                   ELSE m_clients[c].tcpOutbox
    BY ONLY <1>1, c \in DOMAIN m_clients, QueuedTCP
  <2> QED BY <1>3, <2>1, <2>2
<1> QED BY <1>4 DEF news

LEMMA UpdateTells ==
    ASSUME ServerTyped, UpdatesKnown, Update
    PROVE  \E hits \in Seq(HealthsOf(DOMAIN players)) :
             /\ players' = ApplyAll(players, hits)
             /\ \A c \in DOMAIN m_clients : \E spawns \in Seq(Spawns) :
                  m_clients'[c].tcpOutbox = m_clients[c].tcpOutbox \o (spawns \o hits)
<1>1. PICK clients : \E hits \in Seq(HealthsOf(DOMAIN players)) :
                       /\ AllServed(m_clients, clients, Spawns)
                       /\ m_clients' = QueueTCP(clients, DOMAIN clients, hits)
                       /\ players' = ApplyAll(players, hits)
  BY UpdateTyped
<1>2. PICK hits \in Seq(HealthsOf(DOMAIN players)) :
                       /\ AllServed(m_clients, clients, Spawns)
                       /\ m_clients' = QueueTCP(clients, DOMAIN clients, hits)
                       /\ players' = ApplyAll(players, hits)
  BY <1>1
<1>3. ASSUME NEW c \in DOMAIN m_clients
      PROVE  \E spawns \in Seq(Spawns) : m_clients'[c].tcpOutbox = m_clients[c].tcpOutbox \o (spawns \o hits)
  <2> DEFINE old == m_clients[c].tcpOutbox
             mid == clients[c].tcpOutbox
  <2>1. old \in Seq(Message)
    BY QueuesTyped DEF ServerTyped, ServerTypeOK
  <2>2. Grows(old, mid, Spawns) /\ clients \in [DOMAIN clients -> NetworkClientRecord] /\ c \in DOMAIN clients
    BY <1>2 DEF AllServed, Served
  <2>3. m_clients'[c].tcpOutbox = mid \o hits
    <3>1. m_clients' = QueueTCP(clients, DOMAIN clients, hits)
      BY <1>2
    <3>2. QueueTCP(clients, DOMAIN clients, hits)[c].tcpOutbox = IF c \in DOMAIN clients THEN clients[c].tcpOutbox \o hits
                                                   ELSE clients[c].tcpOutbox
      <4> HIDE DEF mid
      <4>1. clients \in [DOMAIN clients -> NetworkClientRecord] /\ c \in DOMAIN clients
        BY <2>2
      <4> DEFINE C == DOMAIN clients
      <4> HIDE DEF C
      <4> SUFFICES QueueTCP(clients, C, hits)[c].tcpOutbox = IF c \in C THEN clients[c].tcpOutbox \o hits
                                                   ELSE clients[c].tcpOutbox
        BY DEF C
      <4> QED BY ONLY <4>1, QueuedTCP
    <3> QED BY <2>2, <3>1, <3>2 DEF mid
  <2> HIDE DEF old, mid
  <2>4. PICK spawns \in Seq(Spawns) : mid = old \o spawns
    BY <2>1, <2>2, GrowsBy
  <2>5. spawns \in Seq(Message) /\ hits \in Seq(Message)
    <3>1. Spawns \subseteq Message /\ HealthsOf(DOMAIN players) \subseteq Message
      BY KindsAreMessages DEF HealthsOf
    <3> QED BY <2>4, <3>1
  <2>6. (old \o spawns) \o hits = old \o (spawns \o hits)
    BY <2>1, <2>5, ConcatAssociative
  <2> QED BY <2>3, <2>4, <2>6 DEF old
<1> QED BY <1>2, <1>3
=============================================================================
