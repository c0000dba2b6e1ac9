-------------------------- MODULE Recursion_proofs --------------------------
(* What the proofs need of the loops over a sequence, which the models write as
   recursive functions on 0 .. n: such a function exists, and what every turn
   keeps holds after the last one. *)
EXTENDS Naturals, FiniteSetTheorems, WellFoundedInduction, TLAPS

(* A set of numbers that is not empty has a least one. *)
LEMMA LeastNat ==
    ASSUME NEW T, T \subseteq Nat, T # {}
    PROVE  \E m \in T : \A k \in T : m <= k
<1> DEFINE Below(k) == 0 .. k
           F == {Below(k) : k \in T}
           R == StrictSubsetOrdering(Nat)
<1>1. F \subseteq FiniteSubsetsOf(Nat)
  <2> SUFFICES ASSUME NEW k \in T PROVE Below(k) \in FiniteSubsetsOf(Nat)
    OBVIOUS
  <2>1. k \in Nat /\ Below(k) \subseteq Nat
    OBVIOUS
  <2>2. IsFiniteSet(0 .. k)
    BY <2>1, FS_Interval
  <2> QED BY <2>1, <2>2 DEF FiniteSubsetsOf
<1>2. F # {}
  OBVIOUS
<1>3. IsWellFoundedOn(R, FiniteSubsetsOf(Nat))
  BY FS_StrictSubsetOrderingWellFounded
<1>4. PICK x \in F : \A y \in F : ~(<<y, x>> \in R)
  <2> HIDE DEF F, R
  <2> QED BY <1>1, <1>2, <1>3, WFMin
<1>5. PICK m \in T : x = Below(m)
  OBVIOUS
<1>6. ASSUME NEW k \in T PROVE m <= k
  <2>1. ASSUME k < m PROVE FALSE
    <3>1. k \in Nat /\ m \in Nat
      OBVIOUS
    <3>2. Below(k) \subseteq Below(m) /\ m \in Below(m) /\ m \notin Below(k)
      BY <2>1, <3>1
    <3>3. Below(k) \in SUBSET Nat /\ Below(m) \in SUBSET Nat
      BY <3>1
    <3>4. <<Below(k), Below(m)>> \in R
      <4> HIDE DEF Below
      <4> QED BY <3>2, <3>3 DEF StrictSubsetOrdering
    <3> QED BY <1>4, <1>5, <3>4
  <2> QED BY <2>1
<1> QED BY <1>6

(* What holds before the first turn and is kept by each holds throughout. *)
LEMMA KeptThroughout ==
    ASSUME NEW n \in Nat, NEW V, NEW f, f[0] \in V,
           \A k \in 1 .. n : f[k - 1] \in V => f[k] \in V
    PROVE  \A k \in 0 .. n : f[k] \in V
<1> DEFINE T == {k \in 0 .. n : f[k] \notin V}
<1>1. ASSUME T # {} PROVE FALSE
  <2>1. T \subseteq Nat
    OBVIOUS
  <2>2. PICK m \in T : \A k \in T : m <= k
    BY <1>1, <2>1, LeastNat
  <2>3. m # 0
    OBVIOUS
  <2>4. m \in 1 .. n /\ m - 1 \in 0 .. n /\ ~(m <= m - 1)
    BY <2>3
  <2>5. f[m - 1] \in V
    BY <2>2, <2>4
  <2> QED BY <2>4, <2>5
<1> QED BY <1>1

(* What has 0, and each number behind one it has, has all of them. *)
LEMMA AllReached ==
    ASSUME NEW n \in Nat, NEW T, 0 \in T, \A k \in 1 .. n : k - 1 \in T => k \in T
    PROVE  0 .. n \subseteq T
<1> DEFINE f == [k \in 0 .. n |-> k]
<1>1. f[0] \in T /\ \A k \in 1 .. n : f[k - 1] = k - 1 /\ f[k] = k
  OBVIOUS
<1>2. \A k \in 0 .. n : f[k] = k
  OBVIOUS
<1> HIDE DEF f
<1>3. \A k \in 0 .. n : f[k] \in T
  BY <1>1, KeptThroughout
<1> QED BY <1>2, <1>3

(* A loop of n turns, from start, whose k-th turn is the function step[k]. *)
Runs(f, n, start, step) ==
    f = [k \in 0 .. n |-> IF k = 0 THEN start ELSE step[k][f[k - 1]]]

LEMMA LoopExists ==
    ASSUME NEW n \in Nat, NEW V, NEW start \in V, NEW step \in [1 .. n -> [V -> V]]
    PROVE  \E f : Runs(f, n, start, step) /\ \A k \in 0 .. n : f[k] \in V
<1> DEFINE T == {m \in Nat : m <= n /\ ~\E f : Runs(f, m, start, step)}
<1>1. ASSUME T # {} PROVE FALSE
  <2>1. PICK m \in T : \A k \in T : m <= k
    BY <1>1, LeastNat
  <2>2. m # 0
    <3> DEFINE f == [k \in 0 .. 0 |-> start]
    <3>1. Runs(f, 0, start, step)
      BY DEF Runs
    <3> QED BY <2>1, <3>1
  <2>3. m - 1 \in Nat /\ m - 1 <= n /\ ~(m <= m - 1) /\ m \in 1 .. n
    BY <2>1, <2>2
  <2>4. PICK f : Runs(f, m - 1, start, step)
    BY <2>1, <2>3
  <2> DEFINE g == [k \in 0 .. m |-> IF k = m THEN step[m][f[m - 1]] ELSE f[k]]
             h == [k \in 0 .. m |-> IF k = 0 THEN start ELSE step[k][g[k - 1]]]
  <2>5. ASSUME NEW k \in 0 .. m PROVE g[k] = h[k]
    <3>1. CASE k = 0
      <4>1. 0 \in 0 .. (m - 1)
        BY <2>3
      <4>2. f[0] = start
        BY <2>4, <4>1 DEF Runs
      <4> QED BY <2>2, <3>1, <4>2
    <3>2. CASE k = m
      <4>1. g[m - 1] = f[m - 1]
        BY <2>3
      <4> QED BY <2>2, <3>2, <4>1
    <3>3. CASE k # 0 /\ k # m
      <4>1. k \in 0 .. (m - 1) /\ k - 1 \in 0 .. m /\ k - 1 # m
        BY <2>3, <3>3
      <4>2. f[k] = step[k][f[k - 1]]
        BY <2>4, <3>3, <4>1 DEF Runs
      <4> QED BY <3>3, <4>1, <4>2
    <3> QED BY <3>1, <3>2, <3>3
  <2>6. g = h
    BY <2>5
  <2>7. Runs(g, m, start, step)
    <3> HIDE DEF g
    <3> QED BY <2>6 DEF Runs
  <2> QED BY <2>1, <2>7
<1>2. PICK f : Runs(f, n, start, step)
  BY <1>1
<1>3. ASSUME NEW k \in 1 .. n, f[k - 1] \in V PROVE f[k] \in V
  <2>1. f[k] = step[k][f[k - 1]]
    BY <1>2 DEF Runs
  <2> QED BY <1>3, <2>1
<1>4. f[0] \in V
  BY <1>2 DEF Runs
<1>5. \A k \in 0 .. n : f[k] \in V
  BY <1>3, <1>4, KeptThroughout
<1> QED BY <1>2, <1>5
=============================================================================
