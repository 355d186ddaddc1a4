------------------------------ MODULE Recursion ------------------------------
(***************************************************************************)
(* Induction over the natural numbers, and the existence of the functions  *)
(* that are defined by recursion on them, in terms of sets and functions   *)
(* only: the proof modules cite these wherever the code has a loop.        *)
(***************************************************************************)
EXTENDS Integers, WellFoundedInduction, TLAPS

(* A set of numbers that is not empty has a least one. *)
LEMMA LeastNumber ==
  ASSUME NEW T \in SUBSET Nat, T # {}
  PROVE  \E m \in T : \A y \in T : m <= y
<1> DEFINE R == OpToRel(<, Nat)
<1>1. IsWellFoundedOn(R, Nat)
  BY NatLessThanWellFounded
<1>2. \A x, y \in Nat : <<y, x>> \in R <=> y < x
  BY DEF OpToRel
<1> HIDE DEF R
<1>3. PICK m \in T : \A y \in T : ~ (<<y, m>> \in R)
  BY <1>1, WFMin
<1>4. \A y \in T : m <= y
  <2> SUFFICES ASSUME NEW y \in T PROVE m <= y
    OBVIOUS
  <2>1. y \in Nat /\ m \in Nat /\ ~ (y < m)
    BY <1>2, <1>3
  <2> QED
    BY <2>1
<1> QED
  BY <1>4

(* A set of numbers that has 0 and every successor has them all. *)
LEMMA AllNumbers ==
  ASSUME NEW S, 0 \in S, \A n \in Nat : n \in S => n + 1 \in S
  PROVE  Nat \subseteq S
<1> DEFINE T == Nat \ S
<1>1. ASSUME T # {} PROVE FALSE
  <2>1. PICK m \in T : \A y \in T : m <= y
    <3>1. T \in SUBSET Nat
      OBVIOUS
    <3> HIDE DEF T
    <3> QED
      BY <3>1, <1>1, LeastNumber
  <2>2. m \in Nat /\ m # 0 /\ m \notin S
    OBVIOUS
  <2>3. m - 1 \in Nat /\ (m - 1) + 1 = m
    BY <2>2
  <2>4. m - 1 \notin S
    BY <2>2, <2>3
  <2> QED
    BY <2>1, <2>3, <2>4
<1> QED
  BY <1>1

(* Of a loop that is run n times, whose k-th round takes the value v to    *)
(* G[k][v], there is a record of the values it goes through.               *)
Runs(f, n, V, b, G) ==
    /\ f \in [0 .. n -> V] /\ f[0] = b
    /\ \A k \in 1 .. n : f[k] = G[k][f[k - 1]]

LEMMA LoopRuns ==
  ASSUME NEW n \in Nat, NEW V, NEW b \in V, NEW G \in [1 .. n -> [V -> V]]
  PROVE  \E f : Runs(f, n, V, b, G)
<1> DEFINE S == {m \in Nat : m <= n => \E f : Runs(f, m, V, b, G)}
<1>1. 0 \in S
  <2> DEFINE f == [k \in 0 .. 0 |-> b]
  <2>1. Runs(f, 0, V, b, G)
    BY DEF Runs
  <2> QED
    BY <2>1
<1>2. ASSUME NEW m \in Nat, m \in S PROVE m + 1 \in S
  <2> SUFFICES ASSUME m + 1 <= n PROVE \E f : Runs(f, m + 1, V, b, G)
    OBVIOUS
  <2>0. m <= n /\ m \in 0 .. m
    OBVIOUS
  <2>1. PICK f : Runs(f, m, V, b, G)
    BY <1>2, <2>0
  <2>2. /\ f \in [0 .. m -> V] /\ f[0] = b
        /\ \A k \in 1 .. m : f[k] = G[k][f[k - 1]]
    BY <2>1 DEF Runs
  <2> HIDE DEF S
  <2>3. f[m] \in V
    BY <2>0, <2>2
  <2>4. PICK w \in V : w = G[m + 1][f[m]]
    BY <2>3
  <2> DEFINE g == [k \in 0 .. m + 1 |-> IF k = m + 1 THEN w ELSE f[k]]
  <2>5. g \in [0 .. m + 1 -> V]
    <3> SUFFICES ASSUME NEW k \in 0 .. m + 1, k # m + 1 PROVE f[k] \in V
      OBVIOUS
    <3>1. k \in 0 .. m
      OBVIOUS
    <3> QED
      BY <3>1, <2>2
  <2>6. g[0] = b
    <3>1. 0 \in 0 .. m + 1 /\ 0 # m + 1
      OBVIOUS
    <3> QED
      BY <3>1, <2>2
  <2>7. ASSUME NEW k \in 1 .. m + 1 PROVE g[k] = G[k][g[k - 1]]
    <3>1. k - 1 \in 0 .. m + 1 /\ k - 1 # m + 1 /\ k \in 0 .. m + 1
      OBVIOUS
    <3>2. g[k - 1] = f[k - 1]
      BY <3>1
    <3>3. CASE k = m + 1
      <4>1. g[k] = w /\ f[k - 1] = f[m]
        BY <3>1, <3>3
      <4>2. G[k][g[k - 1]] = G[m + 1][f[m]]
        BY <4>1, <3>2, <3>3, Zenon
      <4> QED
        BY <4>1, <4>2, <2>4
    <3>4. CASE k # m + 1
      <4>1. k \in 1 .. m
        BY <3>4
      <4>2. f[k] = G[k][f[k - 1]]
        BY <4>1, <2>2
      <4>3. g[k] = f[k]
        BY <3>1, <3>4
      <4> QED
        BY <3>2, <4>2, <4>3, Zenon
    <3> QED
      BY <3>3, <3>4
  <2> HIDE DEF g
  <2>8. Runs(g, m + 1, V, b, G)
    BY <2>5, <2>6, <2>7 DEF Runs
  <2> QED
    BY <2>8
<1> HIDE DEF S
<1>3. n \in S
  BY <1>1, <1>2, AllNumbers
<1> QED
  BY <1>3 DEF S

(* What holds before a loop and is kept by each round of it holds after    *)
(* every round.                                                            *)
LEMMA LoopKeeps ==
  ASSUME NEW n \in Nat, NEW V, NEW f, f[0] \in V,
         \A k \in 1 .. n : f[k - 1] \in V => f[k] \in V
  PROVE  \A k \in 0 .. n : f[k] \in V
<1> DEFINE S == {m \in Nat : m <= n => f[m] \in V}
<1>1. 0 \in S
  OBVIOUS
<1>2. ASSUME NEW m \in Nat, m \in S PROVE m + 1 \in S
  <2> SUFFICES ASSUME m + 1 <= n PROVE f[m + 1] \in V
    OBVIOUS
  <2>1. m + 1 \in 1 .. n /\ (m + 1) - 1 = m /\ m <= n
    OBVIOUS
  <2>2. f[m] \in V
    BY <1>2, <2>1
  <2> QED
    BY <2>1, <2>2
<1> HIDE DEF S
<1>3. Nat \subseteq S
  BY <1>1, <1>2, AllNumbers
<1> QED
  BY <1>3 DEF S
=============================================================================
