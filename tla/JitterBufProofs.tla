------------------------- MODULE JitterBufProofs -------------------------
(***************************************************************************)
(* The jitter buffer, for any number of slots and frames and for any       *)
(* delays: its history and the extremes taken from it, its circular list   *)
(* and its free list, and that it implements Playout.  At the end, when    *)
(* the times that MiniFrames restores are those the frames were sent with. *)
(***************************************************************************)
EXTENDS JitterBuf, MiniFrames, Recursion, FiniteSetTheorems, SequenceTheorems, TLAPS

LEMMA Sizes ==
  /\ HISTORY_SZ \in Nat \ {0} /\ MAXBUF_SZ \in Nat \ {0} /\ LONGMAX \in Nat /\ LONGMIN \in Int
  /\ LONGMIN < 0 /\ 0 < LONGMAX
  /\ MaxIn \in Nat /\ MaxNow \in Nat /\ DROPPCT \in 0 .. 49 /\ NULL \notin Cells
  BY SizesAssumption, OutlierAssumption, TimesAssumption DEF LONGMIN

-----------------------------------------------------------------------------
(* The extremes of a window.  Both buffers at once: hi says which.         *)

Beats(hi, a, b) == IF hi = "high" THEN a > b ELSE a < b
Inserted(hi, buf, v) ==
    IF ~Beats(hi, v, buf[MAXBUF_SZ]) THEN buf
    ELSE LET j == CHOOSE k \in 1 .. MAXBUF_SZ :
                     Beats(hi, v, buf[k]) /\ \A l \in 1 .. (k - 1) : ~Beats(hi, v, buf[l])
         IN  [k \in 1 .. MAXBUF_SZ |-> IF k < j THEN buf[k]
                                       ELSE IF k = j THEN v ELSE buf[k - 1]]
Worst(hi) == IF hi = "high" THEN LONGMIN ELSE LONGMAX
Unset(hi) == [k \in 1 .. MAXBUF_SZ |-> Worst(hi)]

Better(hi, w, m, v)  == {i \in 1 .. m : Beats(hi, w[i], v)}
NoWorse(hi, w, m, v) == {i \in 1 .. m : ~Beats(hi, v, w[i])}
Sorted(hi, b) == \A k, l \in 1 .. MAXBUF_SZ : k < l => ~Beats(hi, b[l], b[k])

(* b holds the best of the first m of w, each as often as it occurs.       *)
Best(hi, w, m, b) ==
    /\ b \in [1 .. MAXBUF_SZ -> Int]
    /\ Sorted(hi, b)
    /\ \A k \in 1 .. MAXBUF_SZ : Cardinality(Better(hi, w, m, b[k])) < k
    /\ \A k \in 1 .. MAXBUF_SZ : k <= m => Cardinality(NoWorse(hi, w, m, b[k])) >= k
    /\ \A k \in 1 .. MAXBUF_SZ : k > m => b[k] = Worst(hi)

Inside(n, w) == w \in [1 .. n -> Int] /\ \A i \in 1 .. n : LONGMIN < w[i] /\ w[i] < LONGMAX

LEMMA InsertIs ==
  ASSUME NEW buf, NEW v
  PROVE  InsertHigh(buf, v) = Inserted("high", buf, v) /\ InsertLow(buf, v) = Inserted("low", buf, v)
BY DEF InsertHigh, InsertLow, InsertBy, Higher, Lower, Inserted, Beats

(* A buffer's first place that v beats. *)
LEMMA PlaceIs ==
  ASSUME NEW hi \in {"high", "low"}, NEW b \in [1 .. MAXBUF_SZ -> Int], NEW v \in Int,
         Beats(hi, v, b[MAXBUF_SZ])
  PROVE  \E j \in 1 .. MAXBUF_SZ :
            /\ Beats(hi, v, b[j]) /\ \A l \in 1 .. (j - 1) : ~Beats(hi, v, b[l])
            /\ Inserted(hi, b, v) = [k \in 1 .. MAXBUF_SZ |->
                  IF k < j THEN b[k] ELSE IF k = j THEN v ELSE b[k - 1]]
<1> DEFINE P(k) == Beats(hi, v, b[k]) /\ \A l \in 1 .. (k - 1) : ~Beats(hi, v, b[l])
<1>1. \E k \in 1 .. MAXBUF_SZ : P(k)
  <2> SUFFICES ASSUME \A k \in 1 .. MAXBUF_SZ : ~P(k) PROVE FALSE
    OBVIOUS
  <2> DEFINE S == {n \in Nat : n <= MAXBUF_SZ => \A l \in 1 .. n : ~Beats(hi, v, b[l])}
  <2>1. 0 \in S
    OBVIOUS
  <2>2. ASSUME NEW n \in Nat, n \in S PROVE n + 1 \in S
    <3> SUFFICES ASSUME n + 1 <= MAXBUF_SZ PROVE \A l \in 1 .. n + 1 : ~Beats(hi, v, b[l])
      OBVIOUS
    <3>1. n + 1 \in 1 .. MAXBUF_SZ /\ (n + 1) - 1 = n /\ n <= MAXBUF_SZ
      BY Sizes
    <3>2. \A l \in 1 .. n : ~Beats(hi, v, b[l])
      BY <2>2, <3>1
    <3>3. ~P(n + 1)
      BY <3>1
    <3>4. ~Beats(hi, v, b[n + 1])
      BY <3>1, <3>2, <3>3
    <3> QED
      BY <3>2, <3>4
  <2> HIDE DEF S
  <2>3. MAXBUF_SZ \in S
    BY <2>1, <2>2, AllNumbers, Sizes
  <2> QED
    BY <2>3, Sizes DEF S
<1> DEFINE j == CHOOSE k \in 1 .. MAXBUF_SZ : P(k)
<1>2. j \in 1 .. MAXBUF_SZ /\ P(j)
  BY <1>1
<1>3. Inserted(hi, b, v) = [k \in 1 .. MAXBUF_SZ |->
                  IF k < j THEN b[k] ELSE IF k = j THEN v ELSE b[k - 1]]
  BY DEF Inserted
<1> HIDE DEF j
<1> QED
  BY <1>2, <1>3

LEMMA CountsAre ==
  ASSUME NEW hi, NEW m \in Nat, NEW w, NEW u
  PROVE  /\ IsFiniteSet(Better(hi, w, m, u)) /\ Cardinality(Better(hi, w, m, u)) \in Nat
         /\ IsFiniteSet(NoWorse(hi, w, m, u)) /\ Cardinality(NoWorse(hi, w, m, u)) \in Nat
<1>1. IsFiniteSet(1 .. m)
  BY FS_Interval
<1>2. Better(hi, w, m, u) \in SUBSET (1 .. m) /\ NoWorse(hi, w, m, u) \in SUBSET (1 .. m)
  BY DEF Better, NoWorse
<1>3. IsFiniteSet(Better(hi, w, m, u)) /\ IsFiniteSet(NoWorse(hi, w, m, u))
  BY <1>1, <1>2, FS_Subset
<1> QED
  BY <1>3, FS_CardinalityType

(* How many are better, or no worse, when one more is looked at.           *)
LEMMA OneMore ==
  ASSUME NEW hi \in {"high", "low"}, NEW m \in Nat, NEW w, NEW v \in Int,
         \A i \in 1 .. m + 1 : w[i] \in Int
  PROVE  /\ \A u \in Int : ~Beats(hi, v, u) =>
              /\ Cardinality(Better(hi, w, m, v)) >= Cardinality(Better(hi, w, m, u))
              /\ Cardinality(NoWorse(hi, w, m, v)) >= Cardinality(NoWorse(hi, w, m, u))
         /\ Cardinality(Better(hi, w, m + 1, v)) = Cardinality(Better(hi, w, m, v))
                                           + (IF Beats(hi, w[m + 1], v) THEN 1 ELSE 0)
         /\ Cardinality(NoWorse(hi, w, m + 1, v)) = Cardinality(NoWorse(hi, w, m, v))
                                           + (IF ~Beats(hi, v, w[m + 1]) THEN 1 ELSE 0)
<1>1. \A u : IsFiniteSet(Better(hi, w, m, u)) /\ IsFiniteSet(NoWorse(hi, w, m, u))
  BY CountsAre
<1>2. \A u : Cardinality(Better(hi, w, m, u)) \in Nat /\ Cardinality(NoWorse(hi, w, m, u)) \in Nat
  BY CountsAre
<1>3. ASSUME NEW u \in Int, ~Beats(hi, v, u)
      PROVE  /\ Cardinality(Better(hi, w, m, v)) >= Cardinality(Better(hi, w, m, u))
             /\ Cardinality(NoWorse(hi, w, m, v)) >= Cardinality(NoWorse(hi, w, m, u))
  <2>1. \A i \in 1 .. m : w[i] \in Int
    OBVIOUS
  <2>2. Better(hi, w, m, u) \in SUBSET Better(hi, w, m, v)
    BY <2>1, <1>3 DEF Better, Beats
  <2>3. NoWorse(hi, w, m, u) \in SUBSET NoWorse(hi, w, m, v)
    BY <2>1, <1>3 DEF NoWorse, Beats
  <2>4. Cardinality(Better(hi, w, m, u)) <= Cardinality(Better(hi, w, m, v))
    BY <1>1, <2>2, FS_Subset
  <2>5. Cardinality(NoWorse(hi, w, m, u)) <= Cardinality(NoWorse(hi, w, m, v))
    BY <1>1, <2>3, FS_Subset
  <2> QED
    BY <2>4, <2>5, <1>2
<1>4. 1 .. m + 1 = (1 .. m) \cup {m + 1} /\ m + 1 \notin 1 .. m
  OBVIOUS
<1>5. Cardinality(Better(hi, w, m + 1, v)) = Cardinality(Better(hi, w, m, v))
                                           + (IF Beats(hi, w[m + 1], v) THEN 1 ELSE 0)
  <2>1. CASE Beats(hi, w[m + 1], v)
    <3>1. Better(hi, w, m + 1, v) = Better(hi, w, m, v) \cup {m + 1} /\ m + 1 \notin Better(hi, w, m, v)
      BY <1>4, <2>1 DEF Better
    <3> QED
      BY <3>1, <2>1, <1>1, FS_AddElement
  <2>2. CASE ~Beats(hi, w[m + 1], v)
    <3>1. Better(hi, w, m + 1, v) = Better(hi, w, m, v)
      BY <1>4, <2>2 DEF Better
    <3> QED
      BY <3>1, <2>2, <1>2
  <2> QED
    BY <2>1, <2>2
<1>6. Cardinality(NoWorse(hi, w, m + 1, v)) = Cardinality(NoWorse(hi, w, m, v))
                                           + (IF ~Beats(hi, v, w[m + 1]) THEN 1 ELSE 0)
  <2>1. CASE ~Beats(hi, v, w[m + 1])
    <3>1. NoWorse(hi, w, m + 1, v) = NoWorse(hi, w, m, v) \cup {m + 1} /\ m + 1 \notin NoWorse(hi, w, m, v)
      BY <1>4, <2>1 DEF NoWorse
    <3> QED
      BY <3>1, <2>1, <1>1, FS_AddElement
  <2>2. CASE Beats(hi, v, w[m + 1])
    <3>1. NoWorse(hi, w, m + 1, v) = NoWorse(hi, w, m, v)
      BY <1>4, <2>2 DEF NoWorse
    <3> QED
      BY <3>1, <2>2, <1>2
  <2> QED
    BY <2>1, <2>2
<1> QED
  BY <1>3, <1>5, <1>6

(* One insertion keeps the buffer the best of what was looked at.          *)
LEMMA InsertedBest ==
  ASSUME NEW hi \in {"high", "low"}, NEW n \in Nat, NEW w, Inside(n, w), NEW m \in Nat, m + 1 <= n,
         NEW b, Best(hi, w, m, b)
  PROVE  Best(hi, w, m + 1, Inserted(hi, b, w[m + 1]))
<1> DEFINE v == w[m + 1]
           M == MAXBUF_SZ
           c == Inserted(hi, b, v)
           B(u) == Cardinality(Better(hi, w, m, u))
           N(u) == Cardinality(NoWorse(hi, w, m, u))
           B1(u) == Cardinality(Better(hi, w, m + 1, u))
           N1(u) == Cardinality(NoWorse(hi, w, m + 1, u))
<1>1. /\ v \in Int /\ LONGMIN < v /\ v < LONGMAX /\ M \in Nat \ {0} /\ LONGMIN \in Int /\ LONGMAX \in Int
      /\ \A i \in 1 .. m + 1 : w[i] \in Int
      /\ b \in [1 .. M -> Int] /\ \A k \in 1 .. M : b[k] \in Int
  <2>1. m + 1 \in 1 .. n /\ 1 .. m + 1 \subseteq 1 .. n
    OBVIOUS
  <2> QED
    BY <2>1, Sizes DEF Inside, Best
<1>2. \A k, l \in 1 .. M : k < l => ~Beats(hi, b[l], b[k])
  BY DEF Best, Sorted
<1>3. \A k \in 1 .. M : B(b[k]) < k /\ (k <= m => N(b[k]) >= k) /\ (k > m => b[k] = Worst(hi))
  BY DEF Best
<1>4. \A u \in Int : B(u) \in Nat /\ N(u) \in Nat
  BY CountsAre
<1>5. \A t, u \in Int : ~Beats(hi, t, u) => B(t) >= B(u) /\ N(t) >= N(u)
  <2> SUFFICES ASSUME NEW t \in Int, NEW u \in Int, ~Beats(hi, t, u)
               PROVE  B(t) >= B(u) /\ N(t) >= N(u)
    OBVIOUS
  <2>1. \A i \in 1 .. m + 1 : w[i] \in Int
    BY <1>1
  <2>2. \A x \in Int : ~Beats(hi, t, x) =>
           /\ Cardinality(Better(hi, w, m, t)) >= Cardinality(Better(hi, w, m, x))
           /\ Cardinality(NoWorse(hi, w, m, t)) >= Cardinality(NoWorse(hi, w, m, x))
    BY <2>1, OneMore
  <2> QED
    BY <2>2
<1>6. \A u \in Int : /\ B1(u) = B(u) + (IF Beats(hi, v, u) THEN 1 ELSE 0)
                     /\ N1(u) = N(u) + (IF ~Beats(hi, u, v) THEN 1 ELSE 0)
  <2> SUFFICES ASSUME NEW u \in Int
               PROVE  /\ B1(u) = B(u) + (IF Beats(hi, v, u) THEN 1 ELSE 0)
                      /\ N1(u) = N(u) + (IF ~Beats(hi, u, v) THEN 1 ELSE 0)
    OBVIOUS
  <2>1. \A i \in 1 .. m + 1 : w[i] \in Int
    BY <1>1
  <2>2. /\ Cardinality(Better(hi, w, m + 1, u)) = Cardinality(Better(hi, w, m, u))
                                            + (IF Beats(hi, w[m + 1], u) THEN 1 ELSE 0)
        /\ Cardinality(NoWorse(hi, w, m + 1, u)) = Cardinality(NoWorse(hi, w, m, u))
                                            + (IF ~Beats(hi, u, w[m + 1]) THEN 1 ELSE 0)
    BY <2>1, OneMore
  <2> QED
    BY <2>2
<1>7. Beats(hi, v, Worst(hi))
  BY <1>1 DEF Beats, Worst
<1>8. /\ \A t, u \in Int : Beats(hi, t, u) => ~Beats(hi, u, t)
      /\ \A t, u, x \in Int : ~Beats(hi, t, u) /\ ~Beats(hi, u, x) => ~Beats(hi, t, x)
      /\ \A t, u, x \in Int : Beats(hi, t, u) /\ ~Beats(hi, x, u) => Beats(hi, t, x)
      /\ \A t \in Int : ~Beats(hi, t, t)
  BY DEF Beats
<1> HIDE DEF B, N, B1, N1, v, M
<1>9. CASE ~Beats(hi, v, b[M])
  <2>1. c = b
    BY <1>9 DEF Inserted, v, M
  <2>2. M <= m
    <3> SUFFICES ASSUME M > m PROVE FALSE
      BY <1>1
    <3>1. b[M] = Worst(hi)
      BY <1>1, <1>3
    <3> QED
      BY <3>1, <1>7, <1>9
  <2>3. ASSUME NEW k \in 1 .. M PROVE ~Beats(hi, v, b[k])
    <3>1. b[k] \in Int /\ b[M] \in Int /\ M \in 1 .. M
      BY <1>1
    <3>2. CASE k = M
      BY <3>2, <1>9
    <3>3. CASE k # M
      <4>1. ~Beats(hi, b[M], b[k])
        BY <3>1, <3>3, <1>2, <1>1
      <4> QED
        BY <4>1, <3>1, <1>1, <1>8, <1>9
    <3> QED
      BY <3>2, <3>3
  <2>4. ASSUME NEW k \in 1 .. M PROVE B1(b[k]) < k /\ N1(b[k]) >= k
    <3>0. b[k] \in Int /\ k \in Int /\ ~Beats(hi, v, b[k])
      BY <2>3, <1>1
    <3>1. B1(b[k]) = B(b[k]) /\ N1(b[k]) >= N(b[k]) /\ N1(b[k]) \in Int
      BY <3>0, <1>6, <1>4
    <3>2. k <= m
      BY <2>2, <1>1
    <3> QED
      BY <3>0, <3>1, <3>2, <1>3, <1>4
  <2>5. \A k \in 1 .. M : ~(k > m + 1)
    BY <2>2, <1>1
  <2> QED
    BY <2>1, <2>4, <2>5, <1>1, <1>2 DEF Best, Sorted, B1, N1, M, v
<1>10. CASE Beats(hi, v, b[M])
  <2>1. PICK j \in 1 .. M :
            /\ Beats(hi, v, b[j]) /\ \A l \in 1 .. (j - 1) : ~Beats(hi, v, b[l])
            /\ c = [k \in 1 .. M |-> IF k < j THEN b[k] ELSE IF k = j THEN v ELSE b[k - 1]]
    BY <1>1, <1>10, PlaceIs DEF M
  <2>2. /\ c \in [1 .. M -> Int] /\ j \in Int
        /\ \A k \in 1 .. M : k < j => c[k] = b[k]
        /\ c[j] = v
        /\ \A k \in 1 .. M : k > j => c[k] = b[k - 1] /\ k - 1 \in 1 .. M
    <3>1. ASSUME NEW k \in 1 .. M, k > j PROVE k - 1 \in 1 .. M /\ k # j /\ ~(k < j)
      BY <3>1, <2>1, <1>1
    <3> QED
      BY <2>1, <1>1, <3>1
  <2> HIDE DEF c
  <2>3. ASSUME NEW k \in 1 .. M, k < j PROVE ~Beats(hi, v, b[k])
    BY <2>1, <2>3, <1>1
  <2>4. ASSUME NEW k \in 1 .. M, k >= j PROVE Beats(hi, v, b[k])
    <3>1. CASE k = j
      BY <3>1, <2>1
    <3>2. CASE k # j
      <4>1. ~Beats(hi, b[k], b[j])
        BY <3>2, <2>4, <1>2, <2>1
      <4> QED
        BY <4>1, <2>1, <1>8, <1>1
    <3> QED
      BY <3>1, <3>2
  <2>5. \A k, l \in 1 .. M : k < l => ~Beats(hi, c[l], c[k])
    <3> SUFFICES ASSUME NEW k \in 1 .. M, NEW l \in 1 .. M, k < l PROVE ~Beats(hi, c[l], c[k])
      OBVIOUS
    <3>0. b[k] \in Int /\ b[l] \in Int /\ k \in Int /\ l \in Int
      BY <1>1
    <3>1. CASE l < j
      BY <3>1, <3>0, <2>2, <1>2
    <3>2. CASE l = j
      BY <3>2, <3>0, <2>2, <2>3
    <3>3. CASE l > j /\ k < j
      <4>1. c[l] = b[l - 1] /\ l - 1 \in 1 .. M /\ c[k] = b[k] /\ k < l - 1
        BY <3>3, <3>0, <2>2
      <4> QED
        BY <4>1, <1>2
    <3>4. CASE l > j /\ k = j
      <4>1. c[l] = b[l - 1] /\ l - 1 \in 1 .. M /\ c[k] = v /\ l - 1 >= j
        BY <3>4, <3>0, <2>2
      <4> QED
        BY <4>1, <2>4, <1>8, <1>1
    <3>5. CASE l > j /\ k > j
      <4>1. c[l] = b[l - 1] /\ l - 1 \in 1 .. M /\ c[k] = b[k - 1] /\ k - 1 \in 1 .. M /\ k - 1 < l - 1
        BY <3>5, <3>0, <2>2
      <4> QED
        BY <4>1, <1>2
    <3> QED
      BY <3>0, <3>1, <3>2, <3>3, <3>4, <3>5, <2>2
  <2>6. ASSUME NEW k \in 1 .. M
        PROVE  B1(c[k]) < k /\ (k <= m + 1 => N1(c[k]) >= k) /\ (k > m + 1 => c[k] = Worst(hi))
    <3>0. k \in Int /\ b[k] \in Int /\ j \in Int /\ m \in Nat
      BY <1>1
    <3>1. CASE k < j
      <4>1. c[k] = b[k] /\ ~Beats(hi, v, b[k])
        BY <3>1, <2>2, <2>3
      <4>2. B1(b[k]) = B(b[k]) /\ N1(b[k]) >= N(b[k]) /\ B(b[k]) \in Nat /\ N(b[k]) \in Nat
        BY <4>1, <3>0, <1>4, <1>6
      <4>3. k <= m
        <5> SUFFICES ASSUME k > m PROVE FALSE
          BY <3>0
        <5> QED
          BY <1>3, <1>7, <4>1
      <4>4. B(b[k]) < k /\ N(b[k]) >= k
        BY <1>3, <4>3
      <4>5. N1(b[k]) \in Int
        BY <1>6, <1>4, <3>0
      <4> QED
        BY <4>1, <4>2, <4>3, <4>4, <4>5, <3>0
    <3>2. CASE k = j
      <4>1. c[k] = v /\ Beats(hi, v, b[j]) /\ ~Beats(hi, v, v) /\ b[j] \in Int
        BY <3>2, <2>1, <2>2, <1>1, <1>8
      <4>2. B1(v) = B(v) /\ N1(v) = N(v) + 1 /\ B(v) \in Nat /\ N(v) \in Nat /\ B(b[j]) \in Nat
        BY <4>1, <1>1, <1>4, <1>6
      <4>3. B(v) <= B(b[j])
        <5>1. ~Beats(hi, b[j], v)
          BY <4>1, <1>1, <1>8
        <5>2. B(b[j]) >= B(v)
          BY <5>1, <4>1, <1>1, <1>5
        <5> QED
          BY <5>2, <4>2
      <4>4. B(b[j]) < j
        BY <1>3
      <4>5. k <= m + 1 /\ N(v) + 1 >= k
        <5>1. CASE k = 1
          BY <5>1, <4>2
        <5>2. CASE k # 1
          <6>1. k - 1 \in 1 .. M /\ k - 1 < j
            BY <5>2, <3>2, <3>0, <1>1
          <6>2. ~Beats(hi, v, b[k - 1]) /\ b[k - 1] \in Int
            BY <6>1, <2>3, <1>1
          <6>3. k - 1 <= m
            <7> SUFFICES ASSUME k - 1 > m PROVE FALSE
              BY <6>1
            <7> QED
              BY <1>3, <1>7, <6>1, <6>2
          <6>4. N(b[k - 1]) >= k - 1 /\ N(v) >= N(b[k - 1]) /\ N(b[k - 1]) \in Nat
            BY <6>1, <6>2, <6>3, <1>1, <1>3, <1>4, <1>5
          <6> QED
            BY <6>3, <6>4, <4>2, <3>0
        <5> QED
          BY <5>1, <5>2
      <4> QED
        BY <4>1, <4>2, <4>3, <4>4, <4>5, <3>0, <3>2
    <3>3. CASE k > j
      <4>1. c[k] = b[k - 1] /\ k - 1 \in 1 .. M /\ k - 1 >= j
        BY <3>3, <2>2, <3>0
      <4>2. Beats(hi, v, b[k - 1]) /\ b[k - 1] \in Int /\ ~Beats(hi, b[k - 1], v)
        BY <4>1, <2>4, <1>1, <1>8
      <4>3. /\ B1(b[k - 1]) = B(b[k - 1]) + 1 /\ N1(b[k - 1]) = N(b[k - 1]) + 1
            /\ B(b[k - 1]) \in Nat /\ N(b[k - 1]) \in Nat
        BY <4>2, <1>4, <1>6
      <4>4. /\ B(b[k - 1]) < k - 1 /\ (k - 1 <= m => N(b[k - 1]) >= k - 1)
            /\ (k - 1 > m => b[k - 1] = Worst(hi))
        BY <4>1, <1>3
      <4> QED
        BY <4>1, <4>3, <4>4, <3>0
    <3> QED
      BY <3>0, <3>1, <3>2, <3>3
  <2> QED
    <3>1. Sorted(hi, c)
      BY <2>5 DEF Sorted, M
    <3> QED
      BY <3>1, <2>2, <2>6 DEF Best, B1, N1, M, v, c
<1> QED
  BY <1>9, <1>10

(* The buffers, insertion by insertion. *)
Inserting(hi, w, m, f) ==
    f = [k \in 0 .. m |-> IF k = 0 THEN Unset(hi) ELSE Inserted(hi, f[k - 1], w[k])]

LEMMA InsertingExists ==
  ASSUME NEW hi \in {"high", "low"}, NEW w, NEW n \in Nat
  PROVE  \E f : Inserting(hi, w, n, f)
<1> DEFINE S == {m \in Nat : \E f : Inserting(hi, w, m, f)}
<1>1. 0 \in S
  <2> DEFINE f == [k \in 0 .. 0 |-> Unset(hi)]
  <2>1. Inserting(hi, w, 0, f)
    BY DEF Inserting
  <2> QED
    BY <2>1
<1>2. ASSUME NEW m \in Nat, m \in S PROVE m + 1 \in S
  <2>1. PICK f : Inserting(hi, w, m, f)
    BY <1>2
  <2> DEFINE g == [k \in 0 .. m + 1 |-> IF k = 0 THEN Unset(hi) ELSE Inserted(hi, f[k - 1], w[k])]
  <2>2. ASSUME NEW k \in 0 .. m PROVE g[k] = f[k]
    <3>1. f[k] = IF k = 0 THEN Unset(hi) ELSE Inserted(hi, f[k - 1], w[k])
      BY <2>1 DEF Inserting
    <3>2. k \in 0 .. m + 1
      OBVIOUS
    <3> QED
      BY <3>1, <3>2
  <2>3. \A k \in 0 .. m + 1 : k # 0 => k - 1 \in 0 .. m
    OBVIOUS
  <2>4. g = [k \in 0 .. m + 1 |-> IF k = 0 THEN Unset(hi) ELSE Inserted(hi, g[k - 1], w[k])]
    BY <2>2, <2>3
  <2>5. Inserting(hi, w, m + 1, g)
    BY <2>4 DEF Inserting
  <2> QED
    BY <2>5
<1> HIDE DEF S
<1>3. n \in S
  BY <1>1, <1>2, AllNumbers
<1> QED
  BY <1>3 DEF S

LEMMA InsertingBest ==
  ASSUME NEW hi \in {"high", "low"}, NEW n \in Nat, NEW w, Inside(n, w), NEW f, Inserting(hi, w, n, f)
  PROVE  Best(hi, w, n, f[n])
<1> DEFINE S == {m \in Nat : m <= n => Best(hi, w, m, f[m])}
<1>1. 0 \in S
  <2>1. f[0] = Unset(hi)
    BY DEF Inserting
  <2>2. Unset(hi) \in [1 .. MAXBUF_SZ -> Int] /\ \A k \in 1 .. MAXBUF_SZ : Unset(hi)[k] = Worst(hi)
    BY Sizes DEF Unset, Worst
  <2>3. Sorted(hi, Unset(hi))
    <3>1. Worst(hi) \in Int
      BY Sizes DEF Worst
    <3> QED
      BY <2>2, <3>1 DEF Sorted, Beats
  <2>4. \A u : Better(hi, w, 0, u) = {}
    BY DEF Better
  <2>5. \A k \in 1 .. MAXBUF_SZ : Cardinality(Better(hi, w, 0, Unset(hi)[k])) < k
    BY <2>4, FS_EmptySet
  <2> QED
    <3>1. \A k \in 1 .. MAXBUF_SZ : ~(k <= 0) /\ k > 0
      BY Sizes
    <3> QED
      BY <3>1, <2>1, <2>2, <2>3, <2>5 DEF Best
<1>2. ASSUME NEW m \in Nat, m \in S PROVE m + 1 \in S
  <2> SUFFICES ASSUME m + 1 <= n PROVE Best(hi, w, m + 1, f[m + 1])
    OBVIOUS
  <2>1. m + 1 \in 0 .. n /\ m + 1 # 0 /\ (m + 1) - 1 = m /\ m <= n
    OBVIOUS
  <2>2. f[m + 1] = Inserted(hi, f[m], w[m + 1])
    BY <2>1 DEF Inserting
  <2>3. Best(hi, w, m, f[m])
    BY <1>2, <2>1
  <2> QED
    BY <2>2, <2>3, InsertedBest
<1> HIDE DEF S
<1>3. n \in S
  BY <1>1, <1>2, AllNumbers
<1> QED
  BY <1>3 DEF S

(* history_calc_maxbuf finds the best of a window, at either end.          *)
LEMMA ExtremesBest ==
  ASSUME NEW n \in Nat, NEW w, Inside(n, w)
  PROVE  Best("high", w, n, HighestOf(w)) /\ Best("low", w, n, LowestOf(w)) /\ Len(w) = n
<1>1. Len(w) = n
  BY DEF Inside
<1>2. Best("high", w, n, HighestOf(w))
  <2> DEFINE buf[k \in 0 .. n] == IF k = 0 THEN [i \in 1 .. MAXBUF_SZ |-> LONGMIN]
                                  ELSE InsertHigh(buf[k - 1], w[k])
  <2>1. HighestOf(w) = buf[n]
    BY <1>1 DEF HighestOf
  <2>2. \E f : f = [k \in 0 .. n |-> IF k = 0 THEN [i \in 1 .. MAXBUF_SZ |-> LONGMIN]
                                  ELSE InsertHigh(f[k - 1], w[k])]
    <3>1. PICK g : Inserting("high", w, n, g)
      BY InsertingExists
    <3>2. Unset("high") = [i \in 1 .. MAXBUF_SZ |-> LONGMIN]
      BY DEF Unset, Worst
    <3>3. g = [k \in 0 .. n |-> IF k = 0 THEN [i \in 1 .. MAXBUF_SZ |-> LONGMIN]
                                  ELSE InsertHigh(g[k - 1], w[k])]
      <4>1. \A k \in 0 .. n : Inserted("high", g[k - 1], w[k]) = InsertHigh(g[k - 1], w[k])
        BY InsertIs
      <4>2. g = [k \in 0 .. n |-> IF k = 0 THEN Unset("high") ELSE Inserted("high", g[k - 1], w[k])]
        BY <3>1 DEF Inserting
      <4> QED
        BY <3>2, <4>1, <4>2
    <3> QED
      BY <3>3
  <2>3. buf = [k \in 0 .. n |-> IF k = 0 THEN [i \in 1 .. MAXBUF_SZ |-> LONGMIN]
                                  ELSE InsertHigh(buf[k - 1], w[k])]
    BY <2>2
  <2> HIDE DEF buf
  <2>4. Inserting("high", w, n, buf)
    BY <2>3, InsertIs DEF Inserting, Unset, Worst
  <2> QED
    BY <2>1, <2>4, InsertingBest
<1>3. Best("low", w, n, LowestOf(w))
  <2> DEFINE buf[k \in 0 .. n] == IF k = 0 THEN [i \in 1 .. MAXBUF_SZ |-> LONGMAX]
                                  ELSE InsertLow(buf[k - 1], w[k])
  <2>1. LowestOf(w) = buf[n]
    BY <1>1 DEF LowestOf
  <2>2. \E f : f = [k \in 0 .. n |-> IF k = 0 THEN [i \in 1 .. MAXBUF_SZ |-> LONGMAX]
                                  ELSE InsertLow(f[k - 1], w[k])]
    <3>1. PICK g : Inserting("low", w, n, g)
      BY InsertingExists
    <3>2. Unset("low") = [i \in 1 .. MAXBUF_SZ |-> LONGMAX]
      BY DEF Unset, Worst
    <3>3. g = [k \in 0 .. n |-> IF k = 0 THEN [i \in 1 .. MAXBUF_SZ |-> LONGMAX]
                                  ELSE InsertLow(g[k - 1], w[k])]
      <4>1. \A k \in 0 .. n : Inserted("low", g[k - 1], w[k]) = InsertLow(g[k - 1], w[k])
        BY InsertIs
      <4>2. g = [k \in 0 .. n |-> IF k = 0 THEN Unset("low") ELSE Inserted("low", g[k - 1], w[k])]
        BY <3>1 DEF Inserting
      <4> QED
        BY <3>2, <4>1, <4>2
    <3> QED
      BY <3>3
  <2>3. buf = [k \in 0 .. n |-> IF k = 0 THEN [i \in 1 .. MAXBUF_SZ |-> LONGMAX]
                                  ELSE InsertLow(buf[k - 1], w[k])]
    BY <2>2
  <2> HIDE DEF buf
  <2>4. Inserting("low", w, n, buf)
    BY <2>3, InsertIs DEF Inserting, Unset, Worst
  <2> QED
    BY <2>1, <2>4, InsertingBest
<1> QED
  BY <1>1, <1>2, <1>3
-----------------------------------------------------------------------------
(* The history, its extremes and the jitter taken from them.               *)

Offsets == {0} \cup {-d : d \in Delays}

(* The delays lie inside a long, so that each beats the worst; what is     *)
(* held valid is sorted, and either exact or at least not crossed: the     *)
(* delay that last let it survive lies in between.                         *)
HistInv ==
    /\ history \in [Slots -> Int]
    /\ \A i \in Slots : LONGMIN < history[i] /\ history[i] < LONGMAX
    /\ hist_ptr \in Nat /\ hist_ptr <= arrived
    /\ hist_maxbuf \in [1 .. MAXBUF_SZ -> Int] /\ hist_minbuf \in [1 .. MAXBUF_SZ -> Int]
    /\ hist_maxbuf_valid \in BOOLEAN
    /\ hist_ptr = 0 => hist_maxbuf = Zeroes /\ hist_minbuf = Zeroes
    /\ hist_maxbuf_valid =>
          /\ hist_ptr > 0
          /\ Sorted("high", hist_maxbuf) /\ Sorted("low", hist_minbuf)
          /\ \/ hist_maxbuf = Highest /\ hist_minbuf = Lowest
             \/ hist_minbuf[MAXBUF_SZ] <= hist_maxbuf[MAXBUF_SZ]

Looked == Smaller(hist_ptr, HISTORY_SZ)

LEMMA WindowIs ==
  ASSUME HistInv
  PROVE  Looked \in Nat /\ Looked <= HISTORY_SZ /\ Inside(Looked, Window)
<1>1. Looked \in Nat /\ Looked <= HISTORY_SZ /\ hist_ptr \in Nat
  BY Sizes DEF HistInv, Looked, Smaller
<1>2. ASSUME NEW a \in Int PROVE (a % HISTORY_SZ) \in Slots
  BY Sizes, SMTT(10) DEF Slots
<1>3. ASSUME NEW k \in 1 .. Looked
      PROVE  ((hist_ptr - Looked + k - 1) % HISTORY_SZ) \in Slots
  <2>1. hist_ptr - Looked + k - 1 \in Int
    BY <1>1
  <2> QED
    BY <2>1, <1>2
<1>4. Window = [k \in 1 .. Looked |-> history[(hist_ptr - Looked + k - 1) % HISTORY_SZ]]
  BY DEF Window, Looked
<1> HIDE DEF Looked
<1>5. \A k \in 1 .. Looked : Window[k] = history[(hist_ptr - Looked + k - 1) % HISTORY_SZ]
  BY <1>4
<1>6. ASSUME NEW k \in 1 .. Looked
      PROVE  Window[k] \in Int /\ LONGMIN < Window[k] /\ Window[k] < LONGMAX
  <2>1. PICK i \in Slots : Window[k] = history[i]
    BY <1>3, <1>5
  <2> QED
    BY <2>1 DEF HistInv
<1> QED
  BY <1>1, <1>4, <1>6 DEF Inside

LEMMA ExtremesAre ==
  ASSUME HistInv
  PROVE  /\ Best("high", Window, Looked, Highest) /\ Best("low", Window, Looked, Lowest)
         /\ Len(Window) = Looked /\ Looked \in Nat
BY WindowIs, ExtremesBest DEF Highest, Lowest

(* The invariant says what the run checks of the calculation.              *)
LEMMA CalculatedRight == HistInv => CalcExact
<1> SUFFICES ASSUME HistInv,
                    NEW k \in 1 .. Smaller(MAXBUF_SZ, Len(Window))
             PROVE  /\ Cardinality({i \in DOMAIN Window : Window[i] > Highest[k]}) < k
                    /\ Cardinality({i \in DOMAIN Window : Window[i] >= Highest[k]}) >= k
                    /\ Cardinality({i \in DOMAIN Window : Window[i] < Lowest[k]}) < k
                    /\ Cardinality({i \in DOMAIN Window : Window[i] <= Lowest[k]}) >= k
  BY DEF CalcExact
<1> DEFINE n == Looked
           h == Highest[k]
           l == Lowest[k]
<1>1. n \in Nat /\ Len(Window) = n /\ Best("high", Window, n, Highest) /\ Best("low", Window, n, Lowest)
  BY ExtremesAre
<1>2. k \in 1 .. MAXBUF_SZ /\ k <= n /\ k \in Nat
  BY <1>1, Sizes DEF Smaller
<1>3. DOMAIN Window = 1 .. n /\ \A i \in 1 .. n : Window[i] \in Int
  BY WindowIs DEF Inside
<1>4. h \in Int /\ l \in Int
  BY <1>1, <1>2 DEF Best
<1> HIDE DEF n
<1>5. /\ {i \in DOMAIN Window : Window[i] > h} = Better("high", Window, n, h)
      /\ {i \in DOMAIN Window : Window[i] >= h} = NoWorse("high", Window, n, h)
      /\ {i \in DOMAIN Window : Window[i] < l} = Better("low", Window, n, l)
      /\ {i \in DOMAIN Window : Window[i] <= l} = NoWorse("low", Window, n, l)
  BY <1>3, <1>4 DEF Better, NoWorse, Beats
<1>6. Cardinality(Better("high", Window, n, h)) < k /\ Cardinality(NoWorse("high", Window, n, h)) >= k
  BY <1>1, <1>2 DEF Best
<1>7. Cardinality(Better("low", Window, n, l)) < k /\ Cardinality(NoWorse("low", Window, n, l)) >= k
  BY <1>1, <1>2 DEF Best
<1> QED
  BY <1>5, <1>6, <1>7

(* Up to the middle of the history the highest are not below the lowest.   *)
LEMMA ExtremesApart ==
  ASSUME HistInv, NEW k \in 1 .. MAXBUF_SZ, 2 * k <= Looked + 1
  PROVE  Highest[k] >= Lowest[k]
<1> DEFINE n == Looked
           h == Highest[k]
           l == Lowest[k]
           A == Better("high", Window, n, h)
           B == Better("low", Window, n, l)
<1>1. n \in Nat /\ Best("high", Window, n, Highest) /\ Best("low", Window, n, Lowest)
  BY ExtremesAre
<1>2. h \in Int /\ l \in Int /\ Cardinality(A) < k /\ Cardinality(B) < k /\ k \in Nat
  <2>1. h \in Int /\ l \in Int /\ k \in Nat
    BY <1>1, Sizes DEF Best
  <2> HIDE DEF n
  <2>2. Cardinality(A) < k
    BY <1>1 DEF Best
  <2>3. Cardinality(B) < k
    BY <1>1 DEF Best
  <2> QED
    BY <2>1, <2>2, <2>3
<1>3. \A i \in 1 .. n : Window[i] \in Int
  BY WindowIs DEF Inside
<1> HIDE DEF n, h, l
<1> SUFFICES ASSUME h < l PROVE FALSE
  BY <1>2 DEF h, l
<1>4. A \cup B = 1 .. n
  BY <1>2, <1>3 DEF Better, Beats
<1>5. IsFiniteSet(1 .. n) /\ Cardinality(1 .. n) = n
  <2>1. Cardinality(1 .. n) = IF 1 > n THEN 0 ELSE n - 1 + 1
    BY <1>1, FS_Interval
  <2> QED
    BY <2>1, <1>1, FS_Interval
<1>6. A \in SUBSET (1 .. n) /\ B \in SUBSET (1 .. n) /\ (A \cap B) \in SUBSET (1 .. n)
  BY DEF Better
<1>7. IsFiniteSet(A) /\ IsFiniteSet(B) /\ IsFiniteSet(A \cap B)
  BY <1>5, <1>6, FS_Subset
<1> HIDE DEF A, B
<1>8. /\ Cardinality(A \cup B) = Cardinality(A) + Cardinality(B) - Cardinality(A \cap B)
      /\ Cardinality(A) \in Nat /\ Cardinality(B) \in Nat /\ Cardinality(A \cap B) \in Nat
  BY <1>7, FS_Union, FS_CardinalityType
<1>9. 2 * k <= n + 1
  BY DEF n
<1> QED
  <2> DEFINE a == Cardinality(A)
             b == Cardinality(B)
             c == Cardinality(A \cap B)
  <2>1. n = a + b - c /\ a \in Nat /\ b \in Nat /\ c \in Nat /\ a < k /\ b < k
    BY <1>2, <1>4, <1>5, <1>8
  <2> HIDE DEF a, b, c
  <2> QED
    BY <1>1, <1>2, <1>9, <2>1

(* The outliers left out are less than half of what was looked at. *)
LEMMA OutliersFew ==
  ASSUME HistInv
  PROVE  /\ OutlierIndex \in 0 .. MAXBUF_SZ - 1
         /\ hist_ptr > 0 => 2 * (OutlierIndex + 1) <= Looked + 1
<1> DEFINE n == Looked
           x == n * DROPPCT
           q == x \div 100
<1>1. n \in Nat /\ (hist_ptr > 0 => n > 0)
  BY Sizes DEF HistInv, Looked, Smaller
<1>2. DROPPCT \in Nat /\ DROPPCT <= 49
  BY Sizes
<1> HIDE DEF n
<1>3. x \in Nat /\ x <= 49 * n
  BY <1>1, <1>2, SMTT(10)
<1> HIDE DEF x
<1>4. q \in Nat /\ 100 * q <= x
  BY <1>3, SMTT(10)
<1>5. OutlierIndex = IF q < MAXBUF_SZ - 1 THEN q ELSE MAXBUF_SZ - 1
  BY DEF OutlierIndex, Smaller, q, x, n, Looked
<1> HIDE DEF q
<1>6. n > 0 => 2 * q <= n - 1
  BY <1>1, <1>3, <1>4
<1>7. OutlierIndex \in 0 .. MAXBUF_SZ - 1 /\ OutlierIndex <= q
  BY <1>4, <1>5, Sizes
<1> QED
  BY <1>1, <1>4, <1>6, <1>7 DEF n

(* The jitter is never negative, be the extremes cached or new.            *)
LEMMA JitterNotNegative == HistInv => Jitter \in Int /\ LeastDelay \in Int /\ JitterSane
<1> SUFFICES ASSUME HistInv PROVE Jitter \in Int /\ LeastDelay \in Int /\ Jitter >= 0
  BY DEF JitterSane
<1> DEFINE k == OutlierIndex + 1
<1>1. k \in 1 .. MAXBUF_SZ /\ (hist_ptr > 0 => 2 * k <= Looked + 1)
  BY OutliersFew, Sizes
<1>2. /\ Highest \in [1 .. MAXBUF_SZ -> Int] /\ Lowest \in [1 .. MAXBUF_SZ -> Int]
      /\ hist_maxbuf \in [1 .. MAXBUF_SZ -> Int] /\ hist_minbuf \in [1 .. MAXBUF_SZ -> Int]
  BY ExtremesAre DEF HistInv, Best
<1>3. Jitter = Maxbuf[k] - Minbuf[k] /\ LeastDelay = Minbuf[k]
  BY DEF Jitter, LeastDelay
<1> HIDE DEF k
<1>4. Maxbuf[k] \in Int /\ Minbuf[k] \in Int
  BY <1>1, <1>2 DEF Maxbuf, Minbuf
<1>5. Maxbuf[k] >= Minbuf[k]
  <2>1. CASE Recalculates
    BY <2>1, <1>1, ExtremesApart DEF Recalculates, Maxbuf, Minbuf
  <2>2. CASE ~Recalculates /\ hist_ptr = 0
    <3>1. Maxbuf[k] = 0 /\ Minbuf[k] = 0
      BY <2>2, <1>1 DEF Maxbuf, Minbuf, HistInv, Zeroes
    <3> QED
      BY <3>1
  <2>3. CASE ~Recalculates /\ hist_ptr # 0
    <3>1. hist_maxbuf_valid /\ Maxbuf = hist_maxbuf /\ Minbuf = hist_minbuf /\ hist_ptr > 0
      BY <2>3 DEF Recalculates, HistInv, Maxbuf, Minbuf
    <3>2. CASE hist_maxbuf = Highest /\ hist_minbuf = Lowest
      BY <3>1, <3>2, <1>1, ExtremesApart
    <3>3. CASE hist_minbuf[MAXBUF_SZ] <= hist_maxbuf[MAXBUF_SZ]
      <4>1. Sorted("high", hist_maxbuf) /\ Sorted("low", hist_minbuf)
        BY <3>1 DEF HistInv
      <4>2. CASE k = MAXBUF_SZ
        BY <4>2, <3>1, <3>3, <1>4
      <4>3. CASE k # MAXBUF_SZ
        <5>1. MAXBUF_SZ \in 1 .. MAXBUF_SZ /\ k < MAXBUF_SZ
          BY <4>3, <1>1, Sizes
        <5>2. hist_maxbuf[MAXBUF_SZ] <= hist_maxbuf[k] /\ hist_minbuf[MAXBUF_SZ] >= hist_minbuf[k]
          <6>1. ~Beats("high", hist_maxbuf[MAXBUF_SZ], hist_maxbuf[k])
            BY <4>1, <5>1, <1>1 DEF Sorted
          <6>2. ~Beats("low", hist_minbuf[MAXBUF_SZ], hist_minbuf[k])
            BY <4>1, <5>1, <1>1 DEF Sorted
          <6> QED
            BY <6>1, <6>2, <5>1, <1>1, <1>2 DEF Beats
        <5>3. hist_maxbuf[MAXBUF_SZ] \in Int /\ hist_minbuf[MAXBUF_SZ] \in Int
          BY <5>1, <1>2
        <5> QED
          BY <5>2, <5>3, <3>1, <3>3, <1>4
      <4> QED
        BY <4>2, <4>3
    <3> QED
      BY <3>1, <3>2, <3>3 DEF HistInv
  <2> QED
    BY <2>1, <2>2, <2>3
<1> QED
  BY <1>3, <1>4, <1>5

(* Each way in which the history changes keeps its invariant.              *)
LEMMA HistSame ==
  ASSUME HistInv, UNCHANGED hist, arrived \in Nat, arrived' \in {arrived, arrived + 1}
  PROVE  HistInv'
<1>1. Window' = Window
  BY DEF Window, hist
<1>2. Highest' = Highest /\ Lowest' = Lowest
  BY <1>1 DEF Highest, Lowest
<1> QED
  BY <1>2 DEF HistInv, hist

LEMMA MeasureKeeps ==
  ASSUME HistInv, Measure, arrived' = arrived
  PROVE  HistInv'
<1>1. Window' = Window /\ history' = history /\ hist_ptr' = hist_ptr
  BY DEF Window, Measure
<1>2. Highest' = Highest /\ Lowest' = Lowest
  BY <1>1 DEF Highest, Lowest
<1>3. Best("high", Window, Looked, Highest) /\ Best("low", Window, Looked, Lowest)
  BY ExtremesAre
<1>4. /\ Highest \in [1 .. MAXBUF_SZ -> Int] /\ Sorted("high", Highest)
      /\ Lowest \in [1 .. MAXBUF_SZ -> Int] /\ Sorted("low", Lowest)
  BY <1>3 DEF Best
<1>5. CASE Recalculates
  <2>1. hist_maxbuf' = Highest /\ hist_minbuf' = Lowest /\ hist_maxbuf_valid' = TRUE /\ hist_ptr > 0
    BY <1>5 DEF Measure, Recalculates, Maxbuf, Minbuf
  <2> QED
    BY <2>1, <1>1, <1>2, <1>4 DEF HistInv
<1>6. CASE ~Recalculates
  <2>1. hist_maxbuf' = hist_maxbuf /\ hist_minbuf' = hist_minbuf
    BY <1>6 DEF Measure, Maxbuf, Minbuf
  <2>2. hist_maxbuf_valid' = hist_maxbuf_valid
    BY <1>6 DEF Measure, Recalculates, HistInv
  <2> QED
    BY <2>1, <2>2, <1>1, <1>2 DEF HistInv
<1> QED
  BY <1>5, <1>6

LEMMA RememberKeeps ==
  ASSUME HistInv, NEW d \in Int, LONGMIN < d, d < LONGMAX, Remember(d),
         arrived \in Nat, arrived' = arrived + 1
  PROVE  HistInv'
<1>1. hist_ptr \in Nat /\ hist_ptr <= arrived /\ hist_ptr' = hist_ptr + 1
  BY DEF HistInv, Remember
<1>2. /\ history' \in [Slots -> Int]
      /\ \A i \in Slots : LONGMIN < history'[i] /\ history'[i] < LONGMAX
  BY DEF HistInv, Remember
<1>3. hist_maxbuf' = hist_maxbuf /\ hist_minbuf' = hist_minbuf
  BY DEF Remember
<1>4. hist_maxbuf_valid' \in BOOLEAN
  BY DEF Remember
<1>5. hist_maxbuf_valid' =>
        /\ Sorted("high", hist_maxbuf) /\ Sorted("low", hist_minbuf)
        /\ hist_minbuf[MAXBUF_SZ] <= hist_maxbuf[MAXBUF_SZ]
  <2> SUFFICES ASSUME hist_maxbuf_valid'
               PROVE  /\ Sorted("high", hist_maxbuf) /\ Sorted("low", hist_minbuf)
                      /\ hist_minbuf[MAXBUF_SZ] <= hist_maxbuf[MAXBUF_SZ]
    OBVIOUS
  <2>1. hist_maxbuf_valid /\ Survive(d)
    BY DEF Remember
  <2>2. d >= hist_minbuf[MAXBUF_SZ] /\ d <= hist_maxbuf[MAXBUF_SZ]
    BY <2>1 DEF Survive
  <2>3. hist_minbuf[MAXBUF_SZ] \in Int /\ hist_maxbuf[MAXBUF_SZ] \in Int
    BY Sizes DEF HistInv
  <2> QED
    BY <2>1, <2>2, <2>3 DEF HistInv
<1> QED
  <2>1. hist_ptr' \in Nat /\ hist_ptr' > 0 /\ hist_ptr' <= arrived'
    BY <1>1
  <2> QED
    BY <2>1, <1>2, <1>3, <1>4, <1>5 DEF HistInv

LEMMA ResyncKeeps ==
  ASSUME HistInv, RememberResynced, arrived \in Nat, arrived' = arrived + 1
  PROVE  HistInv'
<1>1. /\ history' \in [Slots -> Int]
      /\ \A i \in Slots : LONGMIN < history'[i] /\ history'[i] < LONGMAX
  <2>1. history \in [Slots -> Int] /\ history' = [history EXCEPT ![0] = 0]
    BY DEF HistInv, RememberResynced
  <2>2. \A i \in Slots : LONGMIN < history[i] /\ history[i] < LONGMAX
    BY DEF HistInv
  <2>3. \A i \in Slots : history'[i] = history[i] \/ history'[i] = 0
    BY <2>1
  <2>4. history' \in [Slots -> Int]
    <3>1. history' = [i \in Slots |-> IF i = 0 THEN 0 ELSE history[i]]
      BY <2>1
    <3> QED
      BY <3>1, <2>1
  <2>5. ASSUME NEW i \in Slots PROVE LONGMIN < history'[i] /\ history'[i] < LONGMAX
    <3>1. CASE history'[i] = history[i]
      BY <3>1, <2>2
    <3>2. CASE history'[i] = 0
      BY <3>2, Sizes
    <3> QED
      BY <3>1, <3>2, <2>3
  <2> QED
    BY <2>4, <2>5
<1>2. /\ hist_ptr' = 1 /\ hist_maxbuf_valid' = FALSE
      /\ hist_maxbuf' = hist_maxbuf /\ hist_minbuf' = hist_minbuf
  BY DEF RememberResynced
<1>3. hist_ptr' \in Nat /\ hist_ptr' <= arrived' /\ hist_ptr' # 0
  BY <1>2
<1>4. hist_maxbuf' \in [1 .. MAXBUF_SZ -> Int] /\ hist_minbuf' \in [1 .. MAXBUF_SZ -> Int]
  BY <1>2 DEF HistInv
<1> QED
  BY <1>1, <1>2, <1>3, <1>4 DEF HistInv

(* No delay is as large as what the buffers start from.                    *)
LEMMA DelaysInside ==
  ASSUME NEW d \in Delays, NEW off \in Offsets
  PROVE  d + off \in Int /\ LONGMIN < d + off /\ d + off < LONGMAX
BY TimesAssumption, SizesAssumption DEF Offsets, LONGMIN
-----------------------------------------------------------------------------
(* jb->info, and what becomes of it.                                       *)

InfoType == [frames_cur : Int, jitter : Int, min : Int, current : Int, target : Int,
             next_voice_ts : Int, last_voice_ms : Int, silence_begin_ts : Int,
             last_adjustment : Int, last_delay : Int, cnt_delay_discont : Int,
             resync_offset : Int, cnt_contig_interp : Int]

CellType == [data : 0 .. MaxIn, ts : Int, ms : Nat, type : Types]

(* A poll makes i of info and leaves the count of frames to the queue. *)
Polled(i) == /\ i \in InfoType
             /\ i.frames_cur = info.frames_cur /\ i.resync_offset = info.resync_offset

InfoInv == info \in InfoType /\ info.resync_offset \in Offsets /\ now \in 0 .. MaxNow

LEMMA Settings ==
  /\ TARGET_EXTRA \in Int /\ ADJUST_DELAY \in Int /\ SHRINK_EMPTY \in Int /\ SHRINK_FULL \in Int
  /\ SHRINK_SILENT \in Int /\ resync_threshold \in Int /\ max_jitterbuf \in Int
  /\ max_contig_interp \in Int /\ Interpl \in Int
BY TimesAssumption

LEMMA MeasuredPolled ==
  ASSUME HistInv, InfoInv
  PROVE  Polled(Measured)
<1>1. Jitter \in Int /\ LeastDelay \in Int
  BY JitterNotNegative
<1>2. Clamped(Jitter + LeastDelay + TARGET_EXTRA, LeastDelay) \in Int
  BY <1>1, Settings DEF Clamped
<1> QED
  BY <1>1, <1>2 DEF Measured, Polled, InfoType, InfoInv

(* What a poll writes to info besides, number by number. *)
LEMMA UpdatedOnce ==
  ASSUME NEW i, Polled(i), NEW t \in Int
  PROVE  /\ Polled([i EXCEPT !.current = t])
         /\ Polled([i EXCEPT !.last_adjustment = t])
         /\ Polled([i EXCEPT !.cnt_contig_interp = t])
         /\ Polled([i EXCEPT !.next_voice_ts = t])
         /\ Polled([i EXCEPT !.last_voice_ms = t])
         /\ Polled([i EXCEPT !.silence_begin_ts = t])
<1>1. Polled([i EXCEPT !.current = t])
  BY DEF Polled, InfoType
<1>2. Polled([i EXCEPT !.last_adjustment = t])
  BY DEF Polled, InfoType
<1>3. Polled([i EXCEPT !.cnt_contig_interp = t])
  BY DEF Polled, InfoType
<1>4. Polled([i EXCEPT !.next_voice_ts = t])
  BY DEF Polled, InfoType
<1>5. Polled([i EXCEPT !.last_voice_ms = t])
  BY DEF Polled, InfoType
<1>6. Polled([i EXCEPT !.silence_begin_ts = t])
  BY DEF Polled, InfoType
<1> QED
  BY <1>1, <1>2, <1>3, <1>4, <1>5, <1>6

LEMMA UpdatedTwice ==
  ASSUME NEW i, Polled(i), NEW t \in Int, NEW u \in Int
  PROVE  /\ Polled([i EXCEPT !.current = t, !.last_adjustment = u])
         /\ Polled([i EXCEPT !.current = t, !.last_adjustment = u, !.cnt_contig_interp = 0])
<1>1. Polled([i EXCEPT !.current = t, !.last_adjustment = u])
  <2> DEFINE i1 == [i EXCEPT !.current = t]
  <2>1. Polled(i1)
    BY UpdatedOnce
  <2> HIDE DEF i1
  <2> DEFINE i2 == [i1 EXCEPT !.last_adjustment = u]
  <2>2. Polled(i2)
    BY <2>1, UpdatedOnce
  <2> QED
    BY <2>2 DEF i1, i2
<1>2. Polled([i EXCEPT !.current = t, !.last_adjustment = u, !.cnt_contig_interp = 0])
  <2> DEFINE i1 == [i EXCEPT !.current = t]
  <2>1. Polled(i1)
    BY UpdatedOnce
  <2> HIDE DEF i1
  <2> DEFINE i2 == [i1 EXCEPT !.last_adjustment = u]
  <2>2. Polled(i2)
    BY <2>1, UpdatedOnce
  <2> HIDE DEF i2
  <2> PICK z \in Int : z = 0
    OBVIOUS
  <2> DEFINE i3 == [i2 EXCEPT !.cnt_contig_interp = z]
  <2>3. Polled(i3)
    BY <2>2, UpdatedOnce
  <2> QED
    BY <2>3 DEF i1, i2, i3
<1> QED
  BY <1>1, <1>2

LEMMA UpdatedSilence ==
  ASSUME NEW i, Polled(i), NEW t \in Int
  PROVE  /\ Polled([i EXCEPT !.next_voice_ts = t, !.cnt_contig_interp = 0])
         /\ Polled([i EXCEPT !.silence_begin_ts = t, !.cnt_contig_interp = 0])
<1>1. Polled([i EXCEPT !.next_voice_ts = t, !.cnt_contig_interp = 0])
  <2> DEFINE i1 == [i EXCEPT !.next_voice_ts = t]
  <2>1. Polled(i1)
    BY UpdatedOnce
  <2> HIDE DEF i1
  <2> PICK z \in Int : z = 0
    OBVIOUS
  <2> DEFINE i2 == [i1 EXCEPT !.cnt_contig_interp = z]
  <2>2. Polled(i2)
    BY <2>1, UpdatedOnce
  <2> QED
    BY <2>2 DEF i1, i2
<1>2. Polled([i EXCEPT !.silence_begin_ts = t, !.cnt_contig_interp = 0])
  <2> DEFINE i1 == [i EXCEPT !.silence_begin_ts = t]
  <2>1. Polled(i1)
    BY UpdatedOnce
  <2> HIDE DEF i1
  <2> PICK z \in Int : z = 0
    OBVIOUS
  <2> DEFINE i2 == [i1 EXCEPT !.cnt_contig_interp = z]
  <2>2. Polled(i2)
    BY <2>1, UpdatedOnce
  <2> QED
    BY <2>2 DEF i1, i2
<1> QED
  BY <1>1, <1>2

LEMMA UpdatedThrice ==
  ASSUME NEW i, Polled(i), NEW t \in Int, NEW u \in Int, NEW v \in Int
  PROVE  /\ Polled([i EXCEPT !.next_voice_ts = t, !.last_voice_ms = u, !.cnt_contig_interp = v])
         /\ Polled([i EXCEPT !.current = t, !.silence_begin_ts = 0, !.next_voice_ts = u, !.last_voice_ms = v])
<1>1. Polled([i EXCEPT !.next_voice_ts = t, !.last_voice_ms = u, !.cnt_contig_interp = v])
  <2> DEFINE i1 == [i EXCEPT !.next_voice_ts = t]
  <2>1. Polled(i1)
    BY UpdatedOnce
  <2> HIDE DEF i1
  <2> DEFINE i2 == [i1 EXCEPT !.last_voice_ms = u]
  <2>2. Polled(i2)
    BY <2>1, UpdatedOnce
  <2> HIDE DEF i2
  <2> DEFINE i3 == [i2 EXCEPT !.cnt_contig_interp = v]
  <2>3. Polled(i3)
    BY <2>2, UpdatedOnce
  <2> QED
    BY <2>3 DEF i1, i2, i3
<1>2. Polled([i EXCEPT !.current = t, !.silence_begin_ts = 0, !.next_voice_ts = u, !.last_voice_ms = v])
  <2> DEFINE i1 == [i EXCEPT !.current = t]
  <2>1. Polled(i1)
    BY UpdatedOnce
  <2> HIDE DEF i1
  <2> PICK z \in Int : z = 0
    OBVIOUS
  <2> DEFINE i2 == [i1 EXCEPT !.silence_begin_ts = z]
  <2>2. Polled(i2)
    BY <2>1, UpdatedOnce
  <2> HIDE DEF i2
  <2> DEFINE i3 == [i2 EXCEPT !.next_voice_ts = u]
  <2>3. Polled(i3)
    BY <2>2, UpdatedOnce
  <2> HIDE DEF i3
  <2> DEFINE i4 == [i3 EXCEPT !.last_voice_ms = v]
  <2>4. Polled(i4)
    BY <2>3, UpdatedOnce
  <2> QED
    BY <2>4 DEF i1, i2, i3, i4
<1> QED
  BY <1>1, <1>2

(* What a poll of _jb_get does to the queue: nothing, or its head leaves;  *)
(* none but voice is dropped.                                              *)
Nothing(i) == info' = i /\ UNCHANGED queue /\ ret'.code \in {"INTERP", "NOFRAME"}
Leaves(i, code) ==
    /\ code \in {"OK", "DROP"} /\ Due(QueueNext)
    /\ code = "DROP" => First.type = "voice"
    /\ Got(i, code)

LEMMA PollDoes ==
  ASSUME HistInv, InfoInv, cell \in [Cells -> CellType], frames \in Cells \cup {NULL}, jb_get
  PROVE  \E i : Polled(i) /\ (Nothing(i) \/ \E code : Leaves(i, code))
<1>1. Polled(Measured)
  BY MeasuredPolled
<1>2. now \in Int /\ \A f \in DOMAIN info : info[f] \in Int
  BY Sizes DEF InfoInv, InfoType
<1>3. \A i : Polled(i) => /\ i.current \in Int /\ i.target \in Int /\ i.next_voice_ts \in Int
                          /\ i.cnt_contig_interp \in Int /\ i \in InfoType
  BY DEF Polled, InfoType
<1>4. ASSUME NEW t, Due(t)
      PROVE  /\ First.ts \in Int /\ First.ms \in Int /\ Due(QueueNext)
             /\ First.type \in Types
  <2>1. frames \in Cells
    BY <1>4 DEF Due
  <2>2. cell[frames] \in CellType
    BY <2>1
  <2>3. First.ts \in Int /\ First.ms \in Int /\ First.type \in Types /\ frames # NULL
    BY <2>1, <2>2, Sizes DEF First, CellType
  <2>4. QueueNext = First.ts
    BY <2>3 DEF QueueNext, First
  <2> QED
    BY <2>3, <2>4 DEF Due
<1>5. info.current \in Int /\ info.last_voice_ms \in Int /\ info.next_voice_ts \in Int
  BY DEF InfoInv, InfoType
<1>6. ASSUME NEW i, Polled(i) PROVE Polled(Interpolated(i))
  <2> DEFINE j == [i EXCEPT !.next_voice_ts = i.next_voice_ts + Interpl, !.last_voice_ms = Interpl,
                       !.cnt_contig_interp = i.cnt_contig_interp + 1]
  <2>1. Polled(j)
    <3>1. i.next_voice_ts + Interpl \in Int /\ i.cnt_contig_interp + 1 \in Int
      BY <1>6, <1>3, Settings
    <3> QED
      BY <1>6, <3>1, Settings, UpdatedOnce, UpdatedTwice, UpdatedSilence, UpdatedThrice
  <2>2. Interpolated(i) = IF max_contig_interp # 0 /\ j.cnt_contig_interp >= max_contig_interp
                          THEN [j EXCEPT !.silence_begin_ts = j.next_voice_ts - j.current] ELSE j
    BY DEF Interpolated
  <2> HIDE DEF j
  <2>3. j.next_voice_ts - j.current \in Int
    BY <2>1, <1>3
  <2> QED
    <3>1. Polled([j EXCEPT !.silence_begin_ts = j.next_voice_ts - j.current])
      BY <2>1, <2>3, UpdatedOnce, UpdatedTwice, UpdatedSilence, UpdatedThrice
    <3> QED
      BY <2>1, <2>2, <3>1
<1>7. Polled(Shrunk)
  <2>1. Measured.current - Interpl \in Int
    BY <1>1, <1>3, Settings
  <2>2. Polled([Measured EXCEPT !.current = Measured.current - Interpl, !.last_adjustment = now])
    BY <1>1, <1>2, <2>1, UpdatedOnce, UpdatedTwice, UpdatedSilence, UpdatedThrice
  <2> QED
    BY <1>1, <2>2 DEF Shrunk
<1>8. CASE Grow
  <2> DEFINE i == [Measured EXCEPT !.current = Measured.current + Interpl, !.last_adjustment = now]
  <2>1. Polled(i)
    <3>1. Measured.current + Interpl \in Int
      BY <1>1, <1>3, Settings
    <3> QED
      BY <1>1, <1>2, <3>1, UpdatedOnce, UpdatedTwice, UpdatedSilence, UpdatedThrice
  <2>2. Nothing(Interpolated(i))
    BY <1>8 DEF Grow, Nothing, Returned
  <2> QED
    BY <2>1, <2>2, <1>6
<1>9. CASE GetOther
  <2> DEFINE i == IF First.type = "silence"
             THEN [Measured EXCEPT !.silence_begin_ts = First.ts, !.cnt_contig_interp = 0]
             ELSE Measured
  <2>1. Polled(i)
    <3>1. First.ts \in Int
      BY <1>9, <1>4 DEF GetOther
    <3> QED
      BY <1>1, <3>1, UpdatedOnce, UpdatedTwice, UpdatedSilence, UpdatedThrice
  <2>2. Leaves(i, "OK")
    BY <1>9, <1>4 DEF GetOther, Leaves
  <2> QED
    BY <2>1, <2>2
<1>10. CASE GetEarly
  <2> DEFINE i == [Measured EXCEPT !.next_voice_ts = First.ts + info.current + First.ms,
                            !.cnt_contig_interp = 0]
  <2>1. Due(QueueNext) /\ First.ts + info.current + First.ms \in Int
    BY <1>10, <1>4, <1>5 DEF GetEarly, VoiceDue
  <2>2. Polled(i)
    BY <2>1, <1>1, UpdatedOnce, UpdatedTwice, UpdatedSilence, UpdatedThrice
  <2>3. Leaves(i, "OK")
    BY <1>10, <2>1 DEF GetEarly, Leaves
  <2> QED
    BY <2>2, <2>3
<1>11. CASE DropLate
  <2>1. Leaves(Measured, "DROP")
    BY <1>11, <1>4 DEF DropLate, VoiceDue, Leaves
  <2> QED
    BY <2>1, <1>1
<1>12. ASSUME OnTime PROVE Polled(Sized) /\ Due(QueueNext) /\ First.ms \in Int
  <2>1. Due(QueueNext) /\ First.ms \in Int
    BY <1>12, <1>4 DEF OnTime, VoiceDue
  <2>2. Polled([Measured EXCEPT !.last_voice_ms = First.ms])
    BY <1>1, <2>1 DEF Polled, InfoType
  <2> QED
    BY <1>1, <2>1, <2>2 DEF Sized
<1>13. CASE ShrinkByFrame
  <2> DEFINE i == [Sized EXCEPT !.current = Sized.current - First.ms, !.last_adjustment = now,
                         !.cnt_contig_interp = 0]
  <2>1. Polled(Sized) /\ Due(QueueNext) /\ Sized.current - First.ms \in Int
    BY <1>13, <1>12, <1>3 DEF ShrinkByFrame
  <2>2. Polled(i)
    BY <2>1, <1>2, UpdatedOnce, UpdatedTwice, UpdatedSilence, UpdatedThrice
  <2>3. Leaves(i, "DROP")
    BY <1>13, <2>1 DEF ShrinkByFrame, OnTime, VoiceDue, Leaves
  <2> QED
    BY <2>2, <2>3
<1>14. CASE GetVoice
  <2> DEFINE i == [Sized EXCEPT !.next_voice_ts = Sized.next_voice_ts + First.ms,
                                !.cnt_contig_interp = 0]
  <2>1. Polled(Sized) /\ Due(QueueNext) /\ Sized.next_voice_ts + First.ms \in Int
    BY <1>14, <1>12, <1>3 DEF GetVoice
  <2>2. Polled(i)
    BY <2>1, UpdatedOnce, UpdatedTwice, UpdatedSilence, UpdatedThrice
  <2>3. Leaves(i, "OK")
    BY <1>14, <2>1 DEF GetVoice, Leaves
  <2> QED
    BY <2>2, <2>3
<1>15. CASE ShrinkEmpty
  <2> DEFINE i == [Measured EXCEPT !.current = Measured.current - info.last_voice_ms,
                                !.last_adjustment = now, !.cnt_contig_interp = 0]
  <2>1. Measured.current - info.last_voice_ms \in Int
    BY <1>1, <1>3, <1>5
  <2>2. Polled(i)
    BY <2>1, <1>1, <1>2, UpdatedOnce, UpdatedTwice, UpdatedSilence, UpdatedThrice
  <2>3. Nothing(i)
    BY <1>15 DEF ShrinkEmpty, Nothing, Returned
  <2> QED
    BY <2>2, <2>3
<1>16. CASE Lost
  <2>1. Nothing(Interpolated(Measured))
    BY <1>16 DEF Lost, Nothing, Returned
  <2> QED
    BY <2>1, <1>1, <1>6
<1>17. CASE SilentNone
  <2>1. Nothing(Shrunk)
    BY <1>17 DEF SilentNone, Nothing, Returned
  <2> QED
    BY <2>1, <1>7
<1>18. CASE SilentOther
  <2>1. Leaves(Shrunk, "OK")
    BY <1>18, <1>4 DEF SilentOther, DueInSilence, Leaves
  <2> QED
    BY <2>1, <1>7
<1>19. CASE SilentLate
  <2>1. Leaves(Shrunk, "DROP")
    BY <1>19, <1>4 DEF SilentLate, DueInSilence, Leaves
  <2> QED
    BY <2>1, <1>7
<1>20. CASE SilentVoice
  <2> DEFINE i == [Shrunk EXCEPT !.current = Shrunk.target, !.silence_begin_ts = 0,
                          !.next_voice_ts = First.ts + Shrunk.target + First.ms,
                          !.last_voice_ms = First.ms]
  <2>1. /\ Due(QueueNext) /\ Shrunk.target \in Int /\ First.ms \in Int
        /\ First.ts + Shrunk.target + First.ms \in Int
    BY <1>20, <1>4, <1>7, <1>3 DEF SilentVoice, DueInSilence
  <2>2. Polled(i)
    BY <2>1, <1>7, UpdatedOnce, UpdatedTwice, UpdatedSilence, UpdatedThrice
  <2>3. Leaves(i, "OK")
    BY <1>20, <2>1 DEF SilentVoice, Leaves
  <2> QED
    BY <2>2, <2>3
<1> QED
  BY <1>8, <1>9, <1>10, <1>11, <1>13, <1>14, <1>15, <1>16, <1>17, <1>18, <1>19, <1>20 DEF jb_get
-----------------------------------------------------------------------------
(* The queue as two sequences of cells: q round the circle from the head   *)
(* on, s up the stack of free ones.                                        *)

Linked(a, b) == next[a] = b /\ prev[b] = a
Distinct(n, q) == \A i, j \in 1 .. n : q[i] = q[j] => i = j

Circle(n, q) ==
    /\ q \in [1 .. n -> Cells] /\ Distinct(n, q)
    /\ frames = IF n = 0 THEN NULL ELSE q[1]
    /\ \A i \in 1 .. n - 1 : Linked(q[i], q[i + 1])
    /\ n > 0 => Linked(q[n], q[1])

Stack(m, s) ==
    /\ s \in [1 .. m -> Cells] /\ Distinct(m, s)
    /\ free = IF m = 0 THEN NULL ELSE s[m]
    /\ \A i \in 1 .. m : next[s[i]] = IF i = 1 THEN NULL ELSE s[i - 1]

(* In order of time, and of arrival among those due at the same time. *)
Comes(e, f) == e.ts < f.ts \/ (e.ts = f.ts /\ e.data < f.data)
InTime(n, q) == \A i, j \in 1 .. n : i < j => Comes(cell[q[i]], cell[q[j]])

(* Every event in the queue has arrived, and is there once. *)
Arrivals(n, q) ==
    /\ \A i \in 1 .. n : cell[q[i]].data \in 1 .. arrived
    /\ \A i, j \in 1 .. n : cell[q[i]].data = cell[q[j]].data => i = j

Lists(n, q, m, s) ==
    /\ Circle(n, q) /\ Stack(m, s)
    /\ \A i \in 1 .. n, j \in 1 .. m : q[i] # s[j]
    /\ InTime(n, q) /\ Arrivals(n, q)

PointersTyped ==
    /\ next \in [Cells -> Cells \cup {NULL}] /\ prev \in [Cells -> Cells \cup {NULL}]
    /\ cell \in [Cells -> CellType]

QueueInv ==
    /\ PointersTyped
    /\ \E n, m \in Nat : info.frames_cur = n /\ \E q, s : Lists(n, q, m, s)

JitterInv == HistInv /\ InfoInv /\ QueueInv /\ arrived \in 0 .. MaxIn

(* Walks that end: a step on, until a cell of Stop. *)
Walks(C, Stop, g, W) == W = [p \in C |-> IF p \notin Stop THEN W[g[p]] ELSE p]

LEMMA WalkExists ==
  ASSUME NEW C, NEW D, NEW Stop \in SUBSET C, NEW g \in [C -> D],
         \A c \in C : c \notin Stop => g[c] \in C
  PROVE  \E W : Walks(C, Stop, g, W)
<1> DEFINE Closed(S) == \A c \in S : c \in C /\ (c \notin Stop => g[c] \in S)
           Ends(p) == {d \in Stop : \A S \in SUBSET C : Closed(S) /\ p \in S => d \in S}
           W == [p \in C |-> CHOOSE d : d \in Ends(p)]
<1>1. ASSUME NEW p \in Stop PROVE Ends(p) = {p}
  <2>1. Closed({p}) /\ {p} \in SUBSET C
    BY <1>1
  <2> QED
    BY <2>1, <1>1
<1>2. ASSUME NEW p \in C, p \notin Stop PROVE Ends(p) = Ends(g[p])
  <2>1. g[p] \in C
    BY <1>2
  <2>2. ASSUME NEW d \in Ends(p) PROVE d \in Ends(g[p])
    <3> SUFFICES ASSUME NEW S \in SUBSET C, Closed(S), g[p] \in S PROVE d \in S
      BY <2>2
    <3>1. Closed(S \cup {p}) /\ S \cup {p} \in SUBSET C
      BY <1>2
    <3>2. d \in S \cup {p}
      BY <3>1, <2>2
    <3> QED
      BY <3>2, <2>2, <1>2
  <2>3. ASSUME NEW d \in Ends(g[p]) PROVE d \in Ends(p)
    <3> SUFFICES ASSUME NEW S \in SUBSET C, Closed(S), p \in S PROVE d \in S
      BY <2>3
    <3> QED
      BY <1>2, <2>3
  <2> QED
    BY <2>2, <2>3
<1> HIDE DEF Ends
<1>3. ASSUME NEW p \in C PROVE W[p] = IF p \notin Stop THEN W[g[p]] ELSE p
  <2>1. CASE p \in Stop
    <3>1. (CHOOSE d : d \in Ends(p)) = p
      BY <2>1, <1>1
    <3> QED
      BY <2>1, <3>1
  <2>2. CASE p \notin Stop
    BY <2>2, <1>2
  <2> QED
    BY <2>1, <2>2
<1>4. W = [p \in C |-> W[p]]
  OBVIOUS
<1> HIDE DEF W
<1>5. W = [p \in C |-> IF p \notin Stop THEN W[g[p]] ELSE p]
  BY <1>3, <1>4
<1> QED
  BY <1>5 DEF Walks

(* Where queue_put's walk stops: before the first frame, of the second on, *)
(* that is due later.                                                      *)
LEMMA FirstLater ==
  ASSUME NEW n \in Nat, n > 0, NEW ts \in Int, NEW times, \A i \in 1 .. n : times[i] \in Int,
         \A i, j \in 1 .. n : i < j => times[i] <= times[j], times[1] <= ts
  PROVE  \E k \in 2 .. n + 1 : /\ times[k - 1] <= ts
                               /\ \A i \in k .. n : ts < times[i]
<1> DEFINE P(k) == times[k - 1] <= ts /\ \A i \in k .. n : ts < times[i]
           S == {l \in Nat : l <= n - 1 => (\E k \in 2 .. n + 1 : P(k))
                                           \/ \A i \in n - l + 1 .. n : ts < times[i]}
<1>1. 0 \in S
  OBVIOUS
<1>2. ASSUME NEW l \in Nat, l \in S PROVE l + 1 \in S
  <2> SUFFICES ASSUME l + 1 <= n - 1, ~ \E k \in 2 .. n + 1 : P(k)
               PROVE  \A i \in n - (l + 1) + 1 .. n : ts < times[i]
    OBVIOUS
  <2>1. l <= n - 1 /\ l \in Nat
    OBVIOUS
  <2>2. \A i \in n - l + 1 .. n : ts < times[i]
    BY <1>2, <2>1
  <2> DEFINE k == n - l + 1
  <2>3. k \in 2 .. n + 1 /\ k - 1 = n - (l + 1) + 1 /\ k - 1 \in 1 .. n
    OBVIOUS
  <2>4. ~P(k)
    BY <2>3
  <2>5. ~(times[k - 1] <= ts)
    BY <2>2, <2>4
  <2>6. ts < times[n - l]
    <3>1. k - 1 = n - l /\ n - l \in 1 .. n
      BY <2>3
    <3>2. times[n - l] \in Int
      BY <3>1
    <3> HIDE DEF k
    <3> QED
      BY <2>5, <3>1, <3>2
  <2> HIDE DEF k, P
  <2> SUFFICES ASSUME NEW i \in n - (l + 1) + 1 .. n PROVE ts < times[i]
    OBVIOUS
  <2>7. i = n - l \/ i \in n - l + 1 .. n
    OBVIOUS
  <2> QED
    BY <2>2, <2>6, <2>7
<1> HIDE DEF S
<1>3. n - 1 \in S
  <2>1. n - 1 \in Nat
    OBVIOUS
  <2> QED
    BY <1>1, <1>2, <2>1, AllNumbers
<1>4. (\E k \in 2 .. n + 1 : P(k)) \/ \A i \in 2 .. n : ts < times[i]
  <2>1. n - (n - 1) + 1 = 2 /\ n - 1 <= n - 1
    OBVIOUS
  <2> QED
    BY <1>3, <2>1 DEF S
<1>5. (\A i \in 2 .. n : ts < times[i]) => P(2)
  <2>1. 2 - 1 = 1
    OBVIOUS
  <2> QED
    BY <2>1
<1>6. 2 \in 2 .. n + 1
  OBVIOUS
<1> QED
  BY <1>4, <1>5, <1>6

LEMMA SuccessorIs ==
  ASSUME PointersTyped, NEW n \in Nat, n > 0, NEW q, Circle(n, q), InTime(n, q), NEW ts \in Int
  PROVE  \E k \in 1 .. n + 1 :
            /\ Successor(ts) = IF k = n + 1 THEN q[1] ELSE q[k]
            /\ k = 1 <=> ts < QueueNext
            /\ \A i \in 1 .. n : i < k => cell[q[i]].ts <= ts
            /\ \A i \in 1 .. n : i >= k => ts < cell[q[i]].ts
<1> DEFINE times == [i \in 1 .. n |-> cell[q[i]].ts]
           Goes(p) == prev[p] \notin {frames, NULL} /\ ts < cell[prev[p]].ts
           Stop == {p \in Cells : ~Goes(p)}
           Walk[p \in Cells] == IF Goes(p) THEN Walk[prev[p]] ELSE p
<1>1. /\ q \in [1 .. n -> Cells] /\ Distinct(n, q) /\ frames = q[1] /\ 1 \in 1 .. n /\ n \in 1 .. n
      /\ q[1] \in Cells /\ NULL \notin Cells
  BY Sizes DEF Circle
<1>2. \A i \in 1 .. n : cell[q[i]].ts \in Int
  BY <1>1 DEF PointersTyped, CellType
<1>3. \A i, j \in 1 .. n : i < j => cell[q[i]].ts <= cell[q[j]].ts
  BY <1>2 DEF InTime, Comes
<1>4. QueueNext = cell[q[1]].ts
  BY <1>1 DEF QueueNext
<1>5. Successor(ts) = IF ts < QueueNext THEN frames ELSE Walk[frames]
  BY DEF Successor
<1>6. Walk = [p \in Cells |-> IF Goes(p) THEN Walk[prev[p]] ELSE p]
  <2>1. \A p \in Cells : p \notin Stop => prev[p] \in Cells
    BY DEF PointersTyped
  <2>2. PICK W : W = [p \in Cells |-> IF p \notin Stop THEN W[prev[p]] ELSE p]
    <3>1. Stop \in SUBSET Cells
      OBVIOUS
    <3>2. prev \in [Cells -> Cells \cup {NULL}]
      BY DEF PointersTyped
    <3> HIDE DEF Stop
    <3>3. \E W : Walks(Cells, Stop, prev, W)
      BY <2>1, <3>1, <3>2, WalkExists
    <3> QED
      BY <3>3 DEF Walks
  <2>3. \A p \in Cells : p \notin Stop <=> Goes(p)
    OBVIOUS
  <2> HIDE DEF Stop, Goes
  <2>4. W = [p \in Cells |-> IF Goes(p) THEN W[prev[p]] ELSE p]
    BY <2>2, <2>3
  <2>5. \E W1 : W1 = [p \in Cells |-> IF Goes(p) THEN W1[prev[p]] ELSE p]
    BY <2>4
  <2> QED
    BY <2>5
<1> HIDE DEF Walk
<1>7. \A p \in Cells : Walk[p] = IF Goes(p) THEN Walk[prev[p]] ELSE p
  <2> HIDE DEF Goes
  <2> QED
    BY <1>6
<1>8. CASE ts < QueueNext
  <2>1. \A i \in 1 .. n : ts < cell[q[i]].ts
    <3> SUFFICES ASSUME NEW i \in 1 .. n PROVE ts < cell[q[i]].ts
      OBVIOUS
    <3>1. i = 1 \/ 1 < i
      OBVIOUS
    <3> QED
      BY <3>1, <1>1, <1>2, <1>3, <1>4, <1>8
  <2>2. Successor(ts) = q[1] /\ 1 \in 1 .. n + 1 /\ 1 # n + 1
    BY <1>5, <1>8, <1>1
  <2> QED
    BY <2>1, <2>2, <1>8
<1>9. CASE ~(ts < QueueNext)
  <2>1. times[1] <= ts /\ \A i \in 1 .. n : times[i] = cell[q[i]].ts
    BY <1>1, <1>2, <1>4, <1>9
  <2> HIDE DEF times
  <2>2. PICK k \in 2 .. n + 1 : times[k - 1] <= ts /\ \A i \in k .. n : ts < times[i]
    BY <2>1, <1>2, <1>3, FirstLater
  <2>3. k \in Int /\ k - 1 \in 1 .. n /\ cell[q[k - 1]].ts <= ts
    BY <2>1, <2>2
  <2>4. \A i \in 1 .. n : i >= k => ts < cell[q[i]].ts
    BY <2>1, <2>2
  <2>5. ASSUME NEW i \in 1 .. n, i < k PROVE cell[q[i]].ts <= ts
    <3>1. i = k - 1 \/ i < k - 1
      BY <2>3, <2>5
    <3>2. CASE i = k - 1
      BY <3>2, <2>3
    <3>3. CASE i < k - 1
      <4>1. cell[q[i]].ts <= cell[q[k - 1]].ts
        BY <3>3, <2>3, <1>3
      <4> QED
        BY <4>1, <2>3, <1>2
    <3> QED
      BY <3>1, <3>2, <3>3
  <2>6. ASSUME NEW i \in 2 .. n
        PROVE  prev[q[i]] = q[i - 1] /\ i - 1 \in 1 .. n /\ q[i] \in Cells /\ q[i - 1] \in Cells
    <3>1. i - 1 \in 1 .. n - 1 /\ (i - 1) + 1 = i
      OBVIOUS
    <3> QED
      BY <3>1, <1>1 DEF Circle, Linked
  <2>7. prev[q[1]] = q[n]
    BY DEF Circle, Linked
  <2>8. \A i \in k .. n : Walk[q[i]] = q[k]
    <3> DEFINE S == {l \in Nat : k + l <= n => Walk[q[k + l]] = q[k]}
    <3>1. 0 \in S
      <4> SUFFICES ASSUME k <= n PROVE Walk[q[k]] = q[k]
        BY <2>3
      <4>1. k \in 2 .. n
        BY <2>2
      <4>2. prev[q[k]] = q[k - 1] /\ q[k] \in Cells
        BY <4>1, <2>6
      <4>3. ~Goes(q[k])
        <5>1. ~(ts < cell[q[k - 1]].ts)
          BY <2>3, <1>2
        <5> QED
          BY <5>1, <4>2
      <4> QED
        BY <4>2, <4>3, <1>7
    <3>2. ASSUME NEW l \in Nat, l \in S PROVE l + 1 \in S
      <4> SUFFICES ASSUME k + (l + 1) <= n PROVE Walk[q[k + (l + 1)]] = q[k]
        OBVIOUS
      <4> DEFINE i == k + (l + 1)
      <4>1. i \in 2 .. n /\ i - 1 = k + l /\ k + l <= n /\ k + l \in 2 .. n /\ k + l >= k
        BY <2>2
      <4>2. Walk[q[k + l]] = q[k]
        BY <3>2, <4>1
      <4>3. prev[q[i]] = q[k + l] /\ q[i] \in Cells /\ q[k + l] \in Cells
        <5>1. prev[q[i]] = q[i - 1] /\ q[i] \in Cells /\ q[i - 1] \in Cells
          BY <4>1, <2>6
        <5> QED
          BY <5>1, <4>1
      <4>4. Goes(q[i])
        <5>1. k + l \in 1 .. n /\ k + l # 1
          BY <4>1
        <5>2. q[k + l] # q[1]
          BY <5>1, <1>1 DEF Distinct
        <5>3. ts < cell[q[k + l]].ts
          BY <5>1, <4>1, <2>4
        <5> QED
          BY <5>2, <5>3, <4>3, <1>1
      <4> HIDE DEF i, Goes
      <4>5. Walk[q[i]] = Walk[q[k + l]]
        BY <4>3, <4>4, <1>7
      <4> QED
        BY <4>2, <4>5 DEF i
    <3> HIDE DEF S
    <3>3. Nat \subseteq S
      BY <3>1, <3>2, AllNumbers
    <3> SUFFICES ASSUME NEW i \in k .. n PROVE Walk[q[i]] = q[k]
      OBVIOUS
    <3>4. i - k \in Nat /\ k + (i - k) = i /\ i <= n
      BY <2>3
    <3>5. i - k \in S
      BY <3>3, <3>4
    <3> QED
      BY <3>4, <3>5 DEF S
  <2>9. Walk[q[1]] = IF k = n + 1 THEN q[1] ELSE q[k]
    <3>1. CASE k = n + 1
      <4>1. ~(ts < cell[q[n]].ts)
        <5>1. k - 1 = n
          BY <3>1
        <5> QED
          BY <5>1, <2>3, <1>2
      <4>2. ~Goes(q[1])
        BY <4>1, <2>7
      <4> QED
        BY <4>2, <3>1, <1>1, <1>7
    <3>2. CASE k # n + 1
      <4>1. n \in k .. n /\ n # 1 /\ n >= k
        BY <3>2, <2>2
      <4>2. q[n] # q[1] /\ q[n] \in Cells /\ ts < cell[q[n]].ts
        BY <4>1, <1>1, <2>4 DEF Distinct
      <4>3. Goes(q[1])
        BY <4>2, <2>7, <1>1
      <4>4. Walk[q[1]] = Walk[q[n]]
        <5> HIDE DEF Goes
        <5> QED
          BY <4>3, <2>7, <1>1, <1>7
      <4> QED
        BY <4>1, <4>4, <2>8, <3>2
    <3> QED
      BY <3>1, <3>2
  <2>10. Successor(ts) = IF k = n + 1 THEN q[1] ELSE q[k]
    BY <2>9, <1>1, <1>5, <1>9
  <2>11. k \in 1 .. n + 1 /\ k # 1
    BY <2>2
  <2> QED
    BY <2>4, <2>5, <2>10, <2>11, <1>9
<1> QED
  BY <1>8, <1>9

(* q with c at place k. *)
Into(n, q, k, c) == [i \in 1 .. n + 1 |-> IF i < k THEN q[i] ELSE IF i = k THEN c ELSE q[i - 1]]
Placed(n, q, k, c, r) ==
    /\ r \in [1 .. n + 1 -> Cells] /\ Distinct(n + 1, r)
    /\ r[k] = c
    /\ \A i \in 1 .. n + 1 : i < k => r[i] = q[i] /\ i \in 1 .. n
    /\ \A i \in 1 .. n + 1 : i > k => r[i] = q[i - 1] /\ i - 1 \in 1 .. n
    /\ \A i \in 1 .. n : \E j \in 1 .. n + 1 : r[j] = q[i]

LEMMA IntoIs ==
  ASSUME NEW n \in Nat, NEW q \in [1 .. n -> Cells], Distinct(n, q), NEW k \in 1 .. n + 1,
         NEW c \in Cells, \A i \in 1 .. n : q[i] # c
  PROVE  Placed(n, q, k, c, Into(n, q, k, c))
<1> DEFINE r == Into(n, q, k, c)
<1>1. \A i \in 1 .. n + 1 : i < k => r[i] = q[i] /\ i \in 1 .. n
  BY DEF Into
<1>2. \A i \in 1 .. n + 1 : i > k => r[i] = q[i - 1] /\ i - 1 \in 1 .. n
  BY DEF Into
<1>3. r[k] = c
  BY DEF Into
<1>4. \A i \in 1 .. n + 1 : i < k \/ i = k \/ i > k
  OBVIOUS
<1>5. r = [i \in 1 .. n + 1 |-> r[i]]
  BY DEF Into
<1> HIDE DEF r
<1>6. r \in [1 .. n + 1 -> Cells]
  <2>1. \A i \in 1 .. n + 1 : r[i] \in Cells
    BY <1>1, <1>2, <1>3, <1>4
  <2> QED
    BY <2>1, <1>5
<1>7. Distinct(n + 1, r)
  <2> SUFFICES ASSUME NEW i \in 1 .. n + 1, NEW j \in 1 .. n + 1, r[i] = r[j] PROVE i = j
    BY DEF Distinct
  <2>1. \A a, b \in 1 .. n : q[a] = q[b] => a = b
    BY DEF Distinct
  <2>2. CASE i < k
    BY <2>1, <2>2, <1>1, <1>2, <1>3, <1>4
  <2>3. CASE i = k
    BY <2>3, <1>1, <1>2, <1>3, <1>4
  <2>4. CASE i > k
    BY <2>1, <2>4, <1>1, <1>2, <1>3, <1>4
  <2> QED
    BY <2>2, <2>3, <2>4, <1>4
<1>8. ASSUME NEW i \in 1 .. n PROVE \E j \in 1 .. n + 1 : r[j] = q[i]
  <2>1. CASE i < k
    <3>1. i \in 1 .. n + 1
      OBVIOUS
    <3> QED
      BY <3>1, <2>1, <1>1
  <2>2. CASE i >= k
    <3>1. i + 1 \in 1 .. n + 1 /\ i + 1 > k /\ (i + 1) - 1 = i
      BY <2>2
    <3>2. r[i + 1] = q[i]
      BY <3>1, <1>2
    <3> QED
      BY <3>1, <3>2
  <2> QED
    BY <2>1, <2>2
<1> QED
  BY <1>1, <1>2, <1>3, <1>6, <1>7, <1>8 DEF Placed, r

(* LinkBefore makes a longer circle, with the new cell at place k. *)
LEMMA LinkedInto ==
  ASSUME PointersTyped, NEW n \in Nat, n > 0, NEW q, Circle(n, q), NEW k \in 1 .. n + 1,
         NEW c \in Cells, \A i \in 1 .. n : q[i] # c,
         LinkBefore(c, IF k = n + 1 THEN q[1] ELSE q[k]),
         frames' = IF k = 1 THEN c ELSE frames
  PROVE  Circle(n + 1, Into(n, q, k, c))'
<1> DEFINE r == Into(n, q, k, c)
           p == IF k = n + 1 THEN q[1] ELSE q[k]
           pp == IF k = n + 1 \/ k = 1 THEN q[n] ELSE q[k - 1]
<1>1. /\ q \in [1 .. n -> Cells] /\ Distinct(n, q) /\ frames = q[1]
      /\ 1 \in 1 .. n /\ n \in 1 .. n /\ q[1] \in Cells
      /\ \A i \in 1 .. n - 1 : next[q[i]] = q[i + 1] /\ prev[q[i + 1]] = q[i]
      /\ next[q[n]] = q[1] /\ prev[q[1]] = q[n]
  BY DEF Circle, Linked
<1>2. /\ r \in [1 .. n + 1 -> Cells] /\ Distinct(n + 1, r) /\ r[k] = c
      /\ \A i \in 1 .. n + 1 : i < k => r[i] = q[i] /\ i \in 1 .. n
      /\ \A i \in 1 .. n + 1 : i > k => r[i] = q[i - 1] /\ i - 1 \in 1 .. n
  <2>1. q \in [1 .. n -> Cells] /\ Distinct(n, q) /\ \A i \in 1 .. n : q[i] # c
    BY <1>1
  <2>2. Placed(n, q, k, c, r)
    BY <2>1, IntoIs
  <2> HIDE DEF r
  <2> QED
    BY <2>2 DEF Placed
<1>3. p \in Cells /\ pp \in Cells /\ p # c /\ pp # c /\ prev[p] = pp
  <2>1. CASE k = n + 1 \/ k = 1
    BY <2>1, <1>1
  <2>2. CASE k # n + 1 /\ k # 1
    <3>1. k - 1 \in 1 .. n - 1 /\ (k - 1) + 1 = k /\ k \in 1 .. n /\ k - 1 \in 1 .. n
      BY <2>2
    <3> QED
      BY <3>1, <2>2, <1>1
  <2> QED
    BY <2>1, <2>2
<1>4. next' = [next EXCEPT ![c] = p, ![pp] = c] /\ prev' = [prev EXCEPT ![c] = pp, ![p] = c]
  BY <1>3 DEF LinkBefore
<1>5. \A i, j \in 1 .. n : q[i] = q[j] => i = j
  BY <1>1 DEF Distinct
<1> HIDE DEF r, p, pp
<1>6. next'[c] = p /\ prev'[p] = c /\ next'[pp] = c /\ prev'[c] = pp
  BY <1>3, <1>4 DEF PointersTyped
<1>7. ASSUME NEW a \in Cells, NEW b \in Cells, a # c, a # pp, b # c, b # p, next[a] = b, prev[b] = a
      PROVE  next'[a] = b /\ prev'[b] = a
  BY <1>3, <1>4, <1>7 DEF PointersTyped
<1>8. ASSUME NEW i \in 1 .. n PROVE next'[r[i]] = r[i + 1] /\ prev'[r[i + 1]] = r[i]
  <2>0. i \in 1 .. n + 1 /\ i + 1 \in 1 .. n + 1 /\ i \in Int /\ k \in Int
    OBVIOUS
  <2>1. CASE i + 1 < k
    <3>1. r[i] = q[i] /\ r[i + 1] = q[i + 1] /\ i + 1 \in 1 .. n
      BY <2>0, <2>1, <1>2
    <3>2. i \in 1 .. n - 1
      BY <3>1
    <3>3. next[q[i]] = q[i + 1] /\ prev[q[i + 1]] = q[i] /\ q[i] \in Cells /\ q[i + 1] \in Cells
      BY <3>1, <3>2, <1>1
    <3>4. q[i] # pp
      <4>1. CASE k = n + 1
        BY <4>1, <2>1, <1>1, <1>5 DEF pp
      <4>2. CASE k # n + 1
        <5>1. k - 1 \in 1 .. n /\ k - 1 # i /\ k # 1
          BY <4>2, <2>1
        <5> QED
          BY <5>1, <4>2, <1>5 DEF pp
      <4> QED
        BY <4>1, <4>2
    <3>5. q[i + 1] # p
      <4>1. CASE k = n + 1
        BY <4>1, <3>1, <1>1, <1>5 DEF p
      <4>2. CASE k # n + 1
        <5>1. k \in 1 .. n /\ k # i + 1
          BY <4>2, <2>1
        <5> QED
          BY <5>1, <4>2, <3>1, <1>5 DEF p
      <4> QED
        BY <4>1, <4>2
    <3> QED
      BY <3>1, <3>3, <3>4, <3>5, <1>7
  <2>2. CASE i + 1 = k
    <3>1. r[i] = q[i] /\ r[i + 1] = c /\ k - 1 = i /\ k # 1 /\ (k = n + 1 => i = n)
      BY <2>0, <2>2, <1>2
    <3>2. pp = q[i]
      BY <3>1 DEF pp
    <3> QED
      BY <3>1, <3>2, <1>6
  <2>3. CASE i = k
    <3>1. r[i] = c /\ r[i + 1] = q[(i + 1) - 1] /\ (i + 1) - 1 = k /\ k # n + 1
      BY <2>0, <2>3, <1>2
    <3>2. p = r[i + 1]
      BY <3>1 DEF p
    <3> QED
      BY <3>1, <3>2, <1>6
  <2>4. CASE i > k
    <3>1. /\ r[i] = q[i - 1] /\ r[i + 1] = q[(i + 1) - 1] /\ (i + 1) - 1 = i /\ i - 1 \in 1 .. n - 1
          /\ (i - 1) + 1 = i /\ i - 1 \in 1 .. n
      BY <2>0, <2>4, <1>2
    <3>2. /\ next[q[i - 1]] = q[i] /\ prev[q[i]] = q[i - 1] /\ q[i] \in Cells /\ q[i - 1] \in Cells
      BY <3>1, <1>1
    <3>3. q[i - 1] # pp
      <4>1. CASE k = 1
        BY <4>1, <3>1, <1>1, <1>5 DEF pp
      <4>2. CASE k # 1
        <5>1. k - 1 \in 1 .. n /\ k - 1 # i - 1 /\ k # n + 1
          BY <4>2, <2>4
        <5> QED
          BY <5>1, <4>2, <3>1, <1>5 DEF pp
      <4> QED
        BY <4>1, <4>2
    <3>4. q[i] # p
      <4>1. k \in 1 .. n /\ k # i /\ k # n + 1
        BY <2>4
      <4> QED
        BY <4>1, <1>5 DEF p
    <3> QED
      BY <3>1, <3>2, <3>3, <3>4, <1>7
  <2> QED
    BY <2>0, <2>1, <2>2, <2>3, <2>4
<1>9. next'[r[n + 1]] = r[1] /\ prev'[r[1]] = r[n + 1]
  <2>0. 1 \in 1 .. n + 1 /\ n + 1 \in 1 .. n + 1
    OBVIOUS
  <2>1. CASE k = n + 1
    <3>1. r[n + 1] = c /\ r[1] = q[1] /\ p = q[1]
      BY <2>0, <2>1, <1>2 DEF p
    <3> QED
      BY <3>1, <1>6
  <2>2. CASE k = 1
    <3>1. r[n + 1] = q[(n + 1) - 1] /\ (n + 1) - 1 = n /\ r[1] = c /\ pp = q[n]
      BY <2>0, <2>2, <1>2 DEF pp
    <3> QED
      BY <3>1, <1>6
  <2>3. CASE k # n + 1 /\ k # 1
    <3>1. r[n + 1] = q[(n + 1) - 1] /\ (n + 1) - 1 = n /\ r[1] = q[1]
      BY <2>0, <2>3, <1>2
    <3>2. k - 1 \in 1 .. n /\ k - 1 # n /\ k \in 1 .. n /\ pp = q[k - 1] /\ p = q[k]
      BY <2>3 DEF pp, p
    <3>3. q[n] # pp /\ q[1] # p
      BY <3>2, <2>3, <1>1, <1>5
    <3>4. q[n] \in Cells /\ q[n] # c /\ q[1] # c
      BY <1>1
    <3> QED
      BY <3>1, <3>3, <3>4, <1>1, <1>7
  <2> QED
    BY <2>1, <2>2, <2>3
<1>10. frames' = r[1]
  <2>1. 1 \in 1 .. n + 1
    OBVIOUS
  <2>2. CASE k = 1
    BY <2>2, <1>2
  <2>3. CASE k # 1
    BY <2>1, <2>3, <1>1, <1>2
  <2> QED
    BY <2>2, <2>3
<1>11. (n + 1) - 1 = n /\ n + 1 # 0 /\ n + 1 \in Nat
  OBVIOUS
<1> QED
  BY <1>2, <1>8, <1>9, <1>10, <1>11 DEF Circle, Linked, r

(* t is the stack of free cells without c, should c be one of them. *)
StillFree(n, q, c, l, t) ==
    /\ t \in [1 .. l -> Cells] /\ Distinct(l, t)
    /\ (IF free # NULL THEN next[c] ELSE NULL) = IF l = 0 THEN NULL ELSE t[l]
    /\ \A i \in 1 .. l : next[t[i]] = IF i = 1 THEN NULL ELSE t[i - 1]
    /\ \A i \in 1 .. l : t[i] # c
    /\ \A i \in 1 .. n, j \in 1 .. l : q[i] # t[j]

(* The cell queue_put takes is not in the queue; it leaves the free stack. *)
LEMMA TakenCell ==
  ASSUME PointersTyped, NEW n \in Nat, NEW m \in Nat, NEW q, NEW s, Lists(n, q, m, s),
         NEW c \in Cells, NewCell(c)
  PROVE  /\ \A i \in 1 .. n : q[i] # c
         /\ \E l \in Nat : \E t : StillFree(n, q, c, l, t)
<1>1. /\ s \in [1 .. m -> Cells] /\ Distinct(m, s) /\ free = (IF m = 0 THEN NULL ELSE s[m])
      /\ \A i \in 1 .. m : next[s[i]] = IF i = 1 THEN NULL ELSE s[i - 1]
      /\ \A i \in 1 .. n, j \in 1 .. m : q[i] # s[j]
  BY DEF Lists, Stack
<1>2. CASE m = 0
  <2>1. free = NULL /\ cell[c] = NoFrame
    BY <1>1, <1>2 DEF NewCell, Malloced
  <2>2. \A i \in 1 .. n : q[i] # c
    <3>1. \A i \in 1 .. n : cell[q[i]].data \in 1 .. arrived
      BY DEF Lists, Arrivals
    <3>2. cell[c].data = 0
      BY <2>1 DEF NoFrame
    <3> QED
      BY <3>1, <3>2
  <2>3. s \in [1 .. 0 -> Cells] /\ Distinct(0, s) /\ \A i \in 1 .. 0 : FALSE
    BY <1>1, <1>2
  <2> QED
    BY <2>1, <2>2, <2>3 DEF StillFree
<1>3. CASE m # 0
  <2>1. m \in 1 .. m /\ m - 1 \in Nat /\ s[m] \in Cells
    BY <1>1, <1>3
  <2>2. free # NULL /\ c = s[m]
    BY <1>1, <1>3, <2>1, Sizes DEF NewCell
  <2> DEFINE t == [i \in 1 .. m - 1 |-> s[i]]
  <2>3. \A i \in 1 .. m - 1 : i \in 1 .. m /\ t[i] = s[i] /\ i # m
    BY <2>1
  <2>4. t \in [1 .. m - 1 -> Cells]
    BY <1>1, <2>3
  <2> HIDE DEF t
  <2>5. \A i, j \in 1 .. m : s[i] = s[j] => i = j
    BY <1>1 DEF Distinct
  <2>6. Distinct(m - 1, t) /\ \A i \in 1 .. m - 1 : t[i] # c
    BY <2>1, <2>2, <2>3, <2>5 DEF Distinct
  <2>7. next[c] = IF m - 1 = 0 THEN NULL ELSE t[m - 1]
    <3>1. next[c] = IF m = 1 THEN NULL ELSE s[m - 1]
      BY <1>1, <2>1, <2>2
    <3>2. m # 1 => m - 1 \in 1 .. m - 1 /\ m - 1 # 0
      BY <2>1
    <3> QED
      BY <3>1, <3>2, <2>3
  <2>8. \A i \in 1 .. m - 1 : next[t[i]] = IF i = 1 THEN NULL ELSE t[i - 1]
    <3> SUFFICES ASSUME NEW i \in 1 .. m - 1 PROVE next[t[i]] = IF i = 1 THEN NULL ELSE t[i - 1]
      OBVIOUS
    <3>1. next[s[i]] = IF i = 1 THEN NULL ELSE s[i - 1]
      BY <1>1, <2>3
    <3>2. i # 1 => i - 1 \in 1 .. m - 1
      BY <2>1
    <3> QED
      BY <3>1, <3>2, <2>3
  <2>9. /\ \A i \in 1 .. n, j \in 1 .. m - 1 : q[i] # t[j]
        /\ \A i \in 1 .. n : q[i] # c
    BY <1>1, <2>1, <2>2, <2>3
  <2> QED
    <3>1. StillFree(n, q, c, m - 1, t)
      BY <2>1, <2>2, <2>4, <2>6, <2>7, <2>8, <2>9 DEF StillFree
    <3> QED
      BY <2>1, <2>9, <3>1
<1> QED
  BY <1>2, <1>3

(* queue_put. *)
LEMMA PutLists ==
  ASSUME PointersTyped, arrived \in Nat, NEW n \in Nat, NEW m \in Nat, NEW q, NEW s,
         Lists(n, q, m, s), NEW e \in CellType, e.data = arrived + 1, arrived' = arrived + 1,
         QueuePut(e)
  PROVE  /\ PointersTyped'
         /\ \E c \in Cells, k \in 1 .. n + 1 :
               /\ \A i \in 1 .. n : q[i] # c
               /\ cell' = [cell EXCEPT ![c] = e]
               /\ frames # NULL /\ e.ts >= QueueNext => n > 0 /\ k # 1
               /\ \E l \in Nat : \E t : Lists(n + 1, Into(n, q, k, c), l, t)'
<1>1. PICK c \in Cells :
          /\ NewCell(c)
          /\ free' = IF free # NULL THEN next[c] ELSE NULL
          /\ cell' = [cell EXCEPT ![c] = e]
          /\ IF frames = NULL
             THEN /\ next' = [next EXCEPT ![c] = c]
                  /\ prev' = [prev EXCEPT ![c] = c]
             ELSE LinkBefore(c, Successor(e.ts))
          /\ frames' = IF frames = NULL \/ e.ts < QueueNext THEN c ELSE frames
  BY DEF QueuePut
<1>2. \A i \in 1 .. n : q[i] # c
  BY <1>1, TakenCell
<1>3. PICK l \in Nat : \E t : StillFree(n, q, c, l, t)
  BY <1>1, TakenCell
<1>4. PICK t :
               /\ t \in [1 .. l -> Cells] /\ Distinct(l, t)
               /\ (IF free # NULL THEN next[c] ELSE NULL) = IF l = 0 THEN NULL ELSE t[l]
               /\ \A i \in 1 .. l : next[t[i]] = IF i = 1 THEN NULL ELSE t[i - 1]
               /\ \A i \in 1 .. l : t[i] # c
               /\ \A i \in 1 .. n, j \in 1 .. l : q[i] # t[j]
  BY <1>3 DEF StillFree
<1>5. Circle(n, q) /\ InTime(n, q) /\ Arrivals(n, q)
  BY DEF Lists
<1>6. q \in [1 .. n -> Cells] /\ Distinct(n, q)
  BY <1>5 DEF Circle
<1>7. \A i \in 1 .. n : cell'[q[i]] = cell[q[i]]
  BY <1>1, <1>2, <1>6 DEF PointersTyped
<1>8. cell'[c] = e /\ cell' \in [Cells -> CellType] /\ e.ts \in Int
  BY <1>1 DEF PointersTyped, CellType
<1>9. \E k \in 1 .. n + 1 :
         /\ Circle(n + 1, Into(n, q, k, c))'
         /\ \A i \in 1 .. l : next'[t[i]] = next[t[i]]
         /\ \A i \in 1 .. n : i < k => cell[q[i]].ts <= e.ts
         /\ \A i \in 1 .. n : i >= k => e.ts < cell[q[i]].ts
         /\ next' \in [Cells -> Cells \cup {NULL}] /\ prev' \in [Cells -> Cells \cup {NULL}]
         /\ frames # NULL /\ e.ts >= QueueNext => n > 0 /\ k # 1
  <2>1. CASE n = 0
    <3>1. frames = NULL
      BY <2>1, <1>5 DEF Circle
    <3>2. /\ next' = [next EXCEPT ![c] = c] /\ prev' = [prev EXCEPT ![c] = c] /\ frames' = c
      BY <3>1, <1>1
    <3>3. next'[c] = c /\ prev'[c] = c
      BY <3>2 DEF PointersTyped
    <3> DEFINE r == Into(n, q, 1, c)
    <3>4. r \in [1 .. n + 1 -> Cells] /\ Distinct(n + 1, r) /\ r[1] = c
      <4>1. 1 \in 1 .. n + 1
        OBVIOUS
      <4>2. Placed(n, q, 1, c, r)
        BY <4>1, <1>2, <1>6, IntoIs
      <4> HIDE DEF r
      <4> QED
        BY <4>2 DEF Placed
    <3> HIDE DEF r
    <3>5. Circle(n + 1, r)'
      BY <3>2, <3>3, <3>4, <2>1 DEF Circle, Linked
    <3>6. \A i \in 1 .. l : next'[t[i]] = next[t[i]]
      BY <3>2, <1>4 DEF PointersTyped
    <3>7. 1 \in 1 .. n + 1 /\ \A i \in 1 .. n : FALSE
      BY <2>1
    <3>8. next' \in [Cells -> Cells \cup {NULL}] /\ prev' \in [Cells -> Cells \cup {NULL}]
      BY <3>2 DEF PointersTyped
    <3> QED
      BY <3>1, <3>5, <3>6, <3>7, <3>8 DEF r
  <2>2. CASE n # 0
    <3>1. n > 0 /\ 1 \in 1 .. n /\ n \in 1 .. n
      BY <2>2
    <3>2. frames = q[1] /\ frames # NULL /\ cell[frames].ts \in Int /\ QueueNext = cell[frames].ts
      BY <3>1, <1>5, <1>6, Sizes DEF Circle, PointersTyped, CellType, QueueNext
    <3>3. PICK k \in 1 .. n + 1 :
            /\ Successor(e.ts) = IF k = n + 1 THEN q[1] ELSE q[k]
            /\ k = 1 <=> e.ts < QueueNext
            /\ \A i \in 1 .. n : i < k => cell[q[i]].ts <= e.ts
            /\ \A i \in 1 .. n : i >= k => e.ts < cell[q[i]].ts
      BY <3>1, <1>5, <1>8, SuccessorIs
    <3>4. LinkBefore(c, IF k = n + 1 THEN q[1] ELSE q[k])
      BY <1>1, <3>2, <3>3
    <3>5. frames' = IF k = 1 THEN c ELSE frames
      BY <1>1, <3>2, <3>3
    <3>6. Circle(n + 1, Into(n, q, k, c))'
      BY <3>1, <3>4, <3>5, <1>2, <1>5, LinkedInto
    <3> DEFINE p == IF k = n + 1 THEN q[1] ELSE q[k]
    <3>7. \E j \in 1 .. n : prev[p] = q[j]
      <4>1. \A i \in 1 .. n - 1 : prev[q[i + 1]] = q[i]
        BY <1>5 DEF Circle, Linked
      <4>2. prev[q[1]] = q[n]
        BY <1>5, <3>1 DEF Circle, Linked
      <4>3. CASE k = n + 1 \/ k = 1
        BY <4>2, <4>3, <3>1
      <4>4. CASE k # n + 1 /\ k # 1
        <5>1. k - 1 \in 1 .. n - 1 /\ (k - 1) + 1 = k /\ k - 1 \in 1 .. n
          BY <4>4
        <5> QED
          BY <5>1, <4>1, <4>4
      <4> QED
        BY <4>3, <4>4
    <3>8. p \in Cells
      BY <3>1, <1>6
    <3> HIDE DEF p
    <3>9. next' = [next EXCEPT ![c] = p, ![prev[p]] = c] /\ prev' = [prev EXCEPT ![c] = prev[p], ![p] = c]
      BY <3>4 DEF LinkBefore, p
    <3>10. PICK j \in 1 .. n : prev[p] = q[j]
      BY <3>7
    <3>11. prev[p] \in Cells
      BY <3>10, <1>6
    <3>12. next' \in [Cells -> Cells \cup {NULL}] /\ prev' \in [Cells -> Cells \cup {NULL}]
      BY <3>8, <3>9, <3>11 DEF PointersTyped
    <3>13. \A i \in 1 .. l : next'[t[i]] = next[t[i]]
      <4>1. \A i \in 1 .. l : t[i] # c /\ t[i] # prev[p] /\ t[i] \in Cells
        BY <1>4, <3>10
      <4> QED
        BY <4>1, <3>9 DEF PointersTyped
    <3>14. frames # NULL /\ e.ts >= QueueNext => n > 0 /\ k # 1
      BY <3>1, <3>2, <3>3, <1>8
    <3> QED
      BY <3>3, <3>6, <3>12, <3>13, <3>14
  <2> QED
    BY <2>1, <2>2
<1>10. PICK k \in 1 .. n + 1 :
         /\ Circle(n + 1, Into(n, q, k, c))'
         /\ \A i \in 1 .. l : next'[t[i]] = next[t[i]]
         /\ \A i \in 1 .. n : i < k => cell[q[i]].ts <= e.ts
         /\ \A i \in 1 .. n : i >= k => e.ts < cell[q[i]].ts
         /\ next' \in [Cells -> Cells \cup {NULL}] /\ prev' \in [Cells -> Cells \cup {NULL}]
         /\ frames # NULL /\ e.ts >= QueueNext => n > 0 /\ k # 1
  BY <1>9
<1> DEFINE r == Into(n, q, k, c)
<1>11. Placed(n, q, k, c, r)
  BY <1>2, <1>6, IntoIs
<1>12. Circle(n + 1, r)'
  BY <1>10
<1> HIDE DEF r
<1>13. /\ r \in [1 .. n + 1 -> Cells] /\ r[k] = c
       /\ \A i \in 1 .. n + 1 : i < k => r[i] = q[i] /\ i \in 1 .. n
       /\ \A i \in 1 .. n + 1 : i > k => r[i] = q[i - 1] /\ i - 1 \in 1 .. n
       /\ \A i \in 1 .. n + 1 : i < k \/ i = k \/ i > k
  BY <1>11 DEF Placed
<1>14. Stack(l, t)'
  <2>1. free' = IF l = 0 THEN NULL ELSE t[l]
    BY <1>1, <1>4
  <2>2. \A i \in 1 .. l : next'[t[i]] = IF i = 1 THEN NULL ELSE t[i - 1]
    BY <1>4, <1>10
  <2> QED
    BY <2>1, <2>2, <1>4 DEF Stack
<1>15. \A i \in 1 .. n + 1, j \in 1 .. l : r[i] # t[j]
  <2> SUFFICES ASSUME NEW i \in 1 .. n + 1, NEW j \in 1 .. l PROVE r[i] # t[j]
    OBVIOUS
  <2>1. r[i] = c \/ \E a \in 1 .. n : r[i] = q[a]
    BY <1>13
  <2> QED
    BY <2>1, <1>4
<1>16. \A i \in 1 .. n : cell[q[i]].data \in 1 .. arrived /\ cell[q[i]].ts \in Int
  BY <1>5, <1>6 DEF Arrivals, PointersTyped, CellType
<1>17. InTime(n + 1, r)'
  <2> SUFFICES ASSUME NEW i \in 1 .. n + 1, NEW j \in 1 .. n + 1, i < j
               PROVE  Comes(cell'[r[i]], cell'[r[j]])
    BY DEF InTime
  <2>1. \A a, b \in 1 .. n : a < b => Comes(cell'[q[a]], cell'[q[b]])
    BY <1>5, <1>7 DEF InTime
  <2>2. CASE j < k
    <3>1. r[i] = q[i] /\ r[j] = q[j] /\ i \in 1 .. n /\ j \in 1 .. n
      BY <2>2, <1>13
    <3> QED
      BY <3>1, <2>1
  <2>3. CASE j = k
    <3>1. r[i] = q[i] /\ i \in 1 .. n /\ i < k /\ r[j] = c
      BY <2>3, <1>13
    <3> QED
      BY <3>1, <1>7, <1>8, <1>10, <1>16 DEF Comes
  <2>4. CASE j > k /\ i < k
    <3>1. r[i] = q[i] /\ i \in 1 .. n /\ r[j] = q[j - 1] /\ j - 1 \in 1 .. n /\ i < j - 1
      BY <2>4, <1>13
    <3> QED
      BY <3>1, <2>1
  <2>5. CASE j > k /\ i = k
    <3>1. r[i] = c /\ r[j] = q[j - 1] /\ j - 1 \in 1 .. n /\ j - 1 >= k
      BY <2>5, <1>13
    <3> QED
      BY <3>1, <1>7, <1>8, <1>10, <1>16 DEF Comes
  <2>6. CASE j > k /\ i > k
    <3>1. r[i] = q[i - 1] /\ i - 1 \in 1 .. n /\ r[j] = q[j - 1] /\ j - 1 \in 1 .. n /\ i - 1 < j - 1
      BY <2>6, <1>13
    <3> QED
      BY <3>1, <2>1
  <2> QED
    BY <2>2, <2>3, <2>4, <2>5, <2>6
<1>18. Arrivals(n + 1, r)'
  <2>1. \A i \in 1 .. n + 1 : cell'[r[i]].data \in 1 .. arrived + 1
    <3> SUFFICES ASSUME NEW i \in 1 .. n + 1 PROVE cell'[r[i]].data \in 1 .. arrived + 1
      OBVIOUS
    <3>1. CASE i = k
      BY <3>1, <1>8, <1>13
    <3>2. CASE i # k
      <4>1. PICK j \in 1 .. n : r[i] = q[j]
        BY <3>2, <1>13
      <4>2. cell'[r[i]].data \in 1 .. arrived
        BY <4>1, <1>7, <1>16
      <4> QED
        BY <4>2
    <3> QED
      BY <3>1, <3>2
  <2>2. ASSUME NEW i \in 1 .. n + 1, NEW j \in 1 .. n + 1, cell'[r[i]].data = cell'[r[j]].data
        PROVE  i = j
    <3>1. \A a, b \in 1 .. n : cell[q[a]].data = cell[q[b]].data => a = b
      BY <1>5 DEF Arrivals
    <3>2. \A a \in 1 .. n : cell'[q[a]].data # cell'[c].data
      BY <1>7, <1>8, <1>16
    <3>3. CASE i = k \/ j = k
      <4>1. \A b \in 1 .. n + 1 : b # k => \E a \in 1 .. n : r[b] = q[a]
        BY <1>13
      <4>2. \A b \in 1 .. n + 1 : b # k => cell'[r[b]].data # cell'[c].data
        BY <4>1, <3>2
      <4>3. r[k] = c
        BY <1>13
      <4> QED
        BY <4>2, <4>3, <2>2, <3>3
    <3>4. CASE i # k /\ j # k
      <4>1. PICK a \in 1 .. n : r[i] = q[a] /\ a = IF i < k THEN i ELSE i - 1
        BY <3>4, <1>13
      <4>2. PICK b \in 1 .. n : r[j] = q[b] /\ b = IF j < k THEN j ELSE j - 1
        BY <3>4, <1>13
      <4>3. a = b
        BY <4>1, <4>2, <2>2, <3>1, <1>7
      <4> QED
        BY <4>1, <4>2, <4>3, <3>4
    <3> QED
      BY <3>3, <3>4
  <2> QED
    BY <2>1, <2>2 DEF Arrivals
<1>19. Lists(n + 1, r, l, t)'
  BY <1>12, <1>14, <1>15, <1>17, <1>18 DEF Lists
<1>20. PointersTyped'
  BY <1>8, <1>10 DEF PointersTyped
<1> QED
  BY <1>1, <1>2, <1>10, <1>19, <1>20 DEF r

(* q without its head. *)
Rest(n, q) == [i \in 1 .. n - 1 |-> q[i + 1]]

(* _queue_get takes the head out and puts it on the free stack.            *)
LEMMA GetLists ==
  ASSUME PointersTyped, NEW n \in Nat, NEW m \in Nat, NEW q, NEW s, Lists(n, q, m, s),
         frames # NULL, Unlink, arrived' = arrived
  PROVE  /\ PointersTyped' /\ cell' = cell
         /\ n > 0 /\ frames = q[1]
         /\ \E t : Lists(n - 1, Rest(n, q), m + 1, t)'
<1>1. n > 0
  BY DEF Lists, Circle
<1>2. /\ q \in [1 .. n -> Cells] /\ Distinct(n, q) /\ frames = q[1]
      /\ 1 \in 1 .. n /\ n \in 1 .. n /\ q[1] \in Cells /\ q[n] \in Cells
      /\ \A i \in 1 .. n - 1 : next[q[i]] = q[i + 1] /\ prev[q[i + 1]] = q[i]
      /\ next[q[n]] = q[1] /\ prev[q[1]] = q[n]
      /\ InTime(n, q) /\ Arrivals(n, q)
  BY <1>1 DEF Lists, Circle, Linked
<1>3. /\ s \in [1 .. m -> Cells] /\ Distinct(m, s)
      /\ free = (IF m = 0 THEN NULL ELSE s[m])
      /\ \A i \in 1 .. m : next[s[i]] = IF i = 1 THEN NULL ELSE s[i - 1]
      /\ \A i \in 1 .. n, j \in 1 .. m : q[i] # s[j]
  BY DEF Lists, Stack
<1>4. \A i, j \in 1 .. n : q[i] = q[j] => i = j
  BY <1>2 DEF Distinct
<1> DEFINE f == q[1]
           nx == IF n = 1 THEN q[1] ELSE q[2]
           r == Rest(n, q)
           t == [i \in 1 .. m + 1 |-> IF i = m + 1 THEN f ELSE s[i]]
<1>5. next[f] = nx /\ nx \in Cells /\ f \in Cells
  <2>1. CASE n = 1
    BY <2>1, <1>2
  <2>2. CASE n # 1
    <3>1. 1 \in 1 .. n - 1 /\ 2 \in 1 .. n /\ 1 + 1 = 2
      BY <1>1, <2>2
    <3> QED
      BY <3>1, <2>2, <1>2
  <2> QED
    BY <2>1, <2>2
<1>6. /\ next' = [next EXCEPT ![q[n]] = nx, ![f] = free]
      /\ prev' = [prev EXCEPT ![nx] = q[n]]
      /\ frames' = IF nx = f THEN NULL ELSE nx
      /\ free' = f /\ cell' = cell
  BY <1>2, <1>5 DEF Unlink
<1> HIDE DEF nx
<1>7. PointersTyped'
  <2>1. free \in Cells \cup {NULL}
    BY <1>3
  <2> QED
    BY <2>1, <1>2, <1>5, <1>6 DEF PointersTyped
<1>8. \A i \in 1 .. n - 1 : r[i] = q[i + 1] /\ i + 1 \in 1 .. n /\ i + 1 # 1
  BY DEF Rest
<1>9. r \in [1 .. n - 1 -> Cells]
  BY <1>2 DEF Rest
<1> HIDE DEF r
<1>10. Distinct(n - 1, r)
  <2> SUFFICES ASSUME NEW i \in 1 .. n - 1, NEW j \in 1 .. n - 1, r[i] = r[j] PROVE i = j
    BY DEF Distinct
  <2>1. i + 1 = j + 1
    BY <1>4, <1>8
  <2> QED
    BY <2>1
<1>11. next'[f] = free
  BY <1>5, <1>6 DEF PointersTyped
<1>12. ASSUME NEW a \in Cells, a # q[n], a # f PROVE next'[a] = next[a]
  BY <1>6, <1>12 DEF PointersTyped
<1>13. ASSUME NEW a \in Cells, a # nx PROVE prev'[a] = prev[a]
  BY <1>6, <1>13 DEF PointersTyped
<1>14. Circle(n - 1, r)'
  <2>1. CASE n = 1
    <3>1. frames' = NULL /\ n - 1 = 0
      BY <2>1, <1>6 DEF nx
    <3> QED
      BY <3>1, <1>9, <1>10 DEF Circle
  <2>2. CASE n # 1
    <3>0. n \in Nat /\ n >= 2 /\ n - 1 \in 1 .. n - 1 /\ 1 \in 1 .. n - 1 /\ 2 \in 1 .. n
      BY <1>1, <2>2
    <3>1. nx = q[2] /\ q[2] # q[1] /\ r[1] = q[2] /\ r[n - 1] = q[n]
      <4>1. (n - 1) + 1 = n /\ 1 + 1 = 2
        BY <3>0
      <4> QED
        BY <4>1, <3>0, <2>2, <1>2, <1>4, <1>8 DEF nx
    <3>2. frames' = r[1]
      BY <3>1, <1>6
    <3>3. next'[q[n]] = q[2] /\ prev'[q[2]] = q[n]
      <4>1. q[n] # f
        BY <2>2, <1>2, <1>4
      <4> QED
        BY <4>1, <3>1, <1>2, <1>5, <1>6 DEF PointersTyped
    <3>4. ASSUME NEW i \in 1 .. (n - 1) - 1 PROVE next'[r[i]] = r[i + 1] /\ prev'[r[i + 1]] = r[i]
      <4>1. /\ i \in 1 .. n - 1 /\ i + 1 \in 1 .. n - 1 /\ i + 1 # n /\ i + 1 # 1
            /\ i + 1 \in 1 .. n /\ (i + 1) + 1 \in 1 .. n /\ (i + 1) + 1 # 2
        BY <3>0
      <4>2. r[i] = q[i + 1] /\ r[i + 1] = q[(i + 1) + 1]
        BY <4>1, <1>8
      <4>3. q[i + 1] # q[n] /\ q[i + 1] # f /\ q[(i + 1) + 1] # nx
        BY <4>1, <3>0, <3>1, <1>2, <1>4
      <4>4. q[i + 1] \in Cells /\ q[(i + 1) + 1] \in Cells
        BY <4>1, <1>2
      <4>5. next'[q[i + 1]] = next[q[i + 1]] /\ prev'[q[(i + 1) + 1]] = prev[q[(i + 1) + 1]]
        BY <4>3, <4>4, <1>12, <1>13
      <4>6. next[q[i + 1]] = q[(i + 1) + 1] /\ prev[q[(i + 1) + 1]] = q[i + 1]
        BY <4>1, <1>2
      <4> QED
        BY <4>2, <4>5, <4>6
    <3>5. n - 1 # 0 /\ n - 1 > 0
      BY <3>0
    <3> QED
      BY <3>1, <3>2, <3>3, <3>4, <3>5, <1>9, <1>10 DEF Circle, Linked
  <2> QED
    BY <2>1, <2>2
<1>15. /\ t \in [1 .. m + 1 -> Cells] /\ t[m + 1] = f
       /\ \A i \in 1 .. m + 1 : i # m + 1 => t[i] = s[i] /\ i \in 1 .. m
  <2>1. \A i \in 1 .. m + 1 : i # m + 1 => i \in 1 .. m
    OBVIOUS
  <2> QED
    BY <2>1, <1>3, <1>5
<1> HIDE DEF t, f
<1>16. Stack(m + 1, t)'
  <2>1. Distinct(m + 1, t)
    <3>1. \A i, j \in 1 .. m : s[i] = s[j] => i = j
      BY <1>3 DEF Distinct
    <3>2. \A i \in 1 .. m : s[i] # f
      BY <1>2, <1>3 DEF f
    <3> QED
      BY <3>1, <3>2, <1>15 DEF Distinct
  <2>2. free' = t[m + 1] /\ m + 1 # 0
    BY <1>6, <1>15
  <2>3. ASSUME NEW i \in 1 .. m + 1 PROVE next'[t[i]] = IF i = 1 THEN NULL ELSE t[i - 1]
    <3>1. CASE i = m + 1
      <4>1. next'[t[i]] = free
        BY <3>1, <1>11, <1>15
      <4>2. m # 0 => i # 1 /\ i - 1 = m /\ i - 1 \in 1 .. m + 1 /\ i - 1 # m + 1
        BY <3>1
      <4> QED
        BY <4>1, <4>2, <3>1, <1>3, <1>15
    <3>2. CASE i # m + 1
      <4>1. t[i] = s[i] /\ i \in 1 .. m
        BY <3>2, <1>15
      <4>2. s[i] \in Cells /\ s[i] # q[n] /\ s[i] # f
        BY <4>1, <1>2, <1>3 DEF f
      <4>3. next'[s[i]] = IF i = 1 THEN NULL ELSE s[i - 1]
        BY <4>1, <4>2, <1>3, <1>12
      <4>4. i # 1 => i - 1 \in 1 .. m + 1 /\ i - 1 # m + 1
        BY <4>1
      <4> QED
        BY <4>1, <4>3, <4>4, <1>15
    <3> QED
      BY <3>1, <3>2
  <2> QED
    BY <2>1, <2>2, <2>3, <1>15 DEF Stack
<1>17. \A i \in 1 .. n - 1, j \in 1 .. m + 1 : r[i] # t[j]
  <2> SUFFICES ASSUME NEW i \in 1 .. n - 1, NEW j \in 1 .. m + 1 PROVE r[i] # t[j]
    OBVIOUS
  <2>1. r[i] = q[i + 1] /\ i + 1 \in 1 .. n /\ i + 1 # 1
    BY <1>8
  <2>2. t[j] = f \/ \E k \in 1 .. m : t[j] = s[k]
    BY <1>15
  <2> QED
    BY <2>1, <2>2, <1>2, <1>3, <1>4 DEF f
<1>18. InTime(n - 1, r)'
  <2> SUFFICES ASSUME NEW i \in 1 .. n - 1, NEW j \in 1 .. n - 1, i < j
               PROVE  Comes(cell'[r[i]], cell'[r[j]])
    BY DEF InTime
  <2>1. i + 1 < j + 1
    OBVIOUS
  <2> QED
    BY <2>1, <1>2, <1>6, <1>8 DEF InTime
<1>19. Arrivals(n - 1, r)'
  <2>1. \A i \in 1 .. n - 1 : cell'[r[i]].data \in 1 .. arrived'
    BY <1>2, <1>6, <1>8 DEF Arrivals
  <2>2. ASSUME NEW i \in 1 .. n - 1, NEW j \in 1 .. n - 1, cell'[r[i]].data = cell'[r[j]].data
        PROVE  i = j
    <3>1. i + 1 = j + 1
      BY <2>2, <1>2, <1>6, <1>8 DEF Arrivals
    <3> QED
      BY <3>1
  <2> QED
    BY <2>1, <2>2 DEF Arrivals
<1>20. Lists(n - 1, r, m + 1, t)'
  BY <1>14, <1>16, <1>17, <1>18, <1>19 DEF Lists
<1> QED
  BY <1>1, <1>2, <1>6, <1>7, <1>20 DEF r

(* Nothing changes the queue. *)
LEMMA ListsSame ==
  ASSUME PointersTyped, NEW n \in Nat, NEW m \in Nat, NEW q, NEW s, Lists(n, q, m, s),
         UNCHANGED queue, arrived \in Nat, arrived' \in {arrived, arrived + 1}
  PROVE  PointersTyped' /\ Lists(n, q, m, s)'
<1>1. frames' = frames /\ free' = free /\ next' = next /\ prev' = prev /\ cell' = cell
  BY DEF queue
<1>2. Circle(n, q)' /\ Stack(m, s)' /\ InTime(n, q)'
  BY <1>1 DEF Lists, Circle, Linked, Stack, InTime
<1>3. Arrivals(n, q)'
  <2>1. 1 .. arrived \subseteq 1 .. arrived'
    OBVIOUS
  <2> QED
    BY <2>1, <1>1 DEF Lists, Arrivals
<1> QED
  BY <1>1, <1>2, <1>3 DEF Lists, PointersTyped

(* An empty queue. *)
LEMMA ListsEmpty ==
  ASSUME frames = NULL, free = NULL
  PROVE  Lists(0, <<>>, 0, <<>>)
BY DEF Lists, Circle, Stack, Distinct, InTime, Arrivals

(* What is read of the two lists to check them: the cells in order ...     *)
LEMMA ModStep ==
  ASSUME NEW n \in Nat \ {0}, NEW a \in Nat
  PROVE  /\ (a % n) \in 0 .. n - 1
         /\ a < n => a % n = a
         /\ (a + 1) % n = IF (a % n) + 1 = n THEN 0 ELSE (a % n) + 1
<1>1. (a % n) \in 0 .. n - 1
  BY SMTT(10)
<1>2. a < n => a % n = a
  BY SMTT(10)
<1> DEFINE p == a \div n
           r == a % n
           b == (a + 1) \div n
           t == (a + 1) % n
<1>3. p \in Int /\ r \in Int /\ a = n * p + r
  BY SMTT(10)
<1>4. b \in Int /\ t \in 0 .. n - 1 /\ a + 1 = n * b + t
  <2>1. a + 1 \in Nat
    OBVIOUS
  <2> QED
    BY <2>1, SMTT(10)
<1>5. r \in 0 .. n - 1
  BY <1>1
<1> HIDE DEF p, r, b, t
<1>6. n * (b - p) = r + 1 - t
  <2>1. n * (b - p) = n * b - n * p
    BY <1>3, <1>4, SMTT(10)
  <2> DEFINE x == n * b
             y == n * p
  <2>2. x \in Int /\ y \in Int
    BY <1>3, <1>4
  <2>3. n * (b - p) = x - y /\ a = y + r /\ a + 1 = x + t
    BY <2>1, <1>3, <1>4
  <2> HIDE DEF x, y
  <2> QED
    BY <2>2, <2>3, <1>4, <1>5
<1>7. b - p \in Int /\ r + 1 - t \in 2 - n .. n
  BY <1>3, <1>4, <1>5
<1>8. b - p = 0 \/ b - p = 1
  <2> DEFINE z == b - p
  <2>1. z \in Int /\ n * z <= n /\ n * z > -n
    BY <1>6, <1>7
  <2> HIDE DEF z
  <2>2. z < 2 /\ z > -1
    <3>1. z >= 2 => n * z >= n * 2
      BY <2>1, SMTT(10)
    <3>2. z <= -1 => n * z <= -n
      BY <2>1, SMTT(10)
    <3> QED
      BY <3>1, <3>2, <2>1
  <2> QED
    BY <2>1, <2>2 DEF z
<1>9. b - p = 0 => t = r + 1
  BY <1>4, <1>5, <1>6, SMTT(10)
<1>10. b - p = 1 => t = r + 1 - n
  <2> SUFFICES ASSUME b - p = 1 PROVE t = r + 1 - n
    OBVIOUS
  <2>1. n * 1 = r + 1 - t
    BY <1>6
  <2>2. n * 1 = n
    OBVIOUS
  <2> QED
    BY <2>1, <2>2, <1>4, <1>5
<1>11. t = IF r + 1 = n THEN 0 ELSE r + 1
  BY <1>4, <1>5, <1>8, <1>9, <1>10
<1> QED
  BY <1>1, <1>2, <1>11 DEF r, t

ChainDef(C) ==
    C = [n \in Nat |-> IF n = 0 THEN <<>> ELSE IF n = 1 THEN <<frames>>
                       ELSE Append(C[n - 1], next[C[n - 1][n - 1]])]

LEMMA ChainIs ==
  ASSUME NEW n \in Nat, n > 0, NEW q, Circle(n, q)
  PROVE  ChainDef(Chain)
<1> DEFINE F(i) == q[((i - 1) % n) + 1]
           C == [l \in Nat |-> [i \in 1 .. l |-> F(i)]]
<1>1. /\ q \in [1 .. n -> Cells] /\ frames = q[1]
      /\ \A i \in 1 .. n - 1 : next[q[i]] = q[i + 1]
      /\ next[q[n]] = q[1]
  BY DEF Circle, Linked
<1>2. \A i \in Nat \ {0} : F(i) \in Cells /\ F(i + 1) = next[F(i)]
  <2> SUFFICES ASSUME NEW i \in Nat \ {0} PROVE F(i) \in Cells /\ F(i + 1) = next[F(i)]
    OBVIOUS
  <2>1. i - 1 \in Nat /\ (i - 1) + 1 = i /\ (i + 1) - 1 = i /\ n \in Nat \ {0}
    OBVIOUS
  <2> DEFINE a == (i - 1) % n
             b == i % n
  <2>2. a \in 0 .. n - 1 /\ b = IF a + 1 = n THEN 0 ELSE a + 1
    BY <2>1, ModStep
  <2>3. F(i) = q[a + 1] /\ F(i + 1) = q[b + 1]
    BY <2>1
  <2> HIDE DEF a, b, F
  <2>4. a + 1 \in 1 .. n /\ a + 1 # n => a + 1 \in 1 .. n - 1
    BY <2>2
  <2>5. CASE a + 1 = n
    BY <2>5, <2>2, <2>3, <1>1
  <2>6. CASE a + 1 # n
    <3>1. a + 1 \in 1 .. n - 1 /\ a + 1 \in 1 .. n /\ b + 1 = (a + 1) + 1
      BY <2>2, <2>6
    <3> QED
      BY <3>1, <2>3, <1>1
  <2> QED
    BY <2>5, <2>6
<1>3. F(1) = frames
  <2>1. n \in Nat \ {0} /\ 0 \in Nat /\ 0 < n /\ 1 - 1 = 0
    OBVIOUS
  <2>2. 0 % n = 0
    BY <2>1, ModStep
  <2> QED
    BY <2>1, <2>2, <1>1
<1> HIDE DEF F
<1>4. \A l \in Nat : C[l] = [i \in 1 .. l |-> F(i)]
  OBVIOUS
<1>5. C = [l \in Nat |-> C[l]]
  OBVIOUS
<1> HIDE DEF C
<1>6. ASSUME NEW l \in Nat
      PROVE  C[l] = IF l = 0 THEN <<>> ELSE IF l = 1 THEN <<frames>>
                    ELSE Append(C[l - 1], next[C[l - 1][l - 1]])
  <2>1. CASE l = 0
    <3>1. C[l] = [i \in 1 .. 0 |-> F(i)]
      BY <2>1, <1>4
    <3> QED
      BY <3>1, <2>1
  <2>2. CASE l = 1
    <3>1. C[l] = [i \in 1 .. 1 |-> F(i)]
      BY <2>2, <1>4
    <3>2. \A i \in 1 .. 1 : F(i) = frames
      BY <1>3
    <3> QED
      BY <3>1, <3>2, <2>2
  <2>3. CASE l # 0 /\ l # 1
    <3>1. l - 1 \in Nat \ {0} /\ (l - 1) + 1 = l /\ l - 1 \in 1 .. l - 1
      BY <2>3
    <3>2. C[l - 1] = [i \in 1 .. l - 1 |-> F(i)] /\ C[l] = [i \in 1 .. l |-> F(i)]
      BY <3>1, <1>4
    <3>3. C[l - 1][l - 1] = F(l - 1)
      BY <3>1, <3>2
    <3>4. next[F(l - 1)] = F(l)
      BY <3>1, <1>2
    <3>5. C[l - 1] \in Seq(Cells) /\ Len(C[l - 1]) = l - 1
      <4>1. \A i \in 1 .. l - 1 : F(i) \in Cells
        BY <1>2
      <4> QED
        BY <4>1, <3>1, <3>2
    <3>6. Append(C[l - 1], F(l)) = [i \in 1 .. l |-> F(i)]
      <4> DEFINE u == C[l - 1]
                 x == F(l)
      <4>1. u \in Seq(Cells) /\ Len(u) = l - 1 /\ x \in Cells /\ \A i \in 1 .. l - 1 : u[i] = F(i)
        BY <3>2, <3>5, <1>2, <2>3
      <4> DEFINE v == [i \in 1 .. l |-> F(i)]
      <4>2. v \in Seq(Cells) /\ Len(v) = l
        BY <1>2
      <4> HIDE DEF u, x
      <4>3. /\ Append(u, x) \in Seq(Cells) /\ Len(Append(u, x)) = l
            /\ \A i \in 1 .. l : Append(u, x)[i] = IF i = l THEN x ELSE u[i]
        BY <4>1, <3>1
      <4>4. \A i \in 1 .. l : Append(u, x)[i] = v[i]
        BY <4>1, <4>3 DEF x
      <4> HIDE DEF v
      <4>5. Append(u, x) = v
        BY <4>2, <4>3, <4>4, SeqEqual
      <4> QED
        BY <4>5 DEF u, x, v
    <3> QED
      BY <3>2, <3>3, <3>4, <3>6, <2>3
  <2> QED
    BY <2>1, <2>2, <2>3
<1>7. C = [l \in Nat |-> IF l = 0 THEN <<>> ELSE IF l = 1 THEN <<frames>>
                         ELSE Append(C[l - 1], next[C[l - 1][l - 1]])]
  BY <1>5, <1>6
<1>8. \E D : D = [l \in Nat |-> IF l = 0 THEN <<>> ELSE IF l = 1 THEN <<frames>>
                         ELSE Append(D[l - 1], next[D[l - 1][l - 1]])]
  BY <1>7
<1> QED
  BY <1>8 DEF ChainDef, Chain

LEMMA QueuedIs ==
  ASSUME NEW n \in Nat, info.frames_cur = n, NEW q, Circle(n, q)
  PROVE  /\ Queued \in Seq(Cells) /\ Len(Queued) = n /\ \A i \in 1 .. n : Queued[i] = q[i]
         /\ InQueue = {q[i] : i \in 1 .. n}
<1>1. q \in [1 .. n -> Cells] /\ NULL \notin Cells
  BY Sizes DEF Circle
<1>2. Queued \in Seq(Cells) /\ Len(Queued) = n /\ \A i \in 1 .. n : Queued[i] = q[i]
  <2>1. CASE n = 0
    <3>1. frames = NULL
      BY <2>1 DEF Circle
    <3>2. Queued = <<>>
      BY <3>1 DEF Queued
    <3> QED
      BY <3>2, <2>1
  <2>2. CASE n # 0
    <3>1. n > 0 /\ 1 \in 1 .. n /\ frames = q[1]
      BY <2>2 DEF Circle
    <3>2. ChainDef(Chain)
      BY <3>1, ChainIs
    <3>3. \A l \in Nat : Chain[l] = IF l = 0 THEN <<>> ELSE IF l = 1 THEN <<frames>>
                                    ELSE Append(Chain[l - 1], next[Chain[l - 1][l - 1]])
      BY <3>2 DEF ChainDef
    <3> DEFINE Right(l) == /\ Chain[l] \in Seq(Cells) /\ Len(Chain[l]) = l
                           /\ \A i \in 1 .. l : Chain[l][i] = q[i]
               S == {l \in Nat : l < n => Right(l + 1)}
    <3>4. 0 \in S
      <4>1. Chain[1] = <<frames>>
        BY <3>3
      <4>2. Right(1)
        BY <4>1, <3>1, <1>1
      <4>3. 0 + 1 = 1
        OBVIOUS
      <4> HIDE DEF Right
      <4> QED
        BY <4>2, <4>3
    <3>5. ASSUME NEW l \in Nat, l \in S PROVE l + 1 \in S
      <4> SUFFICES ASSUME l + 1 < n PROVE Right((l + 1) + 1)
        OBVIOUS
      <4>1. Right(l + 1)
        BY <3>5
      <4> DEFINE k == l + 1
                 u == Chain[k]
                 x == next[u[k]]
      <4>2. k \in 1 .. n - 1 /\ k \in Nat /\ k + 1 \in 1 .. n /\ k \in 1 .. k
        OBVIOUS
      <4>3. u \in Seq(Cells) /\ Len(u) = k /\ \A i \in 1 .. k : u[i] = q[i]
        BY <4>1
      <4>4. Chain[k + 1] = Append(u, x)
        <5>1. k + 1 \in Nat /\ k + 1 # 0 /\ k + 1 # 1 /\ (k + 1) - 1 = k
          BY <4>2
        <5> QED
          BY <5>1, <3>3
      <4> HIDE DEF k
      <4>5. x = q[k + 1] /\ x \in Cells
        <5>1. u[k] = q[k]
          BY <4>2, <4>3
        <5>2. next[q[k]] = q[k + 1]
          BY <4>2 DEF Circle, Linked
        <5> QED
          BY <5>1, <5>2, <4>2, <1>1
      <4> HIDE DEF u, x
      <4>6. Append(u, x) \in Seq(Cells) /\ Len(Append(u, x)) = k + 1
        BY <4>2, <4>3, <4>5
      <4>7. \A i \in 1 .. k + 1 : Append(u, x)[i] = q[i]
        <5>1. \A i \in 1 .. k + 1 : Append(u, x)[i] = IF i = k + 1 THEN x ELSE u[i]
          BY <4>2, <4>3, <4>5
        <5>2. \A i \in 1 .. k + 1 : i # k + 1 => i \in 1 .. k
          BY <4>2
        <5> QED
          BY <5>1, <5>2, <4>3, <4>5
      <4>8. Right(k + 1)
        BY <4>4, <4>6, <4>7
      <4> QED
        BY <4>8 DEF k
    <3> HIDE DEF S, Right
    <3>6. Nat \subseteq S
      BY <3>4, <3>5, AllNumbers
    <3>7. Right(n)
      <4>1. n - 1 \in Nat /\ n - 1 < n /\ (n - 1) + 1 = n
        BY <3>1
      <4>2. n - 1 \in S
        BY <4>1, <3>6
      <4> QED
        BY <4>1, <4>2 DEF S
    <3>8. Queued = Chain[n]
      <4>1. frames # NULL
        BY <3>1, <1>1
      <4> QED
        BY <4>1 DEF Queued
    <3> QED
      BY <3>7, <3>8 DEF Right
  <2> QED
    BY <2>1, <2>2
<1>3. DOMAIN Queued = 1 .. n
  BY <1>2
<1> QED
  BY <1>2, <1>3 DEF InQueue, ToSet

(* ... and the free ones.                                                  *)
FreeDef(R) == R = [c \in Cells \cup {NULL} |-> IF c = NULL THEN {} ELSE {c} \cup R[next[c]]]

LEMMA FreeFromIs ==
  ASSUME PointersTyped
  PROVE  FreeDef(FreeFrom)
<1> DEFINE C == Cells \cup {NULL}
           Closed(S) == \A x \in S : x # NULL => next[x] \in S
           Reach(c) == {d \in Cells : \A S \in SUBSET C : Closed(S) /\ c \in S => d \in S}
           R == [c \in C |-> Reach(c)]
<1>1. Reach(NULL) = {}
  <2>1. Closed({NULL}) /\ {NULL} \in SUBSET C /\ NULL \notin Cells
    BY Sizes
  <2> QED
    BY <2>1
<1>2. ASSUME NEW c \in Cells PROVE Reach(c) = {c} \cup Reach(next[c])
  <2>1. next[c] \in C /\ c # NULL
    BY Sizes DEF PointersTyped
  <2>2. ASSUME NEW d \in Reach(c) PROVE d \in {c} \cup Reach(next[c])
    <3> SUFFICES ASSUME d # c, NEW S \in SUBSET C, Closed(S), next[c] \in S PROVE d \in S
      BY <2>2
    <3>1. Closed(S \cup {c}) /\ S \cup {c} \in SUBSET C
      OBVIOUS
    <3>2. d \in S \cup {c}
      BY <3>1, <2>2
    <3> QED
      BY <3>2
  <2>3. c \in Reach(c)
    OBVIOUS
  <2>4. ASSUME NEW d \in Reach(next[c]) PROVE d \in Reach(c)
    BY <2>1, <2>4
  <2> QED
    BY <2>2, <2>3, <2>4
<1> HIDE DEF Reach
<1>3. \A c \in C : R[c] = Reach(c)
  OBVIOUS
<1>4. R = [c \in C |-> R[c]]
  OBVIOUS
<1> HIDE DEF R
<1>5. ASSUME NEW c \in C PROVE R[c] = IF c = NULL THEN {} ELSE {c} \cup R[next[c]]
  <2>1. CASE c = NULL
    BY <2>1, <1>1, <1>3
  <2>2. CASE c # NULL
    <3>1. c \in Cells /\ next[c] \in C
      BY <2>2 DEF PointersTyped
    <3> QED
      BY <2>2, <3>1, <1>2, <1>3
  <2> QED
    BY <2>1, <2>2
<1>6. R = [c \in C |-> IF c = NULL THEN {} ELSE {c} \cup R[next[c]]]
  BY <1>4, <1>5
<1>7. \E D : D = [c \in C |-> IF c = NULL THEN {} ELSE {c} \cup D[next[c]]]
  BY <1>6
<1> QED
  BY <1>7 DEF FreeDef, FreeFrom

LEMMA FreeApart ==
  ASSUME PointersTyped, NEW n \in Nat, NEW m \in Nat, NEW q, NEW s, Lists(n, q, m, s)
  PROVE  FreeFrom[free] \cap {q[i] : i \in 1 .. n} = {}
<1>1. /\ s \in [1 .. m -> Cells] /\ free = (IF m = 0 THEN NULL ELSE s[m])
      /\ \A i \in 1 .. m : next[s[i]] = IF i = 1 THEN NULL ELSE s[i - 1]
      /\ \A i \in 1 .. n, j \in 1 .. m : q[i] # s[j]
  BY DEF Lists, Stack
<1>2. \A c \in Cells \cup {NULL} : FreeFrom[c] = IF c = NULL THEN {} ELSE {c} \cup FreeFrom[next[c]]
  BY FreeFromIs DEF FreeDef
<1>3. FreeFrom[NULL] = {}
  BY <1>2
<1> DEFINE F == {s[j] : j \in 1 .. m}
           S == {l \in Nat : l \in 1 .. m => FreeFrom[s[l]] \subseteq F}
<1>4. 0 \in S
  OBVIOUS
<1>5. ASSUME NEW l \in Nat, l \in S PROVE l + 1 \in S
  <2> SUFFICES ASSUME l + 1 \in 1 .. m PROVE FreeFrom[s[l + 1]] \subseteq F
    OBVIOUS
  <2>1. s[l + 1] \in Cells /\ s[l + 1] # NULL /\ s[l + 1] \in F
    BY <1>1, Sizes
  <2>2. FreeFrom[s[l + 1]] = {s[l + 1]} \cup FreeFrom[next[s[l + 1]]]
    BY <2>1, <1>2
  <2>3. CASE l = 0
    <3>1. next[s[l + 1]] = NULL
      BY <2>3, <1>1
    <3> QED
      BY <3>1, <2>1, <2>2, <1>3
  <2>4. CASE l # 0
    <3>1. l \in 1 .. m /\ l + 1 # 1 /\ (l + 1) - 1 = l
      BY <2>4
    <3>2. next[s[l + 1]] = s[l]
      BY <3>1, <1>1
    <3>3. FreeFrom[s[l]] \subseteq F
      BY <3>1, <1>5
    <3> QED
      BY <3>2, <3>3, <2>1, <2>2
  <2> QED
    BY <2>3, <2>4
<1> HIDE DEF S
<1>6. m \in S
  BY <1>4, <1>5, AllNumbers
<1>7. FreeFrom[free] \subseteq F
  <2>1. m # 0 => m \in 1 .. m
    OBVIOUS
  <2> QED
    BY <2>1, <1>1, <1>3, <1>6 DEF S
<1> QED
  BY <1>1, <1>7

(* So the invariant says what the run checks of the queue.                 *)
LEMMA ListsLinked ==
  ASSUME PointersTyped, NEW n \in Nat, NEW m \in Nat, info.frames_cur = n,
         NEW q, NEW s, Lists(n, q, m, s)
  PROVE  WellLinked
<1> DEFINE u == Queued
<1>1. /\ u \in Seq(Cells) /\ Len(u) = n /\ \A i \in 1 .. n : u[i] = q[i]
      /\ InQueue = {q[i] : i \in 1 .. n}
  BY QueuedIs DEF Lists
<1>2. /\ q \in [1 .. n -> Cells] /\ Distinct(n, q)
      /\ \A i \in 1 .. n - 1 : next[q[i]] = q[i + 1] /\ prev[q[i + 1]] = q[i]
      /\ n > 0 => next[q[n]] = q[1] /\ prev[q[1]] = q[n]
      /\ \A i, j \in 1 .. n : i < j => Comes(cell[q[i]], cell[q[j]])
  BY DEF Lists, Circle, Linked, InTime
<1>3. \A i \in 1 .. n : cell[q[i]].ts \in Int
  BY <1>2 DEF PointersTyped, CellType
<1> HIDE DEF u
<1>4. IsInjective(u)
  BY <1>1, <1>2 DEF IsInjective, Distinct
<1>5. NULL \notin InQueue
  BY <1>1, <1>2, Sizes
<1>6. ASSUME NEW k \in 1 .. Len(u)
      PROVE  next[u[k]] = u[(k % Len(u)) + 1] /\ prev[u[(k % Len(u)) + 1]] = u[k]
  <2>1. CASE k = n
    <3>1. n % n = 0
      <4>1. n - 1 \in Nat /\ n - 1 < n /\ (n - 1) + 1 = n /\ n \in Nat \ {0}
        BY <1>1, <2>1
      <4>2. (n - 1) % n = n - 1
        BY <4>1, ModStep
      <4>3. ((n - 1) + 1) % n = IF ((n - 1) % n) + 1 = n THEN 0 ELSE ((n - 1) % n) + 1
        BY <4>1, ModStep
      <4> QED
        BY <4>1, <4>2, <4>3
    <3>2. 1 \in 1 .. n /\ n \in 1 .. n /\ n > 0 /\ (k % Len(u)) + 1 = 1
      BY <1>1, <2>1, <3>1
    <3> QED
      BY <3>2, <2>1, <1>1, <1>2
  <2>2. CASE k # n
    <3>1. k \in 1 .. n - 1 /\ k \in Nat /\ k < n /\ n \in Nat \ {0} /\ k + 1 \in 1 .. n /\ k \in 1 .. n
      BY <1>1, <2>2
    <3>2. k % n = k
      BY <3>1, ModStep
    <3> QED
      BY <3>1, <3>2, <1>1, <1>2
  <2> QED
    BY <2>1, <2>2
<1>7. \A k \in 1 .. (Len(u) - 1) : cell[u[k]].ts <= cell[u[k + 1]].ts
  <2> SUFFICES ASSUME NEW k \in 1 .. n - 1 PROVE cell[u[k]].ts <= cell[u[k + 1]].ts
    BY <1>1
  <2>1. k \in 1 .. n /\ k + 1 \in 1 .. n /\ k < k + 1
    OBVIOUS
  <2>2. Comes(cell[q[k]], cell[q[k + 1]])
    BY <2>1, <1>2
  <2> QED
    BY <2>1, <2>2, <1>1, <1>3 DEF Comes
<1>8. FreeFrom[free] \cap InQueue = {}
  BY <1>1, FreeApart
<1> QED
  BY <1>1, <1>4, <1>5, <1>6, <1>7, <1>8 DEF WellLinked, u

LEMMA InvLinked == JitterInv => WellLinked
BY ListsLinked DEF JitterInv, QueueInv

LEMMA InvTyped == JitterInv => TypeOK
<1> SUFFICES ASSUME JitterInv PROVE TypeOK
  OBVIOUS
<1>1. now \in 0 .. MaxNow /\ info \in InfoType /\ arrived \in 0 .. MaxIn
  BY DEF JitterInv, InfoInv
<1>2. DOMAIN info = DOMAIN FreshInfo
  BY <1>1 DEF InfoType, FreshInfo
<1>3. \A f \in DOMAIN info : info[f] \in Int
  BY <1>1 DEF InfoType
<1>4. history \in [Slots -> Int] /\ hist_ptr \in 0 .. MaxIn
  BY <1>1, Sizes DEF JitterInv, HistInv
<1>5. /\ hist_maxbuf \in [1 .. MAXBUF_SZ -> Int] /\ hist_minbuf \in [1 .. MAXBUF_SZ -> Int]
      /\ hist_maxbuf_valid \in BOOLEAN
  BY DEF JitterInv, HistInv
<1>6. /\ next \in [Cells -> Cells \cup {NULL}] /\ prev \in [Cells -> Cells \cup {NULL}]
      /\ cell \in [Cells -> CellType]
  BY DEF JitterInv, QueueInv, PointersTyped
<1>7. PICK n, m \in Nat : info.frames_cur = n /\ \E q, s : Lists(n, q, m, s)
  BY DEF JitterInv, QueueInv
<1>8. PICK q, s : Lists(n, q, m, s)
  BY <1>7
<1>9. frames \in Cells \cup {NULL}
  BY <1>8 DEF Lists, Circle
<1>10. free \in Cells \cup {NULL}
  BY <1>8 DEF Lists, Stack
<1> QED
  BY <1>1, <1>2, <1>3, <1>4, <1>5, <1>6, <1>7, <1>9, <1>10 DEF TypeOK, CellType
-----------------------------------------------------------------------------
(* Every step does one of five things to the queue.                        *)

(* What jb_next reads of info is as before. *)
AsNext(i, j) ==
    /\ j.next_voice_ts = i.next_voice_ts /\ j.silence_begin_ts = i.silence_begin_ts
    /\ j.target = i.target /\ j.current = i.current
    /\ j.last_adjustment = i.last_adjustment

Booked(i, j, count, offset) ==
    /\ j \in InfoType /\ j.frames_cur = count /\ j.resync_offset = offset
    /\ AsNext(i, j)

Puts(e) ==
    /\ e \in CellType /\ e.data = arrived + 1 /\ arrived' = arrived + 1
    /\ QueuePut(e)
    /\ info'.frames_cur = info.frames_cur + 1 /\ AsNext(info, info')
Refuses ==
    /\ arrived' = arrived + 1 /\ UNCHANGED queue /\ info'.frames_cur = info.frames_cur
    /\ ret' = [code |-> "DROP", data |-> arrived + 1]
Takes(code) ==
    /\ code \in {"OK", "DROP"} /\ frames # NULL
    /\ code = "DROP" => First.type = "voice"
    /\ ret' = [code |-> code, data |-> First.data]
    /\ arrived' = arrived /\ Unlink /\ info'.frames_cur = info.frames_cur - 1
Holds ==
    /\ arrived' = arrived /\ UNCHANGED queue /\ info'.frames_cur = info.frames_cur
    /\ ret'.code \in {"none", "INTERP", "NOFRAME"}
Flushes ==
    /\ arrived' = arrived /\ PointersTyped' /\ frames' = NULL /\ free' = NULL
    /\ info'.frames_cur = 0 /\ ret'.code = "FLUSH"
Changes == (\E e : Puts(e)) \/ Refuses \/ (\E code : Takes(code)) \/ Holds \/ Flushes

LEMMA BookedOnce ==
  ASSUME NEW i, NEW j, NEW count, NEW offset, Booked(i, j, count, offset), NEW t \in Int
  PROVE  /\ Booked(i, [j EXCEPT !.last_delay = t], count, offset)
         /\ Booked(i, [j EXCEPT !.cnt_delay_discont = t], count, offset)
         /\ Booked(i, [j EXCEPT !.resync_offset = t], count, t)
         /\ Booked(i, [j EXCEPT !.frames_cur = t], t, offset)
<1>1. Booked(i, [j EXCEPT !.last_delay = t], count, offset)
  BY DEF Booked, InfoType, AsNext
<1>2. Booked(i, [j EXCEPT !.cnt_delay_discont = t], count, offset)
  BY DEF Booked, InfoType, AsNext
<1>3. Booked(i, [j EXCEPT !.resync_offset = t], count, t)
  BY DEF Booked, InfoType, AsNext
<1>4. Booked(i, [j EXCEPT !.frames_cur = t], t, offset)
  BY DEF Booked, InfoType, AsNext
<1> QED
  BY <1>1, <1>2, <1>3, <1>4

LEMMA ScheduleDoes ==
  ASSUME JitterInv, NEW type \in Types, NEW ms \in Nat, NEW d \in Delays,
         schedule_delivery(type, ms, now - d)
  PROVE  /\ HistInv' /\ InfoInv' /\ arrived' \in 0 .. MaxIn
         /\ Refuses \/ \E e : Puts(e)
         /\ Refuses => type = "voice"
<1> DEFINE ts == now - d
           off == info.resync_offset
           n == info.frames_cur
<1>1. /\ HistInv /\ info \in InfoType /\ off \in Offsets /\ off \in Int /\ n \in Int
      /\ now \in 0 .. MaxNow /\ now \in Int /\ arrived \in 0 .. MaxIn /\ arrived \in Nat
      /\ info.cnt_delay_discont \in Int
  <2>1. HistInv /\ InfoInv /\ arrived \in 0 .. MaxIn
    BY DEF JitterInv
  <2> QED
    BY <2>1, Sizes DEF InfoInv, InfoType
<1>2. d \in Int /\ ts \in Int /\ ts - off \in Int
  BY <1>1, SizesAssumption
<1>3. Delay(ts) = d + off
  BY <1>1, <1>2 DEF Delay
<1>4. /\ Delay(ts) \in Int /\ LONGMIN < Delay(ts) /\ Delay(ts) < LONGMAX
  BY <1>1, <1>3, DelaysInside
<1>5. Booked(info, info, n, off)
  BY <1>1 DEF Booked, AsNext
<1>6. /\ arrived < MaxIn /\ arrived' = arrived + 1 /\ now' = now
      /\ arrived' \in 0 .. MaxIn
  BY <1>1, Sizes DEF schedule_delivery
<1>7. ASSUME NEW t \in Int PROVE Event(type, ms, t) \in CellType /\ Event(type, ms, t).data = arrived + 1
  BY <1>1, <1>6, Sizes DEF Event, CellType
<1>8. n + 1 \in Int
  BY <1>1
<1>9. 0 \in Int
  OBVIOUS
<1>10. ASSUME NEW t \in Offsets, NEW c, Booked(info, info', c, t) PROVE InfoInv'
  BY <1>10, <1>1, <1>6 DEF Booked, InfoInv, Offsets
<1>11. ASSUME NEW e \in CellType, e.data = arrived + 1, QueuePut(e), NEW o, Booked(info, info', n + 1, o)
       PROVE  Puts(e)
  BY <1>6, <1>11 DEF Puts, Booked
<1>12. ASSUME NEW e, QueuePut(e), e.data = arrived + 1, Refuses PROVE FALSE
  <2>1. ret'.code # "DROP"
    BY <1>12 DEF QueuePut, Returned
  <2> QED
    BY <2>1, <1>12 DEF Refuses
<1> HIDE DEF ts, off, n
<1>13. CASE PutRefused(type, ts)
  <2>1. info' = [info EXCEPT !.cnt_delay_discont = info.cnt_delay_discont + 1]
    BY <1>13 DEF PutRefused
  <2>2. info.cnt_delay_discont + 1 \in Int
    BY <1>1
  <2>3. Booked(info, info', n, off)
    BY <1>5, <2>1, <2>2, BookedOnce
  <2>4. Refuses /\ type = "voice"
    BY <1>6, <1>13, <2>3 DEF Refuses, PutRefused, Returned, Counted, Booked, n
  <2>5. HistInv'
    BY <1>1, <1>6, <1>13, HistSame DEF PutRefused
  <2> QED
    BY <1>1, <1>6, <1>10, <2>3, <2>4, <2>5
<1>14. CASE PutResynced(type, ms, ts)
  <2>1. info' = [info EXCEPT !.cnt_delay_discont = 0, !.last_delay = 0,
                             !.resync_offset = ts - now, !.frames_cur = n + 1]
    BY <1>14 DEF PutResynced, n
  <2>2. ts - now \in Int /\ ts - now \in Offsets
    <3>1. ts - now = -d
      BY <1>1, <1>2 DEF ts
    <3> QED
      BY <3>1, <1>2 DEF Offsets
  <2>3. Booked(info, info', n + 1, ts - now)
    <3> PICK z \in Int : z = 0
      BY <1>9
    <3> DEFINE i1 == [info EXCEPT !.cnt_delay_discont = z]
               i2 == [i1 EXCEPT !.last_delay = z]
               i3 == [i2 EXCEPT !.resync_offset = ts - now]
               i4 == [i3 EXCEPT !.frames_cur = n + 1]
    <3>1. Booked(info, i1, n, off)
      BY <1>5, BookedOnce
    <3> HIDE DEF i1
    <3>2. Booked(info, i2, n, off)
      BY <3>1, BookedOnce
    <3> HIDE DEF i2
    <3>3. Booked(info, i3, n, ts - now)
      BY <3>2, <2>2, BookedOnce
    <3> HIDE DEF i3
    <3>4. Booked(info, i4, n + 1, ts - now)
      BY <3>3, <1>8, BookedOnce
    <3>5. info' = i4
      BY <2>1 DEF i1, i2, i3, i4
    <3> HIDE DEF i4
    <3> QED
      BY <3>4, <3>5
  <2>4. PICK e : e = Event(type, ms, now)
    OBVIOUS
  <2>5. e \in CellType /\ e.data = arrived + 1 /\ QueuePut(e)
    BY <1>1, <1>7, <1>14, <2>4 DEF PutResynced
  <2>6. HistInv'
    BY <1>1, <1>6, <1>14, ResyncKeeps DEF PutResynced
  <2> QED
    BY <1>6, <1>10, <1>11, <1>12, <2>2, <2>3, <2>5, <2>6
<1>15. CASE PutCounted(type, ms, ts)
  <2>1. info' = IF resync_threshold = -1 THEN [info EXCEPT !.frames_cur = n + 1]
                ELSE [info EXCEPT !.last_delay = Delay(ts), !.cnt_delay_discont = 0,
                                  !.frames_cur = n + 1]
    BY <1>15 DEF PutCounted, n
  <2>2. Booked(info, info', n + 1, off)
    <3> PICK z \in Int : z = 0
      BY <1>9
    <3> DEFINE i1 == [info EXCEPT !.last_delay = Delay(ts)]
               i2 == [i1 EXCEPT !.cnt_delay_discont = z]
               i3 == [i2 EXCEPT !.frames_cur = n + 1]
    <3>1. Booked(info, i1, n, off)
      BY <1>4, <1>5, BookedOnce
    <3> HIDE DEF i1
    <3>2. Booked(info, i2, n, off)
      BY <3>1, BookedOnce
    <3> HIDE DEF i2
    <3>3. Booked(info, i3, n + 1, off)
      BY <3>2, <1>8, BookedOnce
    <3>4. resync_threshold # -1 => info' = i3
      BY <2>1 DEF i1, i2, i3
    <3> HIDE DEF i3
    <3>5. Booked(info, [info EXCEPT !.frames_cur = n + 1], n + 1, off)
      BY <1>5, <1>8, BookedOnce
    <3> QED
      BY <2>1, <3>3, <3>4, <3>5
  <2>3. PICK e : e = Event(type, ms, ts - off)
    OBVIOUS
  <2>4. e \in CellType /\ e.data = arrived + 1 /\ QueuePut(e)
    BY <1>2, <1>7, <1>15, <2>3 DEF PutCounted, off
  <2>5. HistInv'
    BY <1>1, <1>4, <1>6, <1>15, RememberKeeps DEF PutCounted
  <2> QED
    BY <1>1, <1>6, <1>10, <1>11, <1>12, <2>2, <2>4, <2>5
<1>16. CASE PutUncounted(type, ms, ts)
  <2>1. info' = [info EXCEPT !.frames_cur = n + 1]
    BY <1>16 DEF PutUncounted, n
  <2>2. Booked(info, info', n + 1, off)
    BY <1>5, <1>8, <2>1, BookedOnce
  <2>3. PICK e : e = Event(type, ms, ts - off)
    OBVIOUS
  <2>4. e \in CellType /\ e.data = arrived + 1 /\ QueuePut(e)
    BY <1>2, <1>7, <1>16, <2>3 DEF PutUncounted, off
  <2>5. HistInv'
    BY <1>1, <1>6, <1>16, HistSame DEF PutUncounted
  <2> QED
    BY <1>1, <1>6, <1>10, <1>11, <1>12, <2>2, <2>4, <2>5
<1> QED
  BY <1>13, <1>14, <1>15, <1>16 DEF schedule_delivery, ts

LEMMA ZeroHistory ==
  /\ [i \in Slots |-> 0] \in [Slots -> Int] /\ Zeroes \in [1 .. MAXBUF_SZ -> Int]
  /\ \A i \in Slots : LONGMIN < [j \in Slots |-> 0][i] /\ [j \in Slots |-> 0][i] < LONGMAX
BY Sizes DEF Zeroes

LEMMA FreshTyped == FreshInfo \in InfoType /\ FreshInfo.frames_cur = 0 /\ FreshInfo.resync_offset = 0
BY Settings DEF FreshInfo, InfoType

LEMMA RestartDoes ==
  ASSUME JitterInv, Restart
  PROVE  HistInv' /\ InfoInv' /\ arrived' \in 0 .. MaxIn /\ Flushes
<1>1. arrived \in 0 .. MaxIn /\ arrived' = arrived
  BY DEF JitterInv, Restart
<1>2. HistInv'
  <2>1. /\ history' = [i \in Slots |-> 0] /\ hist_ptr' = 0 /\ hist_maxbuf' = Zeroes
        /\ hist_minbuf' = Zeroes /\ hist_maxbuf_valid' = FALSE /\ arrived' \in Nat
    BY <1>1 DEF Restart
  <2>2. history' \in [Slots -> Int] /\ \A i \in Slots : LONGMIN < history'[i] /\ history'[i] < LONGMAX
    BY <2>1, ZeroHistory
  <2>3. hist_maxbuf' \in [1 .. MAXBUF_SZ -> Int] /\ hist_minbuf' \in [1 .. MAXBUF_SZ -> Int]
    BY <2>1, ZeroHistory
  <2>4. Zeroes' = Zeroes
    BY DEF Zeroes
  <2>5. hist_ptr' \in Nat /\ hist_ptr' <= arrived' /\ hist_maxbuf_valid' \in BOOLEAN
    <3>1. hist_ptr' = 0 /\ arrived' \in Int /\ 0 <= arrived'
      BY <1>1, <2>1, Sizes
    <3>2. hist_maxbuf_valid' \in BOOLEAN
      BY <2>1, Zenon
    <3> QED
      BY <3>1, <3>2
  <2>6. ~hist_maxbuf_valid' /\ hist_maxbuf' = Zeroes' /\ hist_minbuf' = Zeroes'
    BY <2>1, <2>4
  <2> QED
    BY <2>2, <2>3, <2>5, <2>6 DEF HistInv
<1>3. InfoInv'
  <2>1. info' = FreshInfo /\ now' = 0
    BY DEF Restart
  <2> QED
    BY <2>1, FreshTyped, Sizes DEF InfoInv, Offsets
<1>4. NoFrame \in CellType
  BY Sizes DEF NoFrame, CellType, Types
<1>5. PointersTyped'
  BY <1>4 DEF PointersTyped, Restart
<1> QED
  BY <1>1, <1>2, <1>3, <1>5, FreshTyped DEF Flushes, Restart, Returned

LEMMA GetDoes ==
  ASSUME JitterInv, jb_get
  PROVE  HistInv' /\ InfoInv' /\ arrived' = arrived /\ (Holds \/ \E code : Takes(code))
<1>1. HistInv /\ InfoInv /\ QueueInv /\ TypeOK
  BY InvTyped DEF JitterInv
<1>2. arrived' = arrived /\ now' = now /\ Measure
  BY DEF jb_get
<1>3. PICK i : Polled(i) /\ (Nothing(i) \/ \E code : Leaves(i, code))
  BY <1>1, PollDoes DEF QueueInv, PointersTyped, TypeOK
<1>4. HistInv'
  BY <1>1, <1>2, MeasureKeeps
<1>5. i \in InfoType /\ i.frames_cur = info.frames_cur /\ i.resync_offset = info.resync_offset
  BY <1>3 DEF Polled
<1>6. CASE Nothing(i)
  BY <1>1, <1>2, <1>4, <1>5, <1>6 DEF Nothing, Holds, InfoInv, Offsets
<1>7. ASSUME NEW code, Leaves(i, code) PROVE InfoInv' /\ Takes(code)
  <2>1. info' = [i EXCEPT !.frames_cur = i.frames_cur - 1]
    BY <1>7 DEF Leaves, Got
  <2>2. info' \in InfoType /\ info'.frames_cur = i.frames_cur - 1 /\ info'.resync_offset = i.resync_offset
    <3>1. i.frames_cur - 1 \in Int
      BY <1>5 DEF InfoType
    <3> QED
      BY <1>5, <2>1, <3>1 DEF InfoType
  <2>3. InfoInv'
    BY <1>1, <1>2, <1>5, <2>2 DEF InfoInv, Offsets
  <2> QED
    BY <1>2, <1>5, <1>7, <2>2, <2>3 DEF Leaves, Got, Takes, Due, Returned
<1> QED
  BY <1>2, <1>3, <1>4, <1>6, <1>7

LEMMA GetinfoDoes ==
  ASSUME JitterInv, jb_getinfo
  PROVE  HistInv' /\ InfoInv' /\ arrived' = arrived /\ Holds
<1>1. HistInv /\ InfoInv
  BY DEF JitterInv
<1>2. HistInv'
  BY <1>1, MeasureKeeps DEF jb_getinfo
<1>3. Jitter \in Int /\ LeastDelay \in Int
  BY <1>1, JitterNotNegative
<1> DEFINE i == [info EXCEPT !.jitter = Jitter, !.min = LeastDelay]
<1>4. i \in InfoType /\ i.frames_cur = info.frames_cur /\ i.resync_offset = info.resync_offset
  BY <1>1, <1>3 DEF InfoInv, InfoType
<1>5. info' = i /\ now' = now /\ arrived' = arrived /\ UNCHANGED queue /\ ret'.code = "none"
  BY DEF jb_getinfo, Returned
<1> HIDE DEF i
<1> QED
  BY <1>1, <1>2, <1>4, <1>5 DEF InfoInv, Offsets, Holds

LEMMA NextDoes ==
  ASSUME JitterInv, Next
  PROVE  HistInv' /\ InfoInv' /\ arrived' \in 0 .. MaxIn /\ Changes
<1>1. HistInv /\ InfoInv /\ arrived \in 0 .. MaxIn
  BY DEF JitterInv
<1>2. ASSUME NEW type \in Types, NEW d \in Delays,
             NEW ms \in IF type = "voice" THEN Spans ELSE {0},
             schedule_delivery(type, ms, now - d)
      PROVE  HistInv' /\ InfoInv' /\ arrived' \in 0 .. MaxIn /\ Changes
  <2>1. ms \in Nat
    BY SizesAssumption
  <2> QED
    BY <1>2, <2>1, ScheduleDoes DEF Changes
<1>3. CASE jb_get
  BY <1>1, <1>3, GetDoes DEF Changes
<1>4. CASE jb_getinfo
  BY <1>1, <1>4, GetinfoDoes DEF Changes
<1>5. CASE Restart
  BY <1>5, RestartDoes DEF Changes
<1>6. CASE Tick
  <2>1. /\ now < MaxNow /\ now' = now + 1 /\ info' = info /\ UNCHANGED hist
        /\ UNCHANGED queue /\ arrived' = arrived /\ ret'.code = "none"
    BY <1>6 DEF Tick, Returned
  <2>2. HistInv'
    BY <1>1, <2>1, HistSame
  <2>3. InfoInv'
    BY <1>1, <2>1, Sizes DEF InfoInv, Offsets
  <2> QED
    BY <1>1, <2>1, <2>2, <2>3 DEF Changes, Holds
<1> QED
  BY <1>2, <1>3, <1>4, <1>5, <1>6 DEF Next

(* Each of them keeps the two lists whole.                                 *)
LEMMA ChangesKeep ==
  ASSUME JitterInv, Changes
  PROVE  QueueInv'
<1>1. PointersTyped /\ arrived \in Nat
  BY Sizes DEF JitterInv, QueueInv
<1>2. PICK n, m \in Nat : info.frames_cur = n /\ \E q, s : Lists(n, q, m, s)
  BY DEF JitterInv, QueueInv
<1>3. PICK q, s : Lists(n, q, m, s)
  BY <1>2
<1>4. ASSUME NEW k \in Nat, NEW l \in Nat, NEW r, NEW t, Lists(k, r, l, t)', info'.frames_cur = k,
             PointersTyped'
      PROVE  QueueInv'
  BY <1>4 DEF QueueInv
<1>5. ASSUME NEW e, Puts(e) PROVE QueueInv'
  <2>1. /\ PointersTyped'
        /\ \E c \in Cells, k \in 1 .. n + 1 :
              /\ \A i \in 1 .. n : q[i] # c
              /\ cell' = [cell EXCEPT ![c] = e]
              /\ frames # NULL /\ e.ts >= QueueNext => n > 0 /\ k # 1
              /\ \E l \in Nat : \E t : Lists(n + 1, Into(n, q, k, c), l, t)'
    BY <1>1, <1>3, <1>5, PutLists DEF Puts
  <2>2. PICK c \in Cells, k \in 1 .. n + 1 : \E l \in Nat : \E t : Lists(n + 1, Into(n, q, k, c), l, t)'
    BY <2>1
  <2>3. PICK l \in Nat : \E t : Lists(n + 1, Into(n, q, k, c), l, t)'
    BY <2>2
  <2>4. PICK t : Lists(n + 1, Into(n, q, k, c), l, t)'
    BY <2>3
  <2>5. info'.frames_cur = n + 1 /\ n + 1 \in Nat
    BY <1>2, <1>5 DEF Puts
  <2> QED
    BY <1>4, <2>1, <2>4, <2>5
<1>6. CASE Refuses
  <2>1. PointersTyped' /\ Lists(n, q, m, s)'
    BY <1>1, <1>3, <1>6, ListsSame DEF Refuses
  <2> QED
    BY <1>2, <1>4, <1>6, <2>1 DEF Refuses
<1>7. ASSUME NEW code, Takes(code) PROVE QueueInv'
  <2>1. PointersTyped' /\ n > 0 /\ \E t : Lists(n - 1, Rest(n, q), m + 1, t)'
    BY <1>1, <1>3, <1>7, GetLists DEF Takes
  <2>2. PICK t : Lists(n - 1, Rest(n, q), m + 1, t)'
    BY <2>1
  <2>3. info'.frames_cur = n - 1 /\ n - 1 \in Nat /\ m + 1 \in Nat
    BY <1>2, <1>7, <2>1 DEF Takes
  <2> QED
    BY <1>4, <2>1, <2>2, <2>3
<1>8. CASE Holds
  <2>1. PointersTyped' /\ Lists(n, q, m, s)'
    BY <1>1, <1>3, <1>8, ListsSame DEF Holds
  <2> QED
    BY <1>2, <1>4, <1>8, <2>1 DEF Holds
<1>9. CASE Flushes
  <2>1. frames' = NULL /\ free' = NULL /\ PointersTyped' /\ info'.frames_cur = 0
    BY <1>9 DEF Flushes
  <2>2. Lists(0, <<>>, 0, <<>>)'
    BY <2>1 DEF Lists, Circle, Stack, Distinct, InTime, Arrivals
  <2>3. 0 \in Nat
    OBVIOUS
  <2> QED
    BY <1>4, <2>1, <2>2, <2>3
<1> QED
  BY <1>5, <1>6, <1>7, <1>8, <1>9 DEF Changes

LEMMA JitterInit == Init => JitterInv
<1> SUFFICES ASSUME Init PROVE JitterInv
  OBVIOUS
<1>1. arrived = 0 /\ arrived \in 0 .. MaxIn
  BY Sizes DEF Init
<1>2. HistInv
  <2>1. /\ history \in [Slots -> Int]
        /\ \A i \in Slots : LONGMIN < history[i] /\ history[i] < LONGMAX
    BY ZeroHistory DEF Init
  <2>2. hist_maxbuf \in [1 .. MAXBUF_SZ -> Int] /\ hist_minbuf \in [1 .. MAXBUF_SZ -> Int]
    BY ZeroHistory DEF Init
  <2>3. /\ hist_ptr = 0 /\ hist_maxbuf_valid = FALSE
        /\ hist_maxbuf = Zeroes /\ hist_minbuf = Zeroes
    BY DEF Init
  <2>4. hist_ptr \in Nat /\ hist_ptr <= arrived /\ hist_maxbuf_valid \in BOOLEAN
    <3>1. hist_ptr = 0 /\ arrived \in Int /\ 0 <= arrived
      BY <1>1, <2>3, Sizes
    <3>2. hist_maxbuf_valid \in BOOLEAN
      BY <2>3, Zenon
    <3> QED
      BY <3>1, <3>2
  <2>5. ~hist_maxbuf_valid /\ hist_maxbuf = Zeroes /\ hist_minbuf = Zeroes
    BY <2>3
  <2> QED
    BY <2>1, <2>2, <2>4, <2>5 DEF HistInv
<1>3. info = FreshInfo /\ now = 0 /\ frames = NULL /\ free = NULL
  BY DEF Init
<1>4. InfoInv
  BY <1>3, FreshTyped, Sizes DEF InfoInv, Offsets
<1>5. NoFrame \in CellType
  BY Sizes DEF NoFrame, CellType, Types
<1>6. PointersTyped
  BY <1>5 DEF PointersTyped, Init
<1>7. Lists(0, <<>>, 0, <<>>)
  BY <1>3, ListsEmpty
<1>8. QueueInv
  <2>1. 0 \in Nat /\ info.frames_cur = 0
    BY <1>3, FreshTyped
  <2> QED
    BY <1>6, <1>7, <2>1 DEF QueueInv
<1> QED
  BY <1>1, <1>2, <1>4, <1>8 DEF JitterInv

LEMMA JitterNext == JitterInv /\ [Next]_vars => JitterInv'
<1> SUFFICES ASSUME JitterInv, [Next]_vars PROVE JitterInv'
  OBVIOUS
<1>1. CASE Next
  <2>1. HistInv' /\ InfoInv' /\ arrived' \in 0 .. MaxIn /\ Changes
    BY <1>1, NextDoes
  <2> QED
    BY <2>1, ChangesKeep DEF JitterInv
<1>2. CASE UNCHANGED vars
  <2>1. /\ UNCHANGED hist /\ UNCHANGED queue /\ arrived' = arrived /\ info' = info /\ now' = now
        /\ HistInv /\ InfoInv /\ arrived \in 0 .. MaxIn /\ arrived \in Nat
    BY <1>2, Sizes DEF vars, JitterInv
  <2>2. HistInv'
    BY <2>1, HistSame
  <2>3. InfoInv'
    BY <2>1 DEF InfoInv, Offsets
  <2>4. QueueInv'
    <3>1. PointersTyped
      BY DEF JitterInv, QueueInv
    <3>2. PICK n, m \in Nat : info.frames_cur = n /\ \E q, s : Lists(n, q, m, s)
      BY DEF JitterInv, QueueInv
    <3>3. PICK q, s : Lists(n, q, m, s)
      BY <3>2
    <3>4. PointersTyped' /\ Lists(n, q, m, s)'
      BY <2>1, <3>1, <3>3, ListsSame
    <3> QED
      BY <2>1, <3>2, <3>4 DEF QueueInv
  <2> QED
    BY <2>1, <2>2, <2>3, <2>4 DEF JitterInv
<1> QED
  BY <1>1, <1>2

(* jb_put's promise, step by step.                                         *)
LEMMA NextStays ==
  ASSUME JitterInv, NEW e, Puts(e), ret'.code = "OK"
  PROVE  jb_next' = jb_next
<1>1. PointersTyped /\ arrived \in Nat
  BY Sizes DEF JitterInv, QueueInv
<1>2. PICK n, m \in Nat : info.frames_cur = n /\ \E q, s : Lists(n, q, m, s)
  BY DEF JitterInv, QueueInv
<1>3. PICK q, s : Lists(n, q, m, s)
  BY <1>2
<1>4. QueuePut(e) /\ AsNext(info, info') /\ e \in CellType
  BY DEF Puts
<1>5. ~IsHead(e.ts)
  BY <1>4 DEF QueuePut, Returned
<1>6. frames # NULL /\ ~(e.ts < QueueNext) /\ frames' = frames
  BY <1>4, <1>5 DEF IsHead, QueuePut
<1>7. PICK c \in Cells : (\A i \in 1 .. n : q[i] # c) /\ cell' = [cell EXCEPT ![c] = e]
  BY <1>1, <1>3, PutLists DEF Puts
<1>8. n > 0 /\ frames = q[1] /\ 1 \in 1 .. n
  BY <1>3, <1>6 DEF Lists, Circle
<1>9. frames \in Cells /\ frames # c
  BY <1>3, <1>7, <1>8 DEF Lists, Circle
<1>10. cell'[frames] = cell[frames]
  BY <1>1, <1>7, <1>9 DEF PointersTyped
<1>11. QueueNext' = QueueNext
  BY <1>6, <1>10 DEF QueueNext
<1> QED
  BY <1>4, <1>11 DEF jb_next, Silent, AsNext

LEMMA NextStaysValid ==
  ASSUME JitterInv, [Next]_vars
  PROVE  arrived' # arrived /\ ret'.code = "OK" => jb_next' = jb_next
<1> SUFFICES ASSUME arrived' # arrived, ret'.code = "OK" PROVE jb_next' = jb_next
  OBVIOUS
<1>1. Next
  BY DEF vars
<1>2. Changes
  BY <1>1, NextDoes
<1>3. ~Refuses
  BY DEF Refuses
<1>4. \E e : Puts(e)
  BY <1>2, <1>3 DEF Changes, Takes, Holds, Flushes
<1> QED
  BY <1>4, NextStays
-----------------------------------------------------------------------------
(* Each change of the queue is a step of Playout.                          *)

Shown(c) == [data |-> cell[c].data, ts |-> cell[c].ts, type |-> cell[c].type]
Shows == {Shown(c) : c \in InQueue}
Outcome == IF ret.code \in {"OK", "DROP"} /\ ret.data \notin {cell[c].data : c \in InQueue}
           THEN [how |-> Fate(ret.code), data |-> ret.data]
           ELSE IF ret.code = "FLUSH" THEN [how |-> "flushed", data |-> 0]
           ELSE [how |-> "none", data |-> 0]
PlaysOn == [Events!PlayoutNext]_(Events!playVars)

QueueShown ==
    \A n \in Nat : \A q : info.frames_cur = n /\ Circle(n, q) => InQueue = {q[i] : i \in 1 .. n}

LEMMA QueueHolds == QueueShown
BY QueuedIs DEF QueueShown

LEMMA QueueHoldsNext == QueueShown'
BY QueueHolds, PTL

LEMMA PutPlays ==
  ASSUME JitterInv, NEW e, Puts(e)
  PROVE  PlaysOn
<1>1. PointersTyped /\ arrived \in Nat
  BY Sizes DEF JitterInv, QueueInv
<1>2. PICK n, m \in Nat : info.frames_cur = n /\ \E q, s : Lists(n, q, m, s)
  BY DEF JitterInv, QueueInv
<1>3. PICK q, s : Lists(n, q, m, s)
  BY <1>2
<1>4. PICK c \in Cells, k \in 1 .. n + 1 :
         /\ \A i \in 1 .. n : q[i] # c
         /\ cell' = [cell EXCEPT ![c] = e]
         /\ \E l \in Nat : \E t : Lists(n + 1, Into(n, q, k, c), l, t)'
  BY <1>1, <1>3, PutLists DEF Puts
<1> DEFINE r == Into(n, q, k, c)
<1>5. q \in [1 .. n -> Cells] /\ Distinct(n, q) /\ InQueue = {q[i] : i \in 1 .. n}
  BY <1>2, <1>3, QueueHolds DEF QueueShown, Lists, Circle
<1>6. Placed(n, q, k, c, r)
  BY <1>4, <1>5, IntoIs
<1>7. PICK l \in Nat : \E t : Lists(n + 1, r, l, t)'
  BY <1>4
<1>8. Circle(n + 1, r)'
  BY <1>7 DEF Lists
<1> HIDE DEF r
<1>9. InQueue' = {r[i] : i \in 1 .. n + 1}
  <2>1. (\A j \in Nat : \A p : info.frames_cur = j /\ Circle(j, p) => InQueue = {p[i] : i \in 1 .. j})'
    BY QueueHoldsNext DEF QueueShown
  <2>2. info'.frames_cur = n + 1 /\ n + 1 \in Nat
    BY <1>2 DEF Puts
  <2> QED
    BY <1>8, <2>1, <2>2
<1>10. InQueue' = InQueue \cup {c} /\ c \notin InQueue
  <2>1. \A i \in 1 .. n + 1 : r[i] = c \/ \E j \in 1 .. n : r[i] = q[j]
    BY <1>6 DEF Placed
  <2>2. r[k] = c /\ k \in 1 .. n + 1 /\ \A i \in 1 .. n : \E j \in 1 .. n + 1 : r[j] = q[i]
    BY <1>6 DEF Placed
  <2> QED
    BY <1>4, <1>5, <1>9, <2>1, <2>2
<1>11. InQueue \subseteq Cells
  BY <1>5
<1>12. cell'[c] = e /\ \A d \in InQueue : cell'[d] = cell[d]
  BY <1>1, <1>4, <1>10, <1>11 DEF PointersTyped
<1> PICK t, y : t = e.ts /\ y = e.type
  OBVIOUS
<1> DEFINE w == [data |-> arrived + 1, ts |-> t, type |-> y]
<1>13. e \in CellType /\ e.data = arrived + 1 /\ arrived' = arrived + 1
  BY DEF Puts
<1>14. Shows' = Shows \cup {w}
  <2>1. Shown(c)' = w
    BY <1>12, <1>13 DEF Shown
  <2>2. \A d \in InQueue : Shown(d)' = Shown(d)
    BY <1>12 DEF Shown
  <2>3. Shows' = {Shown(d)' : d \in InQueue'}
    BY DEF Shows
  <2> QED
    BY <1>10, <2>1, <2>2, <2>3 DEF Shows
<1>15. Outcome' = [how |-> "none", data |-> 0]
  <2>1. ret'.code \in {"SCHED", "OK"} /\ ret'.data = e.data
    BY DEF Puts, QueuePut, Returned
  <2>2. e.data \in {cell'[d].data : d \in InQueue'}
    BY <1>10, <1>12
  <2> QED
    BY <2>1, <2>2 DEF Outcome
<1>16. t \in {v.ts : v \in Shows'} /\ y \in Types
  <2>1. w \in Shows' /\ w.ts = t
    BY <1>14
  <2>2. y \in Types
    BY <1>13 DEF CellType
  <2> HIDE DEF w
  <2> QED
    BY <2>1, <2>2
<1>17. \E ts \in {v.ts : v \in Shows'}, type \in Types :
          /\ [data |-> arrived + 1, ts |-> ts, type |-> type].data = arrived + 1
          /\ arrived' = arrived + 1
          /\ Shows' = Shows \cup {[data |-> arrived + 1, ts |-> ts, type |-> type]}
          /\ Outcome' = [how |-> "none", data |-> 0]
  BY <1>13, <1>14, <1>15, <1>16
<1>18. Events!PlayoutNext
  BY <1>17 DEF Events!PlayoutNext, Events!Keep, Events!Nothing, Shows, Outcome, Shown
<1> QED
  BY <1>18 DEF PlaysOn

LEMMA SamePlays ==
  ASSUME JitterInv, UNCHANGED queue, info'.frames_cur = info.frames_cur,
         arrived' \in {arrived, arrived + 1}
  PROVE  /\ Shows' = Shows /\ InQueue' = InQueue /\ cell' = cell
         /\ \A c \in InQueue : cell[c].data \in 1 .. arrived
<1>1. PointersTyped /\ arrived \in Nat
  BY Sizes DEF JitterInv, QueueInv
<1>2. PICK n, m \in Nat : info.frames_cur = n /\ \E q, s : Lists(n, q, m, s)
  BY DEF JitterInv, QueueInv
<1>3. PICK q, s : Lists(n, q, m, s)
  BY <1>2
<1>4. Lists(n, q, m, s)'
  BY <1>1, <1>3, ListsSame
<1>5. InQueue = {q[i] : i \in 1 .. n}
  BY <1>2, <1>3, QueueHolds DEF QueueShown, Lists
<1>6. InQueue' = {q[i] : i \in 1 .. n}
  <2>1. (\A j \in Nat : \A p : info.frames_cur = j /\ Circle(j, p) => InQueue = {p[i] : i \in 1 .. j})'
    BY QueueHoldsNext DEF QueueShown
  <2> QED
    BY <1>2, <1>4, <2>1 DEF Lists
<1>7. cell' = cell
  BY DEF queue
<1>8. Shows' = Shows
  BY <1>5, <1>6, <1>7 DEF Shows, Shown
<1>9. \A c \in InQueue : cell[c].data \in 1 .. arrived
  BY <1>3, <1>5 DEF Lists, Arrivals
<1> QED
  BY <1>5, <1>6, <1>7, <1>8, <1>9

LEMMA RefusePlays ==
  ASSUME JitterInv, Refuses
  PROVE  PlaysOn
<1>1. /\ Shows' = Shows /\ InQueue' = InQueue /\ cell' = cell
      /\ \A c \in InQueue : cell[c].data \in 1 .. arrived
  BY SamePlays DEF Refuses
<1>2. arrived \in Nat /\ arrived' = arrived + 1
  BY Sizes DEF JitterInv, Refuses
<1>3. arrived + 1 \notin {cell'[c].data : c \in InQueue'}
  BY <1>1, <1>2
<1>4. Outcome' = [how |-> "dropped", data |-> arrived + 1]
  BY <1>3 DEF Outcome, Refuses, Fate
<1>5. Events!Refuse("voice")
  BY <1>1, <1>2, <1>4 DEF Events!Refuse, Shows, Outcome, Shown
<1> QED
  BY <1>5 DEF PlaysOn, Events!PlayoutNext, Types

LEMMA TakePlays ==
  ASSUME JitterInv, NEW code, Takes(code)
  PROVE  PlaysOn
<1>1. PointersTyped /\ arrived \in Nat /\ arrived' = arrived
  BY Sizes DEF JitterInv, QueueInv, Takes
<1>2. PICK n, m \in Nat : info.frames_cur = n /\ \E q, s : Lists(n, q, m, s)
  BY DEF JitterInv, QueueInv
<1>3. PICK q, s : Lists(n, q, m, s)
  BY <1>2
<1>4. /\ cell' = cell /\ n > 0 /\ frames = q[1]
      /\ \E t : Lists(n - 1, Rest(n, q), m + 1, t)'
  BY <1>1, <1>3, GetLists DEF Takes
<1> DEFINE r == Rest(n, q)
<1>5. /\ q \in [1 .. n -> Cells] /\ 1 \in 1 .. n
      /\ \A i, j \in 1 .. n : q[i] = q[j] => i = j
      /\ \A i, j \in 1 .. n : i < j => Comes(cell[q[i]], cell[q[j]])
      /\ \A i, j \in 1 .. n : cell[q[i]].data = cell[q[j]].data => i = j
      /\ InQueue = {q[i] : i \in 1 .. n}
  <2>1. Circle(n, q) /\ Distinct(n, q) /\ InTime(n, q) /\ Arrivals(n, q)
    BY <1>3 DEF Lists, Circle
  <2>2. InQueue = {q[i] : i \in 1 .. n}
    BY <1>2, <2>1, QueueHolds DEF QueueShown
  <2>3. q \in [1 .. n -> Cells] /\ 1 \in 1 .. n
    BY <1>4, <2>1 DEF Circle
  <2> QED
    BY <2>1, <2>2, <2>3 DEF Distinct, InTime, Arrivals
<1>6. Circle(n - 1, r)'
  BY <1>4 DEF Lists
<1>7. \A i \in 1 .. n - 1 : r[i] = q[i + 1] /\ i + 1 \in 1 .. n /\ i + 1 # 1
  BY DEF Rest
<1> HIDE DEF r
<1>8. InQueue' = {r[i] : i \in 1 .. n - 1}
  <2>1. (\A j \in Nat : \A p : info.frames_cur = j /\ Circle(j, p) => InQueue = {p[i] : i \in 1 .. j})'
    BY QueueHoldsNext DEF QueueShown
  <2>2. info'.frames_cur = n - 1 /\ n - 1 \in Nat
    BY <1>2, <1>4 DEF Takes
  <2> QED
    BY <1>6, <2>1, <2>2
<1>9. InQueue' = InQueue \ {frames}
  <2>1. \A i \in 1 .. n : i # 1 => i - 1 \in 1 .. n - 1 /\ r[i - 1] = q[i]
    <3>1. \A i \in 1 .. n : i # 1 => i - 1 \in 1 .. n - 1 /\ (i - 1) + 1 = i
      OBVIOUS
    <3> QED
      BY <3>1, <1>7
  <2>2. ASSUME NEW c \in InQueue' PROVE c \in InQueue \ {frames}
    BY <2>2, <1>4, <1>5, <1>7, <1>8
  <2>3. ASSUME NEW c \in InQueue \ {frames} PROVE c \in InQueue'
    <3>1. PICK i \in 1 .. n : c = q[i]
      BY <1>5
    <3> QED
      BY <3>1, <2>1, <1>4, <1>8
  <2> QED
    BY <2>2, <2>3
<1>10. frames \in InQueue
  BY <1>4, <1>5
<1>11. \A c \in InQueue : c # frames => cell[c].data # cell[frames].data
  BY <1>4, <1>5
<1>12. \A c \in InQueue : c # frames => Comes(cell[frames], cell[c])
  <2>1. \A i \in 1 .. n : i # 1 => 1 < i
    OBVIOUS
  <2> QED
    BY <2>1, <1>4, <1>5
<1> DEFINE w == Shown(frames)
<1>13. w.data = First.data /\ w.ts = cell[frames].ts /\ w.type = First.type /\ w \in Shows
  BY <1>10 DEF Shown, Shows, First
<1>14. \A c \in InQueue : c # frames => Shown(c) # w
  BY <1>11 DEF Shown
<1>15. Shows' = Shows \ {w}
  <2>1. Shows' = {Shown(c) : c \in InQueue'}
    BY <1>4 DEF Shows, Shown
  <2> HIDE DEF w
  <2>2. w = Shown(frames)
    BY DEF w
  <2> QED
    BY <2>1, <2>2, <1>9, <1>14 DEF Shows
<1>16. ret' = [code |-> code, data |-> First.data] /\ code \in {"OK", "DROP"}
  BY DEF Takes
<1>17. Outcome' = [how |-> Fate(code), data |-> First.data]
  <2>1. First.data \notin {cell'[c].data : c \in InQueue'}
    BY <1>4, <1>9, <1>11 DEF First
  <2>2. ret'.code = code /\ ret'.data = First.data
    BY <1>16
  <2>3. Fate(ret.code)' = Fate(code)
    BY <2>2 DEF Fate
  <2> QED
    BY <2>1, <2>2, <2>3, <1>16 DEF Outcome
<1>18. Fate(code) \in {"delivered", "dropped"} /\ (Fate(code) = "dropped" => w.type = "voice")
  BY <1>13, <1>16 DEF Fate, Takes
<1>19. \A f \in Shows \ {w} : Events!Before(w, f)
  <2> SUFFICES ASSUME NEW c \in InQueue, Shown(c) # w PROVE Events!Before(w, Shown(c))
    BY DEF Shows
  <2>1. c # frames
    OBVIOUS
  <2>2. Comes(cell[frames], cell[c])
    BY <2>1, <1>12
  <2> QED
    BY <2>2 DEF Comes, Events!Before, Shown
<1>20. Events!Release(w, Fate(code))
  <2>1. Events!Earliest(w)
    BY <1>19 DEF Events!Earliest, Shows, Shown
  <2> HIDE DEF w
  <2> QED
    BY <2>1, <1>1, <1>13, <1>15, <1>17, <1>18 DEF Events!Release, Shows, Shown, Outcome
<1>21. Events!PlayoutNext
  BY <1>13, <1>18, <1>20 DEF Events!PlayoutNext, Shows, Shown
<1> QED
  BY <1>21 DEF PlaysOn

LEMMA HoldPlays ==
  ASSUME JitterInv, Holds
  PROVE  PlaysOn
<1>1. Shows' = Shows /\ arrived' = arrived
  BY SamePlays DEF Holds
<1>2. Outcome' = [how |-> "none", data |-> 0]
  BY DEF Outcome, Holds
<1>3. Events!Hold
  BY <1>1, <1>2 DEF Events!Hold, Events!Nothing, Shows, Outcome, Shown
<1> QED
  BY <1>3 DEF PlaysOn, Events!PlayoutNext

LEMMA FlushPlays ==
  ASSUME JitterInv, Flushes
  PROVE  PlaysOn
<1>1. InQueue' = {}
  <2>1. (\A j \in Nat : \A p : info.frames_cur = j /\ Circle(j, p) => InQueue = {p[i] : i \in 1 .. j})'
    BY QueueHoldsNext DEF QueueShown
  <2>2. Circle(0, <<>>)'
    BY DEF Flushes, Circle, Distinct
  <2>3. 0 \in Nat /\ info'.frames_cur = 0
    BY DEF Flushes
  <2> QED
    BY <2>1, <2>2, <2>3
<1>2. Shows' = {} /\ arrived' = arrived
  BY <1>1 DEF Shows, Flushes
<1>3. Outcome' = [how |-> "flushed", data |-> 0]
  BY DEF Outcome, Flushes
<1>4. Events!Flush
  BY <1>2, <1>3 DEF Events!Flush, Shows, Outcome, Shown
<1> QED
  BY <1>4 DEF PlaysOn, Events!PlayoutNext

LEMMA StepPlays ==
  ASSUME JitterInv, [Next]_vars
  PROVE  PlaysOn
<1>1. CASE Next
  <2>1. Changes
    BY <1>1, NextDoes
  <2> QED
    BY <2>1, PutPlays, RefusePlays, TakePlays, HoldPlays, FlushPlays DEF Changes
<1>2. CASE UNCHANGED vars
  <2>1. UNCHANGED queue /\ info'.frames_cur = info.frames_cur /\ arrived' = arrived /\ ret' = ret
    BY <1>2 DEF vars
  <2>2. Shows' = Shows /\ InQueue' = InQueue /\ cell' = cell
    BY <2>1, SamePlays
  <2>3. Outcome' = Outcome
    BY <2>1, <2>2 DEF Outcome, Fate
  <2>4. UNCHANGED Events!playVars
    BY <2>1, <2>2, <2>3 DEF Events!playVars, Shows, Outcome, Shown
  <2> QED
    BY <2>4 DEF PlaysOn
<1> QED
  BY <1>1, <1>2

LEMMA InitPlays == Init => Events!PlayoutInit
<1> SUFFICES ASSUME Init PROVE Events!PlayoutInit
  OBVIOUS
<1>1. InQueue = {}
  <2>1. frames = NULL
    BY DEF Init
  <2>2. Queued = <<>>
    BY <2>1 DEF Queued
  <2> QED
    BY <2>2 DEF InQueue, ToSet
<1>2. Shows = {} /\ arrived = 0
  BY <1>1 DEF Shows, Init
<1>3. Outcome = [how |-> "none", data |-> 0]
  BY DEF Outcome, Init
<1> QED
  BY <1>2, <1>3 DEF Events!PlayoutInit, Events!Nothing, Shows, Shown, Outcome
-----------------------------------------------------------------------------
(* The history, jb->info and both lists keep their invariant.              *)
LEMMA JitterAlways == Spec => []JitterInv
<1> QED BY JitterInit, JitterNext, PTL DEF Spec

(* Every part of the jitter buffer keeps its type; frames_cur is never     *)
(* negative, though each poll that delivers counts it down.                *)
THEOREM JitterTypeCorrect == Spec => []TypeOK
<1> QED BY JitterAlways, InvTyped, PTL

(* After every splice of queue_put and _queue_get (jitterbuf.c:319-429)    *)
(* the circular list is whole: frames_cur frames in order of time, linked  *)
(* both ways and back to the head, and none of them on the free list.      *)
THEOREM WellLinkedAlways == Spec => []WellLinked
<1> QED BY JitterAlways, InvLinked, PTL

(* Whenever it is called, history_calc_maxbuf finds the highest and the    *)
(* lowest delays of the history, each as often as it occurs there.         *)
THEOREM CalcExactAlways == Spec => []CalcExact
<1>1. JitterInv => CalcExact
  BY CalculatedRight DEF JitterInv
<1> QED BY <1>1, JitterAlways, PTL

(* The jitter that sizes the buffer is never negative, though the cached   *)
(* extremes may no longer be those of the history.                         *)
THEOREM JitterSaneAlways == Spec => []JitterSane
<1>1. JitterInv => JitterSane
  BY JitterNotNegative DEF JitterInv
<1> QED BY <1>1, JitterAlways, PTL

(* jitterbuf.h: after JB_OK from jb_put what jb_next said is still so.     *)
THEOREM NextStillValidAlways == Spec => NextStillValid
<1>1. JitterInv /\ [Next]_vars
      => [arrived' # arrived /\ ret'.code = "OK" => jb_next' = jb_next]_vars
  BY NextStaysValid
<1> QED BY <1>1, JitterAlways, PTL DEF Spec, NextStillValid

(* The buffer implements Playout: what is put leaves once, the earliest    *)
(* first and the first to come among those due at once, and nothing but    *)
(* voice is dropped.                                                       *)
THEOREM BufferImplementsPlayout == Spec => PlayoutSafety
<1>1. JitterInv /\ [Next]_vars => [Events!PlayoutNext]_(Events!playVars)
  BY StepPlays DEF PlaysOn
<1> QED BY <1>1, InitPlays, JitterAlways, PTL DEF Spec, PlayoutSafety, Events!PlayoutSafety
-----------------------------------------------------------------------------
LEMMA SplitTime ==
  ASSUME NEW t \in Int
  PROVE  /\ Low(t) \in 0 .. WRAP - 1 /\ High(t) \in Int /\ t = High(t) + Low(t)
         /\ \E q \in Int : High(t) = WRAP * q
<1>1. /\ (t % WRAP) \in 0 .. WRAP - 1 /\ (t \div WRAP) \in Int
      /\ t = WRAP * (t \div WRAP) + (t % WRAP)
  BY WrapAssumption, SMTT(10)
<1>2. High(t) = WRAP * (t \div WRAP) /\ Low(t) = t % WRAP
  <2> DEFINE m == WRAP * (t \div WRAP)
             l == t % WRAP
  <2>1. m \in Int /\ l \in Int /\ t = m + l
    BY <1>1, WrapAssumption
  <2>2. High(t) = t - l
    BY DEF High
  <2> HIDE DEF m, l
  <2>3. High(t) = m
    BY <2>1, <2>2
  <2> QED
    BY <2>3 DEF Low, m
<1> QED
  BY <1>1, <1>2, WrapAssumption

(* A time is told apart into multiples of WRAP and a rest in one way only. *)
LEMMA OneSplit ==
  ASSUME NEW p \in Int, NEW q \in Int, NEW k \in 0 .. WRAP - 1, NEW l \in 0 .. WRAP - 1,
         WRAP * p + k = WRAP * q + l
  PROVE  p = q /\ k = l
<1>1. WRAP * p - WRAP * q = WRAP * (p - q)
  BY WrapAssumption, SMTT(10)
<1>2. ASSUME NEW j \in Int, WRAP * j < WRAP, -WRAP < WRAP * j PROVE j = 0
  BY <1>2, WrapAssumption, SMTT(10)
<1>3. WRAP * (p - q) = l - k
  BY <1>1, WrapAssumption, SMTT(10)
<1>4. p - q = 0
  <2>1. p - q \in Int /\ WRAP * (p - q) < WRAP /\ -WRAP < WRAP * (p - q)
    BY <1>3, WrapAssumption
  <2> QED
    BY <2>1, <1>2
<1> QED
  BY <1>3, <1>4, WrapAssumption

LEMMA HighLow ==
  ASSUME NEW q \in Int, NEW l \in 0 .. WRAP - 1
  PROVE  High(WRAP * q + l) = WRAP * q /\ Low(WRAP * q + l) = l
<1> DEFINE t == WRAP * q + l
<1>1. t \in Int
  BY WrapAssumption
<1>2. PICK p \in Int : High(t) = WRAP * p
  BY <1>1, SplitTime
<1>3. Low(t) \in 0 .. WRAP - 1 /\ t = WRAP * p + Low(t)
  BY <1>1, <1>2, SplitTime
<1>4. p = q /\ Low(t) = l
  BY <1>3, OneSplit
<1> QED
  BY <1>2, <1>4

(* A mini frame is filed under the time it was sent with if the newest     *)
(* time known lies less than 65536 - 50000 milliseconds before or after.   *)
THEOREM MiniFiledRight ==
  ASSUME NEW t \in Nat, NEW last \in Nat, t - last < WRAP - BIG, last - t < WRAP - BIG
  PROVE  Filed(Low(t), last) = t
<1>1. PICK p \in Int : High(t) = WRAP * p
  BY SplitTime
<1>2. PICK q \in Int : High(last) = WRAP * q
  BY SplitTime
<1> DEFINE k == Low(t)
           l == Low(last)
           c == Completed(k, last)
<1>3. k \in 0 .. WRAP - 1 /\ t = WRAP * p + k
  BY <1>1, SplitTime
<1>4. l \in 0 .. WRAP - 1 /\ last = WRAP * q + l
  BY <1>2, SplitTime
<1>5. c = WRAP * q + k
  BY <1>2 DEF Completed
<1>6. High(c) = High(last) /\ Low(c) = k
  BY <1>2, <1>3, <1>5, HighLow
<1> HIDE DEF k, l, c
<1>7. WRAP * p - WRAP * q = WRAP * (p - q)
  BY WrapAssumption, SMTT(10)
<1>8. t - last = WRAP * (p - q) + k - l
  BY <1>3, <1>4, <1>7, WrapAssumption, SMTT(10)
<1>9. p - q \in {-1, 0, 1}
  <2>1. ASSUME NEW j \in Int, WRAP * j < 2 * WRAP, -(2 * WRAP) < WRAP * j PROVE j \in {-1, 0, 1}
    BY <2>1, WrapAssumption, SMTT(10)
  <2>2. p - q \in Int /\ WRAP * (p - q) < 2 * WRAP /\ -(2 * WRAP) < WRAP * (p - q)
    BY <1>3, <1>4, <1>8, WrapAssumption, SMTT(10)
  <2> QED
    BY <2>1, <2>2
<1>10. /\ c \in Int /\ c - last = k - l
       /\ WRAP * q \in Int /\ WRAP * p \in Int
  BY <1>3, <1>4, <1>5, WrapAssumption, SMTT(10)
<1>11. Filed(k, last) = IF k - l < -BIG THEN WRAP * q + WRAP + k
                        ELSE IF k - l > BIG THEN WRAP * q - WRAP + k ELSE c
  BY <1>2, <1>6, <1>10 DEF Filed, unwrap_timestamp, c
<1>12. CASE p = q
  <2>1. t - last = k - l /\ c = t
    BY <1>3, <1>4, <1>5, <1>12, WrapAssumption, SMTT(10)
  <2> QED
    BY <1>3, <1>4, <1>11, <2>1, WrapAssumption DEF k
<1>13. CASE p = q + 1
  <2>1. WRAP * p = WRAP * q + WRAP
    BY <1>13, WrapAssumption, SMTT(10)
  <2> QED
    BY <1>3, <1>4, <1>10, <1>11, <2>1, WrapAssumption DEF k
<1>14. CASE p = q - 1
  <2>1. WRAP * p = WRAP * q - WRAP
    BY <1>14, WrapAssumption, SMTT(10)
  <2> QED
    BY <1>3, <1>4, <1>10, <1>11, <2>1, WrapAssumption DEF k
<1> QED
  BY <1>9, <1>12, <1>13, <1>14

(* A full frame, whose time is whole, is left alone by the correction      *)
(* unless it is more than 50000 milliseconds away from the newest one.     *)
THEOREM FullFiledRight ==
  ASSUME NEW t \in Nat, NEW last \in Nat, t - last <= BIG, last - t <= BIG
  PROVE  unwrap_timestamp(t, last) = t
  BY WrapAssumption DEF unwrap_timestamp
=============================================================================
