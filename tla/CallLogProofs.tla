--------------------------- MODULE CallLogProofs ---------------------------
(***************************************************************************)
(* The call register shows the calls there were, and its keys act on the   *)
(* record that is shown, for any number of types, slots and numbers.       *)
(***************************************************************************)
EXTENDS CallLog, Recursion, SequenceTheorems, TLAPS

(* The ring of k holds the calls of k: the last MAXLOG of them behind pos, *)
(* nothing in the slots that were not written.                             *)
Ring(k) ==
    /\ Len(calls[k]) = IF pos[k] < MAXLOG THEN pos[k] ELSE MAXLOG
    /\ \A i \in 0 .. Len(calls[k]) - 1 : log[k][(pos[k] - 1 - i) % MAXLOG] = calls[k][i + 1]
    /\ \A j \in Slots : pos[k] <= j => log[k][j] = Blank

(* An array lists calls: those from its first slot on, nothing after them. *)
Lists(slots, s) ==
    /\ \A i \in 0 .. Len(s) - 1 : slots[i] = s[i + 1]
    /\ \A j \in Slots : Len(s) <= j => slots[j] = Blank

(* Nothing follows the first empty slot of the file. *)
Tidy(k) == \A i, j \in Slots : i <= j /\ file[k][i] = Blank => file[k][j] = Blank

(* Until the register is opened, the calls of the last run are in the file *)
(* and those of this run in the rings: together they are not shown.        *)
Kept(k) ==
    /\ initialized \/ file[k][0] = Blank => Ring(k)
    /\ ~initialized /\ pos[k] = 0 => Lists(file[k], calls[k]) /\ log[k] = Empty
    /\ Tidy(k)

(* No page is scrolled past its calls until its ring goes round. *)
OnPage(k) == pos[k] <= MAXLOG => off[k] <= pos[k] - 1 \/ off[k] = 0

LogInv ==
    /\ TypeOK
    /\ open => initialized
    /\ ~initialized => \A k \in Types : off[k] = 0
    /\ ~spoilt => \A k \in Types : Kept(k)
    /\ ~spoilt => \A k \in Types : OnPage(k)
-----------------------------------------------------------------------------
LEMMA Sizes == MAXLOG \in Nat \ {0} /\ MaxPos \in Nat \ {0} /\ NTypes \in Nat \ {0}
               /\ MAXLOG <= MaxPos /\ 0 \in Slots /\ LogSend \in Types
  BY SizesAssumption DEF Slots, Types, LogSend

(* Positions modulo MAXLOG. *)
LEMMA ModRange == ASSUME NEW a \in Int PROVE (a % MAXLOG) \in Slots
  BY Sizes, SMTT(10) DEF Slots

LEMMA ModSmall == ASSUME NEW a \in Slots PROVE a % MAXLOG = a
  BY Sizes, SMTT(10) DEF Slots

LEMMA ModBelow == ASSUME NEW a \in Int, -MAXLOG <= a, a < 0 PROVE a % MAXLOG = a + MAXLOG
  BY Sizes, SMTT(10)

LEMMA ModSplit ==
  ASSUME NEW a \in Int
  PROVE  (a \div MAXLOG) \in Int /\ a = MAXLOG * (a \div MAXLOG) + (a % MAXLOG)
  BY Sizes, SMTT(10)

LEMMA ModUnique ==
  ASSUME NEW a \in Int, NEW b \in Int, a - b < MAXLOG, b - a < MAXLOG, a % MAXLOG = b % MAXLOG
  PROVE  a = b
<1> DEFINE p == a \div MAXLOG
           q == b \div MAXLOG
<1>1. /\ p \in Int /\ q \in Int /\ (a % MAXLOG) \in Int
      /\ a = MAXLOG * p + (a % MAXLOG) /\ b = MAXLOG * q + (b % MAXLOG)
  BY ModSplit, ModRange DEF Slots
<1> HIDE DEF p, q
<1>2. MAXLOG * p - MAXLOG * q = MAXLOG * (p - q) /\ a - b = MAXLOG * p - MAXLOG * q
  BY <1>1, Sizes, SMTT(10)
<1>3. ASSUME NEW j \in Int, MAXLOG * j < MAXLOG, -MAXLOG < MAXLOG * j PROVE j = 0
  BY <1>3, Sizes, SMTT(10)
<1>4. p - q = 0
  <2>1. p - q \in Int /\ MAXLOG * (p - q) < MAXLOG /\ -MAXLOG < MAXLOG * (p - q)
    BY <1>1, <1>2, Sizes
  <2> QED
    BY <2>1, <1>3
<1> QED
  BY <1>1, <1>2, <1>4, Sizes

LEMMA ModShift ==
  ASSUME NEW a \in Int, NEW b \in Int
  PROVE  ((a % MAXLOG) - b) % MAXLOG = (a - b) % MAXLOG
<1> DEFINE p == a \div MAXLOG
           c == (a % MAXLOG) - b
           d == a - b
           q == c \div MAXLOG
           r == d \div MAXLOG
<1>1. /\ p \in Int /\ c \in Int /\ d \in Int /\ (a % MAXLOG) \in Int
      /\ a = MAXLOG * p + (a % MAXLOG)
  BY ModSplit, ModRange DEF Slots
<1>2. /\ q \in Int /\ r \in Int
      /\ c = MAXLOG * q + (c % MAXLOG) /\ d = MAXLOG * r + (d % MAXLOG)
      /\ (c % MAXLOG) \in 0 .. MAXLOG - 1 /\ (d % MAXLOG) \in 0 .. MAXLOG - 1
  <2> HIDE DEF c, d
  <2> QED
    BY <1>1, ModSplit, ModRange DEF Slots
<1> DEFINE mp == MAXLOG * p
<1>3. mp \in Int /\ d - c = mp
  <2> HIDE DEF p
  <2>1. mp \in Int
    BY <1>1, Sizes, SMTT(10)
  <2>2. a = mp + (a % MAXLOG)
    BY <1>1
  <2> HIDE DEF mp
  <2> QED
    BY <1>1, <2>1, <2>2
<1> HIDE DEF p, c, d, q, r
<1>4. MAXLOG * (r - q - p) = MAXLOG * r - MAXLOG * q - mp
  BY <1>1, <1>2, Sizes, SMTT(10)
<1>5. ASSUME NEW j \in Int, MAXLOG * j < MAXLOG, -MAXLOG < MAXLOG * j PROVE j = 0
  BY <1>5, Sizes, SMTT(10)
<1> DEFINE mr == MAXLOG * r
           mq == MAXLOG * q
<1>6. mr \in Int /\ mq \in Int
  BY <1>2, Sizes, SMTT(10)
<1>7. mr - mq - mp = (c % MAXLOG) - (d % MAXLOG)
  <2> DEFINE x == c % MAXLOG
             y == d % MAXLOG
  <2>1. c = mq + x /\ d = mr + y /\ x \in Int /\ y \in Int
    BY <1>2, Sizes
  <2> HIDE DEF mr, mq, mp, x, y
  <2>2. mr - mq - mp = x - y
    BY <2>1, <1>1, <1>3, <1>6
  <2> QED
    BY <2>2 DEF x, y
<1>8. r - q - p = 0
  <2>1. MAXLOG * (r - q - p) = (c % MAXLOG) - (d % MAXLOG)
    BY <1>4, <1>7
  <2>2. MAXLOG * (r - q - p) < MAXLOG /\ -MAXLOG < MAXLOG * (r - q - p)
    BY <2>1, <1>2, Sizes
  <2>3. r - q - p \in Int
    BY <1>1, <1>2
  <2> QED
    BY <2>2, <2>3, <1>5
<1>9. (c % MAXLOG) - (d % MAXLOG) = 0
  BY <1>4, <1>7, <1>8, Sizes
<1> QED
  BY <1>2, <1>9 DEF c, d
-----------------------------------------------------------------------------
(* Reading a ring and a list. *)

LEMMA NewestIs ==
  ASSUME TypeOK, NEW k \in Types
  PROVE  /\ Newest(k) \in -1 .. MAXLOG - 1
         /\ pos[k] \in 1 .. MAXLOG => Newest(k) = pos[k] - 1
<1>1. pos[k] \in Nat
  BY DEF TypeOK
<1>2. CASE pos[k] = 0
  BY <1>2, Sizes DEF Newest
<1>3. CASE pos[k] # 0
  <2>1. pos[k] - 1 \in Int /\ Newest(k) = (pos[k] - 1) % MAXLOG
    BY <1>1, <1>3 DEF Newest
  <2>2. Newest(k) \in Slots
    BY <2>1, ModRange
  <2>3. pos[k] \in 1 .. MAXLOG => pos[k] - 1 \in Slots
    BY Sizes DEF Slots
  <2> QED
    BY <2>1, <2>2, <2>3, ModSmall, Sizes DEF Slots
<1> QED
  BY <1>2, <1>3

(* Round the ring, the i-th call back is where the i-th last was written.  *)
LEMMA BackIs ==
  ASSUME TypeOK, NEW k \in Types, NEW i \in Int
  PROVE  Back(k, i) = (pos[k] - 1 - i) % MAXLOG
<1>1. pos[k] \in Nat
  BY DEF TypeOK
<1>2. CASE pos[k] = 0
  BY <1>2 DEF Back, Newest
<1>3. CASE pos[k] # 0
  <2>1. pos[k] - 1 \in Int /\ Newest(k) = (pos[k] - 1) % MAXLOG
    BY <1>1, <1>3 DEF Newest
  <2> QED
    BY <2>1, ModShift DEF Back
<1> QED
  BY <1>2, <1>3

LEMMA LeastIs ==
  ASSUME NEW S, NEW n \in S, S \subseteq Int, \A y \in S : n <= y
  PROVE  Min(S) = n
<1>1. \A x \in S : (\A y \in S : x <= y) => x = n
  OBVIOUS
<1> QED
  BY <1>1 DEF Min

LEMMA GreatestIs ==
  ASSUME NEW S, NEW n \in S, S \subseteq Int, \A y \in S : n >= y
  PROVE  Max(S) = n
<1>1. \A x \in S : (\A y \in S : x >= y) => x = n
  OBVIOUS
<1> QED
  BY <1>1 DEF Max

(* A set of slots that is not empty has a first one. *)
LEMMA LeastSlot ==
  ASSUME NEW S \in SUBSET Slots, S # {}
  PROVE  \E m \in S : \A y \in S : m <= y
<1>1. S \in SUBSET Nat
  BY Sizes DEF Slots
<1> QED
  BY <1>1, LeastNumber

(* The slots before n are filled, and n is not. *)
LEMMA FilledIs ==
  ASSUME NEW slots, NEW n \in 0 .. MAXLOG,
         \A i \in Slots : i < n => slots[i] # Blank,
         n < MAXLOG => slots[n] = Blank
  PROVE  Filled(slots) = n
<1> DEFINE blank == {i \in Slots : slots[i] = Blank}
<1>1. CASE n = MAXLOG
  <2>1. blank = {}
    BY <1>1 DEF Slots
  <2> QED
    BY <2>1, <1>1 DEF Filled
<1>2. CASE n < MAXLOG
  <2>1. n \in blank /\ \A y \in blank : n <= y
    BY <1>2, Sizes DEF Slots
  <2>2. blank \subseteq Int
    BY Sizes DEF Slots
  <2>3. Min(blank) = n
    BY <2>1, <2>2, LeastIs
  <2> QED
    BY <2>1, <2>3 DEF Filled
<1> QED
  BY <1>1, <1>2, Sizes

(* What lists the calls of s is read as s. *)
LEMMA ListedIs ==
  ASSUME NEW slots, NEW s \in Seq(Numbers), Len(s) <= MAXLOG, Lists(slots, s)
  PROVE  Filled(slots) = Len(s) /\ Listed(slots) = s
<1>1. Len(s) \in 0 .. MAXLOG /\ \A i \in 1 .. Len(s) : s[i] \in Numbers
  BY Sizes
<1>2. \A i \in Slots : i < Len(s) => slots[i] # Blank
  <2> SUFFICES ASSUME NEW i \in Slots, i < Len(s) PROVE slots[i] # Blank
    OBVIOUS
  <2>1. i \in 0 .. Len(s) - 1 /\ i + 1 \in 1 .. Len(s)
    BY <1>1, Sizes DEF Slots
  <2>2. slots[i] = s[i + 1]
    BY <2>1 DEF Lists
  <2> QED
    BY <2>1, <2>2, <1>1, BlankAssumption
<1>3. Len(s) < MAXLOG => slots[Len(s)] = Blank
  BY <1>1, Sizes DEF Lists, Slots
<1>4. Filled(slots) = Len(s)
  BY <1>1, <1>2, <1>3, FilledIs
<1>5. \A i \in 1 .. Len(s) : slots[i - 1] = s[i]
  <2> SUFFICES ASSUME NEW i \in 1 .. Len(s) PROVE slots[i - 1] = s[i]
    OBVIOUS
  <2>1. i - 1 \in 0 .. Len(s) - 1 /\ (i - 1) + 1 = i
    BY <1>1
  <2> QED
    BY <2>1 DEF Lists
<1> QED
  BY <1>4, <1>5 DEF Listed

(* A ring read backwards lists its calls. *)
LEMMA RingListed ==
  ASSUME TypeOK, NEW k \in Types, Ring(k)
  PROVE  Lists(Dumped(k), calls[k])
<1> DEFINE n == Len(calls[k])
<1>1. /\ pos[k] \in Nat /\ n = (IF pos[k] < MAXLOG THEN pos[k] ELSE MAXLOG)
      /\ n \in 0 .. MAXLOG
  BY Sizes DEF TypeOK, Ring
<1>2. \A i \in Slots : Dumped(k)[i] = log[k][(pos[k] - 1 - i) % MAXLOG]
  BY BackIs, Sizes DEF Dumped, Slots
<1>3. ASSUME NEW i \in 0 .. n - 1 PROVE Dumped(k)[i] = calls[k][i + 1]
  <2>1. i \in Slots
    BY <1>1, Sizes DEF Slots
  <2> QED
    BY <2>1, <1>2 DEF Ring
<1>4. ASSUME NEW j \in Slots, n <= j PROVE Dumped(k)[j] = Blank
  <2>1. /\ pos[k] < MAXLOG /\ n = pos[k] /\ j \in Int /\ pos[k] - 1 - j \in Int
        /\ -MAXLOG <= pos[k] - 1 - j /\ pos[k] - 1 - j < 0
    BY <1>1, <1>4, Sizes DEF Slots
  <2>2. (pos[k] - 1 - j) % MAXLOG = pos[k] - 1 - j + MAXLOG
    BY <2>1, ModBelow
  <2>3. pos[k] - 1 - j + MAXLOG \in Slots /\ pos[k] <= pos[k] - 1 - j + MAXLOG
    <3>1. /\ pos[k] \in Nat /\ pos[k] <= j /\ j < MAXLOG /\ j \in Nat
      BY <1>1, <1>4, Sizes DEF Slots
    <3> DEFINE p == pos[k]
    <3> HIDE DEF p
    <3>2. p \in Nat /\ p <= j
      BY <3>1 DEF p
    <3>3. p - 1 - j + MAXLOG \in 0 .. MAXLOG - 1 /\ p <= p - 1 - j + MAXLOG
      BY <3>1, <3>2, Sizes
    <3> QED
      BY <3>3 DEF p, Slots
  <2> QED
    BY <2>2, <2>3, <1>2 DEF Ring
<1> QED
  BY <1>3, <1>4 DEF Lists

(* A ring whose last call is added to: Happened on one sequence. *)
LEMMA Pushed ==
  ASSUME NEW c \in Seq(Numbers), Len(c) <= MAXLOG, NEW n \in Numbers
  PROVE  /\ Latest(n, c) \in Seq(Numbers)
         /\ Len(Latest(n, c)) = (IF Len(c) < MAXLOG THEN Len(c) + 1 ELSE MAXLOG)
         /\ Latest(n, c)[1] = n
         /\ \A i \in 1 .. Len(Latest(n, c)) - 1 : Latest(n, c)[i + 1] = c[i]
<1> DEFINE s == Latest(n, c)
           l == IF Len(c) < MAXLOG THEN Len(c) + 1 ELSE MAXLOG
           d == <<n>> \o c
<1>1. Len(c) \in Nat /\ l \in 1 .. Len(c) + 1 /\ l <= MAXLOG
  BY Sizes
<1>2. Min({MAXLOG, Len(c) + 1}) = l
  <2> DEFINE S == {MAXLOG, Len(c) + 1}
  <2>1. l \in S /\ S \subseteq Int
    BY <1>1, Sizes
  <2>2. \A y \in S : l <= y
    BY <1>1, Sizes
  <2> HIDE DEF l, S
  <2>3. Min(S) = l
    BY <2>1, <2>2, LeastIs
  <2> QED
    BY <2>3 DEF S
<1>3. /\ d \in Seq(Numbers) /\ Len(d) = Len(c) + 1
      /\ d[1] = n /\ \A i \in 1 .. Len(c) : d[i + 1] = c[i]
  OBVIOUS
<1> HIDE DEF d
<1>4. s = SubSeq(d, 1, l)
  BY <1>2 DEF d, Latest
<1> HIDE DEF l, s
<1>5. s \in Seq(Numbers) /\ Len(s) = l /\ \A i \in 1 .. l : s[i] = d[i]
  <2>1. l \in Int /\ 1 <= l /\ l <= Len(d) /\ 1 \in Int /\ l - 1 + 1 = l
    BY <1>1, <1>3
  <2>2. \A i \in 1 .. l : d[i] \in Numbers
    BY <1>3, <2>1
  <2>3. /\ SubSeq(d, 1, l) \in Seq(Numbers)
        /\ Len(SubSeq(d, 1, l)) = l - 1 + 1
        /\ \A i \in 1 .. l - 1 + 1 : SubSeq(d, 1, l)[i] = d[1 + i - 1]
    BY <2>1, <2>2, SubSeqProperties
  <2> QED
    BY <2>1, <2>3, <1>4
<1>6. \A i \in 1 .. l - 1 : s[i + 1] = c[i]
  <2> SUFFICES ASSUME NEW i \in 1 .. l - 1 PROVE s[i + 1] = c[i]
    OBVIOUS
  <2>1. i + 1 \in 1 .. l /\ i \in 1 .. Len(c)
    BY <1>1
  <2> QED
    BY <2>1, <1>3, <1>5
<1>7. s[1] = n
  BY <1>1, <1>3, <1>5
<1> QED
  BY <1>5, <1>6, <1>7 DEF l, s
-----------------------------------------------------------------------------
(* The steps.  What only turns pages leaves the calls where they were.     *)
LEMMA KeptUnchanged ==
  ASSUME UNCHANGED <<log, pos, calls, initialized, file>>, NEW k \in Types, Kept(k)
  PROVE  Kept(k)'
  BY DEF Kept, Ring, Lists, Tidy

LEMMA RingLogged ==
  ASSUME LogInv, NEW k \in Types, NEW n \in Numbers, Logged(k, n), Happened(k, n), Ring(k)
  PROVE  Ring(k)'
<1> DEFINE p == pos[k]
           c == calls[k]
           s == calls[k]'
           t == pos[k]'
<1>1. p \in Nat /\ c \in Seq(Numbers) /\ Len(c) <= MAXLOG
  BY DEF LogInv, TypeOK
<1>2. /\ t = p + 1
      /\ \A j \in Slots : log[k]'[j] = IF j = p % MAXLOG THEN n ELSE log[k][j]
  BY DEF LogInv, TypeOK, Logged
<1>3. s = Latest(n, c)
  BY DEF LogInv, TypeOK, Happened
<1> HIDE DEF c, s, t
<1>4. /\ s \in Seq(Numbers)
      /\ Len(s) = (IF Len(c) < MAXLOG THEN Len(c) + 1 ELSE MAXLOG)
      /\ s[1] = n
      /\ \A i \in 1 .. Len(s) - 1 : s[i + 1] = c[i]
  BY <1>1, <1>3, Pushed
<1>5. /\ Len(c) = IF p < MAXLOG THEN p ELSE MAXLOG
      /\ \A i \in 0 .. Len(c) - 1 : log[k][(p - 1 - i) % MAXLOG] = c[i + 1]
      /\ \A j \in Slots : p <= j => log[k][j] = Blank
  BY DEF Ring, c
<1> HIDE DEF p
<1>6. Len(s) = IF t < MAXLOG THEN t ELSE MAXLOG
  BY <1>1, <1>2, <1>4, <1>5, Sizes
<1>7. ASSUME NEW i \in 0 .. Len(s) - 1
      PROVE  log[k]'[(t - 1 - i) % MAXLOG] = s[i + 1]
  <2>1. i \in Int /\ 0 <= i /\ i < MAXLOG /\ p - i \in Int /\ t - 1 - i = p - i
    BY <1>1, <1>2, <1>6, Sizes
  <2>2. (p - i) % MAXLOG \in Slots
    BY <2>1, ModRange
  <2>3. CASE i = 0
    <3>1. p - i = p
      BY <2>3, <1>1
    <3> QED
      BY <3>1, <2>1, <2>2, <2>3, <1>2, <1>4
  <2>4. CASE i # 0
    <3>1. (p - i) % MAXLOG # p % MAXLOG
      <4>1. p \in Int /\ p - (p - i) < MAXLOG /\ (p - i) - p < MAXLOG /\ p # p - i
        BY <2>1, <2>4, <1>1, Sizes
      <4> QED
        BY <4>1, <2>1, ModUnique
    <3>2. i - 1 \in 0 .. Len(c) - 1 /\ (i - 1) + 1 = i /\ p - 1 - (i - 1) = p - i
      BY <2>1, <2>4, <1>1, <1>2, <1>5, <1>6, Sizes
    <3>3. log[k][(p - i) % MAXLOG] = c[i]
      BY <3>2, <1>5
    <3>4. i \in 1 .. Len(s) - 1
      BY <2>1, <2>4
    <3> QED
      BY <3>1, <3>3, <3>4, <2>1, <2>2, <1>2, <1>4
  <2> QED
    BY <2>3, <2>4
<1>8. ASSUME NEW j \in Slots, t <= j PROVE log[k]'[j] = Blank
  <2>1. p \in Slots /\ j # p /\ p <= j
    BY <1>1, <1>2, <1>8, Sizes DEF Slots
  <2>2. p % MAXLOG = p
    BY <2>1, ModSmall
  <2> QED
    BY <2>1, <2>2, <1>2, <1>5
<1> QED
  BY <1>2, <1>6, <1>7, <1>8 DEF Ring, s, t

(* A call of one type is logged. *)
LEMMA CallLogged ==
  ASSUME LogInv, NEW k \in Types, NEW n \in Numbers, Logged(k, n), Happened(k, n),
         UNCHANGED <<off, kept, spoilt>>
  PROVE  /\ log' \in [Types -> [Slots -> Numbers \cup {Blank}]]
         /\ pos' \in [Types -> 0 .. MaxPos]
         /\ calls' \in [Types -> Seq(Numbers)] /\ \A j \in Types : Len(calls'[j]) <= MAXLOG
         /\ ~spoilt' => \A j \in Types : Kept(j)' /\ OnPage(j)'
<1>1. log' \in [Types -> [Slots -> Numbers \cup {Blank}]]
  BY DEF LogInv, TypeOK, Logged
<1>2. pos' \in [Types -> 0 .. MaxPos]
  BY Sizes DEF LogInv, TypeOK, Logged
<1>3. calls' \in [Types -> Seq(Numbers)] /\ \A j \in Types : Len(calls'[j]) <= MAXLOG
  <2> DEFINE s == Latest(n, calls[k])
  <2>1. s \in Seq(Numbers) /\ Len(s) <= MAXLOG
    <3>1. calls[k] \in Seq(Numbers) /\ Len(calls[k]) <= MAXLOG
      BY DEF LogInv, TypeOK
    <3>2. /\ s \in Seq(Numbers)
          /\ Len(s) = (IF Len(calls[k]) < MAXLOG THEN Len(calls[k]) + 1 ELSE MAXLOG)
      BY <3>1, Pushed
    <3> HIDE DEF s
    <3> QED
      BY <3>1, <3>2, Sizes
  <2>2. calls' = [calls EXCEPT ![k] = s]
    BY DEF Happened
  <2> HIDE DEF s
  <2> QED
    BY <2>1, <2>2 DEF LogInv, TypeOK
<1>4. ASSUME NEW j \in Types, j # k
      PROVE  log'[j] = log[j] /\ pos'[j] = pos[j] /\ calls'[j] = calls[j]
  BY <1>4 DEF LogInv, TypeOK, Logged, Happened
<1>5. pos'[k] = pos[k] + 1 /\ pos[k] \in Nat
  BY DEF LogInv, TypeOK, Logged
<1>6. ASSUME ~spoilt', NEW j \in Types PROVE Kept(j)'
  <2>1. Kept(j) /\ UNCHANGED <<initialized, file>>
    BY <1>6 DEF LogInv, kept
  <2>2. CASE j # k
    BY <2>1, <2>2, <1>4 DEF Kept, Ring, Lists, Tidy
  <2>3. CASE j = k
    <3>1. (initialized \/ file[k][0] = Blank => Ring(k))'
      BY <2>1, <2>3, RingLogged DEF Kept
    <3>2. pos'[k] # 0
      BY <1>5
    <3> QED
      BY <3>1, <3>2, <2>1, <2>3 DEF Kept, Tidy
  <2> QED
    BY <2>2, <2>3
<1>7. ASSUME ~spoilt', NEW j \in Types PROVE OnPage(j)'
  <2>1. OnPage(j) /\ off' = off
    BY <1>7 DEF LogInv
  <2>2. CASE j # k
    BY <2>1, <2>2, <1>4 DEF OnPage
  <2>3. CASE j = k
    <3>1. off[k] \in Int
      BY Sizes DEF LogInv, TypeOK, Slots
    <3> QED
      BY <3>1, <2>1, <2>3, <1>5, Sizes DEF OnPage
  <2> QED
    BY <2>2, <2>3
<1> QED
  BY <1>1, <1>2, <1>3, <1>6, <1>7

(* Every file has a first empty slot, or none.                             *)
LEMMA FilledFirst ==
  ASSUME TypeOK, NEW k \in Types
  PROVE  /\ Filled(file[k]) \in 0 .. MAXLOG
         /\ Filled(file[k]) < MAXLOG => file[k][Filled(file[k])] = Blank
<1> DEFINE blank == {i \in Slots : file[k][i] = Blank}
<1>1. CASE blank = {}
  BY <1>1, Sizes DEF Filled
<1>2. CASE blank # {}
  <2>1. PICK m \in blank : \A y \in blank : m <= y
    BY <1>2, LeastSlot
  <2>2. blank \subseteq Int
    BY Sizes DEF Slots
  <2>3. Min(blank) = m
    BY <2>1, <2>2, LeastIs
  <2>4. Filled(file[k]) = m
    BY <2>3, <1>2 DEF Filled
  <2>5. m \in Slots /\ file[k][m] = Blank
    BY <2>1
  <2>6. m \in 0 .. MAXLOG
    BY <2>5, Sizes DEF Slots
  <2> QED
    BY <2>4, <2>5, <2>6
<1> QED
  BY <1>1, <1>2

LEMMA LoadedTyped ==
  ASSUME TypeOK, NEW k \in Types
  PROVE  /\ Filled(file[k]) \in 0 .. MAXLOG
         /\ Loaded(k).log \in [Slots -> Numbers \cup {Blank}]
         /\ Loaded(k).pos \in 0 .. MaxPos
<1> DEFINE n == Filled(file[k])
           last == IF n = 0 THEN 0 ELSE n - 1
<1>1. n \in 0 .. MAXLOG
  BY FilledFirst
<1>2. last \in Slots /\ \A i \in Slots : i <= last => last - i \in Slots
  BY <1>1, Sizes DEF Slots
<1>3. /\ Loaded(k).log = [i \in Slots |-> IF i <= last THEN file[k][last - i] ELSE log[k][i]]
      /\ Loaded(k).pos = n
  BY DEF Loaded
<1> HIDE DEF last, n
<1>4. \A i \in Slots : log[k][i] \in Numbers \cup {Blank} /\ file[k][i] \in Numbers \cup {Blank}
  BY DEF TypeOK
<1> QED
  BY <1>1, <1>2, <1>3, <1>4, Sizes DEF n

(* The register is opened for the first time, before any call of this run: *)
(* the rings are written from the file, oldest first.                      *)
LEMMA FirstOpened ==
  ASSUME LogInv, CallReg, ~initialized
  PROVE  /\ log' \in [Types -> [Slots -> Numbers \cup {Blank}]]
         /\ pos' \in [Types -> 0 .. MaxPos]
         /\ ~spoilt' => \A k \in Types : Kept(k)' /\ OnPage(k)'
<1>1. /\ log' = [k \in Types |-> Loaded(k).log] /\ pos' = [k \in Types |-> Loaded(k).pos]
      /\ spoilt' = (spoilt \/ \E k \in Types : pos[k] > 0)
      /\ UNCHANGED <<off, file, calls>> /\ initialized'
  BY DEF CallReg
<1>2. TypeOK
  BY DEF LogInv
<1>3. log' \in [Types -> [Slots -> Numbers \cup {Blank}]] /\ pos' \in [Types -> 0 .. MaxPos]
  <2>1. \A k \in Types : /\ Loaded(k).log \in [Slots -> Numbers \cup {Blank}]
                         /\ Loaded(k).pos \in 0 .. MaxPos
    BY <1>2, LoadedTyped
  <2> QED
    BY <1>1, <2>1
<1>4. ASSUME ~spoilt', NEW k \in Types PROVE Kept(k)' /\ OnPage(k)'
  <2> DEFINE c == calls[k]
             n == Len(c)
             f == file[k]
             last == IF n = 0 THEN 0 ELSE n - 1
  <2>1. pos[k] = 0 /\ c \in Seq(Numbers) /\ n <= MAXLOG /\ off[k] = 0
    <3>1. pos[k] \in 0 .. MaxPos /\ ~ (pos[k] > 0)
      BY <1>1, <1>2, <1>4 DEF TypeOK
    <3>2. calls[k] \in Seq(Numbers) /\ Len(calls[k]) <= MAXLOG
      BY <1>2 DEF TypeOK
    <3>3. off[k] = 0
      BY DEF LogInv
    <3> QED
      BY <3>1, <3>2, <3>3, Sizes
  <2>2. Lists(f, c) /\ log[k] = Empty /\ Tidy(k)
    BY <1>1, <1>4, <2>1 DEF LogInv, Kept
  <2>3. Filled(f) = n
    BY <2>1, <2>2, ListedIs
  <2>4. pos'[k] = n /\ \A i \in Slots : log'[k][i] = IF i <= last THEN f[last - i] ELSE Blank
    BY <1>1, <2>2, <2>3 DEF Loaded, Empty
  <2>5. /\ \A i \in 0 .. n - 1 : f[i] = c[i + 1]
        /\ \A j \in Slots : n <= j => f[j] = Blank
    BY <2>2 DEF Lists
  <2>6. n \in 0 .. MAXLOG
    BY <2>1, Sizes
  <2> HIDE DEF c, f, n
  <2>7. ASSUME NEW i \in 0 .. n - 1 PROVE log'[k][(n - 1 - i) % MAXLOG] = c[i + 1]
    <3>1. n - 1 - i \in Slots /\ n - 1 - i <= last /\ last - (n - 1 - i) = i
      BY <2>6, Sizes DEF Slots
    <3>2. (n - 1 - i) % MAXLOG = n - 1 - i
      BY <3>1, ModSmall
    <3> HIDE DEF last
    <3> QED
      BY <3>1, <3>2, <2>4, <2>5
  <2>8. ASSUME NEW j \in Slots, n <= j PROVE log'[k][j] = Blank
    <3>1. CASE j <= last
      <4>1. last - j = 0 /\ n = 0 /\ 0 \in Slots
        BY <3>1, <2>6, <2>8, Sizes DEF Slots
      <4> HIDE DEF last
      <4> QED
        BY <4>1, <3>1, <2>4, <2>5
    <3>2. CASE ~ (j <= last)
      <4> HIDE DEF last
      <4> QED
        BY <3>2, <2>4
    <3> QED
      BY <3>1, <3>2
  <2>9. Ring(k)'
    <3> DEFINE t == pos'[k]
    <3>1. t = n
      BY <2>4
    <3> HIDE DEF t
    <3>2. n = IF t < MAXLOG THEN t ELSE MAXLOG
      BY <3>1, <2>6, Sizes
    <3>3. /\ \A i \in 0 .. n - 1 : log'[k][(t - 1 - i) % MAXLOG] = c[i + 1]
          /\ \A j \in Slots : t <= j => log'[k][j] = Blank
      BY <3>1, <2>7, <2>8
    <3>4. calls'[k] = c
      BY <1>1 DEF c
    <3> QED
      BY <3>2, <3>3, <3>4 DEF Ring, t, n
  <2>10. OnPage(k)'
    BY <1>1, <2>1 DEF OnPage
  <2> QED
    BY <1>1, <2>2, <2>9, <2>10 DEF Kept, Tidy
<1> QED
  BY <1>3, <1>4

(* One line further down: to the ring's last call, and not beyond it.      *)
LEMMA BelowIs ==
  ASSUME LogInv, NEW k \in Types
  PROVE  /\ Below(k) \in Slots
         /\ ~spoilt /\ initialized /\ pos[k] <= MAXLOG => Below(k) <= pos[k] - 1 \/ Below(k) = 0
<1>1. /\ TypeOK /\ pos[k] \in Nat /\ off[k] \in Slots
      /\ Newest(k) \in -1 .. MAXLOG - 1
      /\ pos[k] \in 1 .. MAXLOG => Newest(k) = pos[k] - 1
  BY NewestIs DEF LogInv, TypeOK
<1>2. CASE off[k] + 1 = MAXLOG
  BY <1>1, <1>2 DEF Below, LogInv, OnPage
<1>3. CASE off[k] + 1 # MAXLOG /\ log[k][off[k] + 1] = Blank
  <2> DEFINE m == Newest(k)
             p == pos[k]
  <2>1. p = 0 => m = -1
    BY DEF Newest
  <2>2. Below(k) = Max({m, 0})
    BY <1>3 DEF Below
  <2>3. m \in -1 .. MAXLOG - 1 /\ p \in Nat /\ (p \in 1 .. MAXLOG => m = p - 1)
    BY <1>1
  <2> HIDE DEF m, p
  <2>4. Max({m, 0}) = IF m > 0 THEN m ELSE 0
    <3> DEFINE top == IF m > 0 THEN m ELSE 0
    <3> DEFINE S == {m, 0}
    <3>1. top \in S /\ S \subseteq Int /\ \A y \in S : top >= y
      BY <2>3, Sizes
    <3> HIDE DEF top, S
    <3>2. Max(S) = top
      BY <3>1, GreatestIs
    <3> QED
      BY <3>2 DEF top, S
  <2> QED
    BY <2>1, <2>2, <2>3, <2>4, Sizes DEF p, Slots
<1>4. CASE off[k] + 1 # MAXLOG /\ log[k][off[k] + 1] # Blank
  <2>1. Below(k) = off[k] + 1 /\ off[k] + 1 \in Slots
    BY <1>1, <1>4, Sizes DEF Below, Slots
  <2>2. ASSUME ~spoilt, initialized, pos[k] <= MAXLOG PROVE off[k] + 1 <= pos[k] - 1
    <3>1. Ring(k)
      BY <2>2 DEF LogInv, Kept
    <3>2. ~ (pos[k] <= off[k] + 1)
      BY <3>1, <2>1, <1>4 DEF Ring
    <3> QED
      BY <3>2, <1>1, Sizes DEF Slots
  <2> QED
    BY <2>1, <2>2
<1> QED
  BY <1>2, <1>3, <1>4

(* The phone starts with empty rings: what they held must be in the file.  *)
LEMMA Started ==
  ASSUME LogInv, Start, calls' = calls, NEW k \in Types,
         Lists(file'[k], calls[k]),
         \A i, j \in Slots : i <= j /\ file'[k][i] = Blank => file'[k][j] = Blank
  PROVE  Kept(k)' /\ OnPage(k)'
<1>1. /\ log'[k] = Empty /\ pos'[k] = 0 /\ off'[k] = 0 /\ ~initialized' /\ calls'[k] = calls[k]
      /\ calls[k] \in Seq(Numbers) /\ Len(calls[k]) <= MAXLOG
  BY DEF Start, LogInv, TypeOK
<1>2. ASSUME file'[k][0] = Blank PROVE Ring(k)'
  <2> DEFINE c == calls[k]
  <2>1. c \in Seq(Numbers) /\ Len(c) \in Nat
    BY <1>1
  <2>2. ~ (Len(c) > 0)
    <3> SUFFICES ASSUME Len(c) > 0 PROVE FALSE
      OBVIOUS
    <3>1. 0 \in 0 .. Len(c) - 1 /\ 1 \in 1 .. Len(c)
      BY <2>1
    <3>2. file'[k][0] = c[0 + 1] /\ c[0 + 1] \in Numbers
      BY <3>1, <2>1 DEF Lists
    <3> QED
      BY <3>2, <1>2, BlankAssumption
  <2>3. Len(calls'[k]) = 0
    BY <1>1, <2>1, <2>2
  <2>4. \A j \in Slots : log'[k][j] = Blank
    BY <1>1 DEF Empty
  <2> QED
    BY <1>1, <2>3, <2>4, Sizes DEF Ring
<1>3. Lists(file'[k], calls'[k]) /\ Tidy(k)'
  BY <1>1 DEF Tidy
<1> QED
  BY <1>1, <1>2, <1>3 DEF Kept, OnPage

LEMMA StartTyped ==
  ASSUME TypeOK, Start, calls' = calls, spoilt' \in BOOLEAN,
         file' \in [Types -> [Slots -> Numbers \cup {Blank}]]
  PROVE  TypeOK'
<1>1. Empty \in [Slots -> Numbers \cup {Blank}]
  BY DEF Empty
<1>2. log' \in [Types -> [Slots -> Numbers \cup {Blank}]]
  BY <1>1 DEF Start
<1>3. 0 \in 0 .. MaxPos /\ 0 \in Slots /\ LogSend \in Types
  BY Sizes
<1>4. /\ pos' \in [Types -> 0 .. MaxPos] /\ off' \in [Types -> Slots]
      /\ initialized' \in BOOLEAN /\ open' \in BOOLEAN /\ CR_current_record' \in Types
  BY <1>3 DEF Start
<1>5. calls' \in [Types -> Seq(Numbers)] /\ \A k \in Types : Len(calls'[k]) <= MAXLOG
  BY DEF TypeOK
<1> QED
  BY <1>2, <1>4, <1>5 DEF TypeOK

LEMMA DumpedTyped ==
  ASSUME TypeOK, NEW k \in Types
  PROVE  Dumped(k) \in [Slots -> Numbers \cup {Blank}]
<1>1. \A i \in Slots : Back(k, i) \in Slots
  BY NewestIs, ModRange, Sizes DEF Back, Slots
<1> QED
  BY <1>1 DEF Dumped, TypeOK

(* What lists calls has nothing after its first empty slot. *)
LEMMA ListsTidy ==
  ASSUME NEW slots, NEW s \in Seq(Numbers), Lists(slots, s),
         NEW i \in Slots, NEW j \in Slots, i <= j, slots[i] = Blank
  PROVE  slots[j] = Blank
<1>1. Len(s) \in Nat /\ i \in Nat /\ j \in Nat /\ \A l \in 1 .. Len(s) : s[l] \in Numbers
  BY Sizes DEF Slots
<1>2. Len(s) <= i
  <2> SUFFICES ASSUME i < Len(s) PROVE FALSE
    BY <1>1
  <2>1. i \in 0 .. Len(s) - 1 /\ i + 1 \in 1 .. Len(s)
    BY <1>1
  <2>2. slots[i] = s[i + 1] /\ s[i + 1] \in Numbers
    BY <1>1, <2>1 DEF Lists
  <2> QED
    BY <2>2, BlankAssumption
<1> QED
  BY <1>1, <1>2 DEF Lists

LEMMA ExitKept ==
  ASSUME LogInv, Exit
  PROVE  LogInv'
<1>1. /\ Start /\ calls' = calls /\ file' = [k \in Types |-> Dumped(k)]
      /\ spoilt' = (spoilt \/ (~initialized /\ \E k \in Types : Filled(file[k]) > 0))
  BY DEF Exit
<1>2. TypeOK
  BY DEF LogInv
<1>3. TypeOK'
  <2>1. file' \in [Types -> [Slots -> Numbers \cup {Blank}]]
    BY <1>1, <1>2, DumpedTyped
  <2>2. spoilt' \in BOOLEAN
    BY <1>1, <1>2 DEF TypeOK
  <2> QED
    BY <1>1, <1>2, <2>1, <2>2, StartTyped
<1>4. ~open' /\ ~initialized' /\ \A k \in Types : off'[k] = 0
  BY <1>1 DEF Start
<1>5. ASSUME ~spoilt', NEW k \in Types PROVE Kept(k)' /\ OnPage(k)'
  <2>1. Kept(k) /\ calls[k] \in Seq(Numbers)
    BY <1>1, <1>2, <1>5 DEF LogInv, TypeOK
  <2>2. initialized \/ file[k][0] = Blank
    <3> SUFFICES ASSUME ~initialized, file[k][0] # Blank PROVE FALSE
      OBVIOUS
    <3>1. Filled(file[k]) \in 0 .. MAXLOG /\ ~ (Filled(file[k]) > 0)
      BY <1>1, <1>2, <1>5, LoadedTyped
    <3>2. Filled(file[k]) = 0
      BY <3>1, Sizes
    <3>3. 0 < MAXLOG => file[k][0] = Blank
      BY <1>2, <3>2, FilledFirst
    <3> QED
      BY <3>3, Sizes
  <2>3. Lists(Dumped(k), calls[k])
    BY <1>2, <2>1, <2>2, RingListed DEF Kept
  <2>4. file'[k] = Dumped(k)
    BY <1>1
  <2>5. \A i, j \in Slots : i <= j /\ file'[k][i] = Blank => file'[k][j] = Blank
    BY <2>1, <2>3, <2>4, ListsTidy
  <2> QED
    BY <1>1, <2>3, <2>4, <2>5, Started
<1> QED
  BY <1>3, <1>4, <1>5 DEF LogInv

LEMMA KilledKept ==
  ASSUME LogInv, Killed
  PROVE  LogInv'
<1>1. /\ Start /\ calls' = calls /\ file' = file
      /\ spoilt' = (spoilt \/ \E k \in Types : Listed(file[k]) # calls[k])
  BY DEF Killed
<1>2. TypeOK
  BY DEF LogInv
<1>3. TypeOK'
  <2>1. spoilt' \in BOOLEAN
    BY <1>1, <1>2 DEF TypeOK
  <2> QED
    BY <1>1, <1>2, <2>1, StartTyped DEF TypeOK
<1>4. ~open' /\ ~initialized' /\ \A k \in Types : off'[k] = 0
  BY <1>1 DEF Start
<1>5. ASSUME ~spoilt', NEW k \in Types PROVE Kept(k)' /\ OnPage(k)'
  <2> DEFINE f == file[k]
             c == calls[k]
             n == Filled(f)
  <2>1. Tidy(k) /\ c \in Seq(Numbers) /\ Listed(f) = c
    BY <1>1, <1>2, <1>5 DEF LogInv, TypeOK, Kept
  <2>2. n \in 0 .. MAXLOG /\ (n < MAXLOG => f[n] = Blank)
    BY <1>2, LoadedTyped, FilledFirst
  <2>3. Len(c) = n /\ \A i \in 1 .. n : c[i] = f[i - 1]
    <3>1. c = [i \in 1 .. n |-> f[i - 1]]
      BY <2>1 DEF Listed
    <3> HIDE DEF c, f, n
    <3>2. DOMAIN c = 1 .. n
      BY <3>1
    <3>3. DOMAIN c = 1 .. Len(c) /\ Len(c) \in Nat
      BY <2>1
    <3> QED
      BY <3>1, <3>2, <3>3, <2>2, Sizes
  <2>4. Lists(f, c)
    <3>1. ASSUME NEW i \in 0 .. Len(c) - 1 PROVE f[i] = c[i + 1]
      <4> HIDE DEF c, f, n
      <4>1. i + 1 \in 1 .. n /\ (i + 1) - 1 = i
        BY <2>2, <2>3, Sizes
      <4> QED
        BY <4>1, <2>3
    <3>2. ASSUME NEW j \in Slots, Len(c) <= j PROVE f[j] = Blank
      <4>1. \A i, l \in Slots : i <= l /\ f[i] = Blank => f[l] = Blank
        BY <2>1 DEF Tidy
      <4> HIDE DEF c, f, n
      <4>2. n \in Slots /\ n < MAXLOG /\ n <= j
        BY <2>2, <2>3, <3>2, Sizes DEF Slots
      <4> QED
        BY <4>1, <4>2, <2>2
    <3> QED
      BY <3>1, <3>2 DEF Lists
  <2>5. file'[k] = f
    BY <1>1
  <2>6. \A i, j \in Slots : i <= j /\ file'[k][i] = Blank => file'[k][j] = Blank
    BY <2>1, <2>5 DEF Tidy
  <2> QED
    BY <1>1, <2>4, <2>5, <2>6, Started
<1> QED
  BY <1>3, <1>4, <1>5 DEF LogInv

(* A page is turned or scrolled, the register opened again or closed.      *)
LEMMA PageTurned ==
  ASSUME LogInv, UNCHANGED <<record, kept, calls, spoilt>>,
         open' \in BOOLEAN, open' => open, CR_current_record' \in Types,
         off' \in [Types -> Slots],
         ~initialized => off' = off,
         ~spoilt => \A k \in Types : OnPage(k)'
  PROVE  LogInv'
<1>1. UNCHANGED <<log, pos, calls, initialized, file, spoilt>>
  BY DEF record, kept
<1>2. TypeOK'
  BY <1>1 DEF LogInv, TypeOK
<1>3. ~spoilt' => \A k \in Types : Kept(k)'
  BY <1>1, KeptUnchanged DEF LogInv
<1> QED
  BY <1>1, <1>2, <1>3 DEF LogInv

(* A call is logged while the register is closed, or as it closes.         *)
LEMMA LoggedKept ==
  ASSUME LogInv, NEW k \in Types, NEW n \in Numbers, Logged(k, n), Happened(k, n),
         UNCHANGED <<off, CR_current_record, kept, spoilt>>, open' \in BOOLEAN, open' => open
  PROVE  LogInv'
<1>1. /\ log' \in [Types -> [Slots -> Numbers \cup {Blank}]]
      /\ pos' \in [Types -> 0 .. MaxPos]
      /\ calls' \in [Types -> Seq(Numbers)] /\ \A j \in Types : Len(calls'[j]) <= MAXLOG
      /\ ~spoilt' => \A j \in Types : Kept(j)' /\ OnPage(j)'
  BY CallLogged
<1>2. UNCHANGED <<off, CR_current_record, initialized, file, spoilt>>
  BY DEF kept
<1>3. TypeOK'
  BY <1>1, <1>2 DEF LogInv, TypeOK
<1> QED
  BY <1>1, <1>2, <1>3 DEF LogInv

LEMMA LogInit == Init => LogInv
<1> SUFFICES ASSUME Init PROVE LogInv
  OBVIOUS
<1>1. \A k \in Types : /\ log[k] = Empty /\ pos[k] = 0 /\ off[k] = 0 /\ file[k] = Empty
                       /\ calls[k] = <<>>
  BY DEF Init
<1>2. /\ 0 \in Slots /\ 0 \in 0 .. MaxPos /\ LogSend \in Types /\ 0 < MAXLOG
      /\ Empty \in [Slots -> Numbers \cup {Blank}] /\ \A j \in Slots : Empty[j] = Blank
  BY Sizes DEF Empty
<1>3. <<>> \in Seq(Numbers) /\ Len(<<>>) = 0
  OBVIOUS
<1>4. TypeOK
  <2>1. log \in [Types -> [Slots -> Numbers \cup {Blank}]]
    BY <1>2 DEF Init
  <2>2. file \in [Types -> [Slots -> Numbers \cup {Blank}]]
    BY <1>2 DEF Init
  <2>3. /\ pos \in [Types -> 0 .. MaxPos] /\ off \in [Types -> Slots]
        /\ CR_current_record \in Types
        /\ initialized \in BOOLEAN /\ open \in BOOLEAN /\ spoilt \in BOOLEAN
    BY <1>2 DEF Init
  <2>4. calls \in [Types -> Seq(Numbers)] /\ \A k \in Types : Len(calls[k]) <= MAXLOG
    <3>1. calls \in [Types -> Seq(Numbers)]
      BY <1>3 DEF Init
    <3>2. 0 <= MAXLOG
      BY Sizes
    <3>3. \A k \in Types : Len(calls[k]) = 0
      BY <1>1, <1>3
    <3> QED
      BY <3>1, <3>2, <3>3
  <2> QED
    BY <2>1, <2>2, <2>3, <2>4 DEF TypeOK
<1>5. ASSUME NEW k \in Types PROVE Kept(k) /\ OnPage(k)
  BY <1>1, <1>2, <1>3 DEF Kept, OnPage, Ring, Lists, Tidy
<1> QED
  BY <1>1, <1>4, <1>5 DEF LogInv, Init

LEMMA LogNext == LogInv /\ [Next]_vars => LogInv'
<1> SUFFICES ASSUME LogInv, [Next]_vars PROVE LogInv'
  OBVIOUS
<1>t. /\ TypeOK /\ CR_current_record \in Types /\ off \in [Types -> Slots]
      /\ open \in BOOLEAN /\ (open => initialized)
      /\ \A k \in Types : ~spoilt => OnPage(k)
  BY DEF LogInv, TypeOK
<1>1. ASSUME NEW k \in Types, NEW n \in Numbers, LogAdd(k, n) PROVE LogInv'
  <2>1. /\ Logged(k, n) /\ Happened(k, n) /\ UNCHANGED <<off, CR_current_record, kept, spoilt>>
        /\ open' = open
    BY <1>1 DEF LogAdd, page
  <2> QED
    BY <2>1, <1>t, LoggedKept
<1>2. CASE CallReg
  <2>1. CASE initialized
    <3>1. /\ UNCHANGED <<log, pos, off, CR_current_record, file, calls, initialized, spoilt>>
          /\ open' = TRUE
      BY <1>2, <2>1 DEF CallReg, record
    <3>2. TypeOK'
      BY <3>1, <1>t DEF TypeOK
    <3>3. ~spoilt' => \A k \in Types : Kept(k)' /\ OnPage(k)'
      BY <3>1, KeptUnchanged DEF LogInv, OnPage
    <3> QED
      BY <2>1, <3>1, <3>2, <3>3 DEF LogInv
  <2>2. CASE ~initialized
    <3>1. /\ UNCHANGED <<off, CR_current_record, file, calls>>
          /\ open' = TRUE /\ initialized' = TRUE /\ spoilt' \in BOOLEAN
      BY <1>2, <2>2, <1>t DEF CallReg, TypeOK
    <3>2. /\ log' \in [Types -> [Slots -> Numbers \cup {Blank}]]
          /\ pos' \in [Types -> 0 .. MaxPos]
          /\ ~spoilt' => \A k \in Types : Kept(k)' /\ OnPage(k)'
      BY <1>2, <2>2, FirstOpened
    <3>3. TypeOK'
      BY <3>1, <3>2, <1>t DEF TypeOK
    <3> QED
      BY <3>1, <3>2, <3>3 DEF LogInv
  <2> QED
    BY <2>1, <2>2
<1>3. ASSUME NEW k, Turned(k) PROVE LogInv'
  <2>1. /\ UNCHANGED <<record, kept, calls, spoilt, off, open>> /\ CR_current_record' \in Types
        /\ UNCHANGED pos
    BY <1>3 DEF Turned, record
  <2> QED
    BY <2>1, <1>t, PageTurned DEF OnPage
<1>4. ASSUME NEW to \in Slots, Scrolled(to),
             ~spoilt /\ pos[CR_current_record] <= MAXLOG
                => to <= pos[CR_current_record] - 1 \/ to = 0
      PROVE  LogInv'
  <2>1. /\ UNCHANGED <<record, kept, calls, spoilt, open, CR_current_record>> /\ UNCHANGED pos
        /\ off' = [off EXCEPT ![CR_current_record] = to] /\ open
    BY <1>4 DEF Scrolled, record
  <2>2. ~spoilt => \A k \in Types : OnPage(k)'
    BY <2>1, <1>4, <1>t DEF OnPage
  <2> QED
    BY <2>1, <2>2, <1>t, PageTurned
<1>5. CASE Left \/ Right
  BY <1>3, <1>5 DEF Left, Right
<1>6. CASE Up
  <2> DEFINE k == CR_current_record
             o == off[k]
             to == Max({o - 1, 0})
  <2>1. o \in Slots /\ o \in Nat /\ pos[k] \in Int /\ (~spoilt => OnPage(k))
    BY <1>t, Sizes DEF TypeOK, Slots
  <2>2. to = IF o = 0 THEN 0 ELSE o - 1
    <3> DEFINE S == {o - 1, 0}
               top == IF o = 0 THEN 0 ELSE o - 1
    <3> HIDE DEF o
    <3>1. top \in S /\ S \subseteq Int /\ \A y \in S : top >= y
      BY <2>1
    <3> HIDE DEF top, S
    <3>2. Max(S) = top
      BY <3>1, GreatestIs
    <3> QED
      BY <3>2 DEF S, top
  <2>3. to \in Slots /\ (~spoilt /\ pos[k] <= MAXLOG => to <= pos[k] - 1 \/ to = 0)
    <3> HIDE DEF to
    <3> QED
      BY <2>1, <2>2, Sizes DEF OnPage, Slots
  <2> QED
    BY <2>3, <1>4, <1>6 DEF Up
<1>7. CASE Down
  <2>1. open /\ Scrolled(Below(CR_current_record))
    BY <1>7 DEF Down, Scrolled
  <2>2. /\ Below(CR_current_record) \in Slots
        /\ ~spoilt /\ pos[CR_current_record] <= MAXLOG
              => Below(CR_current_record) <= pos[CR_current_record] - 1
                 \/ Below(CR_current_record) = 0
    BY <2>1, <1>t, BelowIs
  <2> QED
    BY <2>1, <2>2, <1>4
<1>8. CASE Close
  <2>1. /\ UNCHANGED <<record, off, CR_current_record, kept, calls, spoilt>> /\ open' = FALSE
        /\ UNCHANGED pos
    BY <1>8 DEF Close, record
  <2> QED
    BY <2>1, <1>t, PageTurned DEF OnPage
<1>9. CASE Redial
  <2>1. PICK n \in RecordNumber :
          \/ open' = FALSE /\ UNCHANGED <<record, calls>>
          \/ UNCHANGED <<open, record, calls>>
          \/ n # Blank /\ open' = FALSE /\ Logged(LogSend, n) /\ Happened(LogSend, n)
    BY <1>9 DEF Redial
  <2>2. UNCHANGED <<off, CR_current_record, kept, spoilt>>
    BY <1>9 DEF Redial
  <2>3. CASE (open' = FALSE \/ open' = open) /\ UNCHANGED <<record, calls>>
    <3>1. UNCHANGED <<pos, off, spoilt>>
      BY <2>2, <2>3 DEF record
    <3>2. open' \in BOOLEAN /\ (open' => open)
      <4>1. open \in BOOLEAN
        BY <1>t
      <4>2. CASE open' = FALSE
        BY <4>2
      <4>3. CASE open' = open
        BY <4>1, <4>3
      <4> QED
        BY <2>3, <4>2, <4>3
    <3>3. CR_current_record' \in Types /\ off' \in [Types -> Slots] /\ (~initialized => off' = off)
      BY <2>2, <1>t
    <3>4. ~spoilt => \A k \in Types : OnPage(k)'
      BY <3>1, <1>t DEF OnPage
    <3> QED
      BY <2>2, <2>3, <3>2, <3>3, <3>4, PageTurned
  <2>4. CASE n # Blank /\ open' = FALSE /\ Logged(LogSend, n) /\ Happened(LogSend, n)
    <3>1. n \in Numbers
      BY <2>4, <1>t DEF RecordNumber, TypeOK
    <3>2. LogSend \in Types
      BY Sizes
    <3> QED
      BY <2>2, <2>4, <3>1, <3>2, LoggedKept
  <2> QED
    BY <2>1, <2>3, <2>4
<1>10. CASE Exit
  BY <1>10, ExitKept
<1>11. CASE Killed
  BY <1>11, KilledKept
<1>12. CASE UNCHANGED vars
  <2>1. UNCHANGED <<log, pos, off, initialized, CR_current_record, open, file, calls, spoilt>>
    BY <1>12 DEF vars, record, page, kept
  <2>2. \A k \in Types : ~spoilt => Kept(k)' /\ OnPage(k)'
    BY <2>1, KeptUnchanged DEF LogInv, OnPage
  <2>3. TypeOK'
    BY <2>1, <1>t DEF TypeOK
  <2> QED
    BY <2>1, <2>2, <2>3 DEF LogInv
<1> QED
  BY <1>1, <1>2, <1>5, <1>6, <1>7, <1>8, <1>9, <1>10, <1>11, <1>12 DEF Next

LEMMA LogAlways == Spec => []LogInv
  BY LogInit, LogNext, PTL DEF Spec

(* Positions and offsets stay within the rings and the pages, whatever the *)
(* keys and the runs of the phone: PRIAX_LogAdd, CR_LoadCalls, the scroll  *)
(* keys of CR_EventHandler.                                                *)
THEOREM LogTypeCorrect == Spec => []TypeOK
<1>1. LogInv => TypeOK
  BY DEF LogInv
<1> QED
  BY <1>1, LogAlways, PTL

(* CR_show lists the calls there were, newest first, over restarts and     *)
(* round the ring, unless the register was opened late or never.           *)
THEOREM NewestFirstAlways == Spec => []NewestFirst
<1>1. ASSUME LogInv PROVE NewestFirst
  <2> SUFFICES ASSUME initialized, ~spoilt, NEW k \in Types PROVE Shown(k) = calls[k]
    BY DEF NewestFirst
  <2>1. TypeOK /\ Ring(k) /\ calls[k] \in Seq(Numbers) /\ Len(calls[k]) <= MAXLOG
    BY <1>1 DEF LogInv, Kept, TypeOK
  <2>2. Listed(Dumped(k)) = calls[k]
    BY <2>1, RingListed, ListedIs
  <2> QED
    BY <2>2 DEF Shown, Dumped
<1> QED
  BY <1>1, LogAlways, PTL

(* CR_CurrentRecord, which does not go round the ring as CR_show does, is  *)
(* nevertheless the record on the top line, while the ring has not.        *)
THEOREM RecordOnTopAlways == Spec => []RecordOnTop
<1>1. ASSUME LogInv PROVE RecordOnTop
  <2> DEFINE k == CR_current_record
             p == pos[k]
             o == off[k]
             c == calls[k]
  <2> SUFFICES ASSUME open, ~spoilt, p \in 1 .. MAXLOG
               PROVE  CurrentRecord = Back(k, o) /\ log[k][CurrentRecord] # Blank
    BY DEF RecordOnTop
  <2>1. /\ TypeOK /\ k \in Types /\ o \in Slots /\ Ring(k) /\ OnPage(k)
        /\ c \in Seq(Numbers)
    BY <1>1 DEF LogInv, TypeOK, Kept
  <2>2. p \in Int /\ p <= MAXLOG /\ o \in Nat /\ o <= p - 1
    BY <2>1, Sizes DEF OnPage, Slots
  <2>3. CurrentRecord = p - 1 - o
    <3>1. Newest(k) = p - 1
      BY <2>1, NewestIs
    <3> QED
      BY <3>1 DEF CurrentRecord
  <2>4. p - 1 - o \in Slots
    BY <2>2, Sizes DEF Slots
  <2>5. (p - 1 - o) % MAXLOG = p - 1 - o
    BY <2>4, ModSmall
  <2>6. CurrentRecord = Back(k, o)
    BY <2>1, <2>2, <2>3, <2>5, BackIs
  <2>7. o \in 0 .. Len(c) - 1 /\ o + 1 \in 1 .. Len(c)
    <3>1. Len(c) = IF p < MAXLOG THEN p ELSE MAXLOG
      BY <2>1 DEF Ring
    <3> QED
      BY <3>1, <2>2, Sizes
  <2>8. log[k][CurrentRecord] = c[o + 1]
    BY <2>1, <2>3, <2>5, <2>7 DEF Ring
  <2>9. c[o + 1] \in Numbers
    BY <2>1, <2>7
  <2> QED
    BY <2>6, <2>8, <2>9, BlankAssumption
<1> QED
  BY <1>1, LogAlways, PTL
=============================================================================
