-------------------------- MODULE PostQueueProofs --------------------------
(***************************************************************************)
(* The client's callback never runs under iaxc_lock, no thread waits for   *)
(* the lock it holds, and no event reaches the client twice, for any       *)
(* number of threads, events and calls.                                    *)
(*                                                                         *)
(* NoSelfDeadlock speaks of the innermost call of a thread.  What holds    *)
(* inductively speaks of all its calls: the one that holds the lock is the *)
(* innermost, or the innermost but one while it queues an event (Shape);   *)
(* the owner of the lock is the thread that has such a call; and the flag  *)
(* iaxc_locked is up while that call is inside.                            *)
(*                                                                         *)
(* PostedOnce speaks of the client alone.  What holds inductively speaks   *)
(* of everyone who may have an event (OneHolder): the client, a call that  *)
(* posts it, a cell of the queue.  An event moves from one to another and  *)
(* is in no two of them, because the lists that calls have taken off the   *)
(* queue stay apart (HeapInv).                                             *)
(***************************************************************************)
EXTENDS PostQueue, SequenceTheorems, TLAPS

ApiPoints  == {"lock", "flag", "inside", "take", "reset", "unflag", "unlock", "drain"}
PostPoints == {"test", "walk", "link", "fill"}
HoldPoints == {"flag", "inside", "take", "reset", "unflag", "unlock"}
UpPoints   == {"inside", "take", "reset", "unflag"}

Pointers == {NULL, WILD, HEAD} \cup Cells
Frame == [at: ApiPoints, cell: {NULL, WILD} \cup Cells]
         \cup [at: {"next"}, cell: Cells]
         \cup [at: PostPoints \cup {"callback"}, e: {Blank} \cup Events,
               tail: Pointers, cell: Pointers]

StackOK == stack \in [Threads -> Seq(Frame)]

(* A thread's calls s: which hold the lock, and where it may stand. *)
Holding(s) == \E i \in 1 .. Len(s) : s[i].at \in HoldPoints
Up(s)      == \E i \in 1 .. Len(s) : s[i].at \in UpPoints
Shape(s)   == \A i \in 1 .. Len(s) :
                 s[i].at \in HoldPoints =>
                    \/ i = Len(s)
                    \/ i = Len(s) - 1 /\ s[i].at = "inside" /\ s[Len(s)].at \in PostPoints

LockInv == /\ \A t \in Threads : Shape(stack[t])
           /\ \A t \in Threads : owner = t <=> Holding(stack[t])
           /\ \A t \in Threads : Up(stack[t]) => locked = 1

-----------------------------------------------------------------------------
(* What Goto, Push and Return do to a sequence of calls.                   *)
LEMMA GotoFacts ==
    ASSUME NEW s \in Seq(Frame), s # <<>>, NEW f \in Frame
    PROVE  LET u == [s EXCEPT ![Len(s)] = f] IN
           /\ u \in Seq(Frame) /\ Len(u) = Len(s) /\ Len(s) \in Nat \ {0}
           /\ u[Len(s)] = f
           /\ \A i \in 1 .. Len(s) : i # Len(s) => u[i] = s[i]
OBVIOUS

LEMMA PushFacts ==
    ASSUME NEW s \in Seq(Frame), NEW f \in Frame
    PROVE  LET u == Append(s, f) IN
           /\ u \in Seq(Frame) /\ Len(u) = Len(s) + 1 /\ Len(s) \in Nat
           /\ u[Len(u)] = f
           /\ \A i \in 1 .. Len(s) : u[i] = s[i]
OBVIOUS

LEMMA ReturnFacts ==
    ASSUME NEW s \in Seq(Frame), s # <<>>
    PROVE  LET u == SubSeq(s, 1, Len(s) - 1) IN
           /\ u \in Seq(Frame) /\ Len(u) = Len(s) - 1 /\ Len(s) \in Nat \ {0}
           /\ \A i \in 1 .. Len(u) : u[i] = s[i]
<1> DEFINE n == Len(s) - 1
<1>1. Len(s) \in Nat \ {0} /\ n \in Int /\ \A i \in 1 .. n : s[i] \in Frame
  OBVIOUS
<1>2. /\ SubSeq(s, 1, n) \in Seq(Frame)
      /\ Len(SubSeq(s, 1, n)) = IF 1 <= n THEN n - 1 + 1 ELSE 0
      /\ \A i \in 1 .. n - 1 + 1 : SubSeq(s, 1, n)[i] = s[1 + i - 1]
  BY <1>1, SubSeqProperties
<1>3. Len(SubSeq(s, 1, n)) = n
  <2>1. \A k \in Nat : (IF 1 <= k THEN k - 1 + 1 ELSE 0) = k
    OBVIOUS
  <2>2. n \in Nat
    BY <1>1
  <2> QED BY <1>2, <2>1, <2>2
<1>4. \A i \in 1 .. n : SubSeq(s, 1, n)[i] = s[i]
  <2>1. \A i \in 1 .. n : i \in 1 .. n - 1 + 1 /\ 1 + i - 1 = i
    BY <1>1
  <2> QED BY <1>2, <2>1
<1> QED BY <1>1, <1>2, <1>3, <1>4

(* The innermost call moves and none below it holds the lock. *)
LEMMA GotoTop ==
    ASSUME NEW s \in Seq(Frame), s # <<>>, NEW f \in Frame,
           \A i \in 1 .. Len(s) : i # Len(s) => s[i].at \notin HoldPoints
    PROVE  LET u == [s EXCEPT ![Len(s)] = f] IN
           /\ u \in Seq(Frame) /\ Shape(u)
           /\ Holding(u) <=> f.at \in HoldPoints
           /\ Up(u) => f.at \in UpPoints
<1> DEFINE u == [s EXCEPT ![Len(s)] = f]
<1>1. /\ u \in Seq(Frame) /\ Len(u) = Len(s) /\ Len(s) \in Nat \ {0}
      /\ u[Len(s)] = f
      /\ \A i \in 1 .. Len(s) : i # Len(s) => u[i] = s[i]
  BY GotoFacts
<1> HIDE DEF u
<1>2. Shape(u)
  BY <1>1 DEF Shape
<1>3. Holding(u) <=> f.at \in HoldPoints
  BY <1>1 DEF Holding
<1>4. Up(u) => f.at \in UpPoints
  BY <1>1 DEF Up, UpPoints, HoldPoints
<1> QED BY <1>1, <1>2, <1>3, <1>4 DEF u

(* The innermost call queues an event, whatever the one below it holds. *)
LEMMA GotoPost ==
    ASSUME NEW s \in Seq(Frame), s # <<>>, NEW f \in Frame, Shape(s),
           s[Len(s)].at \in PostPoints, f.at \in PostPoints
    PROVE  LET u == [s EXCEPT ![Len(s)] = f] IN
           /\ u \in Seq(Frame) /\ Shape(u)
           /\ Holding(u) <=> Holding(s)
           /\ Up(u) => Up(s)
<1> DEFINE u == [s EXCEPT ![Len(s)] = f]
<1>1. /\ u \in Seq(Frame) /\ Len(u) = Len(s) /\ Len(s) \in Nat \ {0}
      /\ u[Len(s)] = f
      /\ \A i \in 1 .. Len(s) : i # Len(s) => u[i] = s[i]
  BY GotoFacts
<1>2. f.at \notin HoldPoints /\ s[Len(s)].at \notin HoldPoints /\ UpPoints \subseteq HoldPoints
  BY DEF PostPoints, HoldPoints, UpPoints
<1> HIDE DEF u
<1>3. Shape(u)
  BY <1>1, <1>2 DEF Shape
<1>4. Holding(u) <=> Holding(s)
  BY <1>1, <1>2 DEF Holding
<1>5. Up(u) => Up(s)
  BY <1>1, <1>2 DEF Up
<1> QED BY <1>1, <1>3, <1>4, <1>5 DEF u

(* A call is made by a thread that does not hold the lock, or an event is  *)
(* posted inside. *)
LEMMA PushCall ==
    ASSUME NEW s \in Seq(Frame), NEW f \in Frame, ~Holding(s), f.at \notin HoldPoints
    PROVE  LET u == Append(s, f) IN
           /\ u \in Seq(Frame) /\ Shape(u) /\ ~Holding(u)
           /\ Up(u) => Up(s)
<1> DEFINE u == Append(s, f)
<1>1. /\ u \in Seq(Frame) /\ Len(u) = Len(s) + 1 /\ Len(s) \in Nat
      /\ u[Len(u)] = f
      /\ \A i \in 1 .. Len(s) : u[i] = s[i]
  BY PushFacts
<1> HIDE DEF u
<1>2. ~Holding(u)
  BY <1>1 DEF Holding
<1>3. Shape(u)
  BY <1>2 DEF Shape, Holding
<1>4. Up(u) => Holding(u)
  BY DEF Up, Holding, UpPoints, HoldPoints
<1> QED BY <1>1, <1>2, <1>3, <1>4 DEF u

LEMMA PushPost ==
    ASSUME NEW s \in Seq(Frame), s # <<>>, NEW f \in Frame, Shape(s),
           s[Len(s)].at = "inside", f.at \in PostPoints
    PROVE  LET u == Append(s, f) IN
           /\ u \in Seq(Frame) /\ Shape(u)
           /\ Holding(u) <=> Holding(s)
           /\ Up(u) => Up(s)
<1> DEFINE u == Append(s, f)
<1>1. /\ u \in Seq(Frame) /\ Len(u) = Len(s) + 1 /\ Len(s) \in Nat
      /\ u[Len(u)] = f
      /\ \A i \in 1 .. Len(s) : u[i] = s[i]
  BY PushFacts
<1>2. f.at \notin HoldPoints /\ f.at \notin UpPoints /\ "inside" \notin PostPoints
  BY DEF PostPoints, HoldPoints, UpPoints
<1> HIDE DEF u
<1>3. Shape(u)
  BY <1>1, <1>2 DEF Shape
<1>4. Holding(u) <=> Holding(s)
  BY <1>1, <1>2 DEF Holding
<1>5. Up(u) => Up(s)
  BY <1>1, <1>2 DEF Up
<1> QED BY <1>1, <1>3, <1>4, <1>5 DEF u

LEMMA Returned ==
    ASSUME NEW s \in Seq(Frame), s # <<>>, Shape(s), s[Len(s)].at \notin HoldPoints
    PROVE  LET u == SubSeq(s, 1, Len(s) - 1) IN
           /\ u \in Seq(Frame) /\ Shape(u)
           /\ Holding(u) <=> Holding(s)
           /\ Up(u) => Up(s)
<1> DEFINE u == SubSeq(s, 1, Len(s) - 1)
<1>1. /\ u \in Seq(Frame) /\ Len(u) = Len(s) - 1 /\ Len(s) \in Nat \ {0}
      /\ \A i \in 1 .. Len(u) : u[i] = s[i]
  BY ReturnFacts
<1> HIDE DEF u
<1>3. Shape(u)
  BY <1>1 DEF Shape
<1>4. Holding(u) <=> Holding(s)
  BY <1>1 DEF Holding
<1>5. Up(u) => Up(s)
  BY <1>1 DEF Up
<1> QED BY <1>1, <1>3, <1>4, <1>5 DEF u
-----------------------------------------------------------------------------
(* The calls of one thread change, and neither the lock nor the flag does. *)
LEMMA LockKept ==
    ASSUME StackOK, LockInv, NEW t \in Threads, NEW u \in Seq(Frame),
           stack' = [stack EXCEPT ![t] = u], UNCHANGED <<owner, locked>>,
           Shape(u), Holding(u) <=> Holding(stack[t]), Up(u) => Up(stack[t]) \/ locked = 1
    PROVE  StackOK' /\ LockInv'
BY DEF StackOK, LockInv

(* A thread whose innermost call stands at p, outside of PostPoints, has   *)
(* no call below it that holds the lock.                                   *)
LEMMA NothingBelow ==
    ASSUME StackOK, LockInv, NEW t \in Threads, stack[t] # <<>>, Top(t).at \notin PostPoints
    PROVE  /\ stack[t] \in Seq(Frame) /\ Len(stack[t]) \in Nat \ {0} /\ Top(t) \in Frame
           /\ \A i \in 1 .. Len(stack[t]) :
                 i # Len(stack[t]) => stack[t][i].at \notin HoldPoints
           /\ Holding(stack[t]) <=> Top(t).at \in HoldPoints
<1>1. stack[t] \in Seq(Frame) /\ Shape(stack[t])
  BY DEF StackOK, LockInv
<1>2. Len(stack[t]) \in Nat \ {0} /\ Top(t) \in Frame
  BY <1>1 DEF Top
<1> QED BY <1>1, <1>2 DEF Shape, Top, Holding

(* What LockInv says of all calls of a thread gives NoSelfDeadlock, which   *)
(* speaks of the innermost.                                                *)
LEMMA LockInvSuffices == StackOK /\ LockInv => NoSelfDeadlock
<1> SUFFICES ASSUME StackOK, LockInv, NEW t \in Threads, At(t, "callback") \/ At(t, "lock")
             PROVE  owner # t
  BY DEF NoSelfDeadlock
<1>1. stack[t] # <<>> /\ Top(t).at \in {"callback", "lock"}
  BY DEF At, Idle
<1>2. Top(t).at \notin PostPoints /\ Top(t).at \notin HoldPoints
  BY <1>1 DEF PostPoints, HoldPoints
<1>3. ~Holding(stack[t])
  BY <1>1, <1>2, NothingBelow
<1> QED BY <1>3 DEF LockInv

(* The innermost call moves on, outside of PostPoints or between two of    *)
(* them, and neither takes nor gives back the lock.                        *)
LEMMA KeptByGoto ==
    ASSUME StackOK, LockInv, NEW t \in Threads, stack[t] # <<>>,
           NEW f \in Frame, Goto(t, f), UNCHANGED <<owner, locked>>,
           \/ /\ Top(t).at \notin PostPoints
              /\ f.at \in HoldPoints <=> Top(t).at \in HoldPoints
              /\ f.at \in UpPoints => Top(t).at \in UpPoints
           \/ Top(t).at \in PostPoints /\ f.at \in PostPoints
    PROVE  StackOK' /\ LockInv'
<1> DEFINE s == stack[t]
           u == [s EXCEPT ![Len(s)] = f]
<1>1. /\ s \in Seq(Frame) /\ Shape(s) /\ s # <<>>
      /\ Up(s) => locked = 1
  BY DEF StackOK, LockInv
<1>2. stack' = [stack EXCEPT ![t] = u]
  BY DEF Goto, StackOK
<1>3. CASE Top(t).at \in PostPoints /\ f.at \in PostPoints
  <2>1. u \in Seq(Frame) /\ Shape(u) /\ (Holding(u) <=> Holding(s)) /\ (Up(u) => Up(s))
    BY <1>1, <1>3, GotoPost DEF Top
  <2> QED BY <1>2, <2>1, LockKept
<1>4. CASE /\ Top(t).at \notin PostPoints
           /\ f.at \in HoldPoints <=> Top(t).at \in HoldPoints
           /\ f.at \in UpPoints => Top(t).at \in UpPoints
  <2>1. /\ \A i \in 1 .. Len(s) : i # Len(s) => s[i].at \notin HoldPoints
        /\ Holding(s) <=> Top(t).at \in HoldPoints
        /\ Len(s) \in Nat \ {0}
    BY <1>4, NothingBelow
  <2>2. u \in Seq(Frame) /\ Shape(u) /\ (Holding(u) <=> f.at \in HoldPoints)
        /\ (Up(u) => f.at \in UpPoints)
    BY <1>1, <2>1, GotoTop
  <2>3. Top(t).at \in UpPoints => Up(s)
    BY <2>1 DEF Top, Up
  <2> QED BY <1>2, <1>4, <2>1, <2>2, <2>3, LockKept
<1> QED BY <1>3, <1>4

LEMMA KeptByReturn ==
    ASSUME StackOK, LockInv, NEW t \in Threads, stack[t] # <<>>, Return(t),
           Top(t).at \notin HoldPoints, UNCHANGED <<owner, locked>>
    PROVE  StackOK' /\ LockInv'
<1> DEFINE s == stack[t]
           u == SubSeq(s, 1, Len(s) - 1)
<1>1. s \in Seq(Frame) /\ Shape(s) /\ s # <<>>
  BY DEF StackOK, LockInv
<1>2. stack' = [stack EXCEPT ![t] = u]
  BY DEF Return, StackOK
<1>3. u \in Seq(Frame) /\ Shape(u) /\ (Holding(u) <=> Holding(s)) /\ (Up(u) => Up(s))
  BY <1>1, Returned DEF Top
<1> QED BY <1>2, <1>3, LockKept

(* A call that begins: where a thread may make one, it has no lock.        *)
LEMMA KeptByPush ==
    ASSUME StackOK, LockInv, NEW t \in Threads, NEW f \in Frame, Push(t, f),
           UNCHANGED <<owner, locked>>,
           \/ MayCall(t) /\ f.at \notin HoldPoints
           \/ At(t, "inside") /\ f.at \in PostPoints
    PROVE  StackOK' /\ LockInv'
<1> DEFINE s == stack[t]
           u == Append(s, f)
<1>1. s \in Seq(Frame) /\ Shape(s)
  BY DEF StackOK, LockInv
<1>2. stack' = [stack EXCEPT ![t] = u]
  BY DEF Push, StackOK
<1>3. CASE MayCall(t) /\ f.at \notin HoldPoints
  <2>1. ~Holding(s)
    <3>1. CASE s = <<>>
      BY <3>1 DEF Holding
    <3>2. CASE s # <<>>
      <4>1. Top(t).at = "callback"
        BY <1>3, <3>2 DEF MayCall, Idle, At
      <4>2. Top(t).at \notin PostPoints /\ Top(t).at \notin HoldPoints
        BY <4>1 DEF PostPoints, HoldPoints
      <4> QED BY <3>2, <4>2, NothingBelow
    <3> QED BY <3>1, <3>2
  <2>2. u \in Seq(Frame) /\ Shape(u) /\ ~Holding(u) /\ (Up(u) => Up(s))
    BY <1>1, <1>3, <2>1, PushCall
  <2> QED BY <1>2, <2>1, <2>2, LockKept
<1>4. CASE At(t, "inside") /\ f.at \in PostPoints
  <2>1. s # <<>> /\ s[Len(s)].at = "inside"
    BY <1>4 DEF At, Idle, Top
  <2>2. u \in Seq(Frame) /\ Shape(u) /\ (Holding(u) <=> Holding(s)) /\ (Up(u) => Up(s))
    BY <1>1, <1>4, <2>1, PushPost
  <2> QED BY <1>2, <2>2, LockKept
<1> QED BY <1>3, <1>4
-----------------------------------------------------------------------------
LockInvariant == TypeOK /\ StackOK /\ LockInv

THEOREM LockInit == Init => LockInvariant
<1> SUFFICES ASSUME Init PROVE LockInvariant
  OBVIOUS
<1>1. TypeOK
  <2>1. {MaxEvents, MaxCalls, MaxCells} \subseteq Nat
    BY BoundAssumption
  <2>2. /\ owner \in Threads \cup {NoThread} /\ locked \in {0, 1}
        /\ next \in [{HEAD} \cup Cells -> {NULL, WILD} \cup Cells]
        /\ event \in [Cells -> {Blank} \cup Events]
        /\ freed \subseteq Cells /\ broken \in BOOLEAN
    BY DEF Init
  <2>3. mallocs \in 0 .. MaxCells /\ issued \in 0 .. MaxEvents /\ calls \in 0 .. MaxCalls
    BY <2>1 DEF Init
  <2> QED BY <2>2, <2>3 DEF TypeOK
<1>2. StackOK
  BY DEF Init, StackOK
<1>3. \A t \in Threads : Shape(stack[t]) /\ ~Holding(stack[t]) /\ ~Up(stack[t]) /\ owner # t
  BY ThreadAssumption DEF Init, Shape, Holding, Up
<1> QED BY <1>1, <1>2, <1>3 DEF LockInvariant, LockInv

(* Every step keeps the lock's invariant.                                  *)
THEOREM LockNext == LockInvariant /\ [Next]_vars => LockInvariant'
<1> SUFFICES ASSUME TypeOK, StackOK, LockInv, [Next]_vars PROVE LockInvariant'
  BY DEF LockInvariant
<1> USE DEF LockInvariant
<1>0. /\ MaxEvents \in Nat /\ MaxCalls \in Nat /\ MaxCells \in Nat
      /\ \A t \in Threads : stack[t] # <<>> => Top(t) \in Frame
  <2>1. ASSUME NEW t \in Threads, stack[t] # <<>> PROVE Top(t) \in Frame
    <3>1. stack[t] \in Seq(Frame)
      BY DEF StackOK
    <3> QED BY <2>1, <3>1 DEF Top
  <2> QED BY <2>1, BoundAssumption
<1>1. CASE UNCHANGED vars
  BY <1>1 DEF vars, heap, TypeOK, StackOK, LockInv
<1>2. ASSUME NEW t \in Threads, BeginCall(t) PROVE LockInvariant'
  <2>1. Api("lock", NULL) \in Frame /\ Api("lock", NULL).at \notin HoldPoints
    BY DEF Api, Frame, ApiPoints, HoldPoints
  <2>2. StackOK' /\ LockInv'
    BY <1>2, <2>1, KeptByPush DEF BeginCall
  <2>3. TypeOK'
    BY <1>0, <1>2 DEF BeginCall, TypeOK, heap
  <2> QED BY <2>2, <2>3
<1>3. ASSUME NEW t \in Threads, BeginPost(t) PROVE LockInvariant'
  <2>1. TypeOK' /\ issued' \in Events
    BY <1>0, <1>3 DEF BeginPost, TypeOK, heap, Events
  <2> DEFINE f == Post("test", issued', NULL, NULL)
  <2>2. f \in Frame /\ f.at \in PostPoints /\ f.at \notin HoldPoints
    BY <2>1 DEF Post, Frame, PostPoints, HoldPoints, Pointers
  <2>3. Push(t, f) /\ (MayCall(t) \/ At(t, "inside")) /\ UNCHANGED <<owner, locked>>
    BY <1>3 DEF BeginPost
  <2> HIDE DEF f
  <2>4. StackOK' /\ LockInv'
    BY <2>2, <2>3, KeptByPush
  <2> QED BY <2>1, <2>4
<1>4. ASSUME NEW t \in Threads, Lock(t) PROVE LockInvariant'
  <2> DEFINE s == stack[t]
             f == Api("flag", NULL)
             u == [s EXCEPT ![Len(s)] = f]
  <2>1. /\ s # <<>> /\ Top(t).at = "lock" /\ owner = NoThread /\ owner' = t
        /\ stack' = [stack EXCEPT ![t] = u] /\ locked' = locked
    BY <1>4 DEF Lock, At, Idle, Goto, StackOK
  <2>2. f \in Frame /\ f.at \in HoldPoints /\ f.at \notin UpPoints
    BY DEF Api, Frame, ApiPoints, HoldPoints, UpPoints
  <2>3. u \in Seq(Frame) /\ Shape(u) /\ Holding(u) /\ ~Up(u)
    <3>1. Top(t).at \notin PostPoints
      BY <2>1 DEF PostPoints
    <3> HIDE DEF f
    <3> QED BY <2>1, <2>2, <3>1, NothingBelow, GotoTop
  <2> HIDE DEF u
  <2>4. StackOK' /\ LockInv'
    BY <2>1, <2>3, ThreadAssumption DEF StackOK, LockInv
  <2>5. TypeOK'
    BY <1>4 DEF Lock, TypeOK, heap
  <2> QED BY <2>4, <2>5
<1>5. ASSUME NEW t \in Threads, Flag(t) PROVE LockInvariant'
  <2> DEFINE s == stack[t]
             f == Api("inside", NULL)
             u == [s EXCEPT ![Len(s)] = f]
  <2>1. /\ s # <<>> /\ Top(t).at = "flag" /\ locked' = 1
        /\ stack' = [stack EXCEPT ![t] = u] /\ owner' = owner
    BY <1>5 DEF Flag, At, Idle, Goto, StackOK
  <2>2. f \in Frame /\ f.at \in HoldPoints
    BY DEF Api, Frame, ApiPoints, HoldPoints
  <2>3. u \in Seq(Frame) /\ Shape(u) /\ Holding(u) /\ Holding(s)
    <3>1. Top(t).at \notin PostPoints /\ Top(t).at \in HoldPoints
      BY <2>1 DEF PostPoints, HoldPoints
    <3> HIDE DEF f
    <3> QED BY <2>1, <2>2, <3>1, NothingBelow, GotoTop
  <2> HIDE DEF u
  <2>4. StackOK' /\ LockInv'
    BY <2>1, <2>3 DEF StackOK, LockInv
  <2>5. TypeOK'
    BY <1>5 DEF Flag, TypeOK, heap
  <2> QED BY <2>4, <2>5
<1>6. ASSUME NEW t \in Threads, Unflag(t) PROVE LockInvariant'
  <2> DEFINE s == stack[t]
             f == Api("unlock", Top(t).cell)
             u == [s EXCEPT ![Len(s)] = f]
  <2>1. /\ s # <<>> /\ Top(t).at = "unflag" /\ locked' = 0
        /\ stack' = [stack EXCEPT ![t] = u] /\ owner' = owner
    BY <1>6 DEF Unflag, At, Idle, Goto, StackOK
  <2>2. f \in Frame /\ f.at \in HoldPoints /\ f.at \notin UpPoints
    BY <1>0, <2>1 DEF Api, Frame, ApiPoints, PostPoints, HoldPoints, UpPoints
  <2>3. u \in Seq(Frame) /\ Shape(u) /\ Holding(u) /\ Holding(s) /\ ~Up(u)
    <3>1. Top(t).at \notin PostPoints /\ Top(t).at \in HoldPoints
      BY <2>1 DEF PostPoints, HoldPoints
    <3> HIDE DEF f
    <3> QED BY <2>1, <2>2, <3>1, NothingBelow, GotoTop
  <2>4. \A r \in Threads : r # t => ~Up(stack[r])
    <3>1. owner = t
      BY <2>3 DEF LockInv
    <3>2. \A r \in Threads : r # t => ~Holding(stack[r])
      BY <3>1 DEF LockInv
    <3> QED BY <3>2 DEF Holding, Up, HoldPoints, UpPoints
  <2> HIDE DEF u
  <2>5. StackOK' /\ LockInv'
    BY <2>1, <2>3, <2>4 DEF StackOK, LockInv
  <2>6. TypeOK'
    BY <1>6 DEF Unflag, TypeOK, heap
  <2> QED BY <2>5, <2>6
<1>7. ASSUME NEW t \in Threads, Unlock(t) PROVE LockInvariant'
  <2> DEFINE s == stack[t]
             f == Api("drain", Top(t).cell)
             u == [s EXCEPT ![Len(s)] = f]
  <2>1. /\ s # <<>> /\ Top(t).at = "unlock" /\ owner' = NoThread
        /\ stack' = [stack EXCEPT ![t] = u] /\ locked' = locked
    BY <1>7 DEF Unlock, At, Idle, Goto, StackOK
  <2>2. f \in Frame /\ f.at \notin HoldPoints /\ f.at \notin UpPoints
    BY <1>0, <2>1 DEF Api, Frame, ApiPoints, PostPoints, HoldPoints, UpPoints
  <2>3. u \in Seq(Frame) /\ Shape(u) /\ ~Holding(u) /\ Holding(s) /\ ~Up(u)
    <3>1. Top(t).at \notin PostPoints /\ Top(t).at \in HoldPoints
      BY <2>1 DEF PostPoints, HoldPoints
    <3> HIDE DEF f
    <3> QED BY <2>1, <2>2, <3>1, NothingBelow, GotoTop
  <2>4. owner = t
    BY <2>3 DEF LockInv
  <2> HIDE DEF u
  <2>5. StackOK' /\ LockInv'
    BY <2>1, <2>3, <2>4, ThreadAssumption DEF StackOK, LockInv
  <2>6. TypeOK'
    BY <1>7 DEF Unlock, TypeOK, heap
  <2> QED BY <2>5, <2>6
<1>8. ASSUME NEW t \in Threads, Leave(t) PROVE LockInvariant'
  <2> DEFINE f == Api("take", NULL)
  <2>1. /\ stack[t] # <<>> /\ Top(t).at = "inside"
        /\ Goto(t, f) /\ UNCHANGED <<owner, locked>>
    BY <1>8 DEF Leave, At, Idle
  <2>2. f \in Frame
    BY <1>0, <2>1 DEF TypeOK, Api, Post, Frame, ApiPoints, PostPoints, Pointers
  <2>3. \/ /\ Top(t).at \notin PostPoints
           /\ f.at \in HoldPoints <=> Top(t).at \in HoldPoints
           /\ f.at \in UpPoints => Top(t).at \in UpPoints
        \/ Top(t).at \in PostPoints /\ f.at \in PostPoints
    BY <2>1 DEF Api, Post, PostPoints, HoldPoints, UpPoints
  <2> HIDE DEF f
  <2>4. StackOK' /\ LockInv'
    BY <2>1, <2>2, <2>3, KeptByGoto
  <2>5. TypeOK'
    BY <1>0, <1>8, <2>1 DEF Leave, TypeOK, heap
  <2> QED BY <2>4, <2>5
<1>9. ASSUME NEW t \in Threads, Take(t) PROVE LockInvariant'
  <2> DEFINE f == Api("reset", next[HEAD])
  <2>1. /\ stack[t] # <<>> /\ Top(t).at = "take"
        /\ Goto(t, f) /\ UNCHANGED <<owner, locked>>
    BY <1>9 DEF Take, At, Idle
  <2>2. f \in Frame
    BY <1>0, <2>1 DEF TypeOK, Api, Post, Frame, ApiPoints, PostPoints, Pointers
  <2>3. \/ /\ Top(t).at \notin PostPoints
           /\ f.at \in HoldPoints <=> Top(t).at \in HoldPoints
           /\ f.at \in UpPoints => Top(t).at \in UpPoints
        \/ Top(t).at \in PostPoints /\ f.at \in PostPoints
    BY <2>1 DEF Api, Post, PostPoints, HoldPoints, UpPoints
  <2> HIDE DEF f
  <2>4. StackOK' /\ LockInv'
    BY <2>1, <2>2, <2>3, KeptByGoto
  <2>5. TypeOK'
    BY <1>0, <1>9, <2>1 DEF Take, TypeOK, heap
  <2> QED BY <2>4, <2>5
<1>10. ASSUME NEW t \in Threads, Reset(t) PROVE LockInvariant'
  <2> DEFINE f == Api("unflag", Top(t).cell)
  <2>1. /\ stack[t] # <<>> /\ Top(t).at = "reset"
        /\ Goto(t, f) /\ UNCHANGED <<owner, locked>>
    BY <1>10 DEF Reset, At, Idle
  <2>2. f \in Frame
    BY <1>0, <2>1 DEF TypeOK, Api, Post, Frame, ApiPoints, PostPoints, Pointers
  <2>3. \/ /\ Top(t).at \notin PostPoints
           /\ f.at \in HoldPoints <=> Top(t).at \in HoldPoints
           /\ f.at \in UpPoints => Top(t).at \in UpPoints
        \/ Top(t).at \in PostPoints /\ f.at \in PostPoints
    BY <2>1 DEF Api, Post, PostPoints, HoldPoints, UpPoints
  <2> HIDE DEF f
  <2>4. StackOK' /\ LockInv'
    BY <2>1, <2>2, <2>3, KeptByGoto
  <2>5. TypeOK'
    BY <1>0, <1>10, <2>1 DEF Reset, TypeOK, heap
  <2> QED BY <2>4, <2>5
<1>11. ASSUME NEW t \in Threads, DrainNext(t) PROVE LockInvariant'
  <2> DEFINE f == Api("drain", next[Top(t).cell])
  <2>1. /\ stack[t] # <<>> /\ Top(t).at = "next"
        /\ Goto(t, f) /\ UNCHANGED <<owner, locked>>
    BY <1>11 DEF DrainNext, At, Idle
  <2>2. f \in Frame
    BY <1>0, <2>1 DEF TypeOK, Api, Post, Frame, ApiPoints, PostPoints, Pointers
  <2>3. \/ /\ Top(t).at \notin PostPoints
           /\ f.at \in HoldPoints <=> Top(t).at \in HoldPoints
           /\ f.at \in UpPoints => Top(t).at \in UpPoints
        \/ Top(t).at \in PostPoints /\ f.at \in PostPoints
    BY <2>1 DEF Api, Post, PostPoints, HoldPoints, UpPoints
  <2> HIDE DEF f
  <2>4. StackOK' /\ LockInv'
    BY <2>1, <2>2, <2>3, KeptByGoto
  <2>5. TypeOK'
    <3>1. Top(t).cell \in Cells
      BY <1>0, <2>1 DEF Frame, ApiPoints, PostPoints
    <3> QED BY <1>11, <3>1 DEF DrainNext, TypeOK
  <2> QED BY <2>4, <2>5
<1>12. ASSUME NEW t \in Threads, Enqueue(t) PROVE LockInvariant'
  <2> DEFINE f == Post("walk", Top(t).e, HEAD, NULL)
  <2>1. /\ stack[t] # <<>> /\ Top(t).at = "test"
        /\ Goto(t, f) /\ UNCHANGED <<owner, locked>>
    BY <1>12 DEF Enqueue, At, Idle
  <2>2. f \in Frame
    BY <1>0, <2>1 DEF TypeOK, Api, Post, Frame, ApiPoints, PostPoints, Pointers
  <2>3. \/ /\ Top(t).at \notin PostPoints
           /\ f.at \in HoldPoints <=> Top(t).at \in HoldPoints
           /\ f.at \in UpPoints => Top(t).at \in UpPoints
        \/ Top(t).at \in PostPoints /\ f.at \in PostPoints
    BY <2>1 DEF Api, Post, PostPoints, HoldPoints, UpPoints
  <2> HIDE DEF f
  <2>4. StackOK' /\ LockInv'
    BY <2>1, <2>2, <2>3, KeptByGoto
  <2>5. TypeOK'
    BY <1>0, <1>12, <2>1 DEF Enqueue, TypeOK, heap
  <2> QED BY <2>4, <2>5
<1>13. ASSUME NEW t \in Threads, Drain(t) PROVE LockInvariant'
  <2>1. stack[t] # <<>> /\ Top(t).at = "drain" /\ UNCHANGED <<owner, locked>>
    BY <1>13 DEF Drain, At, Idle, Crash
  <2>2. TypeOK'
    BY <1>13 DEF Drain, Crash, TypeOK, heap
  <2>3. CASE Wild(Top(t).cell)
    BY <1>13, <2>2, <2>3 DEF Drain, Crash, StackOK, LockInv
  <2>4. CASE ~Wild(Top(t).cell)
    <3> DEFINE s == stack[t]
               f == Api("next", Top(t).cell)
               g == Post("test", event[Top(t).cell], NULL, NULL)
               u == [s EXCEPT ![Len(s)] = f]
    <3>1. Top(t).cell \in Cells
      BY <1>0, <1>13, <2>1, <2>4
         DEF Drain, Wild, Frame, ApiPoints, PostPoints, HEAD, NULL, WILD, Cells
    <3>2. /\ f \in Frame /\ f.at \notin HoldPoints /\ f.at \notin UpPoints
          /\ g \in Frame /\ g.at \notin HoldPoints
      BY <3>1 DEF TypeOK, Api, Post, Frame, PostPoints, Pointers, HoldPoints, UpPoints
    <3>3. stack' = [stack EXCEPT ![t] = Append(u, g)]
      BY <1>13, <2>4 DEF Drain, StackOK
    <3> HIDE DEF f, g
    <3>4. u \in Seq(Frame) /\ ~Holding(u) /\ ~Up(u) /\ ~Holding(s)
      <4>1. Top(t).at \notin PostPoints /\ Top(t).at \notin HoldPoints
        BY <2>1 DEF PostPoints, HoldPoints
      <4> QED BY <2>1, <3>2, <4>1, NothingBelow, GotoTop
    <3> HIDE DEF u
    <3>5. /\ Append(u, g) \in Seq(Frame) /\ Shape(Append(u, g))
          /\ ~Holding(Append(u, g)) /\ ~Up(Append(u, g))
      BY <3>2, <3>4, PushCall
    <3> QED BY <2>1, <2>2, <3>3, <3>4, <3>5, LockKept
  <2> QED BY <2>3, <2>4
<1>14. ASSUME NEW t \in Threads, Drained(t) PROVE LockInvariant'
  <2>1. stack[t] # <<>> /\ Return(t) /\ UNCHANGED <<owner, locked>>
        /\ Top(t).at \notin HoldPoints
    BY <1>14 DEF Drained, At, Idle, HoldPoints
  <2>2. StackOK' /\ LockInv'
    BY <2>1, KeptByReturn
  <2> QED BY <1>14, <2>2 DEF Drained, TypeOK, heap
<1>15. ASSUME NEW t \in Threads, PostNow(t) PROVE LockInvariant'
  <2> DEFINE s == stack[t]
             f == Post("callback", Top(t).e, NULL, NULL)
             u == [s EXCEPT ![Len(s)] = f]
  <2>1. /\ s # <<>> /\ Top(t).at = "test" /\ locked = 0 /\ UNCHANGED <<owner, locked>>
        /\ stack' = [stack EXCEPT ![t] = u]
    BY <1>15 DEF PostNow, At, Idle, Goto, StackOK
  <2>2. f \in Frame /\ f.at \notin HoldPoints /\ f.at \notin UpPoints
    BY <1>0, <2>1
       DEF Post, Frame, ApiPoints, PostPoints, Pointers, HoldPoints, UpPoints
  \* Were there a call below that holds the lock, the flag would be up.
  <2>3. ~Holding(s)
    <3>1. s \in Seq(Frame) /\ Shape(s) /\ ~Up(s)
      BY <2>1 DEF StackOK, LockInv
    <3> SUFFICES ASSUME NEW i \in 1 .. Len(s), s[i].at \in HoldPoints PROVE FALSE
      BY DEF Holding
    <3>2. i # Len(s)
      BY <2>1 DEF Top, HoldPoints
    <3>3. s[i].at = "inside"
      BY <3>1, <3>2 DEF Shape
    <3> QED BY <3>1, <3>3 DEF Up, UpPoints
  <2> HIDE DEF f
  <2>4. u \in Seq(Frame) /\ Shape(u) /\ ~Holding(u) /\ ~Up(u)
    <3>1. s \in Seq(Frame) /\ \A i \in 1 .. Len(s) : i # Len(s) => s[i].at \notin HoldPoints
      BY <2>3 DEF StackOK, Holding
    <3> QED BY <2>1, <2>2, <3>1, GotoTop
  <2> HIDE DEF u
  <2>5. StackOK' /\ LockInv'
    BY <2>1, <2>3, <2>4, LockKept
  <2>6. TypeOK'
    BY <1>15 DEF PostNow, TypeOK, heap
  <2> QED BY <2>5, <2>6
<1>16. ASSUME NEW t \in Threads, PostDone(t) PROVE LockInvariant'
  <2>1. stack[t] # <<>> /\ Return(t) /\ UNCHANGED <<owner, locked>>
        /\ Top(t).at \notin HoldPoints
    BY <1>16 DEF PostDone, At, Idle, HoldPoints
  <2>2. StackOK' /\ LockInv'
    BY <2>1, KeptByReturn
  <2> QED BY <1>16, <2>2 DEF PostDone, TypeOK, heap
<1>17. ASSUME NEW t \in Threads, Walk(t) PROVE LockInvariant'
  <2>1. stack[t] # <<>> /\ Top(t).at = "walk" /\ UNCHANGED <<owner, locked>>
    BY <1>17 DEF Walk, At, Idle, Crash
  <2>2. TypeOK'
    BY <1>17 DEF Walk, Crash, TypeOK, heap
  <2>3. CASE Wild(Top(t).tail)
    BY <1>17, <2>2, <2>3 DEF Walk, Crash, StackOK, LockInv
  <2>4. CASE ~Wild(Top(t).tail)
    <3>1. Top(t) \in [at: {"walk"}, e: {Blank} \cup Events, tail: Pointers, cell: Pointers]
      BY <1>0, <2>1 DEF Frame, ApiPoints
    <3>2. next[Top(t).tail] \in Pointers
      BY <2>4 DEF Wild, TypeOK, Pointers
    <3>3. PICK f \in {[Top(t) EXCEPT !.at = "link"],
                      [Top(t) EXCEPT !.tail = next[Top(t).tail]]} : Goto(t, f)
      BY <1>17, <2>4 DEF Walk
    <3>4. f \in Frame /\ f.at \in PostPoints /\ Top(t).at \in PostPoints
      BY <3>1, <3>2 DEF Frame, PostPoints
    <3> QED BY <2>1, <2>2, <3>3, <3>4, KeptByGoto
  <2> QED BY <2>3, <2>4
<1>18. ASSUME NEW t \in Threads, Link(t) PROVE LockInvariant'
  <2>1. /\ stack[t] # <<>> /\ Top(t).at = "link" /\ UNCHANGED <<owner, locked>>
        /\ mallocs < MaxCells
    BY <1>18 DEF Link, At, Idle, Crash
  <2>2. CASE Wild(Top(t).tail)
    BY <1>18, <2>2 DEF Link, Crash, StackOK, LockInv, TypeOK, heap
  <2>3. CASE ~Wild(Top(t).tail)
    <3>1. Top(t) \in [at: {"link"}, e: {Blank} \cup Events, tail: Pointers, cell: Pointers]
      BY <1>0, <2>1 DEF Frame, ApiPoints
    <3>2. mallocs' = mallocs + 1 /\ mallocs' \in Cells /\ mallocs' \in 0 .. MaxCells
      BY <1>0, <1>18, <2>1, <2>3 DEF Link, TypeOK, Cells
    <3> DEFINE f == [Top(t) EXCEPT !.at = "fill", !.cell = mallocs']
    <3>3. Goto(t, f)
      BY <1>18, <2>3 DEF Link
    <3>4. f \in Frame /\ f.at \in PostPoints /\ Top(t).at \in PostPoints
      BY <3>1, <3>2 DEF Frame, PostPoints, Pointers
    <3> HIDE DEF f
    <3>5. StackOK' /\ LockInv'
      BY <2>1, <3>3, <3>4, KeptByGoto
    <3>6. next' \in [{HEAD} \cup Cells -> {NULL, WILD} \cup Cells]
      <4>1. PICK garbage \in {NULL, WILD} :
               next' = [next EXCEPT ![Top(t).tail] = mallocs', ![mallocs'] = garbage]
        BY <1>18, <2>3 DEF Link
      <4> QED BY <3>2, <4>1 DEF TypeOK
    <3>7. UNCHANGED <<owner, locked, event, freed, issued, calls, broken>>
      BY <1>18, <2>3 DEF Link
    <3> QED BY <3>2, <3>5, <3>6, <3>7 DEF TypeOK
  <2> QED BY <2>2, <2>3
<1>19. ASSUME NEW t \in Threads, Fill(t) PROVE LockInvariant'
  <2>1. stack[t] # <<>> /\ Top(t).at = "fill" /\ UNCHANGED <<owner, locked>>
    BY <1>19 DEF Fill, At, Idle, Crash
  <2>2. CASE Crash
    BY <2>2 DEF Crash, StackOK, LockInv, TypeOK, heap
  <2>3. CASE ~Crash
    <3>1. PICK cell : /\ ~(cell = HEAD \/ Wild(cell))
                      /\ event' = [event EXCEPT ![cell] = Top(t).e]
                      /\ next' = [next EXCEPT ![cell] = NULL]
                      /\ Return(t)
                      /\ UNCHANGED <<owner, locked, freed, mallocs, issued, calls, broken>>
      BY <1>19, <2>3 DEF Fill
    <3>2. Top(t).at \notin HoldPoints /\ Top(t).e \in {Blank} \cup Events
      BY <1>0, <2>1 DEF Frame, ApiPoints, PostPoints, HoldPoints
    <3>3. StackOK' /\ LockInv'
      BY <2>1, <3>1, <3>2, KeptByReturn
    <3> QED BY <3>1, <3>2, <3>3 DEF TypeOK
  <2> QED BY <2>2, <2>3
<1> QED
  BY <1>1, <1>2, <1>3, <1>4, <1>5, <1>6, <1>7, <1>8, <1>9, <1>10, <1>11, <1>12, <1>13,
     <1>14, <1>15, <1>16, <1>17, <1>18, <1>19
     DEF Next, Step

(* A thread that has the lock runs no callback and waits for no lock, for  *)
(* any number of threads, events, calls and nested callbacks.              *)
THEOREM NoSelfDeadlockAlways == Spec => []NoSelfDeadlock
<1>1. LockInvariant => NoSelfDeadlock
  BY LockInvSuffices DEF LockInvariant
<1> QED BY <1>1, LockInit, LockNext, PTL DEF Spec

(* The queue and the counters keep their types.                            *)
THEOREM QueueTypeCorrect == Spec => []TypeOK
<1>1. LockInvariant => TypeOK
  BY DEF LockInvariant
<1> QED BY <1>1, LockInit, LockNext, PTL DEF Spec
-----------------------------------------------------------------------------
(***************************************************************************)
(* The queue's cells and the events they keep.                             *)
(*                                                                         *)
(* A list that put_iaxc_lock takes off the queue is known by its first     *)
(* cell, which a call at one of TakePoints holds.                          *)
(***************************************************************************)
TakePoints == {"reset", "unflag", "unlock", "drain", "next"}

Takes(t, i)  == i \in 1 .. Len(stack[t]) /\ stack[t][i].at \in TakePoints
Carries(t, i, e) == /\ i \in 1 .. Len(stack[t]) /\ stack[t][i].at \in PostPoints
                    /\ stack[t][i].e = e
Taken(c) == \E t \in Threads : \E i \in 1 .. Len(stack[t]) :
               stack[t][i].at = "next" /\ stack[t][i].cell = c

(* No pointer and no call knows a cell that was not malloc'ed yet.         *)
Allocated == /\ \A p \in {HEAD} \cup Cells : next[p] <= mallocs
             /\ \A t \in Threads : \A i \in 1 .. Len(stack[t]) :
                   Takes(t, i) /\ stack[t][i].cell \in Cells => stack[t][i].cell <= mallocs

(* At most one pointer leads to a cell.                                    *)
OnePointer == \A p, q \in {HEAD} \cup Cells : next[p] = next[q] /\ next[p] \in Cells => p = q

(* None in use leads to the first cell of a list that was taken, but the   *)
(* queue's own until it is reset.                                          *)
CutOff == \A t \in Threads : \A i \in 1 .. Len(stack[t]) : \A p \in {HEAD} \cup (Cells \ freed) :
             Takes(t, i) /\ next[p] = stack[t][i].cell /\ next[p] \in Cells
                => p = HEAD /\ stack[t][i].at = "reset"

(* Two calls never take the same cell.                                     *)
TakenApart == \A t, u \in Threads : \A i \in 1 .. Len(stack[t]), j \in 1 .. Len(stack[u]) :
                 /\ Takes(t, i) /\ Takes(u, j)
                 /\ stack[t][i].cell = stack[u][j].cell /\ stack[t][i].cell \in Cells
                 => t = u /\ i = j

(* A cell is not freed while its event is posted.                          *)
TakenLive == \A c \in Cells : Taken(c) => c \notin freed

HeapInv == Allocated /\ OnePointer /\ CutOff /\ TakenApart /\ TakenLive

(* Who has event e: the client, a call that posts it, or a cell that no    *)
(* call has posted from.                                                   *)
Holders(e) ==
    {<<"client", NoThread, i>> : i \in {j \in 1 .. Len(posted) : posted[j] = e}}
    \cup (UNION {{<<"call", t, i>> : i \in {j \in 1 .. Len(stack[t]) : Carries(t, j, e)}} : t \in Threads})
    \cup {<<"cell", NoThread, c>> : c \in {d \in Cells \ freed : event[d] = e /\ ~Taken(d)}}

PostedOK  == posted \in Seq({Blank} \cup Events)
OneHolder == \A e \in Events : \A a, b \in Holders(e) : a = b
OnlyIssued == \A e \in Events : Holders(e) # {} => e <= issued

(* The invariant the queue is proved with, given the lock's.               *)
QueueInv == HeapInv /\ PostedOK /\ OneHolder /\ OnlyIssued
-----------------------------------------------------------------------------
(* The calls after a step of thread t, each compared with the call that    *)
(* stood at its place before.                                              *)
LEMMA GotoCalls ==
    ASSUME StackOK, NEW t \in Threads, stack[t] # <<>>, NEW f \in Frame, Goto(t, f)
    PROVE  /\ Len(stack[t]) \in 1 .. Len(stack[t])
           /\ \A u \in Threads : /\ Len(stack'[u]) = Len(stack[u])
                                 /\ \A i \in 1 .. Len(stack[u]) :
                                       stack'[u][i] = IF u = t /\ i = Len(stack[t]) THEN f
                                                      ELSE stack[u][i]
<1> DEFINE s == stack[t]
           v == [s EXCEPT ![Len(s)] = f]
<1>1. /\ v \in Seq(Frame) /\ Len(v) = Len(s) /\ Len(s) \in Nat \ {0}
      /\ v[Len(s)] = f
      /\ \A i \in 1 .. Len(s) : i # Len(s) => v[i] = s[i]
  <2>1. s \in Seq(Frame)
    BY DEF StackOK
  <2> QED BY <2>1, GotoFacts
<1>2. \A u \in Threads : stack'[u] = IF u = t THEN v ELSE stack[u]
  BY DEF Goto, StackOK
<1> HIDE DEF v
<1> QED BY <1>1, <1>2

LEMMA PushCalls ==
    ASSUME StackOK, NEW t \in Threads, NEW f \in Frame, Push(t, f)
    PROVE  \A u \in Threads :
              /\ \A i \in 1 .. Len(stack'[u]) :
                    \/ i \in 1 .. Len(stack[u]) /\ stack'[u][i] = stack[u][i]
                    \/ u = t /\ i = Len(stack[t]) + 1 /\ stack'[u][i] = f
              /\ \A i \in 1 .. Len(stack[u]) : i \in 1 .. Len(stack'[u]) /\ stack'[u][i] = stack[u][i]
<1> DEFINE s == stack[t]
           v == Append(s, f)
<1>1. /\ v \in Seq(Frame) /\ Len(v) = Len(s) + 1 /\ Len(s) \in Nat
      /\ v[Len(v)] = f
      /\ \A i \in 1 .. Len(s) : v[i] = s[i]
  <2>1. s \in Seq(Frame)
    BY DEF StackOK
  <2> QED BY <2>1, PushFacts
<1>2. \A u \in Threads : stack'[u] = IF u = t THEN v ELSE stack[u]
  BY DEF Push, StackOK
<1>3. \A u \in Threads : Len(stack[u]) \in Nat
  BY DEF StackOK
<1> HIDE DEF v
<1>4. ASSUME NEW u \in Threads, u # t PROVE stack'[u] = stack[u]
  BY <1>2, <1>4
<1>5. stack'[t] = v
  BY <1>2
<1> QED BY <1>1, <1>3, <1>4, <1>5

LEMMA ReturnCalls ==
    ASSUME StackOK, NEW t \in Threads, stack[t] # <<>>, Return(t)
    PROVE  \A u \in Threads :
              /\ \A i \in 1 .. Len(stack'[u]) :
                    i \in 1 .. Len(stack[u]) /\ stack'[u][i] = stack[u][i]
              /\ \A i \in 1 .. Len(stack[u]) :
                    \/ i \in 1 .. Len(stack'[u]) /\ stack'[u][i] = stack[u][i]
                    \/ u = t /\ i = Len(stack[t])
<1> DEFINE s == stack[t]
           v == SubSeq(s, 1, Len(s) - 1)
<1>1. /\ v \in Seq(Frame) /\ Len(v) = Len(s) - 1 /\ Len(s) \in Nat \ {0}
      /\ \A i \in 1 .. Len(v) : v[i] = s[i]
  <2>1. s \in Seq(Frame)
    BY DEF StackOK
  <2> QED BY <2>1, ReturnFacts
<1>2. \A u \in Threads : stack'[u] = IF u = t THEN v ELSE stack[u]
  BY DEF Return, StackOK
<1>3. \A u \in Threads : Len(stack[u]) \in Nat
  BY DEF StackOK
<1> HIDE DEF v
<1>4. ASSUME NEW u \in Threads, u # t PROVE stack'[u] = stack[u]
  BY <1>2, <1>4
<1>5. stack'[t] = v
  BY <1>2
<1> QED BY <1>1, <1>3, <1>4, <1>5

(* What most steps keep: a call that posts an event did so at its place    *)
(* before, and none leaves "next"; a call that takes a list took it at its *)
(* place before.                                                           *)
PostsKept ==
    \A u \in Threads :
       /\ \A i \in 1 .. Len(stack'[u]) :
             stack'[u][i].at \in PostPoints => Carries(u, i, stack'[u][i].e)
       /\ \A i \in 1 .. Len(stack[u]) :
             stack[u][i].at = "next" => i \in 1 .. Len(stack'[u]) /\ stack'[u][i] = stack[u][i]
TakesKept ==
    \A u \in Threads : \A i \in 1 .. Len(stack'[u]) :
       stack'[u][i].at \in TakePoints =>
          /\ Takes(u, i) /\ stack'[u][i].cell = stack[u][i].cell
          /\ stack'[u][i].at = "next" => stack[u][i].at = "next"
          /\ stack[u][i].at = "reset" => stack'[u][i].at = "reset" \/ next'[HEAD] = NULL

LEMMA GotoKeeps ==
    ASSUME StackOK, NEW t \in Threads, stack[t] # <<>>, NEW f \in Frame, Goto(t, f)
    PROVE  /\ /\ Top(t).at # "next"
              /\ f.at \in PostPoints => Top(t).at \in PostPoints /\ f.e = Top(t).e
              => PostsKept
           /\ (f.at \in TakePoints =>
                 /\ Top(t).at \in TakePoints /\ f.cell = Top(t).cell /\ f.at # "next"
                 /\ Top(t).at = "reset" => next'[HEAD] = NULL)
              => TakesKept
<1>1. /\ Len(stack[t]) \in 1 .. Len(stack[t])
      /\ \A u \in Threads : /\ Len(stack'[u]) = Len(stack[u])
                            /\ \A i \in 1 .. Len(stack[u]) :
                                  stack'[u][i] = IF u = t /\ i = Len(stack[t]) THEN f
                                                 ELSE stack[u][i]
  BY GotoCalls
<1>2. ASSUME Top(t).at # "next",
             f.at \in PostPoints => Top(t).at \in PostPoints /\ f.e = Top(t).e
      PROVE  PostsKept
  BY <1>1, <1>2 DEF PostsKept, Carries, Top
<1>3. ASSUME f.at \in TakePoints =>
                 /\ Top(t).at \in TakePoints /\ f.cell = Top(t).cell /\ f.at # "next"
                 /\ Top(t).at = "reset" => next'[HEAD] = NULL
      PROVE  TakesKept
  BY <1>1, <1>3 DEF TakesKept, Takes, Top
<1> QED BY <1>2, <1>3

LEMMA PushKeeps ==
    ASSUME StackOK, NEW t \in Threads, NEW f \in Frame, Push(t, f)
    PROVE  (f.at \notin PostPoints => PostsKept) /\ (f.at \notin TakePoints => TakesKept)
<1>1. \A u \in Threads :
         /\ \A i \in 1 .. Len(stack'[u]) :
               \/ i \in 1 .. Len(stack[u]) /\ stack'[u][i] = stack[u][i]
               \/ u = t /\ i = Len(stack[t]) + 1 /\ stack'[u][i] = f
         /\ \A i \in 1 .. Len(stack[u]) : i \in 1 .. Len(stack'[u]) /\ stack'[u][i] = stack[u][i]
  BY PushCalls
<1>2. ASSUME f.at \notin PostPoints PROVE PostsKept
  BY <1>1, <1>2 DEF PostsKept, Carries
<1>3. ASSUME f.at \notin TakePoints PROVE TakesKept
  BY <1>1, <1>3 DEF TakesKept, Takes
<1> QED BY <1>2, <1>3

LEMMA ReturnKeeps ==
    ASSUME StackOK, NEW t \in Threads, stack[t] # <<>>, Return(t)
    PROVE  TakesKept /\ (Top(t).at # "next" => PostsKept)
<1>1. \A u \in Threads :
         /\ \A i \in 1 .. Len(stack'[u]) :
               i \in 1 .. Len(stack[u]) /\ stack'[u][i] = stack[u][i]
         /\ \A i \in 1 .. Len(stack[u]) :
               \/ i \in 1 .. Len(stack'[u]) /\ stack'[u][i] = stack[u][i]
               \/ u = t /\ i = Len(stack[t])
  BY ReturnCalls
<1>2. TakesKept
  BY <1>1 DEF TakesKept, Takes
<1>3. ASSUME Top(t).at # "next" PROVE PostsKept
  BY <1>1, <1>3 DEF PostsKept, Carries, Top
<1> QED BY <1>2, <1>3

(* A step that takes no list keeps what is known of the cells, when a      *)
(* pointer changes at most to a fresh cell, or to none.                    *)
LEMMA HeapKept ==
    ASSUME HeapInv, TakesKept, UNCHANGED freed,
           mallocs \in Nat, next \in [{HEAD} \cup Cells -> {NULL, WILD} \cup Cells],
           \/ UNCHANGED <<next, mallocs>>
           \/ /\ mallocs' = mallocs
              /\ \E c \in {HEAD} \cup Cells : next' = [next EXCEPT ![c] = NULL]
           \/ /\ mallocs' = mallocs + 1
              /\ \E c \in {HEAD} \cup Cells, g \in {NULL, WILD} :
                    next' = [next EXCEPT ![c] = mallocs', ![mallocs'] = g]
    PROVE  HeapInv'
<1> USE DEF NULL, WILD, HEAD, Cells
<1>1. \A p \in {HEAD} \cup Cells : next[p] <= mallocs
  BY DEF HeapInv, Allocated
<1>2. /\ mallocs' \in Nat /\ mallocs <= mallocs'
      /\ \A p \in {HEAD} \cup Cells :
            /\ next'[p] <= mallocs'
            /\ next'[p] \in Cells => next'[p] = next[p] \/ next'[p] > mallocs
  BY <1>1
<1>3. \A p, q \in {HEAD} \cup Cells :
         next'[p] = next'[q] /\ next'[p] \in Cells /\ next'[p] > mallocs => p = q
  BY <1>1
<1>4. \A u \in Threads : \A i \in 1 .. Len(stack'[u]) :
         Takes(u, i)' =>
            /\ i \in 1 .. Len(stack[u]) /\ Takes(u, i) /\ stack[u][i].cell = stack'[u][i].cell
            /\ stack[u][i].at = "reset" => stack'[u][i].at = "reset" \/ next'[HEAD] = NULL
  BY DEF TakesKept, Takes
<1>5. \A c \in Cells : Taken(c)' => Taken(c)
  BY DEF TakesKept, Taken, Takes, TakePoints
<1> HIDE DEF Cells
<1> USE DEF Takes
<1>6. Allocated'
  BY <1>2, <1>4 DEF HeapInv, Allocated, Cells
<1>7. OnePointer'
  BY <1>2, <1>3 DEF HeapInv, OnePointer
<1>8. CutOff'
  <2> SUFFICES ASSUME NEW u \in Threads, NEW i \in 1 .. Len(stack'[u]),
                      NEW p \in {HEAD} \cup (Cells \ freed),
                      Takes(u, i)', next'[p] = stack'[u][i].cell, next'[p] \in Cells
               PROVE  p = HEAD /\ stack'[u][i].at = "reset"
    BY DEF CutOff
  <2>1. next'[p] <= mallocs
    BY <1>4 DEF HeapInv, Allocated
  <2>2. next'[p] = next[p]
    BY <1>2, <2>1 DEF Cells
  <2>3. p = HEAD /\ stack[u][i].at = "reset"
    <3>1. i \in 1 .. Len(stack[u]) /\ Takes(u, i) /\ stack[u][i].cell = stack'[u][i].cell
      BY <1>4
    <3>2. next[p] = stack[u][i].cell /\ next[p] \in Cells
      BY <2>2, <3>1
    <3> QED BY <3>1, <3>2 DEF HeapInv, CutOff
  <2> QED BY <1>4, <2>3 DEF Cells
<1>9. TakenApart'
  <2> SUFFICES ASSUME NEW t \in Threads, NEW u \in Threads,
                      NEW i \in 1 .. Len(stack'[t]), NEW j \in 1 .. Len(stack'[u]),
                      stack'[t][i].at \in TakePoints, stack'[u][j].at \in TakePoints,
                      stack'[t][i].cell = stack'[u][j].cell, stack'[t][i].cell \in Cells
               PROVE  t = u /\ i = j
    BY DEF TakenApart
  <2>1. /\ i \in 1 .. Len(stack[t]) /\ stack[t][i].at \in TakePoints
        /\ stack[t][i].cell = stack'[t][i].cell
    BY <1>4
  <2>2. /\ j \in 1 .. Len(stack[u]) /\ stack[u][j].at \in TakePoints
        /\ stack[u][j].cell = stack'[u][j].cell
    BY <1>4
  <2> QED BY <2>1, <2>2 DEF HeapInv, TakenApart
<1>10. TakenLive'
  BY <1>5 DEF HeapInv, TakenLive
<1> QED BY <1>6, <1>7, <1>8, <1>9, <1>10 DEF HeapInv

(* Who has an event, as one of three cases, before a step and after it.    *)
LEMMA HoldersAre ==
    ASSUME NEW e, NEW a
    PROVE  /\ a \in Holders(e) <=>
                 \/ \E i \in 1 .. Len(posted) : posted[i] = e /\ a = <<"client", NoThread, i>>
                 \/ \E t \in Threads : \E i \in 1 .. Len(stack[t]) :
                       Carries(t, i, e) /\ a = <<"call", t, i>>
                 \/ \E c \in Cells \ freed :
                       event[c] = e /\ ~Taken(c) /\ a = <<"cell", NoThread, c>>
           /\ a \in Holders(e)' <=>
                 \/ \E i \in 1 .. Len(posted') : posted'[i] = e /\ a = <<"client", NoThread, i>>
                 \/ \E t \in Threads : \E i \in 1 .. Len(stack'[t]) :
                       Carries(t, i, e)' /\ a = <<"call", t, i>>
                 \/ \E c \in Cells \ freed' :
                       event'[c] = e /\ ~Taken(c)' /\ a = <<"cell", NoThread, c>>
BY DEF Holders

(* An event that nobody else has gets one holder at most by a step that    *)
(* adds none, or leaves it to one.                                         *)
LEMMA HoldersMove ==
    ASSUME OneHolder, OnlyIssued, issued \in Nat, issued' \in Nat, issued <= issued',
           \A e \in Events : \/ Holders(e)' \subseteq Holders(e)
                             \/ e <= issued' /\ \E b : Holders(e)' \subseteq {b}
    PROVE  OneHolder' /\ OnlyIssued'
<1>1. OneHolder'
  BY DEF OneHolder
<1>2. OnlyIssued'
  BY DEF OnlyIssued, Events
<1> QED BY <1>1, <1>2

LEMMA CarryKept ==
    ASSUME OneHolder, OnlyIssued, issued \in Nat, issued' \in Nat, issued <= issued',
           PostsKept, UNCHANGED <<posted, event, freed>>
    PROVE  OneHolder' /\ OnlyIssued'
<1>1. ASSUME NEW e \in Events, NEW a \in Holders(e)' PROVE a \in Holders(e)
  <2>1. ASSUME NEW t \in Threads, NEW i \in 1 .. Len(stack'[t]), Carries(t, i, e)'
        PROVE  i \in 1 .. Len(stack[t]) /\ Carries(t, i, e)
    BY <2>1 DEF PostsKept, Carries
  <2>2. ASSUME NEW c, Taken(c) PROVE Taken(c)'
    BY <2>2 DEF PostsKept, Taken
  <2> QED BY <1>1, <2>1, <2>2, HoldersAre
<1> QED BY <1>1, HoldersMove

(* The steps that take no list and move no event.                          *)
LEMMA QueueKept ==
    ASSUME QueueInv, TypeOK, PostsKept, TakesKept,
           UNCHANGED <<event, freed, issued, posted>>,
           \/ UNCHANGED <<next, mallocs>>
           \/ /\ mallocs' = mallocs
              /\ \E c \in {HEAD} \cup Cells : next' = [next EXCEPT ![c] = NULL]
           \/ /\ mallocs' = mallocs + 1
              /\ \E c \in {HEAD} \cup Cells, g \in {NULL, WILD} :
                    next' = [next EXCEPT ![c] = mallocs', ![mallocs'] = g]
    PROVE  QueueInv'
<1>1. /\ mallocs \in Nat /\ issued \in Nat
      /\ next \in [{HEAD} \cup Cells -> {NULL, WILD} \cup Cells]
  BY BoundAssumption DEF TypeOK
<1>2. HeapInv'
  BY <1>1, HeapKept DEF QueueInv
<1>3. OneHolder' /\ OnlyIssued'
  BY <1>1, CarryKept DEF QueueInv
<1> QED BY <1>2, <1>3 DEF QueueInv, PostedOK

(* The fields a call has at each point.                                    *)
LEMMA FrameFields ==
    ASSUME NEW f \in Frame
    PROVE  /\ f.at \in TakePoints => f.cell \in {NULL, WILD} \cup Cells /\ f.at \notin PostPoints
           /\ f.at = "next" => f.cell \in Cells
           /\ f.at \in PostPoints \cup {"callback"} =>
                 /\ f \in [at: PostPoints \cup {"callback"}, e: {Blank} \cup Events,
                           tail: Pointers, cell: Pointers]
                 /\ f.e \in {Blank} \cup Events /\ f.at \notin TakePoints
BY DEF Frame, ApiPoints, PostPoints, TakePoints

LEMMA ApiFields ==
    ASSUME NEW p, NEW c
    PROVE  Api(p, c).at = p /\ Api(p, c).cell = c
BY DEF Api

LEMMA PostFields ==
    ASSUME NEW p, NEW e, NEW a, NEW c
    PROVE  Post(p, e, a, c).at = p /\ Post(p, e, a, c).e = e
BY DEF Post
-----------------------------------------------------------------------------
(* put_iaxc_lock takes the list: only the queue points to its first cell,  *)
(* and no other call is about to reset the queue.                          *)
LEMMA TakeKeeps ==
    ASSUME LockInvariant, QueueInv, NEW t \in Threads, Take(t)
    PROVE  QueueInv'
<1> DEFINE f == Api("reset", next[HEAD])
           n == Len(stack[t])
<1>1. /\ stack[t] # <<>> /\ Top(t).at = "take" /\ Goto(t, f) /\ f \in Frame
      /\ f.at = "reset" /\ f.cell = next[HEAD]
      /\ UNCHANGED <<next, event, freed, mallocs, issued, posted>>
  <2>1. f \in Frame
    BY DEF LockInvariant, TypeOK, Api, Frame, ApiPoints
  <2> QED BY <2>1, ApiFields DEF Take, At, Idle, heap
<1> HIDE DEF f
<1>2. /\ n \in 1 .. n
      /\ \A u \in Threads : /\ Len(stack'[u]) = Len(stack[u])
                            /\ \A i \in 1 .. Len(stack[u]) :
                                  stack'[u][i] = IF u = t /\ i = n THEN f ELSE stack[u][i]
  BY <1>1, GotoCalls DEF LockInvariant
<1>3. \A u \in Threads : \A i \in 1 .. Len(stack[u]) : stack[u][i].at # "reset"
  <2> SUFFICES ASSUME NEW u \in Threads, NEW i \in 1 .. Len(stack[u]), stack[u][i].at = "reset"
               PROVE  FALSE
    OBVIOUS
  <2>1. Holding(stack[u]) /\ Holding(stack[t])
    BY <1>1, <1>2 DEF Holding, HoldPoints, Top
  <2>2. u = t
    BY <2>1 DEF LockInvariant, LockInv
  <2>3. i = n
    BY <1>1, <2>2 DEF LockInvariant, LockInv, Shape, HoldPoints
  <2> QED BY <1>1, <2>2, <2>3 DEF Top
<1>4. PostsKept
  BY <1>1, GotoKeeps DEF LockInvariant, PostPoints
<1>5. OneHolder' /\ OnlyIssued'
  BY <1>1, <1>4, CarryKept, BoundAssumption DEF QueueInv, LockInvariant, TypeOK
<1> USE DEF Takes
<1>6. HEAD \notin Cells /\ next[HEAD] \in {NULL, WILD} \cup Cells
  BY DEF LockInvariant, TypeOK, Cells, HEAD
<1>7. Allocated'
  BY <1>1, <1>2 DEF QueueInv, HeapInv, Allocated
<1>8. OnePointer'
  BY <1>1 DEF QueueInv, HeapInv, OnePointer
<1>9. CutOff'
  BY <1>1, <1>2 DEF QueueInv, HeapInv, CutOff, OnePointer
<1>10. \A u \in Threads : \A i \in 1 .. Len(stack[u]) :
          Takes(u, i) /\ next[HEAD] \in Cells => stack[u][i].cell # next[HEAD]
  BY <1>3 DEF QueueInv, HeapInv, CutOff
<1>11. TakenApart'
  <2> SUFFICES ASSUME NEW u \in Threads, NEW v \in Threads,
                      NEW i \in 1 .. Len(stack'[u]), NEW j \in 1 .. Len(stack'[v]),
                      stack'[u][i].at \in TakePoints, stack'[v][j].at \in TakePoints,
                      stack'[u][i].cell = stack'[v][j].cell, stack'[u][i].cell \in Cells
               PROVE  u = v /\ i = j
    BY DEF TakenApart
  <2>1. CASE u = t /\ i = n /\ ~(v = t /\ j = n)
    BY <1>1, <1>2, <1>10, <2>1
  <2>2. CASE v = t /\ j = n /\ ~(u = t /\ i = n)
    BY <1>1, <1>2, <1>10, <2>2
  <2>3. CASE ~(u = t /\ i = n) /\ ~(v = t /\ j = n)
    <3>1. /\ i \in 1 .. Len(stack[u]) /\ stack'[u][i] = stack[u][i]
          /\ j \in 1 .. Len(stack[v]) /\ stack'[v][j] = stack[v][j]
      BY <1>1, <1>2, <2>3
    <3> QED BY <3>1 DEF QueueInv, HeapInv, TakenApart
  <2> QED BY <2>1, <2>2, <2>3
<1>12. TakenLive'
  BY <1>1, <1>2 DEF QueueInv, HeapInv, TakenLive, Taken
<1> QED BY <1>1, <1>5, <1>7, <1>8, <1>9, <1>11, <1>12 DEF QueueInv, HeapInv, PostedOK

(* The loop moves on to the next cell and frees the one it posted from:    *)
(* only that one led to the next.                                          *)
LEMMA DrainNextKeeps ==
    ASSUME LockInvariant, QueueInv, NEW t \in Threads, DrainNext(t)
    PROVE  QueueInv'
<1>0. PICK c : c = Top(t).cell
  OBVIOUS
<1> DEFINE f == Api("drain", next[c])
           n == Len(stack[t])
<1>1. /\ stack[t] # <<>> /\ Top(t).at = "next" /\ Goto(t, f)
      /\ f.at = "drain" /\ f.cell = next[c] /\ freed' = freed \cup {c}
      /\ UNCHANGED <<next, event, mallocs, issued, posted>>
  BY <1>0, ApiFields DEF DrainNext, At, Idle
<1>2. Top(t) \in Frame /\ c \in Cells
  BY <1>0, <1>1, NothingBelow, FrameFields DEF LockInvariant, PostPoints
<1>3. f \in Frame
  BY <1>2 DEF LockInvariant, TypeOK, Api, Frame, ApiPoints
<1> HIDE DEF f
<1>4. /\ n \in 1 .. n
      /\ \A u \in Threads : /\ Len(stack'[u]) = Len(stack[u])
                            /\ \A i \in 1 .. Len(stack[u]) :
                                  stack'[u][i] = IF u = t /\ i = n THEN f ELSE stack[u][i]
  BY <1>1, <1>3, GotoCalls DEF LockInvariant
<1>5. stack[t][n].at = "next" /\ stack[t][n].cell = c /\ Takes(t, n)
  BY <1>0, <1>1, <1>4 DEF Top, Takes, TakePoints
<1>6. c \notin freed
  BY <1>2, <1>4, <1>5 DEF QueueInv, HeapInv, TakenLive, Taken
<1>7. HEAD \notin Cells
  BY DEF Cells, HEAD
<1> USE DEF Takes
<1> HIDE DEF n
<1>8. Allocated'
  BY <1>1, <1>2, <1>4 DEF QueueInv, HeapInv, Allocated
<1>9. OnePointer'
  BY <1>1 DEF QueueInv, HeapInv, OnePointer
<1>10. CutOff'
  <2> SUFFICES ASSUME NEW u \in Threads, NEW i \in 1 .. Len(stack'[u]),
                      NEW p \in {HEAD} \cup (Cells \ freed'),
                      stack'[u][i].at \in TakePoints,
                      next'[p] = stack'[u][i].cell, next'[p] \in Cells
               PROVE  p = HEAD /\ stack'[u][i].at = "reset"
    BY DEF CutOff
  <2>1. CASE u = t /\ i = n
    <3>1. next[p] = next[c]
      BY <1>1, <1>4, <2>1
    <3>2. p = c
      BY <1>1, <1>2, <3>1 DEF QueueInv, HeapInv, OnePointer
    <3> QED BY <1>1, <1>2, <1>7, <3>2
  <2>2. CASE ~(u = t /\ i = n)
    BY <1>1, <1>4, <2>2 DEF QueueInv, HeapInv, CutOff
  <2> QED BY <2>1, <2>2
<1>11. \A u \in Threads : \A i \in 1 .. Len(stack[u]) :
          Takes(u, i) /\ next[c] \in Cells => stack[u][i].cell # next[c]
  BY <1>2, <1>6, <1>7 DEF QueueInv, HeapInv, CutOff
<1>12. TakenApart'
  <2> SUFFICES ASSUME NEW u \in Threads, NEW v \in Threads,
                      NEW i \in 1 .. Len(stack'[u]), NEW j \in 1 .. Len(stack'[v]),
                      stack'[u][i].at \in TakePoints, stack'[v][j].at \in TakePoints,
                      stack'[u][i].cell = stack'[v][j].cell, stack'[u][i].cell \in Cells
               PROVE  u = v /\ i = j
    BY DEF TakenApart
  <2>1. CASE u = t /\ i = n /\ ~(v = t /\ j = n)
    BY <1>1, <1>4, <1>11, <2>1
  <2>2. CASE v = t /\ j = n /\ ~(u = t /\ i = n)
    BY <1>1, <1>4, <1>11, <2>2
  <2>3. CASE ~(u = t /\ i = n) /\ ~(v = t /\ j = n)
    <3>1. /\ i \in 1 .. Len(stack[u]) /\ stack'[u][i] = stack[u][i]
          /\ j \in 1 .. Len(stack[v]) /\ stack'[v][j] = stack[v][j]
      BY <1>1, <1>4, <2>3
    <3> QED BY <3>1 DEF QueueInv, HeapInv, TakenApart
  <2> QED BY <2>1, <2>2, <2>3
<1>13. \A u \in Threads : \A i \in 1 .. Len(stack[u]) :
          Takes(u, i) /\ stack[u][i].cell = c => u = t /\ i = n
  BY <1>2, <1>4, <1>5 DEF QueueInv, HeapInv, TakenApart
<1>14. ASSUME NEW d \in Cells, d # c PROVE Taken(d)' <=> Taken(d)
  <2>1. ASSUME NEW u \in Threads, NEW i \in 1 .. Len(stack[u]),
               stack[u][i].at = "next", stack[u][i].cell = d
        PROVE  i \in 1 .. Len(stack'[u]) /\ stack'[u][i] = stack[u][i]
    <3>1. ~(u = t /\ i = n)
      BY <1>5, <1>14, <2>1
    <3> QED BY <1>4, <3>1
  <2>2. ASSUME NEW u \in Threads, NEW i \in 1 .. Len(stack'[u]),
               stack'[u][i].at = "next", stack'[u][i].cell = d
        PROVE  i \in 1 .. Len(stack[u]) /\ stack'[u][i] = stack[u][i]
    <3>1. ~(u = t /\ i = n)
      BY <1>1, <1>4, <2>2
    <3> QED BY <1>4, <3>1
  <2>3. Taken(d) => Taken(d)'
    BY <2>1 DEF Taken
  <2>4. Taken(d)' => Taken(d)
    BY <2>2 DEF Taken
  <2> QED BY <2>3, <2>4
<1>15. ~Taken(c)'
  BY <1>1, <1>4, <1>13 DEF Taken, TakePoints
<1>16. TakenLive'
  BY <1>1, <1>14, <1>15 DEF QueueInv, HeapInv, TakenLive
<1>17. ASSUME NEW e \in Events, NEW a \in Holders(e)' PROVE a \in Holders(e)
  <2>1. ASSUME NEW u \in Threads, NEW i \in 1 .. Len(stack'[u]), Carries(u, i, e)'
        PROVE  i \in 1 .. Len(stack[u]) /\ Carries(u, i, e)
    BY <1>1, <1>4, <2>1 DEF Carries, PostPoints
  <2>2. \A d \in Cells \ freed' : d \in Cells \ freed /\ (Taken(d)' <=> Taken(d))
    BY <1>1, <1>14
  <2> QED BY <1>1, <1>17, <2>1, <2>2, HoldersAre
<1>18. issued \in Nat
  BY BoundAssumption DEF LockInvariant, TypeOK
<1>19. OneHolder' /\ OnlyIssued'
  BY <1>1, <1>17, <1>18, HoldersMove DEF QueueInv
<1> QED BY <1>1, <1>8, <1>9, <1>10, <1>12, <1>16, <1>19 DEF QueueInv, HeapInv, PostedOK

(* The loop posts a cell's event: the event leaves the cell for the call,  *)
(* because no other call posts from that cell.                             *)
LEMMA DrainKeeps ==
    ASSUME LockInvariant, QueueInv, NEW t \in Threads, Drain(t), ~Wild(Top(t).cell)
    PROVE  QueueInv'
<1>1. PICK c, g, n : c = Top(t).cell /\ g = Post("test", event[c], NULL, NULL)
                     /\ n = Len(stack[t])
  OBVIOUS
<1> DEFINE f == Api("next", c)
           v == [stack[t] EXCEPT ![n] = f]
<1>2. /\ stack[t] # <<>> /\ Top(t).at = "drain"
      /\ stack' = [stack EXCEPT ![t] = Append(v, g)]
      /\ UNCHANGED <<next, event, freed, mallocs, issued, posted>>
  BY <1>1 DEF Drain, At, Idle, heap, LockInvariant, StackOK
<1>3. Top(t) \in Frame /\ c \in Cells /\ c \notin freed
  <2>1. Top(t) \in Frame
    BY <1>2, NothingBelow DEF LockInvariant, PostPoints
  <2>2. c \in {NULL, WILD} \cup Cells
    BY <1>1, <1>2, <2>1, FrameFields DEF TakePoints
  <2> QED BY <1>1, <1>2, <2>1, <2>2 DEF Drain, Wild, Cells, NULL, WILD, HEAD
<1>4. f \in Frame /\ f.at = "next" /\ f.cell = c
  BY <1>3 DEF Frame, Api
<1>5. g \in Frame /\ g.at = "test" /\ g.e = event[c] /\ event[c] \in {Blank} \cup Events
  BY <1>1, <1>3 DEF LockInvariant, TypeOK, Post, Frame, PostPoints, Pointers
<1> HIDE DEF f
<1>6. /\ n \in Nat \ {0}
      /\ \A u \in Threads :
            /\ \A i \in 1 .. Len(stack'[u]) :
                  \/ u = t /\ i = n /\ stack'[u][i] = f
                  \/ u = t /\ i = n + 1 /\ stack'[u][i] = g
                  \/ ~(u = t /\ i = n) /\ i \in 1 .. Len(stack[u]) /\ stack'[u][i] = stack[u][i]
            /\ \A i \in 1 .. Len(stack[u]) :
                  i \in 1 .. Len(stack'[u])
                  /\ stack'[u][i] = IF u = t /\ i = n THEN f ELSE stack[u][i]
  <2>1. stack[t] \in Seq(Frame)
    BY DEF LockInvariant, StackOK
  <2>2. /\ v \in Seq(Frame) /\ Len(v) = n /\ n \in Nat \ {0} /\ v[n] = f
        /\ \A i \in 1 .. n : i # n => v[i] = stack[t][i]
    BY <1>1, <1>2, <1>4, <2>1, GotoFacts
  <2> HIDE DEF v
  <2>3. /\ Len(Append(v, g)) = n + 1 /\ Append(v, g)[n + 1] = g
        /\ \A i \in 1 .. n : Append(v, g)[i] = v[i]
    BY <1>5, <2>2, PushFacts
  <2>4. \A u \in Threads : stack'[u] = IF u = t THEN Append(v, g) ELSE stack[u]
    BY <1>2 DEF LockInvariant, StackOK
  <2>5. \A u \in Threads : u # t => stack'[u] = stack[u]
    BY <2>4
  <2>6. stack'[t] = Append(v, g)
    BY <2>4
  <2>7. /\ \A i \in 1 .. Len(stack'[t]) :
              \/ i = n /\ stack'[t][i] = f
              \/ i = n + 1 /\ stack'[t][i] = g
              \/ i # n /\ i \in 1 .. Len(stack[t]) /\ stack'[t][i] = stack[t][i]
        /\ \A i \in 1 .. Len(stack[t]) :
              i \in 1 .. Len(stack'[t]) /\ stack'[t][i] = IF i = n THEN f ELSE stack[t][i]
    BY <1>1, <2>2, <2>3, <2>6
  <2> QED BY <2>2, <2>5, <2>7
<1>7. stack[t][n].at = "drain" /\ stack[t][n].cell = c /\ n \in 1 .. Len(stack[t])
  BY <1>1, <1>2, <1>6 DEF Top
<1>8. \A u \in Threads : \A i \in 1 .. Len(stack'[u]) :
         stack'[u][i].at \in TakePoints =>
            /\ i \in 1 .. Len(stack[u]) /\ stack[u][i].at \in TakePoints
            /\ stack'[u][i].cell = stack[u][i].cell
            /\ stack[u][i].at = "reset" => stack'[u][i].at = "reset"
  BY <1>4, <1>5, <1>6, <1>7 DEF TakePoints
<1> USE DEF Takes
<1>9. Allocated'
  BY <1>2, <1>8 DEF QueueInv, HeapInv, Allocated
<1>10. OnePointer'
  BY <1>2 DEF QueueInv, HeapInv, OnePointer
<1>11. CutOff'
  <2> SUFFICES ASSUME NEW u \in Threads, NEW i \in 1 .. Len(stack'[u]),
                      NEW p \in {HEAD} \cup (Cells \ freed),
                      stack'[u][i].at \in TakePoints,
                      next[p] = stack'[u][i].cell, next[p] \in Cells
               PROVE  p = HEAD /\ stack'[u][i].at = "reset"
    BY <1>2 DEF CutOff
  <2>1. /\ i \in 1 .. Len(stack[u]) /\ stack[u][i].at \in TakePoints
        /\ stack'[u][i].cell = stack[u][i].cell
    BY <1>8
  <2>2. p = HEAD /\ stack[u][i].at = "reset"
    BY <2>1 DEF QueueInv, HeapInv, CutOff
  <2> QED BY <1>8, <2>2
<1>12. TakenApart'
  <2> SUFFICES ASSUME NEW u \in Threads, NEW w \in Threads,
                      NEW i \in 1 .. Len(stack'[u]), NEW j \in 1 .. Len(stack'[w]),
                      stack'[u][i].at \in TakePoints, stack'[w][j].at \in TakePoints,
                      stack'[u][i].cell = stack'[w][j].cell, stack'[u][i].cell \in Cells
               PROVE  u = w /\ i = j
    BY DEF TakenApart
  <2>1. /\ i \in 1 .. Len(stack[u]) /\ stack[u][i].at \in TakePoints
        /\ stack'[u][i].cell = stack[u][i].cell
    BY <1>8
  <2>2. /\ j \in 1 .. Len(stack[w]) /\ stack[w][j].at \in TakePoints
        /\ stack'[w][j].cell = stack[w][j].cell
    BY <1>8
  <2>3. stack[u][i].cell = stack[w][j].cell /\ stack[u][i].cell \in Cells
    BY <2>1, <2>2
  <2> QED BY <2>1, <2>2, <2>3 DEF QueueInv, HeapInv, TakenApart
<1>13. Taken(c)' /\ ~Taken(c)
  <2>1. Taken(c)'
    BY <1>4, <1>6, <1>7 DEF Taken
  <2>2. ASSUME NEW u \in Threads, NEW i \in 1 .. Len(stack[u]),
               stack[u][i].at = "next", stack[u][i].cell = c
        PROVE  FALSE
    <3>1. u = t /\ i = n
      BY <1>3, <1>7, <2>2 DEF QueueInv, HeapInv, TakenApart, TakePoints
    <3> QED BY <1>7, <2>2, <3>1
  <2> QED BY <2>1, <2>2 DEF Taken
<1>14. ASSUME NEW d \in Cells, d # c PROVE Taken(d)' <=> Taken(d)
  <2>1. ASSUME Taken(d)' PROVE Taken(d)
    <3>0. PICK u \in Threads : \E i \in 1 .. Len(stack'[u]) :
             stack'[u][i].at = "next" /\ stack'[u][i].cell = d
      BY <2>1 DEF Taken
    <3>1. PICK i \in 1 .. Len(stack'[u]) :
             stack'[u][i].at = "next" /\ stack'[u][i].cell = d
      BY <3>0
    <3>2. i \in 1 .. Len(stack[u]) /\ stack'[u][i] = stack[u][i]
      BY <1>4, <1>5, <1>6, <1>14, <3>1
    <3> QED BY <3>1, <3>2 DEF Taken
  <2>2. ASSUME Taken(d) PROVE Taken(d)'
    <3>0. PICK u \in Threads : \E i \in 1 .. Len(stack[u]) :
             stack[u][i].at = "next" /\ stack[u][i].cell = d
      BY <2>2 DEF Taken
    <3>1. PICK i \in 1 .. Len(stack[u]) :
             stack[u][i].at = "next" /\ stack[u][i].cell = d
      BY <3>0
    <3>2. i \in 1 .. Len(stack'[u]) /\ stack'[u][i] = stack[u][i]
      BY <1>6, <1>7, <3>1
    <3> QED BY <3>1, <3>2 DEF Taken
  <2> QED BY <2>1, <2>2
<1>15. TakenLive'
  BY <1>2, <1>3, <1>14 DEF QueueInv, HeapInv, TakenLive
<1>16. ASSUME NEW e \in Events, NEW a \in Holders(e)'
       PROVE  \/ a \in Holders(e) /\ a # <<"cell", NoThread, c>>
              \/ e = event[c] /\ a = <<"call", t, n + 1>>
  <2>1. ASSUME NEW u \in Threads, NEW i \in 1 .. Len(stack'[u]), Carries(u, i, e)'
        PROVE  \/ i \in 1 .. Len(stack[u]) /\ Carries(u, i, e)
               \/ u = t /\ i = n + 1 /\ e = event[c]
    BY <1>4, <1>5, <1>6, <2>1 DEF Carries, PostPoints
  <2>2. \A d \in Cells \ freed' : ~Taken(d)' => d \in Cells \ freed /\ ~Taken(d) /\ d # c
    BY <1>2, <1>13, <1>14
  <2>3. \/ \E i \in 1 .. Len(posted) : posted[i] = e /\ a = <<"client", NoThread, i>>
        \/ \E u \in Threads : \E i \in 1 .. Len(stack'[u]) :
              Carries(u, i, e)' /\ a = <<"call", u, i>>
        \/ \E d \in Cells \ freed' :
              event[d] = e /\ ~Taken(d)' /\ a = <<"cell", NoThread, d>>
    BY <1>2, <1>16, HoldersAre
  <2> QED BY <2>1, <2>2, <2>3, HoldersAre
<1>17. ASSUME NEW e \in Events, e = event[c]
       PROVE  e <= issued /\ Holders(e)' \subseteq {<<"call", t, n + 1>>}
  <2>1. <<"cell", NoThread, c>> \in Holders(e)
    BY <1>3, <1>13, <1>17, HoldersAre
  <2> QED BY <1>16, <2>1 DEF QueueInv, OneHolder, OnlyIssued
<1>18. issued \in Nat
  BY BoundAssumption DEF LockInvariant, TypeOK
<1>19. \A e \in Events : \/ Holders(e)' \subseteq Holders(e)
                         \/ e <= issued' /\ \E b : Holders(e)' \subseteq {b}
  <2> SUFFICES ASSUME NEW e \in Events
               PROVE  \/ Holders(e)' \subseteq Holders(e)
                      \/ e <= issued' /\ \E b : Holders(e)' \subseteq {b}
    OBVIOUS
  <2>1. CASE e = event[c]
    BY <1>2, <1>17, <2>1
  <2>2. CASE e # event[c]
    BY <1>16, <2>2
  <2> QED BY <2>1, <2>2
<1>20. OneHolder' /\ OnlyIssued'
  BY <1>2, <1>18, <1>19, HoldersMove DEF QueueInv
<1> QED BY <1>2, <1>9, <1>10, <1>11, <1>12, <1>15, <1>20 DEF QueueInv, HeapInv, PostedOK

(* A new event goes to the call that posts it.                             *)
LEMMA BeginPostKeeps ==
    ASSUME LockInvariant, QueueInv, NEW t \in Threads, BeginPost(t)
    PROVE  QueueInv'
<1>1. PICK g, n, x : x = issued + 1 /\ g = Post("test", x, NULL, NULL) /\ n = Len(stack[t]) + 1
  OBVIOUS
<1>2. /\ Push(t, g) /\ issued' = x /\ issued \in Nat /\ x \in Events
      /\ UNCHANGED <<next, event, freed, mallocs, posted>>
  <2>1. issued \in Nat /\ issued + 1 \in Events
    BY BoundAssumption DEF BeginPost, LockInvariant, TypeOK, Events
  <2> QED BY <1>1, <2>1 DEF BeginPost, heap
<1>3. g \in Frame /\ g.at = "test" /\ g.e = x
  BY <1>1, <1>2 DEF Post, Frame, PostPoints, Pointers
<1>4. TakesKept
  BY <1>2, <1>3, PushKeeps DEF LockInvariant, TakePoints
<1>5. HeapInv'
  <2>1. mallocs \in Nat /\ next \in [{HEAD} \cup Cells -> {NULL, WILD} \cup Cells]
    BY BoundAssumption DEF LockInvariant, TypeOK
  <2> QED BY <1>2, <1>4, <2>1, HeapKept DEF QueueInv
<1>6. \A u \in Threads :
         /\ \A i \in 1 .. Len(stack'[u]) :
               \/ i \in 1 .. Len(stack[u]) /\ stack'[u][i] = stack[u][i]
               \/ u = t /\ i = n /\ stack'[u][i] = g
         /\ \A i \in 1 .. Len(stack[u]) : i \in 1 .. Len(stack'[u]) /\ stack'[u][i] = stack[u][i]
  BY <1>1, <1>2, <1>3, PushCalls DEF LockInvariant
<1>7. ASSUME NEW e \in Events, NEW a \in Holders(e)'
      PROVE  a \in Holders(e) \/ (e = x /\ a = <<"call", t, n>>)
  <2>1. ASSUME NEW u \in Threads, NEW i \in 1 .. Len(stack'[u]), Carries(u, i, e)'
        PROVE  \/ i \in 1 .. Len(stack[u]) /\ Carries(u, i, e)
               \/ u = t /\ i = n /\ e = x
    BY <1>3, <1>6, <2>1 DEF Carries
  <2>2. ASSUME NEW d, Taken(d) PROVE Taken(d)'
    BY <1>6, <2>2 DEF Taken
  <2>3. \/ \E i \in 1 .. Len(posted) : posted[i] = e /\ a = <<"client", NoThread, i>>
        \/ \E u \in Threads : \E i \in 1 .. Len(stack'[u]) :
              Carries(u, i, e)' /\ a = <<"call", u, i>>
        \/ \E d \in Cells \ freed : event[d] = e /\ ~Taken(d)' /\ a = <<"cell", NoThread, d>>
    BY <1>2, <1>7, HoldersAre
  <2> QED BY <2>1, <2>2, <2>3, HoldersAre
<1>8. Holders(x) = {}
  BY <1>1, <1>2 DEF QueueInv, OnlyIssued
<1>9. \A e \in Events : \/ Holders(e)' \subseteq Holders(e)
                        \/ e <= issued' /\ \E b : Holders(e)' \subseteq {b}
  <2> SUFFICES ASSUME NEW e \in Events
               PROVE  \/ Holders(e)' \subseteq Holders(e)
                      \/ e <= issued' /\ \E b : Holders(e)' \subseteq {b}
    OBVIOUS
  <2>1. CASE e = x
    <3>1. Holders(e)' \subseteq {<<"call", t, n>>}
      BY <1>7, <1>8, <2>1
    <3>2. e <= issued'
      BY <1>1, <1>2, <2>1
    <3> QED BY <3>1, <3>2
  <2>2. CASE e # x
    BY <1>7, <2>2
  <2> QED BY <2>1, <2>2
<1>10. OneHolder' /\ OnlyIssued'
  BY <1>1, <1>2, <1>9, HoldersMove DEF QueueInv
<1> QED BY <1>2, <1>5, <1>10 DEF QueueInv, PostedOK

(* The event goes from the call that posts it to the client.               *)
LEMMA PostNowKeeps ==
    ASSUME LockInvariant, QueueInv, NEW t \in Threads, PostNow(t)
    PROVE  QueueInv'
<1>1. PICK g, n, x, k : /\ x = Top(t).e /\ g = Post("callback", x, NULL, NULL)
                        /\ n = Len(stack[t]) /\ k = Len(posted) + 1
  OBVIOUS
<1>2. /\ stack[t] # <<>> /\ Top(t).at = "test" /\ Goto(t, g) /\ posted' = Append(posted, x)
      /\ UNCHANGED <<next, event, freed, mallocs, issued>>
  BY <1>1 DEF PostNow, At, Idle, heap
<1>3. x \in {Blank} \cup Events /\ n \in 1 .. n
  <2>1. stack[t] \in Seq(Frame) /\ Len(stack[t]) \in Nat \ {0} /\ Top(t) \in Frame
    BY <1>2 DEF LockInvariant, StackOK, Top
  <2> QED BY <1>1, <1>2, <2>1, FrameFields DEF PostPoints
<1>4. g \in Frame /\ g.at = "callback"
  BY <1>1, <1>3 DEF Post, Frame, PostPoints, Pointers
<1>5. TakesKept
  BY <1>2, <1>4, GotoKeeps DEF LockInvariant, TakePoints
<1>6. HeapInv'
  <2>1. mallocs \in Nat /\ next \in [{HEAD} \cup Cells -> {NULL, WILD} \cup Cells]
    BY BoundAssumption DEF LockInvariant, TypeOK
  <2> QED BY <1>2, <1>5, <2>1, HeapKept DEF QueueInv
<1>7. \A u \in Threads : /\ Len(stack'[u]) = Len(stack[u])
                         /\ \A i \in 1 .. Len(stack[u]) :
                               stack'[u][i] = IF u = t /\ i = n THEN g ELSE stack[u][i]
  BY <1>1, <1>2, <1>4, GotoCalls DEF LockInvariant
<1>8. /\ PostedOK' /\ Len(posted') = k /\ k - 1 = Len(posted) /\ k \in Nat /\ posted'[k] = x
      /\ \A i \in 1 .. Len(posted') : i # k => i \in 1 .. Len(posted) /\ posted'[i] = posted[i]
  BY <1>1, <1>2, <1>3 DEF QueueInv, PostedOK
<1>9. ASSUME NEW e \in Events, NEW a \in Holders(e)'
      PROVE  \/ a \in Holders(e) /\ a # <<"call", t, n>>
             \/ e = x /\ a = <<"client", NoThread, k>>
  <2>1. ASSUME NEW u \in Threads, NEW i \in 1 .. Len(stack'[u]), Carries(u, i, e)'
        PROVE  i \in 1 .. Len(stack[u]) /\ Carries(u, i, e) /\ ~(u = t /\ i = n)
    BY <1>4, <1>7, <2>1 DEF Carries, PostPoints
  <2>2. ASSUME NEW d, Taken(d) PROVE Taken(d)'
    BY <1>1, <1>2, <1>7, <2>2 DEF Taken, Top
  <2>3. ASSUME NEW i \in 1 .. Len(posted'), posted'[i] = e
        PROVE  (i \in 1 .. Len(posted) /\ posted[i] = e) \/ (i = k /\ e = x)
    BY <1>8, <2>3
  <2>4. \/ \E i \in 1 .. Len(posted') : posted'[i] = e /\ a = <<"client", NoThread, i>>
        \/ \E u \in Threads : \E i \in 1 .. Len(stack'[u]) :
              Carries(u, i, e)' /\ a = <<"call", u, i>>
        \/ \E d \in Cells \ freed : event[d] = e /\ ~Taken(d)' /\ a = <<"cell", NoThread, d>>
    BY <1>2, <1>9, HoldersAre
  <2> QED BY <2>1, <2>2, <2>3, <2>4, HoldersAre
<1>10. ASSUME x \in Events
       PROVE  x <= issued /\ Holders(x)' \subseteq {<<"client", NoThread, k>>}
  <2>1. <<"call", t, n>> \in Holders(x)
    <3>1. Carries(t, n, x)
      BY <1>1, <1>2, <1>3 DEF Carries, Top, PostPoints
    <3> QED BY <1>1, <1>3, <3>1, HoldersAre
  <2> QED BY <1>9, <1>10, <2>1 DEF QueueInv, OneHolder, OnlyIssued
<1>11. issued \in Nat
  BY BoundAssumption DEF LockInvariant, TypeOK
<1>12. \A e \in Events : \/ Holders(e)' \subseteq Holders(e)
                         \/ e <= issued' /\ \E b : Holders(e)' \subseteq {b}
  <2> SUFFICES ASSUME NEW e \in Events
               PROVE  \/ Holders(e)' \subseteq Holders(e)
                      \/ e <= issued' /\ \E b : Holders(e)' \subseteq {b}
    OBVIOUS
  <2>1. CASE e = x
    BY <1>2, <1>10, <2>1
  <2>2. CASE e # x
    BY <1>9, <2>2
  <2> QED BY <2>1, <2>2
<1>13. OneHolder' /\ OnlyIssued'
  BY <1>2, <1>11, <1>12, HoldersMove DEF QueueInv
<1> QED BY <1>6, <1>8, <1>13 DEF QueueInv

(* The event goes from the call that posts it to a cell.                   *)
LEMMA FillKeeps ==
    ASSUME LockInvariant, QueueInv, NEW t \in Threads, Fill(t), ~Crash
    PROVE  QueueInv'
<1>1. PICK c : /\ ~(c = HEAD \/ Wild(c))
               /\ event' = [event EXCEPT ![c] = Top(t).e]
               /\ next' = [next EXCEPT ![c] = NULL]
               /\ Return(t)
               /\ UNCHANGED <<owner, locked, freed, mallocs, issued, calls, posted>>
  BY DEF Fill
<1>2. PICK n, x : x = Top(t).e /\ n = Len(stack[t])
  OBVIOUS
<1>3. stack[t] # <<>> /\ Top(t).at = "fill" /\ c \in Cells /\ c \notin freed
  BY <1>1 DEF Fill, At, Idle, Wild
<1>4. x \in {Blank} \cup Events /\ n \in 1 .. n
  <2>1. stack[t] \in Seq(Frame) /\ Len(stack[t]) \in Nat \ {0} /\ Top(t) \in Frame
    BY <1>3 DEF LockInvariant, StackOK, Top
  <2> QED BY <1>2, <1>3, <2>1, FrameFields DEF PostPoints
<1>5. TakesKept
  BY <1>1, <1>3, ReturnKeeps DEF LockInvariant
<1>6. HeapInv'
  <2>1. mallocs \in Nat /\ next \in [{HEAD} \cup Cells -> {NULL, WILD} \cup Cells]
    BY BoundAssumption DEF LockInvariant, TypeOK
  <2> QED BY <1>1, <1>3, <1>5, <2>1, HeapKept DEF QueueInv
<1>7. \A u \in Threads :
         /\ \A i \in 1 .. Len(stack'[u]) :
               /\ i \in 1 .. Len(stack[u]) /\ stack'[u][i] = stack[u][i]
               /\ ~(u = t /\ i = n)
         /\ \A i \in 1 .. Len(stack[u]) :
               \/ i \in 1 .. Len(stack'[u]) /\ stack'[u][i] = stack[u][i]
               \/ u = t /\ i = n
  <2>1. \A i \in 1 .. Len(stack'[t]) : i # n
    <3>1. stack[t] \in Seq(Frame) /\ stack' = [stack EXCEPT ![t] = SubSeq(@, 1, Len(@) - 1)]
      BY <1>1 DEF Return, LockInvariant, StackOK
    <3>2. stack'[t] = SubSeq(stack[t], 1, Len(stack[t]) - 1)
      BY <3>1 DEF LockInvariant, StackOK
    <3>3. Len(stack'[t]) = n - 1 /\ n \in Nat
      BY <1>2, <1>3, <3>1, <3>2, ReturnFacts
    <3> QED BY <3>3
  <2> QED BY <1>1, <1>2, <1>3, <2>1, ReturnCalls DEF LockInvariant
<1>8. ASSUME NEW e \in Events, NEW a \in Holders(e)'
      PROVE  \/ a \in Holders(e) /\ a # <<"call", t, n>>
             \/ e = x /\ a = <<"cell", NoThread, c>>
  <2>1. ASSUME NEW u \in Threads, NEW i \in 1 .. Len(stack'[u]), Carries(u, i, e)'
        PROVE  i \in 1 .. Len(stack[u]) /\ Carries(u, i, e) /\ ~(u = t /\ i = n)
    BY <1>7, <2>1 DEF Carries
  <2>2. ASSUME NEW d, Taken(d) PROVE Taken(d)'
    BY <1>2, <1>3, <1>7, <2>2 DEF Taken, Top
  <2>3. ASSUME NEW d \in Cells, event'[d] = e
        PROVE  event[d] = e \/ (d = c /\ e = x)
    BY <1>1, <1>2, <2>3 DEF LockInvariant, TypeOK
  <2>4. \/ \E i \in 1 .. Len(posted) : posted[i] = e /\ a = <<"client", NoThread, i>>
        \/ \E u \in Threads : \E i \in 1 .. Len(stack'[u]) :
              Carries(u, i, e)' /\ a = <<"call", u, i>>
        \/ \E d \in Cells \ freed : event'[d] = e /\ ~Taken(d)' /\ a = <<"cell", NoThread, d>>
    BY <1>1, <1>8, HoldersAre
  <2> QED BY <2>1, <2>2, <2>3, <2>4, HoldersAre
<1>9. ASSUME x \in Events
      PROVE  x <= issued /\ Holders(x)' \subseteq {<<"cell", NoThread, c>>}
  <2>1. <<"call", t, n>> \in Holders(x)
    <3>1. Carries(t, n, x)
      BY <1>2, <1>3, <1>4 DEF Carries, Top, PostPoints
    <3> QED BY <1>2, <1>4, <3>1, HoldersAre
  <2> QED BY <1>8, <1>9, <2>1 DEF QueueInv, OneHolder, OnlyIssued
<1>10. issued \in Nat
  BY BoundAssumption DEF LockInvariant, TypeOK
<1>11. \A e \in Events : \/ Holders(e)' \subseteq Holders(e)
                         \/ e <= issued' /\ \E b : Holders(e)' \subseteq {b}
  <2> SUFFICES ASSUME NEW e \in Events
               PROVE  \/ Holders(e)' \subseteq Holders(e)
                      \/ e <= issued' /\ \E b : Holders(e)' \subseteq {b}
    OBVIOUS
  <2>1. CASE e = x
    BY <1>1, <1>9, <2>1
  <2>2. CASE e # x
    BY <1>8, <2>2
  <2> QED BY <2>1, <2>2
<1>12. OneHolder' /\ OnlyIssued'
  BY <1>1, <1>10, <1>11, HoldersMove DEF QueueInv
<1> QED BY <1>1, <1>6, <1>12 DEF QueueInv, PostedOK
-----------------------------------------------------------------------------
THEOREM QueueInit == Init => QueueInv
<1> SUFFICES ASSUME Init PROVE QueueInv
  OBVIOUS
<1>1. /\ \A p \in {HEAD} \cup Cells : next[p] \in {NULL, WILD}
      /\ \A t \in Threads : stack[t] = <<>> /\ Len(stack[t]) = 0
      /\ posted = <<>> /\ Len(posted) = 0 /\ mallocs = 0
      /\ \A c \in Cells : event[c] = Blank
  BY DEF Init
<1>2. HeapInv
  BY <1>1 DEF HeapInv, Allocated, OnePointer, CutOff, TakenApart, TakenLive, Taken,
              Cells, NULL, WILD
<1>3. \A e \in Events : Holders(e) = {}
  BY <1>1, HoldersAre DEF Events, Blank
<1> QED BY <1>1, <1>2, <1>3 DEF QueueInv, PostedOK, OneHolder, OnlyIssued

(* Every step keeps the queue's invariant.                                 *)
THEOREM QueueNext == LockInvariant /\ QueueInv /\ [Next]_vars => QueueInv'
<1> SUFFICES ASSUME LockInvariant, QueueInv, [Next]_vars PROVE QueueInv'
  OBVIOUS
<1>0. TypeOK /\ StackOK
  BY DEF LockInvariant
<1>1. ASSUME UNCHANGED <<next, event, freed, mallocs, stack, issued, posted>> PROVE QueueInv'
  <2>1. PostsKept /\ TakesKept
    BY <1>1 DEF PostsKept, TakesKept, Takes, Carries
  <2> QED BY <1>0, <1>1, <2>1, QueueKept
<1>2. ASSUME Crash PROVE QueueInv'
  BY <1>1, <1>2 DEF Crash, heap
<1>3. ASSUME NEW t \in Threads, NEW f \in Frame, Goto(t, f), stack[t] # <<>>,
             Top(t).at # "next",
             f.at \in PostPoints => Top(t).at \in PostPoints /\ f.e = Top(t).e,
             f.at \in TakePoints =>
                 /\ Top(t).at \in TakePoints /\ f.cell = Top(t).cell /\ f.at # "next"
                 /\ Top(t).at = "reset" => next'[HEAD] = NULL
      PROVE  PostsKept /\ TakesKept
  BY <1>0, <1>3, GotoKeeps
<1>4. ASSUME NEW t \in Threads, BeginCall(t) PROVE QueueInv'
  <2> DEFINE f == Api("lock", NULL)
  <2>1. Push(t, f) /\ UNCHANGED <<next, event, freed, mallocs, issued, posted>>
    BY <1>4 DEF BeginCall, heap
  <2>2. f \in Frame /\ f.at \notin PostPoints /\ f.at \notin TakePoints
    BY DEF Api, Frame, ApiPoints, PostPoints, TakePoints
  <2> HIDE DEF f
  <2>3. PostsKept /\ TakesKept
    BY <1>0, <2>1, <2>2, PushKeeps
  <2> QED BY <1>0, <2>1, <2>3, QueueKept
<1>5. ASSUME NEW t \in Threads,
             \/ Lock(t) \/ Flag(t) \/ Leave(t) \/ Unflag(t) \/ Unlock(t) \/ Enqueue(t)
      PROVE  QueueInv'
  <2>1. PICK f \in {Api("flag", NULL), Api("inside", NULL), Api("take", NULL),
                    Api("unlock", Top(t).cell), Api("drain", Top(t).cell),
                    Post("walk", Top(t).e, HEAD, NULL)} :
           /\ Goto(t, f) /\ stack[t] # <<>>
           /\ \/ Top(t).at = "lock" /\ f = Api("flag", NULL)
              \/ Top(t).at = "flag" /\ f = Api("inside", NULL)
              \/ Top(t).at = "inside" /\ f = Api("take", NULL)
              \/ Top(t).at = "unflag" /\ f = Api("unlock", Top(t).cell)
              \/ Top(t).at = "unlock" /\ f = Api("drain", Top(t).cell)
              \/ Top(t).at = "test" /\ f = Post("walk", Top(t).e, HEAD, NULL)
    BY <1>5 DEF Lock, Flag, Leave, Unflag, Unlock, Enqueue, At, Idle
  <2>2. UNCHANGED <<next, event, freed, mallocs, issued, posted>>
    BY <1>5 DEF Lock, Flag, Leave, Unflag, Unlock, Enqueue, heap
  <2>3. Top(t) \in Frame
    BY <1>0, <2>1 DEF StackOK, Top
  <2>4. /\ f \in Frame /\ Top(t).at # "next"
        /\ f.at \in PostPoints => Top(t).at \in PostPoints /\ f.e = Top(t).e
        /\ f.at \in TakePoints =>
              /\ Top(t).at \in TakePoints /\ f.cell = Top(t).cell /\ f.at # "next"
              /\ Top(t).at # "reset"
    BY <2>1, <2>3, FrameFields
       DEF Api, Post, Frame, ApiPoints, PostPoints, TakePoints, Pointers
  <2>5. PostsKept /\ TakesKept
    BY <1>3, <2>1, <2>4
  <2> QED BY <1>0, <2>2, <2>5, QueueKept
<1>6. ASSUME NEW t \in Threads, Take(t) PROVE QueueInv'
  BY <1>6, TakeKeeps
<1>7. ASSUME NEW t \in Threads, Reset(t) PROVE QueueInv'
  <2> DEFINE f == Api("unflag", Top(t).cell)
  <2>1. /\ Goto(t, f) /\ stack[t] # <<>> /\ Top(t).at = "reset"
        /\ next' = [next EXCEPT ![HEAD] = NULL]
        /\ UNCHANGED <<event, freed, mallocs, issued, posted>>
    BY <1>7 DEF Reset, At, Idle
  <2>2. Top(t) \in Frame
    BY <1>0, <2>1 DEF StackOK, Top
  <2>3. f \in Frame /\ f.at = "unflag" /\ f.cell = Top(t).cell
    BY <2>1, <2>2, FrameFields DEF Api, Frame, ApiPoints, TakePoints
  <2> HIDE DEF f
  <2>4. next'[HEAD] = NULL
    BY <1>0, <2>1 DEF TypeOK
  <2>5. PostsKept /\ TakesKept
    BY <1>3, <2>1, <2>3, <2>4 DEF PostPoints, TakePoints
  <2> QED BY <1>0, <2>1, <2>5, QueueKept
<1>8. ASSUME NEW t \in Threads, Drain(t) PROVE QueueInv'
  BY <1>2, <1>8, DrainKeeps DEF Drain
<1>9. ASSUME NEW t \in Threads, DrainNext(t) PROVE QueueInv'
  BY <1>9, DrainNextKeeps
<1>10. ASSUME NEW t \in Threads, Drained(t) \/ PostDone(t) PROVE QueueInv'
  <2>1. /\ Return(t) /\ stack[t] # <<>> /\ Top(t).at # "next"
        /\ UNCHANGED <<next, event, freed, mallocs, issued, posted>>
    BY <1>10 DEF Drained, PostDone, At, Idle, heap
  <2>2. PostsKept /\ TakesKept
    BY <1>0, <2>1, ReturnKeeps
  <2> QED BY <1>0, <2>1, <2>2, QueueKept
<1>11. ASSUME NEW t \in Threads, PostNow(t) PROVE QueueInv'
  BY <1>11, PostNowKeeps
<1>12. ASSUME NEW t \in Threads, Walk(t) PROVE QueueInv'
  <2>1. CASE Crash
    BY <1>2, <2>1
  <2>2. CASE ~Crash
    <3>1. /\ stack[t] # <<>> /\ Top(t).at = "walk" /\ ~Wild(Top(t).tail)
          /\ UNCHANGED <<next, event, freed, mallocs, issued, posted>>
      BY <1>12, <2>2 DEF Walk, At, Idle, heap
    <3>2. PICK f \in {[Top(t) EXCEPT !.at = "link"],
                      [Top(t) EXCEPT !.tail = next[Top(t).tail]]} : Goto(t, f)
      BY <1>12, <2>2 DEF Walk
    <3>3. Top(t) \in [at: PostPoints \cup {"callback"}, e: {Blank} \cup Events,
                      tail: Pointers, cell: Pointers]
      <4>1. Top(t) \in Frame
        BY <1>0, <3>1 DEF StackOK, Top
      <4> QED BY <3>1, <4>1, FrameFields DEF PostPoints
    <3>4. f \in Frame /\ f.at \in PostPoints /\ f.e = Top(t).e
      <4>1. next[Top(t).tail] \in Pointers
        BY <1>0, <3>1 DEF Wild, TypeOK, Pointers
      <4> QED BY <3>1, <3>2, <3>3, <4>1 DEF Frame, PostPoints
    <3>5. PostsKept /\ TakesKept
      BY <1>3, <3>1, <3>2, <3>4 DEF PostPoints, TakePoints
    <3> QED BY <1>0, <3>1, <3>5, QueueKept
  <2> QED BY <2>1, <2>2
<1>13. ASSUME NEW t \in Threads, Link(t) PROVE QueueInv'
  <2>1. CASE Crash
    BY <1>2, <2>1
  <2>2. CASE ~Crash
    <3>1. /\ stack[t] # <<>> /\ Top(t).at = "link" /\ ~Wild(Top(t).tail)
          /\ mallocs' = mallocs + 1 /\ mallocs < MaxCells
          /\ UNCHANGED <<event, freed, issued, posted>>
      BY <1>13, <2>2 DEF Link, At, Idle
    <3>2. PICK g \in {NULL, WILD} :
             next' = [next EXCEPT ![Top(t).tail] = mallocs', ![mallocs'] = g]
      BY <1>13, <2>2 DEF Link
    <3> DEFINE f == [Top(t) EXCEPT !.at = "fill", !.cell = mallocs']
    <3>3. Goto(t, f)
      BY <1>13, <2>2 DEF Link
    <3>4. Top(t) \in [at: PostPoints \cup {"callback"}, e: {Blank} \cup Events,
                      tail: Pointers, cell: Pointers]
      <4>1. Top(t) \in Frame
        BY <1>0, <3>1 DEF StackOK, Top
      <4> QED BY <3>1, <4>1, FrameFields DEF PostPoints
    <3>5. f \in Frame /\ f.at = "fill" /\ f.e = Top(t).e
      <4>1. mallocs' \in Cells
        BY <1>0, <3>1, BoundAssumption DEF TypeOK, Cells
      <4> QED BY <3>4, <4>1 DEF Frame, PostPoints, Pointers
    <3> HIDE DEF f
    <3>6. PostsKept /\ TakesKept
      BY <1>3, <3>1, <3>3, <3>5 DEF PostPoints, TakePoints
    <3>7. Top(t).tail \in {HEAD} \cup Cells
      BY <3>1 DEF Wild
    <3> QED BY <1>0, <3>1, <3>2, <3>6, <3>7, QueueKept
  <2> QED BY <2>1, <2>2
<1>14. ASSUME NEW t \in Threads, Fill(t) PROVE QueueInv'
  BY <1>2, <1>14, FillKeeps
<1>15. ASSUME NEW t \in Threads, BeginPost(t) PROVE QueueInv'
  BY <1>15, BeginPostKeeps
<1>16. CASE UNCHANGED vars
  BY <1>1, <1>16 DEF vars, heap
<1> QED
  BY <1>4, <1>5, <1>6, <1>7, <1>8, <1>9, <1>10, <1>11, <1>12, <1>13, <1>14, <1>15, <1>16
     DEF Next, Step

(* What the client was given is one holder: no event reaches it twice, for *)
(* any number of threads, events, cells and nested callbacks.              *)
THEOREM PostedOnceAlways == Spec => []PostedOnce
<1>1. QueueInv => PostedOnce
  <2> SUFFICES ASSUME QueueInv, NEW i \in DOMAIN posted, NEW j \in DOMAIN posted,
                      posted[i] = posted[j], posted[i] # Blank
               PROVE  i = j
    BY DEF PostedOnce
  <2>1. i \in 1 .. Len(posted) /\ j \in 1 .. Len(posted) /\ posted[i] \in Events
    BY DEF QueueInv, PostedOK
  <2>2. /\ <<"client", NoThread, i>> \in Holders(posted[i])
        /\ <<"client", NoThread, j>> \in Holders(posted[i])
    BY <2>1, HoldersAre
  <2>3. <<"client", NoThread, i>> = <<"client", NoThread, j>>
    BY <2>1, <2>2 DEF QueueInv, OneHolder
  <2> QED BY <2>3
<1> QED BY <1>1, LockInit, LockNext, QueueInit, QueueNext, PTL DEF Spec
=============================================================================
