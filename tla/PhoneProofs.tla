---------------------------- MODULE PhoneProofs ----------------------------
(***************************************************************************)
(* The phone drives the call table by the calls it exports and by nothing  *)
(* else: for any number of lines, sessions and registrations, and however  *)
(* its two threads are interleaved at the library's calls, a behaviour of  *)
(* the phone is one of the call table.  What is proved of the table thus   *)
(* holds under the phone.  The lines a handler names must be lines of the  *)
(* table for that, so that the type of the phone's state comes first.      *)
(***************************************************************************)
EXTENDS Phone, CallTableProofs

(* The library's calls the phone makes are steps of the table.             *)
LEMMA LibraryCalls ==
    /\ \A c \in Lines : Select(c) \/ Answer(c) \/ RejectCall(c) => Next
    /\ Call \/ SelectNone \/ DumpAll \/ Network => Next
  BY DEF Next, Client

LEMMA MarkedType ==
  ASSUME shown \in [Lines -> SUBSET ShownBits],
         NEW c, NEW bits \in SUBSET ShownBits, Shows(c, bits)
  PROVE  shown' \in [Lines -> SUBSET ShownBits]
  BY DEF Shows

LEMMA ThenType ==
  ASSUME DOMAIN todo = Threads, NEW t, NEW ops, Then(t, ops)
  PROVE  DOMAIN todo' = Threads
  BY DEF Then

(* What each action does to the phone's state, but for its history. *)
OwnType ==
    /\ shown \in [Lines -> SUBSET ShownBits]
    /\ index \in Lines /\ current \in Lines /\ last_active \in Lines
    /\ line_id \in Lines \cup {NoLine}
    /\ hold_pressed \in BOOLEAN
    /\ DOMAIN todo = Threads

THEOREM PhoneTypeInit == PhoneInit => PhoneTypeOK
<1>1. 0 \in Lines
  BY NCallsAssumption DEF Lines
<1> QED BY <1>1, Zenon DEF PhoneInit, PhoneTypeOK

LEMMA OwnTypeNext == OwnType /\ [PhoneNext]_phoneVars => OwnType'
<1> SUFFICES ASSUME OwnType, [PhoneNext]_phoneVars PROVE OwnType'
  OBVIOUS
<1> USE DEF OwnType, own, place, kept
<1>1. CASE Serve
  BY <1>1, ThenType DEF Serve
<1>2. CASE HangupKey
  BY <1>2, ThenType DEF HangupKey
<1>3. ASSUME Dial PROVE OwnType'
  <2>1. shown' \in [Lines -> SUBSET ShownBits]
    BY <1>3, MarkedType DEF Dial, ShownBits
  <2> QED BY <1>3, <2>1 DEF Dial
<1>4. ASSUME PickUp PROVE OwnType'
  BY <1>4, ThenType DEF PickUp
<1>5. CASE DialKey
  BY <1>5, <1>3 DEF DialKey
<1>6. CASE TalkKey
  BY <1>6, <1>3, <1>4 DEF TalkKey
<1>7. CASE HoldKey
  BY <1>7 DEF HoldKey
<1>8. CASE PickedUp
  <2>1. shown' \in [Lines -> SUBSET ShownBits]
    BY <1>8, MarkedType DEF PickedUp, ShownBits
  <2> QED BY <1>8, <2>1, ThenType DEF PickedUp, Goes
<1>9. CASE Unhold \/ Mute
  BY <1>9, ThenType DEF Unhold, Mute, Goes, own
<1>10. CASE Quit
  BY <1>10, ThenType DEF Quit, own
<1>11. ASSUME NEW c \in Lines, Chosen(c) PROVE OwnType'
  BY <1>11, ThenType DEF Chosen
<1>12. ASSUME NEW c \in Lines, LineKey(c) \/ Hold(c) PROVE OwnType'
  BY <1>11, <1>12, ThenType DEF LineKey, Hold, own
<1>13. ASSUME NEW t \in Threads, Handlers(t) PROVE OwnType'
  <2>1. CASE OnDisconnected(t)
    BY <2>1, ThenType DEF OnDisconnected, GoesOn, own
  <2>2. CASE OnRejected(t)
    BY <2>2, ThenType DEF OnRejected, GoesOn, Goes, own
  <2>3. ASSUME NEW c \in Lines, OnHanging(t, c) PROVE OwnType'
    BY <2>3, ThenType DEF OnHanging, GoesOn
  <2>4. ASSUME NEW c \in Lines, OnIncoming(t, c) PROVE OwnType'
    <3>1. shown' \in [Lines -> SUBSET ShownBits]
      BY <2>4 DEF OnIncoming, ShownBits
    <3> QED BY <2>4, <3>1, ThenType DEF OnIncoming, Goes
  <2>5. ASSUME NEW c \in Lines, OnAccepted(t, c) PROVE OwnType'
    <3>1. shown' \in [Lines -> SUBSET ShownBits]
      BY <2>5 DEF OnAccepted, ShownBits
    <3> QED BY <2>5, <3>1, ThenType DEF OnAccepted, Goes
  <2>6. ASSUME NEW c \in Lines, OnAnswered(t, c) PROVE OwnType'
    <3>1. shown' \in [Lines -> SUBSET ShownBits]
      BY <2>6, MarkedType DEF OnAnswered, ShownBits
    <3> QED BY <2>6, <3>1, ThenType DEF OnAnswered, Goes
  <2>7. ASSUME NEW c \in Lines, HungUp(t, c) PROVE OwnType'
    BY <2>7, ThenType DEF HungUp, Goes
  <2> QED BY <1>13, <2>1, <2>2, <2>3, <2>4, <2>5, <2>6, <2>7 DEF Handlers
<1>14. CASE UNCHANGED phoneVars
  BY <1>14 DEF phoneVars, own
<1> QED BY <1>1, <1>2, <1>5, <1>6, <1>7, <1>8, <1>9, <1>10, <1>12, <1>13, <1>14
        DEF PhoneNext, User

(* No handler leaves the table's lines or the phone's own states.          *)
THEOREM PhoneTypeNext == PhoneTypeOK /\ [PhoneNext]_phoneVars => PhoneTypeOK'
<1> SUFFICES ASSUME PhoneTypeOK, [PhoneNext]_phoneVars PROVE PhoneTypeOK'
  OBVIOUS
<1>1. OwnType'
  BY OwnTypeNext DEF PhoneTypeOK, OwnType
<1>2. noted' \subseteq Lines /\ dialled' \subseteq {selected_call'}
  <2>1. CASE PhoneNext
    BY <2>1 DEF PhoneNext
  <2>2. CASE UNCHANGED phoneVars
    BY <2>2 DEF phoneVars, vars, lines, PhoneTypeOK
  <2> QED BY <2>1, <2>2
<1> QED BY <1>1, <1>2 DEF OwnType, PhoneTypeOK

(* The phone's index, the line of the last call and the line of the last   *)
(* text stay inside of callinfo[], whatever lines the texts name.          *)
THEOREM PhoneTypeCorrect == PhoneSpec => []PhoneTypeOK
  BY PhoneTypeInit, PhoneTypeNext, PTL DEF PhoneSpec
-----------------------------------------------------------------------------
(* A step of the phone is one call of the library, one event, or none.     *)
THEOREM PhoneStep == PhoneTypeOK /\ [PhoneNext]_phoneVars => [Next]_vars
<1> SUFFICES ASSUME PhoneTypeOK, [PhoneNext]_phoneVars PROVE Next \/ UNCHANGED vars
  BY DEF vars
<1>1. index \in Lines /\ last_active \in Lines
  BY DEF PhoneTypeOK
<1>2. CASE Serve \/ Quit \/ DialKey \/ Mute
  BY <1>2, LibraryCalls DEF Serve, Quit, DialKey, Dial, Mute
<1>3. CASE HangupKey \/ PickedUp \/ Unhold
  BY <1>1, <1>3, LibraryCalls DEF HangupKey, PickedUp, Unhold
<1>4. CASE TalkKey \/ HoldKey
  BY <1>1, <1>4, LibraryCalls DEF TalkKey, PickUp, Dial, HoldKey
<1>5. ASSUME NEW c \in Lines, LineKey(c) \/ Hold(c) PROVE Next
  BY <1>5, LibraryCalls DEF LineKey, Hold, Chosen
<1>6. ASSUME NEW t \in Threads, Handlers(t) PROVE Next \/ UNCHANGED vars
  <2>1. CASE OnDisconnected(t) \/ OnRejected(t)
    BY <1>1, <2>1, LibraryCalls DEF OnDisconnected, OnRejected, TableIdle
  <2>2. ASSUME NEW c \in Lines, OnHanging(t, c) \/ OnAccepted(t, c) PROVE Next \/ UNCHANGED vars
    BY <2>2, LibraryCalls DEF OnHanging, OnAccepted, TableIdle
  <2>3. ASSUME NEW c \in Lines, OnIncoming(t, c) \/ OnAnswered(t, c) \/ HungUp(t, c)
        PROVE  Next \/ UNCHANGED vars
    BY <2>3, LibraryCalls DEF OnIncoming, OnAnswered, HungUp, TableIdle
  <2> QED BY <1>6, <2>1, <2>2, <2>3 DEF Handlers
<1>7. CASE UNCHANGED phoneVars
  BY <1>7 DEF phoneVars
<1> QED BY <1>2, <1>3, <1>4, <1>5, <1>6, <1>7 DEF PhoneNext, User

(* The phone on top of the library is an execution of the library.         *)
THEOREM PhoneUsesTable == PhoneSpec => Spec
<1>1. PhoneInit => Init
  BY DEF PhoneInit
<1> QED BY <1>1, PhoneStep, PhoneTypeCorrect, PTL DEF PhoneSpec, Spec

(* Whatever keys are pressed and however the threads are interleaved, the  *)
(* table the phone drives keeps its lines, its selection and its sessions. *)
THEOREM TableUnderPhone ==
    PhoneSpec => /\ [](TypeOK /\ LineHasCall /\ OneSelected)
                 /\ [](NoSharedSession /\ SessionsOwned)
                 /\ NeverDisplaced /\ PhoneSafety
  BY PhoneUsesTable, TypeCorrect, LineHasCallAlways, OneSelectedAlways,
     NoSharedSessionAlways, SessionsOwnedAlways, NeverDisplacedHolds,
     TableImplementsLines, PTL
-----------------------------------------------------------------------------
(* What a handler has still to do: a line is hung up first, or not at all. *)
Calmly(q)  == \E S : q \in Seq(S) /\ \A op \in S : op.msg # "hungup"
Listed(q)  == \E X : q \in Seq(X)
Orderly(q) == q = <<>> \/ Calmly(Tail(q))
Queues     == DOMAIN todo = Threads /\ \A t \in Threads : Orderly(todo[t])

LEMMA Appended ==
  ASSUME NEW S, NEW q \in Seq(S), NEW e \in S
  PROVE  Append(q, e) \in Seq(S) /\ Append(q, e) # <<>>
<1>1. PICK n \in Nat : n = Len(q)
  OBVIOUS
<1>2. Append(q, e) \in Seq(S) /\ Len(Append(q, e)) = n + 1
  BY <1>1
<1> QED BY <1>2

(* The texts of a step that the phone acts on are texts that it posted.    *)
LEMMA HeedsFacts ==
  ASSUME NEW X, NEW events \in Seq(X)
  PROVE  Heeds(events) \in Seq({e \in X : Heed(e)})
<1> DEFINE V == Seq({e \in X : Heed(e)})
<1>0. PICK n \in Nat : n = Len(events)
  OBVIOUS
<1>1. \A k \in 1 .. n : events[k] \in X
  BY <1>0
<1> DEFINE G == [k \in 1 .. n |-> [v \in V |->
                    IF Heed(events[k]) THEN Append(v, events[k]) ELSE v]]
<1>2. G \in [1 .. n -> [V -> V]]
  <2> SUFFICES ASSUME NEW k \in 1 .. n, NEW v \in V, Heed(events[k])
               PROVE  Append(v, events[k]) \in V
    OBVIOUS
  <2>1. events[k] \in {e \in X : Heed(e)}
    BY <1>1
  <2> QED BY <2>1
<1>3. <<>> \in V
  OBVIOUS
<1>4. PICK f : Runs(f, n, V, <<>>, G)
  <2> HIDE DEF V, G
  <2> QED BY <1>2, <1>3, LoopRuns
<1>5. f \in [0 .. n -> V] /\ f[0] = <<>>
  BY <1>4 DEF Runs
<1>6. ASSUME NEW k \in 1 .. n
      PROVE  f[k] = IF Heed(events[k]) THEN Append(f[k - 1], events[k]) ELSE f[k - 1]
  <2>1. k - 1 \in 0 .. n
    OBVIOUS
  <2>2. f[k] = G[k][f[k - 1]] /\ f[k - 1] \in V
    BY <1>4, <1>5, <2>1 DEF Runs
  <2> QED BY <2>2
<1> HIDE DEF V, G
<1> DEFINE First(g) == [k \in 0 .. Len(events) |->
             IF k = 0 THEN <<>>
             ELSE IF Heed(events[k]) THEN Append(g[k - 1], events[k]) ELSE g[k - 1]]
<1>7. f = First(f)
  <2>1. \A k \in 0 .. n : k # 0 => k \in 1 .. n
    OBVIOUS
  <2> QED BY <1>0, <1>5, <1>6, <2>1
<1> DEFINE c == CHOOSE g : g = First(g)
<1>8. c = First(c)
  BY <1>7
<1>9. Heeds(events) = c[n]
  BY <1>0 DEF Heeds
<1> HIDE DEF c
<1>10. /\ c[0] = <<>>
       /\ \A k \in 1 .. n : c[k] = IF Heed(events[k]) THEN Append(c[k - 1], events[k])
                                   ELSE c[k - 1]
  <2>1. 0 \in 0 .. Len(events) /\ \A k \in 1 .. n : k \in 0 .. Len(events) /\ k # 0
    BY <1>0
  <2> QED BY <1>8, <2>1
<1>11. c[n] \in V
  <2> DEFINE S == {e \in X : Heed(e)}
             W == Seq(S)
  <2>1. ASSUME NEW k \in 1 .. n, c[k - 1] \in W PROVE c[k] \in W
    <3>1. CASE Heed(events[k])
      <4>1. events[k] \in S
        BY <1>1, <3>1
      <4>2. c[k] = Append(c[k - 1], events[k])
        BY <1>10, <3>1
      <4> HIDE DEF S
      <4> QED BY <2>1, <4>1, <4>2, Appended
    <3>2. CASE ~Heed(events[k])
      BY <1>10, <2>1, <3>2
    <3> QED BY <3>1, <3>2
  <2>2. c[0] \in W
    BY <1>10
  <2>3. \A k \in 1 .. n : c[k - 1] \in W => c[k] \in W
    BY <2>1
  <2> HIDE DEF W
  <2>4. \A k \in 0 .. n : c[k] \in W
    BY <2>2, <2>3, LoopKeeps
  <2> QED BY <2>4 DEF W, V
<1> QED BY <1>9, <1>11 DEF V

LEMMA CalmTail ==
  ASSUME NEW q, Calmly(q)
  PROVE  /\ Orderly(q)
         /\ q # <<>> => Head(q).msg # "hungup" /\ Calmly(Tail(q))
<1>1. PICK S : q \in Seq(S) /\ \A op \in S : op.msg # "hungup"
  BY DEF Calmly
<1>2. CASE q = <<>>
  BY <1>2 DEF Orderly
<1>3. CASE q # <<>>
  <2>1. Head(q) \in S /\ Tail(q) \in Seq(S)
    BY <1>1, <1>3
  <2> QED BY <1>1, <2>1 DEF Calmly, Orderly
<1> QED BY <1>2, <1>3

LEMMA CalmFront ==
  ASSUME NEW op, NEW q, Calmly(q)
  PROVE  LET r == <<op>> \o q IN Orderly(r) /\ r # <<>> /\ Head(r) = op
<1>1. PICK S : q \in Seq(S) /\ \A e \in S : e.msg # "hungup"
  BY DEF Calmly
<1> DEFINE r == <<op>> \o q
           V == S \cup {op}
<1>2. q \in Seq(V) /\ <<op>> \in Seq(V) /\ Len(<<op>>) = 1 /\ <<op>>[1] = op
  BY <1>1
<1> HIDE DEF V
<1>3. /\ Len(q) \in Nat /\ r \in Seq(V) /\ Len(r) = 1 + Len(q)
      /\ \A i \in 1 .. 1 + Len(q) : r[i] = IF i <= 1 THEN <<op>>[i] ELSE q[i - 1]
  BY <1>2, ConcatProperties
<1> HIDE DEF r
<1>4. r # <<>> /\ Head(r) = op
  BY <1>2, <1>3
<1>5. Tail(r) = q
  <2>1. /\ Tail(r) \in Seq(V) /\ Len(Tail(r)) = Len(q)
        /\ \A i \in 1 .. Len(q) : Tail(r)[i] = r[i + 1]
    BY <1>3, <1>4
  <2>2. \A i \in 1 .. Len(q) : Tail(r)[i] = q[i]
    BY <1>3, <2>1
  <2> QED BY <1>2, <2>1, <2>2, SeqEqual
<1> QED BY <1>4, <1>5 DEF Orderly, r

(* What is left when a list is all texts: of one step, or none. *)
LEMMA CalmLists ==
    /\ Calmly(<<>>) /\ Orderly(<<>>)
    /\ \A op : Orderly(<<op>>) /\ <<op>> # <<>> /\ Head(<<op>>) = op
    /\ \A op : op.msg # "hungup" => Calmly(<<op>>)
<1>1. ASSUME NEW S, NEW q \in Seq(S), \A op \in S : op.msg # "hungup" PROVE Calmly(q)
  BY <1>1 DEF Calmly
<1>2. Calmly(<<>>)
  <2>1. PICK S : S = {}
    OBVIOUS
  <2>2. <<>> \in Seq(S) /\ \A op \in S : op.msg # "hungup"
    BY <2>1
  <2> QED BY <1>1, <2>2
<1>3. ASSUME NEW op
      PROVE  /\ <<op>> # <<>> /\ Head(<<op>>) = op /\ Tail(<<op>>) = <<>>
             /\ op.msg # "hungup" => Calmly(<<op>>)
  <2>1. <<op>> # <<>> /\ Head(<<op>>) = op /\ Tail(<<op>>) = <<>> /\ <<op>> \in Seq({op})
    OBVIOUS
  <2>2. PICK S : S = {op}
    OBVIOUS
  <2>3. op.msg # "hungup" => \A e \in S : e.msg # "hungup"
    BY <2>2
  <2>4. <<op>> \in Seq(S)
    BY <2>1, <2>2
  <2> QED BY <1>1, <2>1, <2>3, <2>4
<1> QED BY <1>2, <1>3 DEF Calmly, Orderly

LEMMA HeedsCalm ==
  ASSUME NEW events, Listed(events)
  PROVE  Calmly(Heeds(events)) /\ \A c : Calmly(Append(Heeds(events), Left("exit", c)))
<1>0. PICK X : events \in Seq(X)
  BY DEF Listed
<1> DEFINE S == {e \in X : Heed(e)}
<1>1. \A e \in S : e.msg # "hungup"
  BY DEF Heed, Heeded
<1>2. Heeds(events) \in Seq(S)
  BY <1>0, HeedsFacts
<1> HIDE DEF S
<1>3. ASSUME NEW c PROVE Calmly(Append(Heeds(events), Left("exit", c)))
  <2> DEFINE e == Left("exit", c)
             V == S \cup {e}
  <2>1. e.msg # "hungup"
    BY DEF Left
  <2> HIDE DEF e
  <2>2. \A op \in V : op.msg # "hungup"
    BY <1>1, <2>1
  <2>3. Heeds(events) \in Seq(V) /\ e \in V
    BY <1>2
  <2> HIDE DEF V
  <2>4. Append(Heeds(events), e) \in Seq(V)
    BY <2>3, Appended
  <2> QED BY <2>2, <2>4 DEF Calmly, e
<1> QED BY <1>1, <1>2, <1>3 DEF Calmly

(* Whatever an event of the network, or the end of all calls, posts, it is *)
(* a sequence.                                                             *)
LEMMA FewPosts ==
    /\ Listed(<<>>)
    /\ \A a : Listed(<<a>>) /\ Listed(<<a>> \o <<>>)
    /\ \A a, b : Listed(<<a, b>>) /\ Listed(<<a>> \o <<b>>)
    /\ \A a, b, c : Listed(<<a, b, c>>)
<1>1. ASSUME NEW X, NEW a \in X, NEW b \in X, NEW c \in X
      PROVE  /\ <<>> \in Seq(X) /\ <<a>> \in Seq(X) /\ <<a, b>> \in Seq(X)
             /\ <<a, b, c>> \in Seq(X) /\ <<a>> \o <<>> \in Seq(X) /\ <<a>> \o <<b>> \in Seq(X)
  OBVIOUS
<1>2. ASSUME NEW a, NEW b, NEW c
      PROVE  /\ Listed(<<>>) /\ Listed(<<a>>) /\ Listed(<<a, b>>) /\ Listed(<<a, b, c>>)
             /\ Listed(<<a>> \o <<>>) /\ Listed(<<a>> \o <<b>>)
  <2> DEFINE X == {a, b, c}
  <2>1. a \in X /\ b \in X /\ c \in X
    OBVIOUS
  <2> HIDE DEF X
  <2> QED BY <1>1, <2>1 DEF Listed
<1> QED BY <1>2

LEMMA NetworkPosts == Network => Listed(posted')
<1> SUFFICES ASSUME Network PROVE Listed(posted')
  OBVIOUS
<1>1. ASSUME NEW s \in Sessions,
             \/ Offer(s) \/ ConnectRefused(s) \/ Withdraw(s) \/ Stray(s) \/ FinalSpent(s)
             \/ AcceptUnoffered(s) \/ \E c \in Lines : Connect(s, c)
      PROVE  Listed(posted')
  <2>1. \/ posted' = <<>> \/ \E a : posted' = <<a>>
        \/ \E a, b, c : posted' = <<a, b, c>>
    BY <1>1 DEF Offer, ConnectRefused, Withdraw, Stray, FinalSpent, AcceptUnoffered, Connect
  <2> QED BY <2>1, FewPosts
<1>2. ASSUME NEW c \in Lines,
             \/ Told(c, "accepted") \/ Told(c, "Unknown event") \/ TimedOut(c)
             \/ Answered(c) \/ Busy(c) \/ Voice(c) \/ Ringa(c) \/ Transferred(c)
      PROVE  Listed(posted')
  <2>1. ASSUME NEW b, NEW msgs, Progress(c, b, msgs),
               msgs = <<>> \/ \E a : msgs = <<a>>
        PROVE  Listed(posted')
    BY <2>1, FewPosts DEF Progress
  <2>2. CASE Told(c, "accepted") \/ Told(c, "Unknown event") \/ TimedOut(c)
    BY <2>2, FewPosts DEF Told, TimedOut
  <2>3. CASE Answered(c)
    BY <2>1, <2>3 DEF Answered
  <2>4. CASE Busy(c)
    BY <2>1, <2>4 DEF Busy
  <2>5. CASE Voice(c)
    BY <2>1, <2>5 DEF Voice
  <2>6. CASE Ringa(c)
    BY <2>1, <2>6 DEF Ringa
  <2>7. CASE Transferred(c)
    BY <2>1, <2>7 DEF Transferred
  <2> QED BY <1>2, <2>2, <2>3, <2>4, <2>5, <2>6, <2>7
<1>3. ASSUME NEW c \in Lines, NEW msg, Disconnect(c, msg) PROVE Listed(posted')
  BY <1>3, FewPosts DEF Disconnect
<1>4. ASSUME NEW r \in RegIds, NEW reply \in Replies, RegReply(r, reply)
      PROVE  Listed(posted')
  BY <1>4, FewPosts DEF RegReply
<1> QED BY <1>1, <1>2, <1>3, <1>4, Zenon DEF Network

LEMMA DumpAllPosts == DumpAll => Listed(posted')
<1>1. 0 \in Lines
  BY NCallsAssumption DEF Lines
<1>2. DumpedUpTo[NCalls] \in Seq(Events)
  BY <1>1, DumpTellsAll
<1> QED BY <1>2 DEF DumpAll, Listed
-----------------------------------------------------------------------------
(* The marks of a call that rings. *)
Marks(c)   == shown[c] \cap {"INCOMING", "WAITING"} # {}
Hanging(c) == \E t \in Threads : Doing(t, "hungup", c)

(* A line that nobody is about to clear, and whose call rings after the    *)
(* step, has kept its marks, and still nobody is about to clear it.        *)
KeepsMarks ==
    \A c \in Lines : ~ Hanging(c) /\ Rings(c)' =>
        (Marks(c) => Marks(c)') /\ ~ Hanging(c)'

LEMMA Turn ==
  ASSUME Queues, NEW t \in Threads, NEW q, Orderly(q), Then(t, q)
  PROVE  /\ Queues' /\ todo'[t] = q
         /\ \A u \in Threads : u # t => todo'[u] = todo[u]
<1>1. todo'[t] = q /\ DOMAIN todo' = Threads /\ \A u \in Threads : u # t => todo'[u] = todo[u]
  BY DEF Queues, Then
<1>2. ASSUME NEW u \in Threads PROVE Orderly(todo'[u])
  <2>1. todo'[u] = q \/ todo'[u] = todo[u]
    BY <1>1
  <2> QED BY <2>1 DEF Queues
<1> QED BY <1>1, <1>2 DEF Queues, Orderly

LEMMA CalmTurn ==
  ASSUME Queues, NEW t \in Threads, NEW q, Calmly(q), Then(t, q)
  PROVE  Queues' /\ \A c : Hanging(c)' => Hanging(c)
<1>1. Orderly(q) /\ (q # <<>> => Head(q).msg # "hungup")
  BY CalmTail
<1>2. Queues' /\ todo'[t] = q /\ \A u \in Threads : u # t => todo'[u] = todo[u]
  BY <1>1, Turn
<1> QED BY <1>1, <1>2 DEF Hanging, Doing, Idle

LEMMA GoesTurn ==
  ASSUME Queues, NEW t \in Threads, ~ Idle(t), Goes(t)
  PROVE  Queues' /\ \A c : Hanging(c)' => Hanging(c)
<1>1. Calmly(Tail(todo[t]))
  BY DEF Queues, Orderly, Idle
<1> QED BY <1>1, CalmTurn DEF Goes

LEMMA LeftTurn ==
  ASSUME Queues, NEW t \in Threads, NEW op,
         Then(t, <<op>>) \/ (~ Idle(t) /\ GoesOn(t, op))
  PROVE  Queues' /\ \A c : Hanging(c)' => Hanging(c) \/ op.line = c
<1>1. ASSUME NEW q, Orderly(q), Head(q) = op, Then(t, q)
      PROVE  Queues' /\ \A c : Hanging(c)' => Hanging(c) \/ op.line = c
  <2>1. Queues' /\ todo'[t] = q /\ \A u \in Threads : u # t => todo'[u] = todo[u]
    BY <1>1, Turn
  <2> QED BY <1>1, <2>1 DEF Hanging, Doing, Idle
<1>2. CASE Then(t, <<op>>)
  BY <1>1, <1>2, CalmLists
<1>3. CASE ~ Idle(t) /\ GoesOn(t, op)
  <2>1. Calmly(Tail(todo[t]))
    BY <1>3 DEF Queues, Orderly, Idle
  <2> QED BY <1>1, <1>3, <2>1, CalmFront DEF GoesOn
<1> QED BY <1>2, <1>3

LEMMA RejectEnds ==
  ASSUME TypeOK, NEW c \in Lines, RejectCall(c)
  PROVE  ~ Rings(c)'
  BY DEF TypeOK, RejectCall, ClearCall, Rings, CallIn, FREE

(* To select a line whose call rings is to answer it. *)
LEMMA SelectAnswers ==
  ASSUME TypeOK, NEW c \in Lines, Select(c)
  PROVE  ~ Rings(c)'
<1>1. state \in [Lines -> SUBSET StateBits] /\ state' = Selecting(state, c)
  BY DEF TypeOK, Select
<1> QED BY <1>1, SelectingCalls DEF Rings, CallIn

LEMMA KeepsMarksBy ==
  ASSUME \A c \in Lines : Marks(c) /\ ~ Hanging(c) /\ Rings(c)' => Marks(c)',
         \A c \in Lines : Hanging(c)' => Hanging(c) \/ ~ Rings(c)'
  PROVE  KeepsMarks
  BY DEF KeepsMarks

LEMMA UserKeepsMarks ==
  ASSUME TypeOK, PhoneTypeOK, Queues, User
  PROVE  Queues' /\ KeepsMarks
<1>1. /\ index \in Lines /\ current \in Lines /\ "user" \in Threads
      /\ shown \in [Lines -> SUBSET ShownBits]
  BY DEF PhoneTypeOK, Threads
<1>2. ASSUME Queues', \A c : Hanging(c)' => Hanging(c), shown' = shown
      PROVE  Queues' /\ KeepsMarks
  BY <1>2, KeepsMarksBy DEF Marks
<1>3. ASSUME Queues', \A c : Hanging(c)' => Hanging(c),
             NEW bits, Shows(current, bits)
      PROVE  Queues' /\ KeepsMarks
  <2>1. \A c \in Lines : shown[c] \subseteq shown'[c]
    BY <1>1, <1>3 DEF Shows
  <2> QED BY <1>3, <2>1, KeepsMarksBy DEF Marks
<1>4. CASE HangupKey
  <2>1. PICK i \in Lines : i = index
    BY <1>1
  <2> DEFINE op == Left("hungup", i)
  <2>2. op.line = i
    BY DEF Left
  <2> HIDE DEF op
  <2>3. Queues' /\ \A c : Hanging(c)' => Hanging(c) \/ op.line = c
    BY <1>1, <1>4, <2>1, LeftTurn DEF HangupKey, op
  <2>4. ~ Rings(i)' /\ shown' = shown
    BY <1>4, <2>1, RejectEnds DEF HangupKey, own
  <2> QED BY <2>2, <2>3, <2>4, KeepsMarksBy DEF Marks
<1>5. ASSUME Dial PROVE Queues' /\ KeepsMarks
  <2>1. todo' = todo
    BY <1>5 DEF Dial
  <2>2. Queues' /\ \A c : Hanging(c)' => Hanging(c)
    BY <2>1 DEF Queues, Hanging, Doing, Idle
  <2> QED BY <1>3, <1>5, <2>2 DEF Dial
<1>6. ASSUME PickUp PROVE Queues' /\ KeepsMarks
  <2> DEFINE op == Left("answer", NoLine)
  <2>1. op.msg # "hungup"
    BY DEF Left
  <2> HIDE DEF op
  <2>2. Queues' /\ \A c : Hanging(c)' => Hanging(c)
    BY <1>1, <1>6, <2>1, CalmLists, CalmTurn DEF PickUp, op
  <2>3. \A c \in Lines : Marks(c) => Marks(c)'
    BY <1>1, <1>6 DEF PickUp, Marks
  <2> QED BY <2>2, <2>3, KeepsMarksBy
<1>7. CASE DialKey \/ TalkKey
  BY <1>5, <1>6, <1>7 DEF DialKey, TalkKey
<1>8. CASE HoldKey
  <2>1. todo' = todo /\ shown' = shown
    BY <1>8 DEF HoldKey
  <2> QED BY <1>2, <2>1 DEF Queues, Hanging, Doing, Idle
<1>9. CASE PickedUp
  <2>1. Queues' /\ \A c : Hanging(c)' => Hanging(c)
    BY <1>1, <1>9, GoesTurn DEF PickedUp, Doing
  <2> QED BY <1>3, <1>9, <2>1 DEF PickedUp
<1>10. CASE Unhold \/ Mute
  <2>1. Queues' /\ \A c : Hanging(c)' => Hanging(c)
    BY <1>1, <1>10, GoesTurn DEF Unhold, Mute, Doing
  <2> QED BY <1>2, <1>10, <2>1 DEF Unhold, Mute, own
<1>11. ASSUME NEW c, Chosen(c) PROVE Queues' /\ KeepsMarks
  <2> DEFINE op == Left("unhold", NoLine)
  <2>1. op.msg # "hungup"
    BY DEF Left
  <2> HIDE DEF op
  <2>2. Queues' /\ \A d : Hanging(d)' => Hanging(d)
    BY <1>1, <1>11, <2>1, CalmLists, CalmTurn DEF Chosen, op
  <2> QED BY <1>2, <1>11, <2>2 DEF Chosen
<1>12. ASSUME NEW c, LineKey(c) \/ Hold(c) PROVE Queues' /\ KeepsMarks
  <2> DEFINE op == Left("chosen", c)
  <2>1. op.msg # "hungup"
    BY DEF Left
  <2> HIDE DEF op
  <2>2. CASE Then("user", <<op>>) /\ shown' = shown
    <3>1. Queues' /\ \A d : Hanging(d)' => Hanging(d)
      BY <1>1, <2>1, <2>2, CalmLists, CalmTurn
    <3> QED BY <1>2, <2>2, <3>1
  <2> QED BY <1>11, <1>12, <2>2 DEF LineKey, Hold, op
<1>13. CASE Quit
  <2>1. Calmly(Append(Heeds(posted'), Left("exit", NoLine)))
    BY <1>13, DumpAllPosts, HeedsCalm DEF Quit
  <2>2. Queues' /\ \A c : Hanging(c)' => Hanging(c)
    BY <1>1, <1>13, <2>1, CalmTurn DEF Quit
  <2> QED BY <1>2, <1>13, <2>2 DEF Quit, own
<1> QED BY <1>4, <1>7, <1>8, <1>9, <1>10, <1>12, <1>13 DEF User

LEMMA HandlersKeepMarks ==
  ASSUME TypeOK, PhoneTypeOK, Queues, NEW t \in Threads, Handlers(t)
  PROVE  Queues' /\ KeepsMarks
<1>1. /\ index \in Lines /\ current \in Lines /\ last_active \in Lines
      /\ shown \in [Lines -> SUBSET ShownBits]
  BY DEF PhoneTypeOK
(* A handler that hangs up the line c, and will clear its marks. *)
<1>2. ASSUME NEW c \in Lines, ~ Idle(t), RejectCall(c), GoesOn(t, Left("hungup", c)),
             shown' = shown
      PROVE  Queues' /\ KeepsMarks
  <2> DEFINE op == Left("hungup", c)
  <2>1. op.line = c
    BY DEF Left
  <2> HIDE DEF op
  <2>2. Queues' /\ \A d : Hanging(d)' => Hanging(d) \/ op.line = d
    BY <1>2, LeftTurn DEF op
  <2>3. ~ Rings(c)'
    BY <1>2, RejectEnds
  <2> QED BY <1>2, <2>1, <2>2, <2>3, KeepsMarksBy DEF Marks
<1>3. ASSUME ~ Idle(t), Goes(t), \A d \in Lines : shown[d] \subseteq shown'[d]
      PROVE  Queues' /\ KeepsMarks
  <2>1. Queues' /\ \A d : Hanging(d)' => Hanging(d)
    BY <1>3, GoesTurn
  <2> QED BY <1>3, <2>1, KeepsMarksBy DEF Marks
<1>4. CASE OnDisconnected(t)
  BY <1>1, <1>2, <1>4 DEF OnDisconnected, Doing, own
<1>5. CASE OnRejected(t)
  BY <1>1, <1>2, <1>3, <1>5 DEF OnRejected, Doing, own
<1>6. ASSUME NEW c \in Lines, OnHanging(t, c) PROVE Queues' /\ KeepsMarks
  BY <1>2, <1>6 DEF OnHanging, Doing
<1>7. ASSUME NEW c \in Lines, OnIncoming(t, c) PROVE Queues' /\ KeepsMarks
  <2>1. \A d \in Lines : shown[d] \subseteq shown'[d]
    BY <1>1, <1>7 DEF OnIncoming
  <2> QED BY <1>3, <1>7, <2>1 DEF OnIncoming, Doing
<1>8. ASSUME NEW c \in Lines, OnAccepted(t, c) PROVE Queues' /\ KeepsMarks
  <2>1. ~ Idle(t) /\ Goes(t)
    BY <1>8 DEF OnAccepted, Doing
  <2>2. CASE c = index
    <3>1. \A d \in Lines : shown[d] \subseteq shown'[d]
      BY <1>1, <1>8, <2>2 DEF OnAccepted
    <3> QED BY <1>3, <2>1, <3>1
  <2>3. CASE c # index
    <3>1. ~ Rings(c)'
      BY <1>8, <2>3, SelectAnswers DEF OnAccepted
    <3>2. \A d \in Lines : d # c => shown'[d] = shown[d]
      BY <1>1, <1>8, <2>3 DEF OnAccepted
    <3>3. Queues' /\ \A d : Hanging(d)' => Hanging(d)
      BY <2>1, GoesTurn
    <3> QED BY <3>1, <3>2, <3>3, KeepsMarksBy DEF Marks
  <2> QED BY <2>2, <2>3
<1>9. ASSUME NEW c \in Lines, OnAnswered(t, c) PROVE Queues' /\ KeepsMarks
  <2>1. \A d \in Lines : shown[d] \subseteq shown'[d]
    BY <1>1, <1>9 DEF OnAnswered, Shows
  <2> QED BY <1>3, <1>9, <2>1 DEF OnAnswered, Doing
<1>10. ASSUME NEW c \in Lines, HungUp(t, c) PROVE Queues' /\ KeepsMarks
  <2>1. Queues' /\ \A d : Hanging(d)' => Hanging(d)
    BY <1>10, GoesTurn DEF HungUp, Doing
  <2>2. Hanging(c)
    BY <1>10 DEF HungUp, Hanging
  <2>3. \A d \in Lines : d # c /\ Marks(d) => Marks(d)'
    BY <1>1, <1>10 DEF HungUp, Marks
  <2> QED BY <2>1, <2>2, <2>3, KeepsMarksBy
<1> QED BY <1>4, <1>5, <1>6, <1>7, <1>8, <1>9, <1>10 DEF Handlers

LEMMA ServeKeepsMarks ==
  ASSUME Queues, Serve
  PROVE  Queues' /\ KeepsMarks
<1>1. Calmly(Heeds(posted')) /\ "net" \in Threads
  BY NetworkPosts, HeedsCalm DEF Serve, Threads
<1>2. Queues' /\ \A c : Hanging(c)' => Hanging(c)
  BY <1>1, CalmTurn DEF Serve
<1>3. shown' = shown
  BY DEF Serve, own
<1> QED BY <1>2, <1>3, KeepsMarksBy DEF Marks

(* A text that is done with was heeded by its own handler.                 *)
LEMMA ItsHandler ==
  ASSUME Queues, PhoneNext, NEW t \in Threads, NEW c \in Lines, todo'[t] # todo[t]
  PROVE  /\ Doing(t, "Incoming call on line", c) => OnIncoming(t, c)
         /\ Doing(t, "accepted", c) => OnAccepted(t, c)
<1> SUFFICES ASSUME NEW what \in {"Incoming call on line", "accepted"}, Doing(t, what, c)
             PROVE  IF what = "accepted" THEN OnAccepted(t, c) ELSE OnIncoming(t, c)
  OBVIOUS
<1>1. \A u \in Threads : \A q : Then(u, q) => u = t
  BY DEF Then, Queues
<1>2. ~ Idle(t)
  BY DEF Doing
<1>3. CASE Serve
  BY <1>1, <1>2, <1>3 DEF Serve, Threads
<1>4. CASE User
  <2>1. CASE t = "user"
    BY <1>2, <1>4, <2>1
    DEF User, HangupKey, DialKey, TalkKey, HoldKey, PickedUp, Unhold, Mute, Quit, LineKey,
        Hold, Doing
  <2>2. CASE t # "user"
    BY <1>1, <1>4, <2>2
    DEF User, HangupKey, DialKey, TalkKey, PickUp, Dial, HoldKey, PickedUp, Unhold, Mute, Quit,
        LineKey, Hold, Chosen, Goes, Threads
  <2> QED BY <2>1, <2>2
<1>5. ASSUME NEW u \in Threads, Handlers(u)
      PROVE  IF what = "accepted" THEN OnAccepted(t, c) ELSE OnIncoming(t, c)
  <2>1. u = t
    BY <1>1, <1>5
    DEF Handlers, OnDisconnected, OnRejected, OnHanging, OnIncoming, OnAccepted, OnAnswered,
        HungUp, Goes, GoesOn
  <2> QED BY <1>5, <2>1
      DEF Handlers, OnDisconnected, OnRejected, OnHanging, OnIncoming, OnAccepted, OnAnswered,
          HungUp, Doing
<1> QED BY <1>3, <1>4, <1>5 DEF PhoneNext
-----------------------------------------------------------------------------
(* A call that was noted rings, has a mark by which it can be answered,    *)
(* and is not about to be cleared.                                         *)
NotedInv ==
    /\ Queues
    /\ \A c \in noted : c \in Lines /\ Rings(c) /\ Marks(c) /\ ~ Hanging(c)

LEMMA NotedInit == PhoneInit => NotedInv
<1> SUFFICES ASSUME PhoneInit PROVE NotedInv
  OBVIOUS
<1>1. \A t \in Threads : todo[t] = <<>> \/ todo[t] = <<Left("mute", NoLine)>>
  BY DEF PhoneInit
<1>2. \A t \in Threads : Orderly(todo[t])
  BY <1>1, CalmLists
<1> QED BY <1>2 DEF PhoneInit, NotedInv, Queues

LEMMA NotedNext ==
  TypeOK /\ PhoneTypeOK /\ NotedInv /\ [PhoneNext]_phoneVars => NotedInv'
<1> SUFFICES ASSUME TypeOK, PhoneTypeOK, NotedInv, [PhoneNext]_phoneVars PROVE NotedInv'
  OBVIOUS
<1>1. CASE UNCHANGED phoneVars
  BY <1>1 DEF phoneVars, vars, lines, own, place, kept, NotedInv, Queues, Rings, CallIn,
              Marks, Hanging, Doing, Idle
<1>2. CASE PhoneNext
  <2>1. Queues' /\ KeepsMarks
    BY <1>2, ServeKeepsMarks, UserKeepsMarks, HandlersKeepMarks DEF PhoneNext, NotedInv
  <2>2. ASSUME NEW c \in noted'
        PROVE  c \in Lines /\ Rings(c)' /\ Marks(c)' /\ ~ Hanging(c)'
    <3>1. c \in Lines /\ Rings(c)' /\ (c \in noted \/ Marked(c))
      BY <1>2, <2>2 DEF PhoneNext
    <3>2. CASE c \in noted
      BY <2>1, <3>1, <3>2 DEF NotedInv, KeepsMarks
    <3>3. CASE Marked(c)
      <4>1. ~ Hanging(c) /\ (c = current \/ Talking)
        BY <3>3 DEF Marked, Hanging
      <4>2. \E t \in Threads : OnIncoming(t, c)
        BY <1>2, <3>1, <3>3, ItsHandler DEF Marked, NotedInv
      <4>3. Marks(c)'
        BY <3>1, <4>1, <4>2 DEF OnIncoming, Marks
      <4> QED BY <2>1, <3>1, <4>1, <4>3 DEF KeepsMarks
    <3> QED BY <3>1, <3>2, <3>3
  <2> QED BY <2>1, <2>2 DEF NotedInv
<1> QED BY <1>1, <1>2

(* A call whose ringing was marked can be answered by the talk key for as  *)
(* long as it rings, on any number of lines, however the two threads       *)
(* interleave at the library's calls, and whatever becomes of other calls. *)
THEOREM StaysAnswerableAlways == PhoneSpec => []StaysAnswerable
<1>1. NotedInv => StaysAnswerable
  BY DEF NotedInv, StaysAnswerable, Marks
<1> QED
  BY <1>1, NotedInit, NotedNext, PhoneTypeCorrect, TableUnderPhone, PTL DEF PhoneSpec
-----------------------------------------------------------------------------
(* The line that is selected is the one shown; in the window in which a    *)
(* key has moved index and current still leads to the line before, none.   *)
InWindow == \E c \in Lines : Doing("user", "chosen", c)
HeardInv ==
    /\ HeardIsShown
    /\ index # current => selected_call = NoLine /\ InWindow

(* What a step must leave alone while the window is open. *)
Undisturbed == InWindow => todo'["user"] = todo["user"]

LEMMA NotALine == NoLine \notin Lines
  BY DEF NoLine, Lines

LEMMA HeardSame ==
  ASSUME PhoneTypeOK, HeardInv, PhoneNext, Undisturbed, ~ Accepts(selected_call),
         selected_call' = selected_call, index' = index, current' = current
  PROVE  HeardInv'
<1>1. selected_call \in Lines /\ selected_call \in dialled => selected_call \in dialled'
  BY DEF PhoneNext
<1>2. HeardIsShown'
  BY <1>1 DEF HeardInv, HeardIsShown
<1>3. index # current => InWindow'
  BY DEF HeardInv, Undisturbed, InWindow, Doing, Idle
<1> QED BY <1>2, <1>3 DEF HeardInv

LEMMA HeardNone ==
  ASSUME HeardInv, selected_call' = NoLine,
         \/ index' = current' \/ InWindow'
         \/ index' = index /\ current' = current /\ Undisturbed
  PROVE  HeardInv'
<1>1. HeardIsShown'
  BY NotALine DEF HeardIsShown
<1>2. index' # current' => InWindow'
  BY DEF HeardInv, Undisturbed, InWindow, Doing, Idle
<1> QED BY <1>1, <1>2 DEF HeardInv

LEMMA HeardOn ==
  ASSUME selected_call' = index', index' = current'
  PROVE  HeardInv'
  BY DEF HeardInv, HeardIsShown

(* Only the client's own calls select a line. *)
LEMMA TableSelects ==
    /\ Network \/ DumpAll => selected_call' = selected_call
    /\ \A c \in Lines : RejectCall(c) \/ Answer(c) => selected_call' = selected_call
    /\ \A c \in Lines : Select(c) => selected_call' = c
    /\ SelectNone => selected_call' = NoLine
    /\ TableIdle => selected_call' = selected_call
<1>1. Network => selected_call' = selected_call
  BY DEF Network, Offer, ConnectRefused, Withdraw, Stray, FinalSpent, AcceptUnoffered, Connect,
         Disconnect, Told, TimedOut, Answered, Busy, Voice, Ringa, Transferred, Progress,
         RegReply, lines
<1>2. DumpAll => selected_call' = selected_call
  BY DEF DumpAll
<1> QED BY <1>1, <1>2 DEF RejectCall, Answer, Select, SelectNone, TableIdle, vars, lines

(* A call that is placed is on the line that is selected for it. *)
LEMMA DialHeard ==
  ASSUME TypeOK, LineHasCall, PhoneTypeOK, HeardInv, PhoneNext, Dial, Idle("user")
  PROVE  HeardInv'
<1>1. /\ index' = index /\ current' = current /\ todo' = todo
      /\ index = current
  BY DEF Dial, HeardInv, InWindow, Doing, place
<1>2. ASSUME NEW why, CallRefused(why) PROVE HeardInv'
  <2>1. selected_call' = selected_call
    BY <1>2 DEF CallRefused, lines
  <2> QED BY <1>1, <2>1, HeardSame DEF Undisturbed, Accepts
<1>3. ASSUME NEW c \in Lines, NEW s \in Spare, PlaceCall(c, s) PROVE HeardInv'
  <2>1. session[c] = NoSession
    <3>1. IF WantsAppearance THEN IsFirstFree(c) ELSE c = selected_call
      BY <1>3 DEF PlaceCall
    <3>2. "ACTIVE" \notin state[c]
      BY <3>1, PlacedOnIdle
    <3> QED BY <3>2 DEF LineHasCall
  <2>2. session' = [session EXCEPT ![c] = s] /\ s \in Sessions /\ selected_call' = c
    BY <1>3 DEF PlaceCall, Spare
  <2>3. session'[c] # session[c]
    BY <2>1, <2>2, NoSessionAssumption DEF TypeOK
  <2>4. "OUTGOING" \in state'[c]
    <3> DEFINE st == [state EXCEPT ![c] = {"ACTIVE", "OUTGOING"}]
    <3>1. st \in [Lines -> SUBSET StateBits] /\ "OUTGOING" \in st[c]
      BY DEF TypeOK, StateBits
    <3>2. state' = Selecting(st, c)
      BY <1>3 DEF PlaceCall
    <3> HIDE DEF st
    <3> QED BY <3>1, <3>2, SelectingCalls
  <2>5. selected_call' \in dialled'
    BY <2>2, <2>3, <2>4 DEF PhoneNext, Placed
  <2> QED BY <1>1, <2>5 DEF HeardInv, HeardIsShown
<1> QED BY <1>2, <1>3 DEF Dial, Call

LEMMA UserHeard ==
  ASSUME TypeOK, LineHasCall, PhoneTypeOK, HeardInv, PhoneNext, User
  PROVE  HeardInv'
<1>1. /\ index \in Lines /\ "user" \in Threads /\ DOMAIN todo = Threads
  BY DEF PhoneTypeOK, Threads
<1>2. InWindow => ~ Idle("user") /\ Head(todo["user"]).msg = "chosen"
  BY DEF InWindow, Doing
<1>3. ASSUME ~ InWindow, index' = index, current' = current, selected_call' = selected_call,
             ~ Accepts(selected_call)
      PROVE  HeardInv'
  BY <1>3, HeardSame DEF Undisturbed
<1>4. ASSUME NEW q, Then("user", q), Idle("user") \/ Head(todo["user"]).msg # "accepted"
      PROVE  ~ Accepts(selected_call)
  BY <1>1, <1>4 DEF Then, Accepts, Doing, Threads
<1>5. CASE HangupKey
  <2>1. ~ InWindow /\ index' = index /\ current' = current /\ selected_call' = selected_call
    BY <1>1, <1>2, <1>5, TableSelects DEF HangupKey, own, place
  <2> QED BY <1>3, <1>4, <1>5, <2>1 DEF HangupKey
<1>6. ASSUME PickUp, Idle("user") PROVE HeardInv'
  <2>1. selected_call' = index /\ index' = index /\ current' = current /\ index = current
    BY <1>1, <1>2, <1>6, TableSelects DEF PickUp, place, HeardInv
  <2> QED BY <2>1, HeardOn
<1>7. CASE DialKey \/ TalkKey
  BY <1>6, <1>7, DialHeard DEF DialKey, TalkKey
<1>8. CASE PickedUp
  <2>1. ~ InWindow /\ index' = index /\ current' = current /\ selected_call' = selected_call
    BY <1>1, <1>2, <1>8, TableSelects DEF PickedUp, Doing, place
  <2> QED BY <1>3, <1>4, <1>8, <2>1 DEF PickedUp, Doing, Goes
<1>9. CASE HoldKey
  <2>1. index' = index /\ current' = current /\ index = current
    BY <1>2, <1>9 DEF HoldKey, place, HeardInv
  <2>2. selected_call' = index \/ selected_call' = NoLine
    BY <1>1, <1>9, TableSelects DEF HoldKey
  <2> QED BY <2>1, <2>2, HeardOn, HeardNone
<1>10. ASSUME NEW c \in Lines, Chosen(c) PROVE HeardInv'
  <2>1. index' = c /\ current' = c /\ (selected_call' = c \/ selected_call' = NoLine)
    BY <1>10, TableSelects DEF Chosen
  <2> QED BY <2>1, HeardOn, HeardNone
<1>11. ASSUME NEW c \in Lines, SelectNone, Then("user", <<Left("chosen", c)>>)
       PROVE  HeardInv'
  <2> DEFINE op == Left("chosen", c)
  <2>1. op.msg = "chosen" /\ op.line = c
    BY DEF Left
  <2> HIDE DEF op
  <2>2. todo'["user"] = <<op>>
    BY <1>1, <1>11 DEF Then, op
  <2>3. InWindow'
    BY <2>1, <2>2, CalmLists DEF InWindow, Doing, Idle
  <2> QED BY <1>11, <2>3, TableSelects, HeardNone
<1>12. ASSUME NEW c \in Lines, LineKey(c) \/ Hold(c) PROVE HeardInv'
  BY <1>10, <1>11, <1>12 DEF LineKey, Hold
<1>13. CASE Unhold
  <2>1. selected_call' = index /\ index' = index /\ current' = current /\ index = current
    BY <1>1, <1>2, <1>13, TableSelects DEF Unhold, Doing, own, place, HeardInv
  <2> QED BY <2>1, HeardOn
<1>14. CASE Mute
  <2>1. selected_call' = NoLine /\ index' = current'
    BY <1>2, <1>14, TableSelects DEF Mute, Doing, own, place, HeardInv
  <2> QED BY <2>1, HeardNone
<1>15. CASE Quit
  <2>1. ~ InWindow /\ index' = index /\ current' = current /\ selected_call' = selected_call
    BY <1>2, <1>15, TableSelects DEF Quit, own, place
  <2> QED BY <1>3, <1>4, <1>15, <2>1 DEF Quit
<1> QED BY <1>5, <1>7, <1>8, <1>9, <1>12, <1>13, <1>14, <1>15 DEF User

LEMMA HandlersHeard ==
  ASSUME PhoneTypeOK, HeardInv, PhoneNext, NEW t \in Threads, Handlers(t)
  PROVE  HeardInv'
<1>1. /\ index \in Lines /\ last_active \in Lines /\ DOMAIN todo = Threads
  BY DEF PhoneTypeOK
<1>2. ASSUME NEW what, NEW d, Doing(t, what, d), what # "chosen", NEW q, Then(t, q)
      PROVE  /\ Undisturbed
             /\ \A c : Accepts(c) => what = "accepted" /\ c = d
  <2>1. \A u \in Threads : u # t => todo'[u] = todo[u]
    BY <1>1, <1>2 DEF Then
  <2>2. InWindow => t # "user"
    BY <1>2 DEF InWindow, Doing
  <2> QED BY <1>2, <2>1, <2>2 DEF Undisturbed, Accepts, Doing, Threads
<1>3. ASSUME NEW what, NEW d, Doing(t, what, d), what \notin {"chosen", "accepted"},
             NEW q, Then(t, q),
             selected_call' = selected_call, index' = index, current' = current
      PROVE  HeardInv'
  BY <1>2, <1>3, HeardSame
<1>4. CASE OnDisconnected(t)
  BY <1>1, <1>3, <1>4, TableSelects DEF OnDisconnected, GoesOn, own, place
<1>5. CASE OnRejected(t)
  BY <1>1, <1>3, <1>5, TableSelects DEF OnRejected, GoesOn, Goes, own, place
<1>6. ASSUME NEW c \in Lines, OnHanging(t, c) PROVE HeardInv'
  BY <1>3, <1>6, TableSelects DEF OnHanging, GoesOn, place
<1>7. ASSUME NEW c \in Lines, OnIncoming(t, c) PROVE HeardInv'
  BY <1>3, <1>7, TableSelects DEF OnIncoming, Goes, place
<1>8. ASSUME NEW c \in Lines, OnAnswered(t, c) PROVE HeardInv'
  BY <1>3, <1>8, TableSelects DEF OnAnswered, Goes, place
<1>9. ASSUME NEW c \in Lines, HungUp(t, c) PROVE HeardInv'
  <2>1. CASE c = index
    <3>1. selected_call' = NoLine /\ index' = index /\ current' = current
      BY <1>9, <2>1, TableSelects DEF HungUp, place
    <3>2. Undisturbed
      BY <1>2, <1>9 DEF HungUp, Goes
    <3> QED BY <3>1, <3>2, HeardNone
  <2>2. CASE c # index
    BY <1>3, <1>9, <2>2, TableSelects DEF HungUp, Goes, place
  <2> QED BY <2>1, <2>2
<1>10. ASSUME NEW c \in Lines, OnAccepted(t, c) PROVE HeardInv'
  <2>1. Undisturbed /\ \A d : Accepts(d) => d = c
    BY <1>2, <1>10 DEF OnAccepted, Goes
  <2>2. CASE c # index
    <3>1. index' = c /\ current' = c /\ selected_call' = c
      BY <1>10, <2>2, TableSelects DEF OnAccepted
    <3> QED BY <3>1, HeardOn
  <2>3. CASE c = index
    <3>1. index' = index /\ current' = current /\ selected_call' = selected_call
      BY <1>10, <2>3, TableSelects DEF OnAccepted
    <3>2. CASE selected_call # c
      BY <2>1, <3>1, <3>2, HeardSame
    <3>3. CASE selected_call = c
      <4>1. index = current
        BY <3>3, NotALine DEF HeardInv
      <4> QED BY <2>3, <3>1, <3>3, <4>1, HeardOn
    <3> QED BY <3>2, <3>3
  <2> QED BY <2>2, <2>3
<1> QED BY <1>4, <1>5, <1>6, <1>7, <1>8, <1>9, <1>10 DEF Handlers

LEMMA HeardNext ==
  TypeOK /\ LineHasCall /\ PhoneTypeOK /\ HeardInv /\ [PhoneNext]_phoneVars => HeardInv'
<1> SUFFICES ASSUME TypeOK, LineHasCall, PhoneTypeOK, HeardInv, [PhoneNext]_phoneVars
             PROVE  HeardInv'
  OBVIOUS
<1>1. CASE UNCHANGED phoneVars
  BY <1>1 DEF phoneVars, vars, lines, own, place, HeardInv, HeardIsShown, InWindow, Doing, Idle
<1>2. CASE PhoneNext /\ Serve
  <2>1. selected_call' = selected_call /\ index' = index /\ current' = current
    BY <1>2, TableSelects DEF Serve, own, place
  <2>2. Undisturbed /\ ~ Accepts(selected_call)
    BY <1>2 DEF Serve, Then, Undisturbed, Accepts, Doing, Threads, PhoneTypeOK
  <2> QED BY <1>2, <2>1, <2>2, HeardSame
<1> QED BY <1>1, <1>2, UserHeard, HandlersHeard DEF PhoneNext

(* What is heard is what is shown, on any number of lines and however the  *)
(* two threads interleave at the library's calls; but for a call that was  *)
(* placed and is not yet accepted.                                         *)
THEOREM HeardIsShownAlways == PhoneSpec => []HeardIsShown
<1>1. PhoneInit => HeardInv
  BY DEF PhoneInit, Init, HeardInv, HeardIsShown
<1>2. HeardInv => HeardIsShown
  BY DEF HeardInv
<1> QED
  BY <1>1, <1>2, HeardNext, PhoneTypeCorrect, TableUnderPhone, PTL DEF PhoneSpec
=============================================================================
