-------------------------- MODULE CallTableProofs --------------------------
(***************************************************************************)
(* Proofs of the safety invariants of CallTable, for any number of lines,  *)
(* sessions and registrations.  TypeOK and LineHasCall are inductive by    *)
(* themselves; the ownership of the sessions needs, besides those, that a  *)
(* registration which is off the list has no session and that the ids not  *)
(* given out yet are off the list (RegIdsFresh).  Then, that every change  *)
(* is announced, and that the table implements LineTable.                  *)
(***************************************************************************)
EXTENDS CallTable, Recursion, SequenceTheorems, TLAPS

USE NCallsAssumption, NoSessionAssumption, MaxRegAssumption DEF Lines, NoLine

-----------------------------------------------------------------------------
(* What iaxc_select_call does to the table: no line gains or loses a call, *)
(* only the line selected changes in more than its SELECTED bit, and the   *)
(* line selected before loses that bit.                                    *)
LEMMA SelectingFacts ==
    ASSUME NEW c \in Lines, NEW st \in [Lines -> SUBSET StateBits]
    PROVE  /\ Selecting(st, c) \in [Lines -> SUBSET StateBits]
           /\ \A d \in Lines :
                /\ "ACTIVE" \in Selecting(st, c)[d] <=> "ACTIVE" \in st[d]
                /\ Selecting(st, c)[d] \cap CallBits \subseteq st[d]
                /\ d # c => Selecting(st, c)[d] \ {"SELECTED"} = st[d] \ {"SELECTED"}
                /\ "SELECTED" \in Selecting(st, c)[d] /\ d # c
                     => "SELECTED" \in st[d] /\ d # selected_call
<1> DEFINE mv == Moved(st, c)
<1>1. /\ mv \in [Lines -> SUBSET StateBits]
      /\ \A d \in Lines :
           /\ "ACTIVE" \in mv[d] <=> "ACTIVE" \in st[d]
           /\ mv[d] \cap CallBits \subseteq st[d]
           /\ mv[d] \ {"SELECTED"} = st[d] \ {"SELECTED"}
           /\ "SELECTED" \in mv[d] /\ d # c => "SELECTED" \in st[d] /\ d # selected_call
  <2>1. CASE c = selected_call
    BY <2>1 DEF Moved
  <2>2. CASE c # selected_call
    BY <2>2 DEF Moved, StateBits, CallBits
  <2> QED BY <2>1, <2>2
<1> HIDE DEF mv
<1>2. CASE "RINGING" \in mv[c] /\ "OUTGOING" \notin mv[c]
  <2>1. Selecting(st, c) = [mv EXCEPT ![c] = (@ \ {"RINGING"}) \cup {"COMPLETE"}]
    BY <1>2 DEF Selecting, Answering, mv
  <2> QED BY <1>1, <2>1 DEF StateBits, CallBits
<1>3. CASE ~("RINGING" \in mv[c] /\ "OUTGOING" \notin mv[c])
  <2>1. Selecting(st, c) = mv
    BY <1>3 DEF Selecting, mv
  <2> QED BY <1>1, <2>1
<1> QED BY <1>2, <1>3
-----------------------------------------------------------------------------
(* How each action may change the sessions' lives: libiax2 destroys a      *)
(* session, or keeps it for the frame it could not send.                   *)
LEMMA HangUpFacts ==
    ASSUME TypeOK, NEW s \in Sessions \cup {NoSession}, HangUp(s)
    PROVE  /\ life' \in [Sessions -> LifeStates]
           /\ finals' \subseteq Sessions
           /\ astray' = astray
           /\ \A t \in Sessions : t # s => life'[t] = life[t]
           /\ s # NoSession => life'[s] \in {"dead", "final"}
BY DEF HangUp, TypeOK, LifeStates

LEMMA DestroyedFacts ==
    ASSUME TypeOK, NEW r \in RegIds
    PROVE  /\ Destroyed(r) \in [Sessions -> LifeStates]
           /\ \A t \in Sessions : t # regsession[r] => Destroyed(r)[t] = life[t]
           /\ regsession[r] # NoSession => Destroyed(r)[regsession[r]] = "dead"
BY DEF Destroyed, TypeOK, LifeStates

(* Where iaxc_call puts its call: on a line that exists and is not ACTIVE. *)
LEMMA PlacedOnIdle ==
    ASSUME TypeOK, NEW c \in Lines,
           IF WantsAppearance THEN IsFirstFree(c) ELSE c = selected_call
    PROVE  "ACTIVE" \notin state[c]
BY DEF WantsAppearance, IsFirstFree, FREE

(* The events that only move the bits of a line that has a session.        *)
LEMMA ProgressFacts ==
    ASSUME TypeOK, NEW c \in Lines,
           Answered(c) \/ Busy(c) \/ Voice(c) \/ Ringa(c) \/ Transferred(c)
    PROVE  /\ session[c] # NoSession
           /\ UNCHANGED <<session, selected_call, registered, regsession,
                          next_registration_id, life, finals, astray>>
           /\ \E b \in SUBSET StateBits :
                /\ state' = [state EXCEPT ![c] = b]
                /\ "ACTIVE" \in b <=> "ACTIVE" \in state[c]
                /\ "SELECTED" \in b <=> "SELECTED" \in state[c]
<1>1. ASSUME NEW b, NEW msgs, Progress(c, b, msgs)
      PROVE  /\ session[c] # NoSession
             /\ state' = [state EXCEPT ![c] = b]
             /\ UNCHANGED <<session, selected_call, registered, regsession,
                            next_registration_id, life, finals, astray>>
  BY <1>1, Zenon DEF Progress, LineOf, regs, sess
<1>2. state[c] \in SUBSET StateBits
  BY DEF TypeOK
<1>3. CASE Answered(c)
  BY <1>1, <1>2, <1>3 DEF Answered, StateBits
<1>4. CASE Busy(c)
  BY <1>1, <1>2, <1>4 DEF Busy, StateBits
<1>5. CASE Voice(c)
  BY <1>1, <1>2, <1>5 DEF Voice, StateBits
<1>6. CASE Ringa(c)
  BY <1>1, <1>2, <1>6 DEF Ringa, StateBits
<1>7. CASE Transferred(c)
  BY <1>1, <1>2, <1>7 DEF Transferred, StateBits
<1> QED BY <1>3, <1>4, <1>5, <1>6, <1>7

(* iaxc_register takes the next id and a spare session, or changes nothing *)
(* but the status line.                                                    *)
LEMMA RegisterCases ==
    ASSUME TypeOK, Register
    PROVE  /\ UNCHANGED <<state, session, selected_call, finals, astray>>
           /\ \/ UNCHANGED <<registered, regsession, next_registration_id, life>>
              \/ \E n \in RegIds, s \in Sessions :
                    /\ n = next_registration_id + 1
                    /\ life[s] = "dead"
                    /\ next_registration_id' = n
                    /\ registered' = registered \cup {n}
                    /\ regsession' = [regsession EXCEPT ![n] = s]
                    /\ life' = [life EXCEPT ![s] = "up"]
<1>1. UNCHANGED <<state, session, selected_call, finals, astray>>
  BY DEF Register, lines, sess
<1>2. CASE UNCHANGED <<regs, life>>
  BY <1>1, <1>2 DEF regs
<1>3. CASE ~ UNCHANGED <<regs, life>>
  <2> DEFINE n == next_registration_id + 1
  <2>1. n \in RegIds
    <3>1. next_registration_id < MaxReg
      BY Zenon DEF Register
    <3> QED BY <3>1 DEF TypeOK, RegIds
  <2>2. PICK s \in Spare : /\ next_registration_id' = n
                           /\ registered' = registered \cup {n}
                           /\ regsession' = [regsession EXCEPT ![n] = s]
                           /\ life' = [life EXCEPT ![s] = "up"]
    BY <1>3, Zenon DEF Register
  <2> QED BY <1>1, <2>1, <2>2 DEF Spare
<1> QED BY <1>2, <1>3

(* The refresh of a registration changes nothing, or its session only.     *)
LEMMA RefreshCases ==
    ASSUME TypeOK, NEW r \in RegIds, Refresh(r)
    PROVE  /\ r \in registered
           /\ UNCHANGED <<state, session, selected_call, registered,
                          next_registration_id, finals, astray>>
           /\ \/ UNCHANGED <<regsession, life>>
              \/ \E s \in Sessions :
                    /\ Destroyed(r)[s] = "dead"
                    /\ regsession' = [regsession EXCEPT ![r] = s]
                    /\ life' = [Destroyed(r) EXCEPT ![s] = "up"]
<1>1. /\ r \in registered
      /\ UNCHANGED <<state, session, selected_call, registered, next_registration_id,
                     finals, astray>>
  BY DEF Refresh, lines
<1>2. CASE UNCHANGED <<regsession, life>>
  BY <1>1, <1>2
<1>3. CASE ~ UNCHANGED <<regsession, life>>
  <2>1. PICK s \in {t \in Sessions : Destroyed(r)[t] = "dead"} :
                /\ regsession' = [regsession EXCEPT ![r] = s]
                /\ life' = [Destroyed(r) EXCEPT ![s] = "up"]
    BY <1>3, Zenon DEF Refresh
  <2> QED BY <1>1, <2>1
<1> QED BY <1>2, <1>3

-----------------------------------------------------------------------------
(* Every variable keeps its type: no call writes outside of calls[], and   *)
(* the selected line is a line or none.                                    *)
THEOREM TypeInit == Init => TypeOK
BY DEF Init, TypeOK, FREE, LifeStates

THEOREM TypeNext == TypeOK /\ [Next]_vars => TypeOK'
<1> SUFFICES ASSUME TypeOK, [Next]_vars PROVE TypeOK'
  OBVIOUS
<1> USE DEF TypeOK
<1>1. ASSUME NEW c \in Lines, NEW s \in Spare, PlaceCall(c, s) PROVE TypeOK'
  <2>1. [state EXCEPT ![c] = {"ACTIVE", "OUTGOING"}] \in [Lines -> SUBSET StateBits]
    BY DEF StateBits
  <2>2. state' \in [Lines -> SUBSET StateBits]
    BY <1>1, <2>1, SelectingFacts DEF PlaceCall
  <2> QED BY <1>1, <2>2 DEF PlaceCall, Spare, regs, LifeStates
<1>2. ASSUME NEW why, CallRefused(why) PROVE TypeOK'
  BY <1>2 DEF CallRefused, lines, regs, sess
<1>3. CASE SelectNone
  BY <1>3 DEF SelectNone, regs, sess
<1>4. CASE SelectOutOfRange
  BY <1>4 DEF SelectOutOfRange, lines, regs, sess
<1>5. CASE DumpCall
  <2>1. life' \in [Sessions -> LifeStates] /\ finals' \subseteq Sessions /\ astray' = astray
    BY <1>5, HangUpFacts DEF DumpCall
  <2> QED BY <1>5, <2>1 DEF DumpCall, ClearCall, FREE, regs
<1>6. CASE DumpAll
  <2>1. life' \in [Sessions -> LifeStates] /\ finals' \subseteq Sessions
    BY <1>6 DEF DumpAll, LifeStates
  <2> QED BY <1>6, <2>1 DEF DumpAll, FREE, regs
<1>7. CASE Register
  <2>1. CASE UNCHANGED <<registered, regsession, next_registration_id, life>>
    BY <1>7, <2>1, RegisterCases
  <2>2. CASE ~ UNCHANGED <<registered, regsession, next_registration_id, life>>
    <3>1. PICK n \in RegIds, s \in Sessions :
                  /\ n = next_registration_id + 1
                  /\ next_registration_id' = n
                  /\ registered' = registered \cup {n}
                  /\ regsession' = [regsession EXCEPT ![n] = s]
                  /\ life' = [life EXCEPT ![s] = "up"]
      BY <1>7, <2>2, RegisterCases
    <3>2. UNCHANGED <<state, session, selected_call, finals, astray>>
      BY <1>7, RegisterCases
    <3> QED BY <3>1, <3>2 DEF RegIds, LifeStates
  <2> QED BY <2>1, <2>2
<1>8. ASSUME NEW c \in Lines, Select(c) PROVE TypeOK'
  BY <1>8, SelectingFacts DEF Select, regs, sess
<1>9. ASSUME NEW c \in Lines, Answer(c) PROVE TypeOK'
  BY <1>9 DEF Answer, Answering, StateBits, regs, sess
<1>10. ASSUME NEW c \in Lines, RejectCall(c) PROVE TypeOK'
  <2>1. life' \in [Sessions -> LifeStates] /\ finals' \subseteq Sessions /\ astray' = astray
    BY <1>10, HangUpFacts DEF RejectCall
  <2> QED BY <1>10, <2>1 DEF RejectCall, ClearCall, FREE, regs
<1>11. ASSUME NEW r \in RegIds, Unregister(r) PROVE TypeOK'
  BY <1>11, DestroyedFacts DEF Unregister, lines
<1>12. ASSUME NEW s \in Sessions,
              Offer(s) \/ Withdraw(s) \/ Stray(s) \/ FinalSpent(s) \/ AcceptUnoffered(s)
       PROVE TypeOK'
  BY <1>12 DEF Offer, Withdraw, Stray, FinalSpent, AcceptUnoffered, Bereaved, lines, regs, sess,
               LifeStates
<1>13. ASSUME NEW s \in Sessions, ConnectRefused(s) PROVE TypeOK'
  BY <1>13, HangUpFacts DEF ConnectRefused, lines, regs
<1>14. ASSUME NEW s \in Sessions, NEW c \in Lines, Connect(s, c) PROVE TypeOK'
  BY <1>14 DEF Connect, regs, StateBits, LifeStates
<1>15. ASSUME NEW c \in Lines, NEW msg, Disconnect(c, msg) PROVE TypeOK'
  BY <1>15 DEF Disconnect, ClearCall, FREE, regs, LifeStates
<1>16. ASSUME NEW c \in Lines, TimedOut(c) PROVE TypeOK'
  <2>1. life' \in [Sessions -> LifeStates] /\ finals' \subseteq Sessions /\ astray' = astray
    BY <1>16, HangUpFacts DEF TimedOut
  <2> QED BY <1>16, <2>1 DEF TimedOut, ClearCall, FREE, regs
<1>17. ASSUME NEW c \in Lines,
              Answered(c) \/ Busy(c) \/ Voice(c) \/ Ringa(c) \/ Transferred(c)
       PROVE TypeOK'
  BY <1>17, ProgressFacts
<1>18. ASSUME NEW c \in Lines, NEW msg, Told(c, msg) PROVE TypeOK'
  BY <1>18 DEF Told, lines, regs, sess
<1>19. ASSUME NEW r \in RegIds, NEW reply \in Replies, RegReply(r, reply) PROVE TypeOK'
  BY <1>19, DestroyedFacts DEF RegReply, lines
<1>20. ASSUME NEW r \in RegIds, Refresh(r) PROVE TypeOK'
  BY <1>20, RefreshCases, DestroyedFacts DEF LifeStates
<1>21. CASE UNCHANGED vars
  BY <1>21 DEF vars, lines, regs, sess
<1> HIDE DEF TypeOK
<1> QED
  BY <1>1, <1>2, <1>3, <1>4, <1>5, <1>6, <1>7, <1>8, <1>9, <1>10, <1>11, <1>12, <1>13,
     <1>14, <1>15, <1>16, <1>17, <1>18, <1>19, <1>20, <1>21
     DEF Next, Client, Network, Timers, Call

THEOREM TypeCorrect == Spec => []TypeOK
BY TypeInit, TypeNext, PTL DEF Spec

-----------------------------------------------------------------------------
(* Sessions and their owners.  A step leaves the owners alone, gives a     *)
(* session to a line, takes a line's session away, or touches a            *)
(* registration: the lemmas below say what each does to Owners.            *)
RegIdsFresh ==
    \A r \in RegIds : /\ r > next_registration_id => r \notin registered
                      /\ r \notin registered => regsession[r] = NoSession

Owners == astray = {} /\ TypeOK /\ NoSharedSession /\ SessionsOwned /\ RegIdsFresh

(* libiax2 has destroyed a session under its owner. *)
Astray == astray # {}

OwnedRight(t) == /\ life[t] = "up" => OwnedBySome(t)
                 /\ OwnedBySome(t) => life[t] \in {"up", "final"}

OwnersSame ==
    /\ UNCHANGED <<session, registered, regsession, next_registration_id>>
    /\ astray' = {}
    /\ \A t \in Sessions : \/ life'[t] = life[t]
                           \/ life'[t] = "final"
                           \/ ~OwnedBySome(t) /\ life'[t] # "up"

LineTakes(c, s) ==
    /\ session[c] = NoSession
    /\ life[s] \in {"dead", "offered"}
    /\ astray' = {}
    /\ session' = [session EXCEPT ![c] = s]
    /\ life'[s] = "up"
    /\ \A t \in Sessions : t # s => life'[t] = life[t]
    /\ UNCHANGED <<registered, regsession, next_registration_id>>

LineDrops(c) ==
    /\ session' = [session EXCEPT ![c] = NoSession]
    /\ astray' = {}
    /\ session[c] # NoSession => life'[session[c]] # "up"
    /\ \A t \in Sessions : t # session[c] => life'[t] = life[t]
    /\ UNCHANGED <<registered, regsession, next_registration_id>>

LEMMA KeptBySame ==
    ASSUME Owners, TypeOK', OwnersSame PROVE Owners'
BY DEF Owners, OwnersSame, NoSharedSession, SessionsOwned, OwnedBySome, RegIdsFresh

LEMMA KeptByTaking ==
    ASSUME Owners, TypeOK', NEW c \in Lines, NEW s \in Sessions, LineTakes(c, s)
    PROVE  Owners'
<1> USE DEF Owners, LineTakes, TypeOK
<1>1. RegIdsFresh'
  BY DEF RegIdsFresh
<1>2. /\ \A d \in Lines : session[d] # s
      /\ \A r \in RegIds : regsession[r] # s
  BY DEF SessionsOwned, OwnedBySome, RegIdsFresh
<1>3. NoSharedSession'
  BY <1>2 DEF NoSharedSession
<1>4. SessionsOwned'
  <2> SUFFICES ASSUME NEW t \in Sessions PROVE OwnedRight(t)'
    BY DEF SessionsOwned, OwnedRight
  <2>1. CASE t = s
    BY <2>1 DEF OwnedRight, OwnedBySome
  <2>2. CASE t # s
    BY <2>2 DEF OwnedRight, OwnedBySome, SessionsOwned
  <2> QED BY <2>1, <2>2
<1> QED BY <1>1, <1>3, <1>4

LEMMA KeptByDropping ==
    ASSUME Owners, TypeOK', NEW c \in Lines, LineDrops(c) PROVE Owners'
<1> USE DEF Owners, LineDrops, TypeOK
<1>1. RegIdsFresh'
  BY DEF RegIdsFresh
<1>2. NoSharedSession'
  BY DEF NoSharedSession
<1>3. SessionsOwned'
  <2> SUFFICES ASSUME NEW t \in Sessions PROVE OwnedRight(t)'
    BY DEF SessionsOwned, OwnedRight
  <2>1. CASE t = session[c]
    BY <2>1 DEF OwnedRight, OwnedBySome, NoSharedSession, RegIdsFresh
  <2>2. CASE t # session[c]
    BY <2>2 DEF OwnedRight, OwnedBySome, SessionsOwned
  <2> QED BY <2>1, <2>2
<1> QED BY <1>1, <1>2, <1>3

(* The registrations: a session is given to r, or taken away from it.      *)
RegTakes(r, s, ids, l) ==
    /\ regsession[r] # NoSession => l[regsession[r]] # "up"
    /\ \A t \in Sessions : t # regsession[r] => l[t] = life[t]
    /\ l[s] = "dead"
    /\ astray' = {}
    /\ registered' = ids
    /\ regsession' = [regsession EXCEPT ![r] = s]
    /\ life' = [l EXCEPT ![s] = "up"]
    /\ session' = session

LEMMA KeptByRegTaking ==
    ASSUME Owners, TypeOK', NEW r \in RegIds, NEW s \in Sessions,
           NEW l \in [Sessions -> LifeStates],
           RegTakes(r, s, registered \cup {r}, l),
           \/ r \in registered /\ next_registration_id' = next_registration_id
           \/ r = next_registration_id + 1 /\ next_registration_id' = r
    PROVE  Owners'
<1> USE DEF Owners, RegTakes, TypeOK
<1>1. RegIdsFresh'
  BY DEF RegIdsFresh, RegIds
<1>2. /\ \A c \in Lines : session[c] # s
      /\ \A q \in RegIds : q # r => regsession[q] # s
  <2>1. CASE s = regsession[r]
    BY <2>1 DEF NoSharedSession
  <2>2. CASE s # regsession[r]
    BY <2>2 DEF SessionsOwned, OwnedBySome, RegIdsFresh
  <2> QED BY <2>1, <2>2
<1>3. NoSharedSession'
  BY <1>2 DEF NoSharedSession
<1>4. SessionsOwned'
  <2> SUFFICES ASSUME NEW t \in Sessions PROVE OwnedRight(t)'
    BY DEF SessionsOwned, OwnedRight
  <2>1. CASE t = s
    BY <2>1 DEF OwnedRight, OwnedBySome
  <2>2. CASE t # s /\ t = regsession[r]
    <3>1. life'[t] # "up"
      BY <2>2
    <3>2. /\ \A c \in Lines : session'[c] # t
          /\ \A q \in RegIds : regsession'[q] # t
      BY <2>2 DEF NoSharedSession
    <3> QED BY <3>1, <3>2 DEF OwnedRight, OwnedBySome
  <2>3. CASE t # s /\ t # regsession[r]
    <3>1. life'[t] = life[t]
      BY <2>3
    <3>2. \A q \in RegIds : (q \in registered' /\ regsession'[q] = t)
                            <=> (q \in registered /\ regsession[q] = t)
      BY <2>3
    <3> QED BY <3>1, <3>2 DEF OwnedRight, OwnedBySome, SessionsOwned
  <2> QED BY <2>1, <2>2, <2>3
<1> QED BY <1>1, <1>3, <1>4

LEMMA KeptByRegDropping ==
    ASSUME Owners, TypeOK', astray' = {}, NEW r \in RegIds, NEW ids \in {registered, registered \ {r}},
           registered' = ids,
           regsession' = [regsession EXCEPT ![r] = NoSession],
           life' = Destroyed(r),
           UNCHANGED <<session, next_registration_id>>
    PROVE  Owners'
<1> USE DEF Owners, TypeOK
<1>1. RegIdsFresh'
  BY DEF RegIdsFresh
<1>2. NoSharedSession'
  BY DEF NoSharedSession
<1>3. SessionsOwned'
  <2> SUFFICES ASSUME NEW t \in Sessions PROVE OwnedRight(t)'
    BY DEF SessionsOwned, OwnedRight
  <2>1. CASE t = regsession[r]
    <3>1. life'[t] # "up"
      BY <2>1, DestroyedFacts
    <3>2. /\ \A c \in Lines : session'[c] # t
          /\ \A q \in RegIds : regsession'[q] # t
      BY <2>1 DEF NoSharedSession
    <3> QED BY <3>1, <3>2 DEF OwnedRight, OwnedBySome
  <2>2. CASE t # regsession[r]
    <3>1. life'[t] = life[t]
      BY <2>2, DestroyedFacts
    <3>2. \A q \in RegIds : (q \in registered' /\ regsession'[q] = t)
                            <=> (q \in registered /\ regsession[q] = t)
      BY <2>2
    <3> QED BY <3>1, <3>2 DEF OwnedRight, OwnedBySome, SessionsOwned
  <2> QED BY <2>1, <2>2
<1> QED BY <1>1, <1>2, <1>3

-----------------------------------------------------------------------------
(* A line is ACTIVE exactly when it has a session: for any number of lines *)
(* and sessions, whatever the client and the peers do.                     *)
THEOREM LineHasCallInit == Init => LineHasCall
BY DEF Init, LineHasCall, FREE, CallBits

THEOREM LineHasCallNext == TypeOK /\ LineHasCall /\ [Next]_vars => LineHasCall'
<1> SUFFICES ASSUME TypeOK, LineHasCall, [Next]_vars PROVE LineHasCall'
  OBVIOUS
<1> USE DEF TypeOK, LineHasCall
<1>0. \A c \in Lines : state[c] = FREE => session[c] = NoSession
  BY DEF FREE
<1>1. ASSUME NEW c \in Lines, NEW s \in Spare, PlaceCall(c, s) PROVE LineHasCall'
  <2> DEFINE st == [state EXCEPT ![c] = {"ACTIVE", "OUTGOING"}]
  <2>1. st \in [Lines -> SUBSET StateBits] /\ s \in Sessions
    BY DEF StateBits, Spare
  <2>2. state' = Selecting(st, c) /\ session' = [session EXCEPT ![c] = s]
    BY <1>1 DEF PlaceCall
  <2> HIDE DEF st
  <2>3. ASSUME NEW d \in Lines
        PROVE  /\ "ACTIVE" \in state'[d] <=> "ACTIVE" \in st[d]
               /\ state'[d] \cap CallBits \subseteq st[d]
    BY <2>1, <2>2, SelectingFacts
  <2> QED BY <2>1, <2>2, <2>3 DEF st
<1>2. ASSUME NEW why, CallRefused(why) PROVE LineHasCall'
  BY <1>2 DEF CallRefused, lines
<1>3. CASE SelectNone
  BY <1>3 DEF SelectNone, CallBits
<1>4. CASE SelectOutOfRange
  BY <1>4 DEF SelectOutOfRange, lines
<1>5. CASE DumpCall
  BY <1>5 DEF DumpCall, ClearCall, FREE
<1>6. CASE DumpAll
  BY <1>6, <1>0 DEF DumpAll, FREE
<1>7. CASE Register
  BY <1>7, RegisterCases
<1>8. ASSUME NEW c \in Lines, Select(c) PROVE LineHasCall'
  <2>1. ASSUME NEW d \in Lines
        PROVE  /\ "ACTIVE" \in state'[d] <=> "ACTIVE" \in state[d]
               /\ state'[d] \cap CallBits \subseteq state[d]
    BY <1>8, SelectingFacts DEF Select
  <2> QED BY <1>8, <2>1 DEF Select
<1>9. ASSUME NEW c \in Lines, Answer(c) PROVE LineHasCall'
  BY <1>9 DEF Answer, Answering, CallBits
<1>10. ASSUME NEW c \in Lines, RejectCall(c) PROVE LineHasCall'
  BY <1>10 DEF RejectCall, ClearCall, FREE
<1>11. ASSUME NEW r \in RegIds, Unregister(r) PROVE LineHasCall'
  BY <1>11 DEF Unregister, lines
<1>12. ASSUME NEW s \in Sessions, Offer(s) \/ Withdraw(s) \/ Stray(s) \/ FinalSpent(s)
                 \/ AcceptUnoffered(s)
       PROVE LineHasCall'
  BY <1>12 DEF Offer, Withdraw, Stray, FinalSpent, AcceptUnoffered, lines
<1>13. ASSUME NEW s \in Sessions, ConnectRefused(s) PROVE LineHasCall'
  BY <1>13 DEF ConnectRefused, lines
<1>14. ASSUME NEW s \in Sessions, NEW c \in Lines, Connect(s, c) PROVE LineHasCall'
  BY <1>14 DEF Connect
<1>15. ASSUME NEW c \in Lines, NEW msg, Disconnect(c, msg) PROVE LineHasCall'
  BY <1>15 DEF Disconnect, ClearCall, FREE
<1>16. ASSUME NEW c \in Lines, TimedOut(c) PROVE LineHasCall'
  BY <1>16 DEF TimedOut, ClearCall, FREE
<1>17. ASSUME NEW c \in Lines,
              Answered(c) \/ Busy(c) \/ Voice(c) \/ Ringa(c) \/ Transferred(c)
       PROVE LineHasCall'
  BY <1>17, ProgressFacts
<1>18. ASSUME NEW c \in Lines, NEW msg, Told(c, msg) PROVE LineHasCall'
  BY <1>18 DEF Told, lines
<1>19. ASSUME NEW r \in RegIds, NEW reply \in Replies, RegReply(r, reply)
       PROVE LineHasCall'
  BY <1>19 DEF RegReply, lines
<1>20. ASSUME NEW r \in RegIds, Refresh(r) PROVE LineHasCall'
  BY <1>20, RefreshCases
<1>21. CASE UNCHANGED vars
  BY <1>21 DEF vars, lines
<1> HIDE DEF TypeOK, LineHasCall
<1> QED
  BY <1>1, <1>2, <1>3, <1>4, <1>5, <1>6, <1>7, <1>8, <1>9, <1>10, <1>11, <1>12, <1>13,
     <1>14, <1>15, <1>16, <1>17, <1>18, <1>19, <1>20, <1>21
     DEF Next, Client, Network, Timers, Call

THEOREM LineHasCallAlways == Spec => []LineHasCall
BY LineHasCallInit, LineHasCallNext, TypeCorrect, PTL DEF Spec

-----------------------------------------------------------------------------
(* Every session has one owner at most, and the sessions that are up are   *)
(* those that are owned: none leaks, none is used after it is destroyed.   *)
THEOREM OwnersInit == Init => Owners
BY TypeInit DEF Init, Owners, NoSharedSession, SessionsOwned, OwnedBySome, RegIdsFresh,
                RegIds

THEOREM OwnersNext == Owners /\ LineHasCall /\ [Next]_vars => Owners' \/ Astray'
<1> SUFFICES ASSUME Owners, LineHasCall, [Next]_vars, astray' = {} PROVE Owners'
  BY DEF Astray
<1>a. TypeOK
  BY DEF Owners
<1>b. TypeOK'
  BY <1>a, TypeNext
<1>c. \A c \in Lines : "ACTIVE" \notin state[c] => session[c] = NoSession
  BY DEF LineHasCall
<1> USE <1>a, <1>b
<1>1. ASSUME NEW c \in Lines, NEW s \in Spare, PlaceCall(c, s) PROVE Owners'
  <2>1. session[c] = NoSession
    BY <1>1, <1>c, PlacedOnIdle DEF PlaceCall
  <2>2. LineTakes(c, s)
    BY <1>1, <2>1 DEF PlaceCall, LineTakes, Spare, regs, TypeOK
  <2> QED BY <2>2, KeptByTaking DEF Spare
<1>2. ASSUME NEW why, CallRefused(why) PROVE Owners'
  BY <1>2, KeptBySame DEF CallRefused, OwnersSame, lines, regs, sess
<1>3. CASE SelectNone
  BY <1>3, KeptBySame DEF SelectNone, OwnersSame, regs, sess
<1>4. CASE SelectOutOfRange
  BY <1>4, KeptBySame DEF SelectOutOfRange, OwnersSame, lines, regs, sess
<1>5. CASE DumpCall
  <2>1. selected_call \in Lines /\ session[selected_call] \in Sessions \cup {NoSession}
    BY <1>5 DEF DumpCall, TypeOK
  <2>2. LineDrops(selected_call)
    BY <1>5, <2>1, HangUpFacts DEF DumpCall, ClearCall, LineDrops, regs
  <2> QED BY <2>1, <2>2, KeptByDropping
<1>6. CASE DumpAll
  <2>1. /\ \A c \in Lines : session'[c] = NoSession
        /\ UNCHANGED <<registered, regsession, next_registration_id>>
    BY <1>6, <1>c DEF DumpAll, FREE, regs
  <2>2. /\ RegIdsFresh'
        /\ NoSharedSession'
    BY <2>1 DEF Owners, RegIdsFresh, NoSharedSession
  <2>3. SessionsOwned'
    <3> SUFFICES ASSUME NEW t \in Sessions PROVE OwnedRight(t)'
      BY DEF SessionsOwned, OwnedRight
    <3>1. CASE \E c \in Lines : session[c] = t
      <4>1. PICK c \in Lines : session[c] = t /\ state[c] # FREE
        BY <3>1, <1>c DEF FREE
      <4>2. life'[t] # "up"
        BY <1>6, <4>1 DEF DumpAll
      <4>3. ~ \E r \in registered : regsession[r] = t
        BY <4>1 DEF Owners, NoSharedSession, TypeOK
      <4> QED BY <2>1, <4>2, <4>3 DEF OwnedRight, OwnedBySome
    <3>2. CASE ~ \E c \in Lines : session[c] = t
      <4>1. life'[t] = life[t]
        BY <1>6, <3>2 DEF DumpAll
      <4> QED BY <2>1, <3>2, <4>1 DEF OwnedRight, OwnedBySome, Owners, SessionsOwned
    <3> QED BY <3>1, <3>2
  <2> QED BY <2>2, <2>3 DEF Owners
<1>7. CASE Register
  <2>1. CASE UNCHANGED <<registered, regsession, next_registration_id, life>>
    BY <1>7, <2>1, RegisterCases, KeptBySame DEF OwnersSame
  <2>2. CASE ~ UNCHANGED <<registered, regsession, next_registration_id, life>>
    <3>1. PICK n \in RegIds, s \in Sessions :
                  /\ n = next_registration_id + 1
                  /\ life[s] = "dead"
                  /\ next_registration_id' = n
                  /\ registered' = registered \cup {n}
                  /\ regsession' = [regsession EXCEPT ![n] = s]
                  /\ life' = [life EXCEPT ![s] = "up"]
      BY <1>7, <2>2, RegisterCases
    <3>2. regsession[n] = NoSession
      BY <3>1 DEF Owners, RegIdsFresh, TypeOK
    <3>3. RegTakes(n, s, registered \cup {n}, life)
      BY <1>7, <3>1, <3>2, RegisterCases DEF RegTakes, TypeOK
    <3> QED BY <3>1, <3>3, KeptByRegTaking DEF TypeOK
  <2> QED BY <2>1, <2>2
<1>8. ASSUME NEW c \in Lines, Select(c) \/ Answer(c) PROVE Owners'
  BY <1>8, KeptBySame DEF Select, Answer, OwnersSame, regs, sess
<1>9. ASSUME NEW c \in Lines, RejectCall(c) PROVE Owners'
  <2>1. session[c] \in Sessions \cup {NoSession}
    BY DEF TypeOK
  <2>2. LineDrops(c)
    BY <1>9, <2>1, HangUpFacts DEF RejectCall, ClearCall, LineDrops, regs
  <2> QED BY <2>2, KeptByDropping
<1>10. ASSUME NEW r \in RegIds, Unregister(r) PROVE Owners'
  BY <1>10, KeptByRegDropping DEF Unregister, lines
<1>11. ASSUME NEW s \in Sessions,
              Offer(s) \/ Withdraw(s) \/ Stray(s) \/ FinalSpent(s) \/ AcceptUnoffered(s)
       PROVE Owners'
  <2>1. Unowned(s) => ~OwnedBySome(s)
    BY DEF Unowned, OwnedBySome, Owners, TypeOK
  <2>2. life[s] = "dead" => ~OwnedBySome(s)
    BY DEF Owners, SessionsOwned
  <2>3. OwnersSame
    BY <1>11, <2>1, <2>2
       DEF Offer, Withdraw, Stray, FinalSpent, AcceptUnoffered, Bereaved, OwnersSame, lines,
           regs, sess, TypeOK
  <2> QED BY <2>3, KeptBySame
<1>12. ASSUME NEW s \in Sessions, ConnectRefused(s) PROVE Owners'
  <2>1. ~OwnedBySome(s)
    BY <1>12 DEF ConnectRefused, Unowned, OwnedBySome, Owners, TypeOK
  <2>2. OwnersSame
    BY <1>12, <2>1, HangUpFacts DEF ConnectRefused, OwnersSame, lines, regs
  <2> QED BY <2>2, KeptBySame
<1>13. ASSUME NEW s \in Sessions, NEW c \in Lines, Connect(s, c) PROVE Owners'
  <2>1. session[c] = NoSession
    BY <1>13, <1>c DEF Connect, IsFirstFree, FREE
  <2>2. LineTakes(c, s)
    BY <1>13, <2>1 DEF Connect, LineTakes, regs, TypeOK
  <2> QED BY <2>2, KeptByTaking
<1>14. ASSUME NEW c \in Lines, NEW msg, Disconnect(c, msg) PROVE Owners'
  <2>1. LineDrops(c)
    BY <1>14 DEF Disconnect, ClearCall, LineDrops, regs, TypeOK
  <2> QED BY <2>1, KeptByDropping
<1>15. ASSUME NEW c \in Lines, TimedOut(c) PROVE Owners'
  <2>1. session[c] \in Sessions \cup {NoSession}
    BY DEF TypeOK
  <2>2. LineDrops(c)
    BY <1>15, <2>1, HangUpFacts DEF TimedOut, ClearCall, LineDrops, regs
  <2> QED BY <2>2, KeptByDropping
<1>16. ASSUME NEW c \in Lines,
              Answered(c) \/ Busy(c) \/ Voice(c) \/ Ringa(c) \/ Transferred(c)
       PROVE Owners'
  BY <1>16, ProgressFacts, KeptBySame DEF OwnersSame
<1>17. ASSUME NEW c \in Lines, NEW msg, Told(c, msg) PROVE Owners'
  BY <1>17, KeptBySame DEF Told, OwnersSame, lines, regs, sess
<1>18. ASSUME NEW r \in RegIds, NEW reply \in Replies, RegReply(r, reply) PROVE Owners'
  BY <1>18, KeptByRegDropping DEF RegReply, lines
<1>19. ASSUME NEW r \in RegIds, Refresh(r) PROVE Owners'
  <2>1. CASE UNCHANGED <<regsession, life>>
    BY <1>19, <2>1, RefreshCases, KeptBySame DEF OwnersSame
  <2>2. CASE ~ UNCHANGED <<regsession, life>>
    <3>1. PICK s \in Sessions : /\ Destroyed(r)[s] = "dead"
                                /\ regsession' = [regsession EXCEPT ![r] = s]
                                /\ life' = [Destroyed(r) EXCEPT ![s] = "up"]
      BY <1>19, <2>2, RefreshCases
    <3>2. /\ r \in registered
          /\ registered' = registered \cup {r}
          /\ UNCHANGED <<session, next_registration_id>>
      BY <1>19, RefreshCases
    <3>3. RegTakes(r, s, registered \cup {r}, Destroyed(r))
      BY <3>1, <3>2, DestroyedFacts DEF RegTakes
    <3> QED BY <3>2, <3>3, DestroyedFacts, KeptByRegTaking
  <2> QED BY <2>1, <2>2
<1>20. CASE UNCHANGED vars
  BY <1>20, KeptBySame DEF vars, OwnersSame, lines, regs, sess
<1> QED
  BY <1>1, <1>2, <1>3, <1>4, <1>5, <1>6, <1>7, <1>8, <1>9, <1>10, <1>11, <1>12, <1>13,
     <1>14, <1>15, <1>16, <1>17, <1>18, <1>19, <1>20
     DEF Next, Client, Network, Timers, Call

(* The owners are right until libiax2 destroys a session under its owner:  *)
(* by an ACCEPT of a codec not offered, or by a final frame that outlived  *)
(* the session it was sent for.                                            *)
LEMMA AstrayStays == Astray /\ [Next]_vars => Astray'
<1> SUFFICES ASSUME astray # {}, [Next]_vars PROVE astray' # {}
  BY DEF Astray
<1> QED
  BY DEF Next, Client, Network, Timers, Call, PlaceCall, CallRefused, Select, SelectOutOfRange,
         SelectNone, Answer, RejectCall, DumpCall, DumpAll, Register, Unregister, Offer,
         Connect, ConnectRefused, Withdraw, Stray, FinalSpent, AcceptUnoffered, Disconnect,
         TimedOut, Progress, Told, Answered, Busy, Voice, Ringa, Transferred, RegReply,
         Refresh, HangUp, sess, vars

THEOREM OwnersOrAstray == Spec => [](Owners \/ Astray)
BY OwnersInit, OwnersNext, AstrayStays, LineHasCallAlways, PTL DEF Spec

(* No two owners share a session.                                          *)
THEOREM NoSharedSessionAlways == Spec => []NoSharedSession
<1>1. Owners \/ Astray => NoSharedSession
  BY DEF Owners, Astray, NoSharedSession
<1> QED BY <1>1, OwnersOrAstray, PTL

(* The table and libiax2 agree on which sessions are up.                   *)
THEOREM SessionsOwnedAlways == Spec => []SessionsOwned
<1>1. Owners \/ Astray => SessionsOwned
  BY DEF Owners, Astray, SessionsOwned
<1> QED BY <1>1, OwnersOrAstray, PTL

-----------------------------------------------------------------------------
(* At most one line carries the SELECTED bit, the selected one.            *)
THEOREM OneSelectedInit == Init => OneSelected
BY DEF Init, OneSelected, FREE

THEOREM OneSelectedNext == TypeOK /\ OneSelected /\ [Next]_vars => OneSelected'
<1> SUFFICES ASSUME TypeOK, OneSelected, [Next]_vars PROVE OneSelected'
  OBVIOUS
<1> USE DEF TypeOK, OneSelected
<1>1. ASSUME NEW c \in Lines, NEW s \in Spare, PlaceCall(c, s) PROVE OneSelected'
  <2> DEFINE st == [state EXCEPT ![c] = {"ACTIVE", "OUTGOING"}]
  <2>1. st \in [Lines -> SUBSET StateBits]
    BY DEF StateBits
  <2>2. state' = Selecting(st, c) /\ selected_call' = c
    BY <1>1 DEF PlaceCall
  <2> HIDE DEF st
  <2>3. ASSUME NEW d \in Lines, "SELECTED" \in state'[d], d # c
        PROVE  "SELECTED" \in st[d] /\ d # selected_call
    BY <2>1, <2>2, <2>3, SelectingFacts
  <2> QED BY <2>2, <2>3 DEF st
<1>2. ASSUME NEW why, CallRefused(why) PROVE OneSelected'
  BY <1>2 DEF CallRefused, lines
<1>3. CASE SelectNone
  BY <1>3 DEF SelectNone
<1>4. CASE SelectOutOfRange
  BY <1>4 DEF SelectOutOfRange, lines
<1>5. CASE DumpCall
  BY <1>5 DEF DumpCall, ClearCall, FREE
<1>6. CASE DumpAll
  BY <1>6 DEF DumpAll, FREE
<1>7. CASE Register
  BY <1>7, RegisterCases
<1>8. ASSUME NEW c \in Lines, Select(c) PROVE OneSelected'
  <2>1. ASSUME NEW d \in Lines, "SELECTED" \in state'[d], d # c
        PROVE  "SELECTED" \in state[d] /\ d # selected_call
    BY <1>8, <2>1, SelectingFacts DEF Select
  <2> QED BY <1>8, <2>1 DEF Select
<1>9. ASSUME NEW c \in Lines, Answer(c) PROVE OneSelected'
  BY <1>9 DEF Answer, Answering
<1>10. ASSUME NEW c \in Lines, RejectCall(c) PROVE OneSelected'
  BY <1>10 DEF RejectCall, ClearCall, FREE
<1>11. ASSUME NEW r \in RegIds, Unregister(r) PROVE OneSelected'
  BY <1>11 DEF Unregister, lines
<1>12. ASSUME NEW s \in Sessions, Offer(s) \/ Withdraw(s) \/ Stray(s) \/ FinalSpent(s)
                 \/ AcceptUnoffered(s)
       PROVE OneSelected'
  BY <1>12 DEF Offer, Withdraw, Stray, FinalSpent, AcceptUnoffered, lines
<1>13. ASSUME NEW s \in Sessions, ConnectRefused(s) PROVE OneSelected'
  BY <1>13 DEF ConnectRefused, lines
<1>14. ASSUME NEW s \in Sessions, NEW c \in Lines, Connect(s, c) PROVE OneSelected'
  BY <1>14 DEF Connect
<1>15. ASSUME NEW c \in Lines, NEW msg, Disconnect(c, msg) PROVE OneSelected'
  BY <1>15 DEF Disconnect, ClearCall, FREE
<1>16. ASSUME NEW c \in Lines, TimedOut(c) PROVE OneSelected'
  BY <1>16 DEF TimedOut, ClearCall, FREE
<1>17. ASSUME NEW c \in Lines,
              Answered(c) \/ Busy(c) \/ Voice(c) \/ Ringa(c) \/ Transferred(c)
       PROVE OneSelected'
  BY <1>17, ProgressFacts
<1>18. ASSUME NEW c \in Lines, NEW msg, Told(c, msg) PROVE OneSelected'
  BY <1>18 DEF Told, lines
<1>19. ASSUME NEW r \in RegIds, NEW reply \in Replies, RegReply(r, reply)
       PROVE OneSelected'
  BY <1>19 DEF RegReply, lines
<1>20. ASSUME NEW r \in RegIds, Refresh(r) PROVE OneSelected'
  BY <1>20, RefreshCases
<1>21. CASE UNCHANGED vars
  BY <1>21 DEF vars, lines
<1> HIDE DEF TypeOK, OneSelected
<1> QED
  BY <1>1, <1>2, <1>3, <1>4, <1>5, <1>6, <1>7, <1>8, <1>9, <1>10, <1>11, <1>12, <1>13,
     <1>14, <1>15, <1>16, <1>17, <1>18, <1>19, <1>20, <1>21
     DEF Next, Client, Network, Timers, Call

THEOREM OneSelectedAlways == Spec => []OneSelected
BY OneSelectedInit, OneSelectedNext, TypeCorrect, PTL DEF Spec

-----------------------------------------------------------------------------
(* No step gives a line that has a session another one: the only actions   *)
(* that put a session on a line find it without one.                       *)
Kept == \A c \in Lines :
           session[c] # NoSession => session'[c] \in {session[c], NoSession}

LEMMA KeptStep == TypeOK /\ LineHasCall /\ [Next]_vars => Kept
<1> SUFFICES ASSUME TypeOK, LineHasCall, [Next]_vars PROVE Kept
  OBVIOUS
<1>1. ASSUME NEW c \in Lines, NEW s, "ACTIVE" \notin state[c],
             session' = [session EXCEPT ![c] = s]
      PROVE  Kept
  BY <1>1 DEF Kept, LineHasCall, TypeOK
<1>2. ASSUME NEW c \in Lines, ClearCall(c) PROVE Kept
  BY <1>2 DEF Kept, ClearCall, TypeOK
<1>3. ASSUME session' = session PROVE Kept
  BY <1>3 DEF Kept
<1>4. ASSUME NEW c \in Lines, NEW s \in Spare, PlaceCall(c, s) PROVE Kept
  BY <1>4, <1>1, PlacedOnIdle DEF PlaceCall
<1>5. ASSUME NEW s \in Sessions, NEW c \in Lines, Connect(s, c) PROVE Kept
  BY <1>5, <1>1 DEF Connect, IsFirstFree, FREE
<1>6. CASE DumpCall
  BY <1>6, <1>2 DEF DumpCall, TypeOK
<1>7. CASE DumpAll
  BY <1>7 DEF DumpAll, Kept
<1>8. ASSUME NEW c \in Lines, NEW msg,
             RejectCall(c) \/ Disconnect(c, msg) \/ TimedOut(c)
      PROVE Kept
  BY <1>8, <1>2 DEF RejectCall, Disconnect, TimedOut
<1>9. ASSUME NEW c \in Lines,
             Answered(c) \/ Busy(c) \/ Voice(c) \/ Ringa(c) \/ Transferred(c)
      PROVE Kept
  BY <1>9, <1>3, ProgressFacts
<1>10. ASSUME NEW c \in Lines, NEW msg, Select(c) \/ Answer(c) \/ Told(c, msg) PROVE Kept
  BY <1>10, <1>3 DEF Select, Answer, Told, lines
<1>11. ASSUME NEW why, CallRefused(why) PROVE Kept
  BY <1>11, <1>3 DEF CallRefused, lines
<1>12. CASE SelectNone \/ SelectOutOfRange
  BY <1>12, <1>3 DEF SelectNone, SelectOutOfRange, lines
<1>13. CASE Register
  BY <1>13, <1>3, RegisterCases
<1>14. ASSUME NEW r \in RegIds, NEW reply,
              Unregister(r) \/ RegReply(r, reply) \/ Refresh(r)
       PROVE Kept
  BY <1>14, <1>3, RefreshCases DEF Unregister, RegReply, lines
<1>15. ASSUME NEW s \in Sessions,
              \/ Offer(s) \/ ConnectRefused(s) \/ Withdraw(s) \/ Stray(s)
              \/ FinalSpent(s) \/ AcceptUnoffered(s)
       PROVE Kept
  BY <1>15, <1>3
     DEF Offer, ConnectRefused, Withdraw, Stray, FinalSpent, AcceptUnoffered, lines
<1>16. CASE UNCHANGED vars
  BY <1>16, <1>3 DEF vars, lines
<1> QED
  BY <1>4, <1>5, <1>6, <1>7, <1>8, <1>9, <1>10, <1>11, <1>12, <1>13, <1>14, <1>15, <1>16
     DEF Next, Client, Network, Timers, Call

(* A line's session is never replaced while it has one.                    *)
THEOREM NeverDisplacedHolds == Spec => NeverDisplaced
<1>1. TypeOK /\ LineHasCall /\ [Next]_vars
        => [\A c \in Lines :
               session[c] # NoSession => session'[c] \in {session[c], NoSession}]_vars
  BY KeptStep DEF Kept
<1> QED BY <1>1, TypeCorrect, LineHasCallAlways, PTL DEF Spec, NeverDisplaced

-----------------------------------------------------------------------------
(* The client hears of every change to a line.  All but one of the calls   *)
(* post what they say themselves; iaxc_dump_all_calls posts as it goes     *)
(* through the lines.                                                      *)
Events == {StateEvent(c) : c \in Lines} \cup {Text("Hanging up call", c) : c \in Lines}
Tells(seq, c) == \E i \in DOMAIN seq : seq[i] = StateEvent(c)

LEMMA TellsIn ==
    ASSUME NEW c, NEW a, NEW b, NEW seq,
           \/ seq = <<StateEvent(c)>> \/ seq = <<a, StateEvent(c)>>
           \/ seq = <<StateEvent(c), a>> \/ seq = <<a, StateEvent(c), b>>
    PROVE  Tells(seq, c)
<1> DEFINE e == StateEvent(c)
<1> HIDE DEF e
<1>1. CASE seq = <<e>>
  <2>1. 1 \in DOMAIN seq /\ seq[1] = e
    BY <1>1
  <2> QED BY <2>1 DEF Tells, e
<1>2. CASE seq = <<a, e>>
  <2>1. 2 \in DOMAIN seq /\ seq[2] = e
    BY <1>2
  <2> QED BY <2>1 DEF Tells, e
<1>3. CASE seq = <<e, a>>
  <2>1. 1 \in DOMAIN seq /\ seq[1] = e
    BY <1>3
  <2> QED BY <2>1 DEF Tells, e
<1>4. CASE seq = <<a, e, b>>
  <2>1. 2 \in DOMAIN seq /\ seq[2] = e
    BY <1>4
  <2> QED BY <2>1 DEF Tells, e
<1> QED BY <1>1, <1>2, <1>3, <1>4 DEF e

LEMMA PostsAre ==
    ASSUME NEW c \in Lines
    PROVE  /\ DumpPosts(c) \in Seq(Events)
           /\ state[c] # FREE => Tells(DumpPosts(c), c)
<1> DEFINE t == Text("Hanging up call", c)
           e == StateEvent(c)
<1>1. t \in Events /\ e \in Events
  BY Zenon DEF Events
<1>2. DumpPosts(c) = IF state[c] = FREE THEN <<>> ELSE <<t, e>>
  BY DEF DumpPosts
<1> HIDE DEF t
<1>3. CASE state[c] # FREE
  <2>1. DumpPosts(c) = <<t, e>>
    BY <1>2, <1>3
  <2>2. Tells(DumpPosts(c), c)
    BY <2>1, TellsIn
  <2> HIDE DEF e
  <2> QED BY <1>1, <2>1, <2>2
<1>4. CASE state[c] = FREE
  BY <1>2, <1>4
<1> QED BY <1>3, <1>4

LEMMA TellsAfter ==
    ASSUME NEW S, NEW u \in Seq(S), NEW v \in Seq(S), NEW c
    PROVE  /\ u \o v \in Seq(S)
           /\ Tells(u, c) \/ Tells(v, c) => Tells(u \o v, c)
<1>1. /\ u \o v \in Seq(S) /\ Len(u \o v) = Len(u) + Len(v)
      /\ \A i \in 1 .. Len(u) + Len(v) :
            (u \o v)[i] = IF i <= Len(u) THEN u[i] ELSE v[i - Len(u)]
  BY ConcatProperties
<1>2. Len(u) \in Nat /\ Len(v) \in Nat /\ DOMAIN u = 1 .. Len(u) /\ DOMAIN v = 1 .. Len(v)
      /\ DOMAIN (u \o v) = 1 .. Len(u) + Len(v)
  BY <1>1
<1>3. ASSUME NEW i \in 1 .. Len(u), u[i] = StateEvent(c) PROVE Tells(u \o v, c)
  <2>1. i \in DOMAIN (u \o v) /\ (u \o v)[i] = u[i]
    BY <1>1, <1>2
  <2> QED BY <1>3, <2>1 DEF Tells
<1>4. ASSUME NEW i \in 1 .. Len(v), v[i] = StateEvent(c) PROVE Tells(u \o v, c)
  <2> DEFINE k == Len(u) + i
  <2>1. k \in DOMAIN (u \o v) /\ ~ (k <= Len(u)) /\ k - Len(u) = i
    BY <1>2
  <2>2. (u \o v)[k] = v[i]
    BY <1>1, <1>2, <2>1
  <2> QED BY <1>4, <2>1, <2>2 DEF Tells
<1> QED BY <1>1, <1>2, <1>3, <1>4 DEF Tells

(* iaxc_dump_all_calls, line by line. *)
LEMMA DumpedIs ==
    DumpedUpTo = [n \in 0 .. NCalls |->
                    IF n = 0 THEN <<>> ELSE DumpedUpTo[n - 1] \o DumpPosts(n - 1)]
<1> DEFINE V == Seq(Events)
           G == [k \in 1 .. NCalls |-> [v \in V |-> v \o DumpPosts(k - 1)]]
<1>1. \A k \in 1 .. NCalls : DumpPosts(k - 1) \in V
  <2> SUFFICES ASSUME NEW k \in 1 .. NCalls PROVE DumpPosts(k - 1) \in V
    OBVIOUS
  <2>1. k - 1 \in Lines
    OBVIOUS
  <2> QED BY <2>1, PostsAre
<1>2. G \in [1 .. NCalls -> [V -> V]]
  <2> SUFFICES ASSUME NEW k \in 1 .. NCalls, NEW v \in V PROVE v \o DumpPosts(k - 1) \in V
    OBVIOUS
  <2> QED BY <1>1, TellsAfter
<1>3. <<>> \in V
  OBVIOUS
<1>4. PICK f : Runs(f, NCalls, V, <<>>, G)
  <2> HIDE DEF V, G
  <2> QED BY <1>2, <1>3, LoopRuns
<1>5. f = [n \in 0 .. NCalls |-> IF n = 0 THEN <<>> ELSE f[n - 1] \o DumpPosts(n - 1)]
  <2>1. f \in [0 .. NCalls -> V] /\ f[0] = <<>>
    BY <1>4 DEF Runs
  <2>2. ASSUME NEW n \in 0 .. NCalls, n # 0 PROVE f[n] = f[n - 1] \o DumpPosts(n - 1)
    <3>1. n \in 1 .. NCalls /\ n - 1 \in 0 .. NCalls
      BY <2>2
    <3>2. f[n] = G[n][f[n - 1]]
      BY <1>4, <3>1 DEF Runs
    <3>3. f[n - 1] \in V
      BY <2>1, <3>1
    <3> QED BY <3>1, <3>2, <3>3
  <2> QED BY <2>1, <2>2
<1>6. \E g : g = [n \in 0 .. NCalls |-> IF n = 0 THEN <<>> ELSE g[n - 1] \o DumpPosts(n - 1)]
  BY <1>5
<1> QED BY <1>6 DEF DumpedUpTo

LEMMA DumpTellsAll ==
    ASSUME NEW c \in Lines
    PROVE  /\ DumpedUpTo[NCalls] \in Seq(Events)
           /\ state[c] # FREE => Tells(DumpedUpTo[NCalls], c)
<1> DEFINE S == {n \in Nat : n <= NCalls => /\ DumpedUpTo[n] \in Seq(Events)
                                            /\ c < n /\ state[c] # FREE =>
                                                  Tells(DumpedUpTo[n], c)}
<1>1. 0 \in S
  BY DumpedIs
<1>2. ASSUME NEW n \in Nat, n \in S PROVE n + 1 \in S
  <2> SUFFICES ASSUME n + 1 <= NCalls
               PROVE  /\ DumpedUpTo[n + 1] \in Seq(Events)
                      /\ c < n + 1 /\ state[c] # FREE => Tells(DumpedUpTo[n + 1], c)
    OBVIOUS
  <2>1. n \in Lines /\ n + 1 \in 0 .. NCalls /\ n + 1 # 0 /\ (n + 1) - 1 = n /\ n <= NCalls
    OBVIOUS
  <2>2. DumpedUpTo[n + 1] = DumpedUpTo[n] \o DumpPosts(n)
    BY DumpedIs, <2>1
  <2>3. DumpedUpTo[n] \in Seq(Events) /\ (c < n /\ state[c] # FREE => Tells(DumpedUpTo[n], c))
    BY <1>2, <2>1
  <2>4. DumpPosts(n) \in Seq(Events) /\ (c = n /\ state[c] # FREE => Tells(DumpPosts(n), c))
    BY <2>1, PostsAre
  <2> QED BY <2>2, <2>3, <2>4, TellsAfter
<1> HIDE DEF S
<1>3. NCalls \in S
  BY <1>1, <1>2, AllNumbers
<1> QED BY <1>3 DEF S

(* The step posts the state event of every line it changes. *)
Hears == \A c \in Lines :
            state'[c] \ {"SELECTED"} # state[c] \ {"SELECTED"} => Announced(c)

LEMMA HearsStep == TypeOK /\ [Next]_vars => Hears
<1> SUFFICES ASSUME TypeOK, [Next]_vars PROVE Hears
  OBVIOUS
<1>1. ASSUME state' = state PROVE Hears
  BY <1>1 DEF Hears
<1>2. ASSUME NEW c \in Lines, Announced(c),
             \A d \in Lines : d # c => state'[d] \ {"SELECTED"} = state[d] \ {"SELECTED"}
      PROVE  Hears
  BY <1>2 DEF Hears
<1>3. ASSUME NEW c, NEW a, posted' = <<a, StateEvent(c)>> PROVE Announced(c)
  BY <1>3 DEF Announced
<1>4. ASSUME NEW c \in Lines, posted' = SelectEvents(c) PROVE Announced(c)
  <2>1. CASE SelectEvents(c) = <<StateEvent(c)>>
    BY <1>4, <2>1 DEF Announced
  <2>2. CASE SelectEvents(c) = <<StateEvent(selected_call), StateEvent(c)>>
    BY <1>3, <1>4, <2>2
  <2> QED BY <2>1, <2>2 DEF SelectEvents
<1>5. ASSUME NEW c \in Lines, ClearCall(c)
      PROVE  \A d \in Lines : d # c => state'[d] = state[d]
  BY <1>5 DEF ClearCall, TypeOK
<1>6. ASSUME NEW c \in Lines, NEW s \in Spare, PlaceCall(c, s) PROVE Hears
  <2> DEFINE st == [state EXCEPT ![c] = {"ACTIVE", "OUTGOING"}]
  <2>1. st \in [Lines -> SUBSET StateBits]
    BY DEF TypeOK, StateBits
  <2>2. \A d \in Lines : d # c => st[d] = state[d]
    BY DEF TypeOK
  <2>3. state' = Selecting(st, c) /\ posted' = SelectEvents(c)
    BY <1>6 DEF PlaceCall
  <2> HIDE DEF st
  <2>4. \A d \in Lines : d # c => state'[d] \ {"SELECTED"} = st[d] \ {"SELECTED"}
    BY <2>1, <2>3, SelectingFacts
  <2> QED BY <1>2, <1>4, <2>2, <2>3, <2>4
<1>7. ASSUME NEW c \in Lines, Select(c) PROVE Hears
  <2>1. state \in [Lines -> SUBSET StateBits]
    BY DEF TypeOK
  <2>2. \A d \in Lines : d # c => state'[d] \ {"SELECTED"} = state[d] \ {"SELECTED"}
    BY <1>7, <2>1, SelectingFacts DEF Select
  <2>3. Announced(c)
    BY <1>4, <1>7 DEF Select
  <2> QED BY <1>2, <2>2, <2>3
<1>8. CASE SelectNone
  BY <1>8 DEF SelectNone, Hears
<1>9. ASSUME NEW c \in Lines, Answer(c) PROVE Hears
  <2>1. Announced(c)
    BY <1>9 DEF Answer, Announced
  <2> QED BY <1>2, <1>9, <2>1 DEF Answer, Answering, TypeOK
<1>10. ASSUME NEW c \in Lines, RejectCall(c) PROVE Hears
  <2>1. Announced(c)
    BY <1>10 DEF RejectCall, Announced
  <2> QED BY <1>2, <1>5, <1>10, <2>1 DEF RejectCall
<1>11. CASE DumpCall
  <2>1. selected_call \in Lines
    BY <1>11 DEF DumpCall, TypeOK
  <2>2. Announced(selected_call)
    BY <1>3, <1>11 DEF DumpCall
  <2> QED BY <1>2, <1>5, <1>11, <2>1, <2>2 DEF DumpCall
<1>12. CASE DumpAll
  <2> SUFFICES ASSUME NEW c \in Lines, state'[c] \ {"SELECTED"} # state[c] \ {"SELECTED"}
               PROVE  Announced(c)
    BY DEF Hears
  <2>1. state'[c] = FREE /\ posted' = DumpedUpTo[NCalls]
    BY <1>12 DEF DumpAll
  <2>2. state[c] # FREE
    BY <2>1
  <2> QED BY <2>1, <2>2, DumpTellsAll DEF Tells, Announced
<1>13. ASSUME NEW s \in Sessions, NEW c \in Lines, Connect(s, c) PROVE Hears
  <2>1. posted' = <<Text("Call from", NoLine), StateEvent(c), Text("Incoming call on line", c)>>
        /\ state' = [state EXCEPT ![c] = {"ACTIVE", "RINGING"}]
    BY <1>13 DEF Connect
  <2>2. Announced(c)
    BY <2>1, TellsIn DEF Announced, Tells
  <2> QED BY <1>2, <2>1, <2>2 DEF TypeOK
<1>14. ASSUME NEW c \in Lines, NEW msg, Disconnect(c, msg) PROVE Hears
  <2>1. Announced(c)
    BY <1>3, <1>14 DEF Disconnect
  <2> QED BY <1>2, <1>5, <1>14, <2>1 DEF Disconnect
<1>15. ASSUME NEW c \in Lines, TimedOut(c) PROVE Hears
  <2>1. Announced(c)
    BY <1>3, <1>15 DEF TimedOut
  <2> QED BY <1>2, <1>5, <1>15, <2>1 DEF TimedOut
<1>16. ASSUME NEW c \in Lines, NEW bits, NEW msgs, Progress(c, bits, msgs),
              msgs = <<>> \/ \E t : msgs = <<t>>
       PROVE  Hears
  <2>1. state' = [state EXCEPT ![c] = bits] /\ posted' = <<StateEvent(c)>> \o msgs
    BY <1>16 DEF Progress
  <2>2. Announced(c)
    <3>1. CASE msgs = <<>>
      <4>1. posted' = <<StateEvent(c)>>
        BY <2>1, <3>1
      <4> QED BY <4>1 DEF Announced
    <3>2. ASSUME NEW t, msgs = <<t>> PROVE Announced(c)
      <4> DEFINE S == {StateEvent(c), t}
      <4>1. <<StateEvent(c)>> \in Seq(S) /\ <<t>> \in Seq(S)
        OBVIOUS
      <4> HIDE DEF S
      <4>2. Tells(<<StateEvent(c)>>, c)
        BY TellsIn
      <4>3. Tells(<<StateEvent(c)>> \o <<t>>, c)
        BY <4>1, <4>2, TellsAfter
      <4> QED BY <2>1, <3>2, <4>3 DEF Announced, Tells
    <3> QED BY <1>16, <3>1, <3>2
  <2> QED BY <1>2, <2>1, <2>2 DEF TypeOK
<1>17. ASSUME NEW c \in Lines,
              Answered(c) \/ Busy(c) \/ Voice(c) \/ Ringa(c) \/ Transferred(c)
       PROVE  Hears
  BY <1>16, <1>17, Zenon DEF Answered, Busy, Voice, Ringa, Transferred
<1>18. ASSUME NEW c \in Lines, NEW msg, Told(c, msg) PROVE Hears
  BY <1>18, <1>1 DEF Told, lines
<1>19. ASSUME NEW why, CallRefused(why) PROVE Hears
  BY <1>19, <1>1 DEF CallRefused, lines
<1>20. CASE SelectOutOfRange
  BY <1>20, <1>1 DEF SelectOutOfRange, lines
<1>21. CASE Register
  BY <1>21, <1>1, RegisterCases
<1>22. ASSUME NEW r \in RegIds, NEW reply,
              Unregister(r) \/ RegReply(r, reply) \/ Refresh(r)
       PROVE Hears
  BY <1>22, <1>1, RefreshCases DEF Unregister, RegReply, lines
<1>23. ASSUME NEW s \in Sessions,
              \/ Offer(s) \/ ConnectRefused(s) \/ Withdraw(s) \/ Stray(s)
              \/ FinalSpent(s) \/ AcceptUnoffered(s)
       PROVE Hears
  BY <1>23, <1>1
     DEF Offer, ConnectRefused, Withdraw, Stray, FinalSpent, AcceptUnoffered, lines
<1>24. CASE UNCHANGED vars
  BY <1>24, <1>1 DEF vars, lines
<1> QED
  BY <1>6, <1>7, <1>8, <1>9, <1>10, <1>11, <1>12, <1>13, <1>14, <1>15, <1>17, <1>18, <1>19,
     <1>20, <1>21, <1>22, <1>23, <1>24
     DEF Next, Client, Network, Timers, Call

(* Every change to a line but the silent deselection is announced by the   *)
(* step that makes it, iaxc_dump_all_calls's among them.                   *)
THEOREM NoSilentChangeHolds == Spec => NoSilentChange
<1>1. TypeOK /\ [Next]_vars
        => [\A c \in Lines :
               state'[c] \ {"SELECTED"} # state[c] \ {"SELECTED"} => Announced(c)]_vars
  BY HearsStep DEF Hears
<1> QED BY <1>1, TypeCorrect, PTL DEF Spec, NoSilentChange

-----------------------------------------------------------------------------
(* The call table implements LineTable.  Only three bits of a line matter  *)
(* to the mapping; a step of the table changes them on no line (a          *)
(* stutter), on one line, or, when all calls are hung up, on several.      *)

(* The step leaves the line d as it is in LineTable. *)
SameCall(d) ==
    /\ "ACTIVE" \in state'[d] <=> "ACTIVE" \in state[d]
    /\ "OUTGOING" \in state'[d] <=> "OUTGOING" \in state[d]
    /\ "RINGING" \in state'[d] <=> "RINGING" \in state[d]
SameButFor(c) == \A d \in Lines : d # c => SameCall(d)

LineStep == Phone!LineNext \/ UNCHANGED Phone!lineVars

(* iaxc_select_call keeps every call; the line selected stops ringing if   *)
(* its call came in.                                                       *)
LEMMA SelectingCalls ==
    ASSUME NEW c \in Lines, NEW st \in [Lines -> SUBSET StateBits]
    PROVE  \A d \in Lines :
             /\ "ACTIVE" \in Selecting(st, c)[d] <=> "ACTIVE" \in st[d]
             /\ "OUTGOING" \in Selecting(st, c)[d] <=> "OUTGOING" \in st[d]
             /\ "RINGING" \in Selecting(st, c)[d] <=>
                   "RINGING" \in st[d] /\ (d = c => "OUTGOING" \in st[d])
<1> DEFINE mv == Moved(st, c)
<1>1. /\ mv \in [Lines -> SUBSET StateBits]
      /\ \A d \in Lines : /\ "ACTIVE" \in mv[d] <=> "ACTIVE" \in st[d]
                          /\ "OUTGOING" \in mv[d] <=> "OUTGOING" \in st[d]
                          /\ "RINGING" \in mv[d] <=> "RINGING" \in st[d]
  <2>1. CASE c = selected_call
    BY <2>1 DEF Moved
  <2>2. CASE c # selected_call
    BY <2>2 DEF Moved, StateBits
  <2> QED BY <2>1, <2>2
<1> HIDE DEF mv
<1>2. CASE "RINGING" \in mv[c] /\ "OUTGOING" \notin mv[c]
  <2>1. Selecting(st, c) = [mv EXCEPT ![c] = (@ \ {"RINGING"}) \cup {"COMPLETE"}]
    BY <1>2 DEF Selecting, Answering, mv
  <2> QED BY <1>1, <1>2, <2>1
<1>3. CASE ~("RINGING" \in mv[c] /\ "OUTGOING" \notin mv[c])
  <2>1. Selecting(st, c) = mv
    BY <1>3 DEF Selecting, mv
  <2> QED BY <1>1, <1>3, <2>1
<1> QED BY <1>2, <1>3
(* The events that move a line's bits keep its call and who placed it.     *)
LEMMA ProgressKeepsCall ==
    ASSUME TypeOK, NEW c \in Lines,
           Answered(c) \/ Busy(c) \/ Voice(c) \/ Ringa(c) \/ Transferred(c)
    PROVE  \E b \in SUBSET StateBits :
              /\ state' = [state EXCEPT ![c] = b]
              /\ "ACTIVE" \in b <=> "ACTIVE" \in state[c]
              /\ "OUTGOING" \in b <=> "OUTGOING" \in state[c]
<1>1. ASSUME NEW b, NEW msgs, Progress(c, b, msgs)
      PROVE  state' = [state EXCEPT ![c] = b]
  BY <1>1, Zenon DEF Progress
<1>2. state[c] \in SUBSET StateBits
  BY DEF TypeOK
<1>3. CASE Answered(c)
  BY <1>1, <1>2, <1>3 DEF Answered, StateBits
<1>4. CASE Busy(c)
  BY <1>1, <1>2, <1>4 DEF Busy, StateBits
<1>5. CASE Voice(c)
  BY <1>1, <1>2, <1>5 DEF Voice, StateBits
<1>6. CASE Ringa(c)
  BY <1>1, <1>2, <1>6 DEF Ringa, StateBits
<1>7. CASE Transferred(c)
  <2> DEFINE b == state[c] \cup {"TRANSFER"}
  <2>1. state' = [state EXCEPT ![c] = b]
    BY <1>1, <1>7 DEF Transferred
  <2>2. /\ b \in SUBSET StateBits
        /\ "ACTIVE" \in b <=> "ACTIVE" \in state[c]
        /\ "OUTGOING" \in b <=> "OUTGOING" \in state[c]
    BY <1>2 DEF StateBits
  <2> QED BY <2>1, <2>2
<1> QED BY <1>3, <1>4, <1>5, <1>6, <1>7
-----------------------------------------------------------------------------
(* From the bits of the table to the steps of LineTable.                   *)
LEMMA SameIsStutter ==
    ASSUME \A d \in Lines : SameCall(d), selected_call' = selected_call
    PROVE  LineStep
<1>1. \A d \in Lines : CallOf(d)' = CallOf(d)
  BY DEF SameCall, CallOf
<1>2. UNCHANGED <<[c \in Lines |-> CallOf(c)], {c \in Lines : "RINGING" \in state[c]}>>
  BY <1>1 DEF SameCall
<1> QED BY <1>2 DEF LineStep, Phone!lineVars

LEMMA OneLineChanges ==
    ASSUME NEW c \in Lines, SameButFor(c)
    PROVE  /\ [d \in Lines |-> CallOf(d)]' =
                [[d \in Lines |-> CallOf(d)] EXCEPT ![c] = CallOf(c)']
           /\ {d \in Lines : "RINGING" \in state[d]}' =
                IF "RINGING" \in state'[c]
                  THEN {d \in Lines : "RINGING" \in state[d]} \cup {c}
                  ELSE {d \in Lines : "RINGING" \in state[d]} \ {c}
<1>1. \A d \in Lines : d # c => CallOf(d)' = CallOf(d)
  BY DEF SameButFor, SameCall, CallOf
<1>2. \A d \in Lines : d # c => ("RINGING" \in state'[d] <=> "RINGING" \in state[d])
  BY DEF SameButFor, SameCall
<1> QED BY <1>1, <1>2

LEMMA DialStep ==
    ASSUME NEW c \in Lines, LineHasCall, SameButFor(c), "ACTIVE" \notin state[c],
           {"ACTIVE", "OUTGOING"} \subseteq state'[c], "RINGING" \notin state'[c],
           selected_call' = c
    PROVE  LineStep
<1>1. CallOf(c) = "none" /\ CallOf(c)' = "out"
  BY DEF CallOf
<1>2. "RINGING" \notin state[c]
  BY DEF LineHasCall, CallBits
<1>3. Phone!Dial(c)
  BY <1>1, <1>2, OneLineChanges DEF Phone!Dial
<1> QED BY <1>3 DEF LineStep, Phone!LineNext

LEMMA SelectStep ==
    ASSUME NEW c \in Lines, LineHasCall, SameButFor(c),
           "ACTIVE" \in state'[c] <=> "ACTIVE" \in state[c],
           "OUTGOING" \in state'[c] <=> "OUTGOING" \in state[c],
           "RINGING" \in state'[c] <=> "RINGING" \in state[c] /\ "OUTGOING" \in state[c],
           selected_call' = c
    PROVE  LineStep
<1>1. CallOf(c)' = CallOf(c)
  BY DEF CallOf
<1>2. "RINGING" \in state[c] => "ACTIVE" \in state[c]
  BY DEF LineHasCall, CallBits
<1>3. "RINGING" \in state'[c] <=> "RINGING" \in state[c] /\ CallOf(c) # "in"
  BY <1>2 DEF CallOf
<1>4. Phone!Select(c)
  BY <1>1, <1>3, OneLineChanges DEF Phone!Select
<1> QED BY <1>4 DEF LineStep, Phone!LineNext

LEMMA ArriveStep ==
    ASSUME NEW c \in Lines, SameButFor(c), "ACTIVE" \notin state[c],
           state'[c] = {"ACTIVE", "RINGING"}, selected_call' = selected_call
    PROVE  LineStep
<1>1. CallOf(c) = "none" /\ CallOf(c)' = "in"
  BY DEF CallOf
<1>2. Phone!Arrive(c)
  BY <1>1, OneLineChanges DEF Phone!Arrive
<1> QED BY <1>2 DEF LineStep, Phone!LineNext

LEMMA RingStep ==
    ASSUME NEW c \in Lines, SameButFor(c),
           "ACTIVE" \in state[c],
           "ACTIVE" \in state'[c], "OUTGOING" \in state'[c] <=> "OUTGOING" \in state[c],
           selected_call' = selected_call
    PROVE  LineStep
<1>1. CallOf(c) # "none" /\ CallOf(c)' = CallOf(c)
  BY DEF CallOf
<1>2. Phone!Ring(c)
  BY <1>1, OneLineChanges DEF Phone!Ring
<1> QED BY <1>2 DEF LineStep, Phone!LineNext

LEMMA EndStep ==
    ASSUME NEW over \in SUBSET Lines,
           \A d \in Lines : IF d \in over THEN state'[d] \cap CallBits = {} ELSE SameCall(d),
           selected_call' = selected_call
    PROVE  LineStep
<1>1. \A d \in Lines : CallOf(d)' = IF d \in over THEN "none" ELSE CallOf(d)
  BY DEF CallOf, SameCall, CallBits
<1>2. \A d \in Lines : "RINGING" \in state'[d] <=> "RINGING" \in state[d] /\ d \notin over
  BY DEF SameCall, CallBits
<1>3. Phone!End(over)
  BY <1>1, <1>2 DEF Phone!End
<1> QED BY <1>3 DEF LineStep, Phone!LineNext

LEMMA EndOneStep ==
    ASSUME NEW c \in Lines, SameButFor(c), state'[c] \cap CallBits = {},
           selected_call' = selected_call
    PROVE  LineStep
<1>1. \A d \in Lines : IF d \in {c} THEN state'[d] \cap CallBits = {} ELSE SameCall(d)
  BY DEF SameButFor
<1>2. {c} \in SUBSET Lines
  OBVIOUS
<1> QED BY <1>1, <1>2, EndStep
-----------------------------------------------------------------------------
(* Every step of the call table is a step of LineTable, or a stutter.      *)
THEOREM TableStep == TypeOK /\ LineHasCall /\ [Next]_vars => LineStep
<1> SUFFICES ASSUME TypeOK, LineHasCall, [Next]_vars PROVE LineStep
  OBVIOUS
<1> state \in [Lines -> SUBSET StateBits] /\ selected_call \in Lines \cup {NoLine}
  BY DEF TypeOK
<1>1. ASSUME state' = state, selected_call' = selected_call PROVE LineStep
  BY <1>1, SameIsStutter DEF SameCall
<1>2. ASSUME NEW c \in Lines, ClearCall(c), selected_call' = selected_call PROVE LineStep
  <2>1. SameButFor(c) /\ state'[c] \cap CallBits = {}
    BY <1>2 DEF ClearCall, FREE, SameButFor, SameCall
  <2> QED BY <1>2, <2>1, EndOneStep
<1>3. ASSUME NEW c \in Lines, NEW s \in Spare, PlaceCall(c, s) PROVE LineStep
  <2> DEFINE st == [state EXCEPT ![c] = {"ACTIVE", "OUTGOING"}]
  <2>1. /\ st \in [Lines -> SUBSET StateBits]
        /\ st[c] = {"ACTIVE", "OUTGOING"}
        /\ \A d \in Lines : d # c => st[d] = state[d]
    BY DEF StateBits
  <2>2. state' = Selecting(st, c) /\ selected_call' = c
    BY <1>3 DEF PlaceCall
  <2> HIDE DEF st
  <2>3. /\ SameButFor(c)
        /\ {"ACTIVE", "OUTGOING"} \subseteq state'[c]
        /\ "RINGING" \notin state'[c]
    BY <2>1, <2>2, SelectingCalls DEF SameButFor, SameCall
  <2>4. "ACTIVE" \notin state[c]
    BY <1>3, PlacedOnIdle DEF PlaceCall
  <2> QED BY <2>2, <2>3, <2>4, DialStep
<1>4. ASSUME NEW why, CallRefused(why) PROVE LineStep
  BY <1>4, <1>1 DEF CallRefused, lines
<1>5. CASE SelectNone
  <2>1. \A d \in Lines : SameCall(d)
    BY <1>5 DEF SelectNone, SameCall
  <2>2. selected_call' = NoLine
    BY <1>5 DEF SelectNone
  <2>3. UNCHANGED <<[c \in Lines |-> CallOf(c)], {c \in Lines : "RINGING" \in state[c]}>>
    <3>1. \A d \in Lines : CallOf(d)' = CallOf(d)
      BY <2>1 DEF SameCall, CallOf
    <3> QED BY <2>1, <3>1 DEF SameCall
  <2>4. Phone!Deselect
    BY <2>2, <2>3 DEF Phone!Deselect
  <2> QED BY <2>4 DEF LineStep, Phone!LineNext
<1>6. CASE SelectOutOfRange
  BY <1>6, <1>1 DEF SelectOutOfRange, lines
<1>7. CASE DumpCall
  BY <1>7, <1>2 DEF DumpCall
<1>8. CASE DumpAll
  <2>1. /\ \A d \in Lines : state'[d] \cap CallBits = {}
        /\ selected_call' = selected_call
    BY <1>8 DEF DumpAll, FREE
  <2> QED BY <2>1, EndStep
<1>9. CASE Register
  BY <1>9, <1>1, RegisterCases
<1>10. ASSUME NEW c \in Lines, Select(c) PROVE LineStep
  <2>1. state' = Selecting(state, c) /\ selected_call' = c
    BY <1>10 DEF Select
  <2>2. /\ SameButFor(c)
        /\ "ACTIVE" \in state'[c] <=> "ACTIVE" \in state[c]
        /\ "OUTGOING" \in state'[c] <=> "OUTGOING" \in state[c]
        /\ "RINGING" \in state'[c] <=> "RINGING" \in state[c] /\ "OUTGOING" \in state[c]
    BY <2>1, SelectingCalls DEF SameButFor, SameCall
  <2> QED BY <2>1, <2>2, SelectStep
<1>11. ASSUME NEW c \in Lines, Answer(c) PROVE LineStep
  <2>1. /\ state' = [state EXCEPT ![c] = (@ \ {"RINGING"}) \cup {"COMPLETE"}]
        /\ selected_call' = selected_call
    BY <1>11 DEF Answer, Answering
  <2>2. CASE "ACTIVE" \in state[c]
    BY <2>1, <2>2, RingStep DEF SameButFor, SameCall
  <2>3. CASE "ACTIVE" \notin state[c]
    <3>1. state[c] \cap CallBits = {}
      BY <2>3 DEF LineHasCall
    <3>2. SameButFor(c) /\ state'[c] \cap CallBits = {}
      BY <2>1, <3>1 DEF CallBits, SameButFor, SameCall
    <3> QED BY <2>1, <3>2, EndOneStep
  <2> QED BY <2>2, <2>3
<1>12. ASSUME NEW c \in Lines, NEW msg, RejectCall(c) \/ Disconnect(c, msg) \/ TimedOut(c)
       PROVE LineStep
  BY <1>12, <1>2 DEF RejectCall, Disconnect, TimedOut
<1>13. ASSUME NEW c \in Lines, NEW msg, Told(c, msg) PROVE LineStep
  BY <1>13, <1>1 DEF Told, lines
<1>14. ASSUME NEW c \in Lines,
              Answered(c) \/ Busy(c) \/ Voice(c) \/ Ringa(c) \/ Transferred(c)
       PROVE LineStep
  <2>1. PICK b \in SUBSET StateBits :
                /\ state' = [state EXCEPT ![c] = b]
                /\ "ACTIVE" \in b <=> "ACTIVE" \in state[c]
                /\ "OUTGOING" \in b <=> "OUTGOING" \in state[c]
    BY <1>14, ProgressKeepsCall
  <2>2. session[c] # NoSession /\ selected_call' = selected_call
    BY <1>14, ProgressFacts
  <2> QED BY <2>1, <2>2, RingStep DEF LineHasCall, SameButFor, SameCall
<1>15. ASSUME NEW s \in Sessions, NEW c \in Lines, Connect(s, c) PROVE LineStep
  <2>1. /\ state' = [state EXCEPT ![c] = {"ACTIVE", "RINGING"}]
        /\ selected_call' = selected_call
        /\ state[c] = {}
    BY <1>15 DEF Connect, IsFirstFree, FREE
  <2> QED BY <2>1, ArriveStep DEF SameButFor, SameCall
<1>16. ASSUME NEW s \in Sessions,
              \/ Offer(s) \/ ConnectRefused(s) \/ Withdraw(s) \/ Stray(s)
              \/ FinalSpent(s) \/ AcceptUnoffered(s)
       PROVE LineStep
  BY <1>16, <1>1
     DEF Offer, ConnectRefused, Withdraw, Stray, FinalSpent, AcceptUnoffered, lines
<1>17. ASSUME NEW r \in RegIds, NEW reply,
              Unregister(r) \/ RegReply(r, reply) \/ Refresh(r)
       PROVE LineStep
  BY <1>17, <1>1, RefreshCases DEF Unregister, RegReply, lines
<1>18. CASE UNCHANGED vars
  BY <1>18, <1>1 DEF vars, lines
<1> HIDE DEF LineStep
<1> QED
  BY <1>3, <1>4, <1>5, <1>6, <1>7, <1>8, <1>9, <1>10, <1>11, <1>12, <1>13, <1>14, <1>15,
     <1>16, <1>17, <1>18
     DEF Next, Client, Network, Timers, Call

(* The call table's first state is one of LineTable.                       *)
THEOREM TableInit == Init => Phone!LineInit
<1> SUFFICES ASSUME Init PROVE Phone!LineInit
  OBVIOUS
<1>1. /\ \A c \in Lines : CallOf(c) = "none"
      /\ {c \in Lines : "RINGING" \in state[c]} = {}
      /\ selected_call \in Lines
  BY NCallsAssumption DEF Init, CallOf, FREE, Lines
<1> QED BY <1>1 DEF Phone!LineInit

(* What the phone may rely on: the call table implements LineTable.        *)
THEOREM TableImplementsLines == Spec => PhoneSafety
<1>1. TypeOK /\ LineHasCall /\ [Next]_vars => [Phone!LineNext]_(Phone!lineVars)
  BY TableStep DEF LineStep
<1> QED BY <1>1, TableInit, TypeCorrect, LineHasCallAlways, PTL
        DEF Spec, PhoneSafety, Phone!LineSafety
=============================================================================
