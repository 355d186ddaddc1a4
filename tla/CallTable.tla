----------------------------- MODULE CallTable -----------------------------
(***************************************************************************)
(* The call table of iaxclient_lib.c: the phone's lines, the line that is  *)
(* selected, the registrations, and the libiax2 sessions they own.  The    *)
(* table is driven by the user interface thread (the iaxc_* calls) and by  *)
(* the processing thread (iaxc_service_network, iaxc_refresh_registrations *)
(* and the calls its event callback makes).  An action is one critical     *)
(* section of iaxc_lock, or one call of the functions that do not lock.    *)
(*                                                                         *)
(* A session is an iax_session object, named by its address: one that is   *)
(* created takes any address that no session lives at, be it an address    *)
(* that a line, or a frame waiting to be retried, still points to.         *)
(***************************************************************************)
EXTENDS Integers, Sequences

CONSTANTS NCalls,     \* nCalls: how many lines iaxc_initialize allocated
          Sessions,   \* the iax_session objects that can be allocated
          NoSession,  \* the NULL session
          MaxReg      \* bound on next_registration_id

ASSUME NCallsAssumption == NCalls \in Nat \ {0}
ASSUME NoSessionAssumption == NoSession \notin Sessions
ASSUME MaxRegAssumption == MaxReg \in Nat

Lines  == 0 .. (NCalls - 1)
NoLine == -1
RegIds == 1 .. MaxReg

(* calls[].state is a set of the IAXC_CALL_STATE bits; FREE is no bit. *)
StateBits == {"ACTIVE", "OUTGOING", "RINGING", "COMPLETE", "SELECTED", "BUSY",
              "TRANSFER"}
FREE == {}

VARIABLES
    state,          \* calls[c].state
    session,        \* calls[c].session
    selected_call,  \* the selected line, or NoLine
    registered,     \* the ids on the registrations list
    regsession,     \* the session of each registration
    next_registration_id,
    life,           \* what libiax2 knows of each session (see LifeStates)
    finals,         \* the sessions a final frame on libiax2's schedq names
    astray,         \* history: the sessions libiax2 destroyed under their owner
    posted          \* the events this step handed to iaxc_post_event, in order

lines == <<state, session, selected_call>>
regs  == <<registered, regsession, next_registration_id>>
sess  == <<life, finals, astray>>
vars  == <<lines, regs, sess, posted>>

(* dead: not on libiax2's sessions list.  offered: created by a frame from *)
(* the network, its CONNECT event not yet given to the table.  up: made or *)
(* taken by the table.  final: ended by a frame that could not be sent;    *)
(* libiax2 keeps the session until the retries of that frame are spent.    *)
LifeStates == {"dead", "offered", "up", "final"}

TypeOK ==
    /\ state \in [Lines -> SUBSET StateBits]
    /\ session \in [Lines -> Sessions \cup {NoSession}]
    /\ selected_call \in Lines \cup {NoLine}
    /\ registered \subseteq RegIds
    /\ regsession \in [RegIds -> Sessions \cup {NoSession}]
    /\ next_registration_id \in 0 .. MaxReg
    /\ life \in [Sessions -> LifeStates]
    /\ finals \subseteq Sessions
    /\ astray \subseteq Sessions

Init ==
    /\ state = [c \in Lines |-> FREE]
    /\ session = [c \in Lines |-> NoSession]
    /\ selected_call = 0
    /\ registered = {}
    /\ regsession = [r \in RegIds |-> NoSession]
    /\ next_registration_id = 0
    /\ life = [s \in Sessions |-> "dead"]
    /\ finals = {}
    /\ astray = {}
    /\ posted = <<>>

-----------------------------------------------------------------------------
(* Events handed to the client: a state event (iaxc_do_state_callback), a  *)
(* status text (iaxc_usermsg) with the line its format prints, if any, and *)
(* a registration event.                                                   *)
StateEvent(c)    == [type |-> "state", line |-> c]
Text(msg, c)     == [type |-> "text", msg |-> msg, line |-> c]
RegEvent(r, rep) == [type |-> "registration", id |-> r, reply |-> rep]

Spare == {s \in Sessions : life[s] = "dead"}

IsFirstFree(c) ==
    /\ state[c] = FREE
    /\ \A d \in 0 .. (c - 1) : state[d] # FREE
NoneFree == \A c \in Lines : state[c] # FREE

(* send_command_final on the session s: sent, the session is destroyed at  *)
(* once; not sent, it stays until its frame's retries are spent.  Either   *)
(* way the frame stays on schedq with the session's address.  On NULL the  *)
(* send fails and nothing is destroyed.                                    *)
HangUp(s) ==
    /\ finals' = IF s = NoSession THEN finals ELSE finals \cup {s}
    /\ IF s = NoSession THEN life' = life
       ELSE \/ life' = [life EXCEPT ![s] = "dead"]
            \/ life[s] # "dead" /\ life' = [life EXCEPT ![s] = "final"]
    /\ astray' = astray

(* Whose event it is: the first line that points to the session, else the  *)
(* newest registration that does.                                          *)
LineOf(c) ==
    /\ session[c] # NoSession
    /\ life[session[c]] # "dead"
    /\ \A d \in 0 .. (c - 1) : session[d] # session[c]
RegOf(r) ==
    /\ regsession[r] # NoSession
    /\ life[regsession[r]] # "dead"
    /\ \A c \in Lines : session[c] # regsession[r]
    /\ \A q \in RegIds : q > r => regsession[q] # regsession[r]
Unowned(s) ==
    /\ \A c \in Lines : session[c] # s
    /\ \A r \in RegIds : regsession[r] # s
Bereaved(s) == IF Unowned(s) THEN {} ELSE {s}

(* Mutant: iaxc_clear_call that forgets session = NULL. *)
ClearCall_keepsSession(c) ==
    /\ state' = [state EXCEPT ![c] = FREE]
    /\ session' = session

ClearCall(c) ==
    /\ state' = [state EXCEPT ![c] = FREE]
    /\ session' = [session EXCEPT ![c] = NoSession]

Answering(st, c) == [st EXCEPT ![c] = (@ \ {"RINGING"}) \cup {"COMPLETE"}]

(* Mutant: the line selected before keeps its bit. *)
Moved_twoBits(st, c) ==
    IF c = selected_call THEN st ELSE [st EXCEPT ![c] = @ \cup {"SELECTED"}]

(* iaxc_select_call(c), c >= 0, on the table st.  The SELECTED bit moves   *)
(* only when the selection does; an incoming call that rings is answered.  *)
Moved(st, c) ==
    IF c = selected_call THEN st
    ELSE [d \in Lines |-> IF d = c THEN st[d] \cup {"SELECTED"}
                          ELSE IF d = selected_call THEN st[d] \ {"SELECTED"}
                          ELSE st[d]]
(* Mutant: the call that rings is selected and not answered. *)
Selecting_unanswered(st, c) == Moved(st, c)

Selecting(st, c) ==
    IF "RINGING" \in Moved(st, c)[c] /\ "OUTGOING" \notin Moved(st, c)[c]
      THEN Answering(Moved(st, c), c)
      ELSE Moved(st, c)
SelectEvents(c) ==
    IF selected_call \in {c, NoLine} THEN <<StateEvent(c)>>
    ELSE <<StateEvent(selected_call), StateEvent(c)>>
-----------------------------------------------------------------------------
(* Calls the client makes, from the UI thread or from its event callback.  *)

(* iaxc_call: the selected line when it has no call, else a free one.  The *)
(* result of iax_call is ignored: a NEW that could not be sent leaves the  *)
(* line ACTIVE all the same.                                               *)
(* Mutant: the call goes to the selected line even when that is ACTIVE. *)
WantsAppearance_selected == selected_call = NoLine

WantsAppearance == \A c \in Lines : c = selected_call => "ACTIVE" \in state[c]

PlaceCall(c, s) ==
    /\ IF WantsAppearance THEN IsFirstFree(c) ELSE c = selected_call
    /\ session' = [session EXCEPT ![c] = s]
    /\ life' = [life EXCEPT ![s] = "up"] /\ UNCHANGED <<finals, astray>>
    /\ state' = Selecting([state EXCEPT ![c] = {"ACTIVE", "OUTGOING"}], c)
    /\ selected_call' = c
    /\ posted' = SelectEvents(c)
    /\ UNCHANGED regs

CallRefused(why) ==
    /\ posted' = <<Text(why, NoLine)>>
    /\ UNCHANGED <<lines, regs, sess>>

Call ==
    \/ \E c \in Lines, s \in Spare : PlaceCall(c, s)
    \/ WantsAppearance /\ NoneFree /\ CallRefused("No free call appearances")
    \/ /\ WantsAppearance => ~NoneFree
       /\ Spare = {}
       /\ CallRefused("Can't make new session")

(* iaxc_select_call(c), c >= 0.  It takes no lock. *)
Select(c) ==
    /\ state' = Selecting(state, c)
    /\ selected_call' = c
    /\ posted' = SelectEvents(c)
    /\ UNCHANGED <<session, regs, sess>>

(* iaxc_select_call of a line there is not. *)
SelectOutOfRange ==
    /\ posted' = <<Text("tried to select out_of_range call", NCalls)>>
    /\ UNCHANGED <<lines, regs, sess>>

(* Mutant: calls[-1] is written when nothing was selected. *)
SelectNone_noTest ==
    /\ state' = [c \in Lines \cup {selected_call} |->
                    IF c \in Lines THEN state[c] \ {"SELECTED"} ELSE {}]
    /\ selected_call' = NoLine
    /\ posted' = <<>>
    /\ UNCHANGED <<session, regs, sess>>

(* iaxc_select_call(-1): every call on hold.  The line that loses its      *)
(* SELECTED bit is not announced.                                          *)
SelectNone ==
    /\ state' = [c \in Lines |-> IF c = selected_call THEN state[c] \ {"SELECTED"}
                                 ELSE state[c]]
    /\ selected_call' = NoLine
    /\ posted' = <<>>
    /\ UNCHANGED <<session, regs, sess>>

(* Mutant: the answer is not announced. *)
Answer_silent(c) ==
    /\ state' = Answering(state, c)
    /\ posted' = <<>>
    /\ UNCHANGED <<session, selected_call, regs, sess>>

(* iaxc_answer_call: takes no lock and asks nothing of the line. *)
Answer(c) ==
    /\ state' = Answering(state, c)
    /\ posted' = <<StateEvent(c)>>
    /\ UNCHANGED <<session, selected_call, regs, sess>>

(* iaxc_reject_call_number, and iaxc_reject_call on the selected line. *)
RejectCall(c) ==
    /\ HangUp(session[c])
    /\ ClearCall(c)
    /\ posted' = <<StateEvent(c)>>
    /\ UNCHANGED <<selected_call, regs>>

(* iaxc_dump_call: hangs the selected line up unless it is FREE. *)
DumpCall ==
    /\ selected_call # NoLine
    /\ state[selected_call] # FREE
    /\ HangUp(session[selected_call])
    /\ ClearCall(selected_call)
    /\ posted' = <<Text("Hanging up call", selected_call), StateEvent(selected_call)>>
    /\ UNCHANGED <<selected_call, regs>>

(* iaxc_dump_all_calls: every line that is not FREE, in line order, in    *)
(* one critical section; the HANGUP of some sessions may not be sent.      *)
DumpPosts(c) == IF state[c] = FREE THEN <<>>
                ELSE <<Text("Hanging up call", c), StateEvent(c)>>
DumpedUpTo[n \in 0 .. NCalls] ==
    IF n = 0 THEN <<>> ELSE DumpedUpTo[n - 1] \o DumpPosts(n - 1)

DumpAll ==
    /\ LET hung == {session[c] : c \in {d \in Lines : state[d] # FREE}} \ {NoSession} IN
          /\ \E unsent \in SUBSET hung :
                life' = [s \in Sessions |-> IF s \notin hung THEN life[s]
                                           ELSE IF s \in unsent /\ life[s] # "dead"
                                             THEN "final" ELSE "dead"]
          /\ finals' = finals \cup hung
    /\ astray' = astray
    /\ state' = [c \in Lines |-> FREE]
    /\ session' = [c \in Lines |-> IF state[c] = FREE THEN session[c] ELSE NoSession]
    /\ posted' = DumpedUpTo[NCalls]
    /\ UNCHANGED <<selected_call, regs>>

(* iaxc_register, the REGREQ sent or not. *)
Register ==
    /\ next_registration_id < MaxReg
    /\ \/ \E s \in Spare :
             /\ next_registration_id' = next_registration_id + 1
             /\ registered' = registered \cup {next_registration_id'}
             /\ regsession' = [regsession EXCEPT ![next_registration_id'] = s]
             /\ life' = [life EXCEPT ![s] = "up"]
             /\ posted' = <<>>
       \/ /\ Spare = {}
          /\ posted' = <<Text("Can't make new registration session", NoLine)>>
          /\ UNCHANGED <<regs, life>>
    /\ UNCHANGED <<lines, finals, astray>>

(* iax_destroy on the session of registration r, which may have none. *)
Destroyed(r) == IF regsession[r] = NoSession THEN life
                ELSE [life EXCEPT ![regsession[r]] = "dead"]

(* iaxc_unregister(r), for an id that is on the list or not. *)
Unregister(r) ==
    /\ r \in registered
    /\ life' = Destroyed(r)
    /\ registered' = registered \ {r}
    /\ regsession' = [regsession EXCEPT ![r] = NoSession]
    /\ posted' = <<>>
    /\ UNCHANGED <<lines, next_registration_id, finals, astray>>
-----------------------------------------------------------------------------
(* The processing thread: iaxc_service_network, one event per action, and  *)
(* iaxc_refresh_registrations.                                             *)

(* A frame of an unknown peer: libiax2 makes a session for it, whose       *)
(* CONNECT event, if the frame was a NEW, comes out of its jitter buffer   *)
(* later.                                                                  *)
Offer(s) ==
    /\ life[s] = "dead"
    /\ life' = [life EXCEPT ![s] = "offered"]
    /\ posted' = <<>>
    /\ UNCHANGED <<lines, regs, finals, astray>>

(* CONNECT of an offered session: the first free line rings with it. *)
Connect(s, c) ==
    /\ life[s] = "offered" /\ Unowned(s)
    /\ IsFirstFree(c)
    /\ session' = [session EXCEPT ![c] = s]
    /\ state' = [state EXCEPT ![c] = {"ACTIVE", "RINGING"}]
    /\ life' = [life EXCEPT ![s] = "up"]
    /\ posted' = <<Text("Call from", NoLine), StateEvent(c),
                   Text("Incoming call on line", c)>>
    /\ UNCHANGED <<selected_call, regs, finals, astray>>

(* CONNECT refused: no line is FREE, or there is no common codec. *)
ConnectRefused(s) ==
    /\ life[s] = "offered" /\ Unowned(s)
    /\ HangUp(s)
    /\ posted' = IF NoneFree THEN <<Text("Incoming Call, but no appearances", NoLine)>>
                 ELSE <<>>
    /\ UNCHANGED <<lines, regs>>

(* HANGUP, REJECT or INVAL for a session nobody owns: iax_event_free       *)
(* destroys it.                                                            *)
Withdraw(s) ==
    /\ life[s] # "dead" /\ Unowned(s)
    /\ life' = [life EXCEPT ![s] = "dead"]
    /\ posted' = <<Text("Event for a non-existant session", NoLine)>>
    /\ UNCHANGED <<lines, regs, finals, astray>>

(* TIMEOUT, or another event, for such a session: dropped, and nothing     *)
(* destroys the session.                                                   *)
Stray(s) ==
    /\ life[s] # "dead" /\ Unowned(s)
    /\ posted' = <<Text("Dropping", NoLine)>>
    /\ UNCHANGED <<lines, regs, sess>>

(* A final frame comes up on schedq to be dropped, because its session was *)
(* destroyed or its retries are spent: the session at its address is       *)
(* destroyed, whichever lives there by now.  (Frames that name the same    *)
(* address are taken for one.)                                             *)
FinalSpent(s) ==
    /\ s \in finals
    /\ finals' = finals \ {s}
    /\ life' = [life EXCEPT ![s] = "dead"]
    /\ astray' = astray \cup Bereaved(s)
    /\ posted' = <<>>
    /\ UNCHANGED <<lines, regs>>

(* ACCEPT of a codec that the session does not have: iax_header_to_event   *)
(* sends REJECT.  If it is sent, the session is destroyed and the REJECT   *)
(* event is filed in what was its jitter buffer, never to come out; if     *)
(* not, the event comes out (Disconnect, RegReply or Withdraw).            *)
AcceptUnoffered(s) ==
    /\ life[s] # "dead"
    /\ finals' = finals \cup {s}
    /\ \/ /\ life' = [life EXCEPT ![s] = "dead"]
          /\ astray' = astray \cup Bereaved(s)
       \/ /\ life' = [life EXCEPT ![s] = "final"]
          /\ astray' = astray
    /\ posted' = <<>>
    /\ UNCHANGED <<lines, regs>>

(* HANGUP and REJECT of a line's session: iaxc_handle_network_event clears *)
(* the line, iax_event_free then destroys the session.                     *)
Disconnect(c, msg) ==
    /\ LineOf(c)
    /\ ClearCall(c)
    /\ life' = [life EXCEPT ![session[c]] = "dead"]
    /\ posted' = <<Text(msg, NoLine), StateEvent(c)>>
    /\ UNCHANGED <<selected_call, regs, finals, astray>>

(* Mutant: a line that times out is cleared without iax_hangup. *)
TimedOut_noHangup(c) ==
    /\ LineOf(c)
    /\ ClearCall(c)
    /\ posted' = <<Text("timed out", c), StateEvent(c)>>
    /\ UNCHANGED <<selected_call, regs, sess>>

(* TIMEOUT of a line's session. *)
TimedOut(c) ==
    /\ LineOf(c)
    /\ ClearCall(c)
    /\ HangUp(session[c])
    /\ posted' = <<Text("timed out", c), StateEvent(c)>>
    /\ UNCHANGED <<selected_call, regs>>

(* The events that only move a line's bits. *)
Progress(c, bits, msgs) ==
    /\ LineOf(c)
    /\ state' = [state EXCEPT ![c] = bits]
    /\ posted' = <<StateEvent(c)>> \o msgs
    /\ UNCHANGED <<session, selected_call, regs, sess>>

Told(c, msg) ==
    /\ LineOf(c)
    /\ posted' = <<Text(msg, c)>>
    /\ UNCHANGED <<lines, regs, sess>>
Answered(c) == Progress(c, (state[c] \ {"RINGING"}) \cup {"COMPLETE"},
                        <<Text("answered", c)>>)
Busy(c) == Progress(c, (state[c] \ {"RINGING"}) \cup {"BUSY"}, <<>>)
Voice(c) == /\ "RINGING" \in state[c]
            /\ Progress(c, state[c] \ {"RINGING"}, <<Text("progress", c)>>)
Ringa(c) == Progress(c, state[c] \cup {"RINGING"}, <<Text("ringing", c)>>)
Transferred(c) == Progress(c, state[c] \cup {"TRANSFER"},
                           <<Text("transfer released", c)>>)

(* Any event for a registration's session is its reply: the session is     *)
(* destroyed, and a REGREJ ends the registration.                          *)
Replies == {"ACK", "REJ", "TIMEOUT"}

(* Mutant: iaxc_handle_regreply that forgets reg->session = NULL. *)
RegReply_keepsSession(r, reply) ==
    /\ RegOf(r)
    /\ life' = Destroyed(r)
    /\ registered' = IF reply = "REJ" THEN registered \ {r} ELSE registered
    /\ posted' = <<RegEvent(r, reply)>>
    /\ UNCHANGED <<lines, regsession, next_registration_id, finals, astray>>

RegReply(r, reply) ==
    /\ RegOf(r)
    /\ life' = Destroyed(r)
    /\ regsession' = [regsession EXCEPT ![r] = NoSession]
    /\ registered' = IF reply = "REJ" THEN registered \ {r} ELSE registered
    /\ posted' = <<RegEvent(r, reply)>>
    /\ UNCHANGED <<lines, next_registration_id, finals, astray>>

(* The refresh of a registration that is due: a new session replaces its   *)
(* last one.  The session destroyed first may be the one allocated.        *)
Refresh(r) ==
    /\ r \in registered
    /\ LET left == {s \in Sessions : Destroyed(r)[s] = "dead"} IN
       \/ \E s \in left :
             /\ regsession' = [regsession EXCEPT ![r] = s]
             /\ life' = [Destroyed(r) EXCEPT ![s] = "up"]
             /\ posted' = <<>>
       \/ /\ left = {}
          /\ posted' = <<Text("Can't make new registration session", NoLine)>>
          /\ UNCHANGED <<regsession, life>>
    /\ UNCHANGED <<lines, registered, next_registration_id, finals, astray>>
-----------------------------------------------------------------------------
Client ==
    \/ Call \/ SelectNone \/ SelectOutOfRange \/ DumpCall \/ DumpAll \/ Register
    \/ \E c \in Lines : Select(c) \/ Answer(c) \/ RejectCall(c)
    \/ \E r \in RegIds : Unregister(r)

Network ==
    \/ \E s \in Sessions : \/ Offer(s) \/ ConnectRefused(s)
                           \/ Withdraw(s) \/ Stray(s)
                           \/ FinalSpent(s) \/ AcceptUnoffered(s)
                           \/ \E c \in Lines : Connect(s, c)
    \/ \E c \in Lines : \/ Disconnect(c, "disconnected by remote")
                        \/ Disconnect(c, "rejected by remote")
                        \/ Told(c, "accepted") \/ Told(c, "Unknown event")
                        \/ TimedOut(c) \/ Answered(c) \/ Busy(c)
                        \/ Voice(c) \/ Ringa(c) \/ Transferred(c)
    \/ \E r \in RegIds, reply \in Replies : RegReply(r, reply)

Timers == \E r \in RegIds : Refresh(r)

Next == Client \/ Network \/ Timers

Spec == Init /\ [][Next]_vars
-----------------------------------------------------------------------------
(* The bits only a line with a call may carry. *)
CallBits == {"ACTIVE", "OUTGOING", "RINGING", "BUSY", "TRANSFER"}

(* A line is ACTIVE exactly when it has a session, and without one it      *)
(* carries no bit of a call.  iaxc_send_dtmf, iaxc_call and service_audio  *)
(* test ACTIVE and then use the session.                                   *)
LineHasCall ==
    \A c \in Lines :
        /\ "ACTIVE" \in state[c] <=> session[c] # NoSession
        /\ session[c] = NoSession => state[c] \cap CallBits = {}

(* While libiax2 destroys only what it is asked to, no two owners share a  *)
(* session: iaxc_find_call_by_session and                                  *)
(* iaxc_find_registration_by_session take the first match for an answer.   *)
NoSharedSession == astray = {} =>
    /\ \A c, d \in Lines :
          session[c] = session[d] /\ session[c] # NoSession => c = d
    /\ \A q, r \in RegIds :
          regsession[q] = regsession[r] /\ regsession[q] # NoSession => q = r
    /\ \A c \in Lines, r \in RegIds :
          session[c] = regsession[r] => session[c] = NoSession

(* The table and libiax2 agree: a session that an owner points to has not  *)
(* been destroyed, and one that the table made or took and has not hung up *)
(* is still owned, so that some call of the client can end it (no leak).   *)
(* It lasts until libiax2 destroys a session that it was not asked to.     *)
OwnedBySome(s) == (\E c \in Lines : session[c] = s) \/ (\E r \in registered : regsession[r] = s)
SessionsOwned ==
    astray = {} => \A s \in Sessions :
                      /\ life[s] = "up" => OwnedBySome(s)
                      /\ OwnedBySome(s) => life[s] \in {"up", "final"}

(* At most one line carries the SELECTED bit, and it is selected_call: the *)
(* bit is moved by calls that hold no lock, in four places.                *)
OneSelected ==
    \A c \in Lines : "SELECTED" \in state[c] => c = selected_call

(* A line's session is never replaced while it has one: a second call on   *)
(* the line would leave the first to nobody.                               *)
NeverDisplaced ==
    [][\A c \in Lines :
          session[c] # NoSession => session'[c] \in {session[c], NoSession}]_vars

(* The client hears of every change to a line but the silent deselection:  *)
(* its state event is among those the step posts.                          *)
Announced(c) == \E i \in DOMAIN posted' : posted'[i] = StateEvent(c)
NoSilentChange ==
    [][\A c \in Lines :
          state'[c] \ {"SELECTED"} # state[c] \ {"SELECTED"} => Announced(c)]_vars

(* The phone keeps lines of its own beside these, and drives both by the   *)
(* calls and the events: what it may rely on is the module LineTable.      *)
(* Only the client moves the selection, a call that comes in rings on a    *)
(* line that has none, to select it is to answer it, and who placed a call *)
(* is not forgotten while it lasts.                                        *)
CallOf(c) == IF "ACTIVE" \notin state[c] THEN "none"
             ELSE IF "OUTGOING" \in state[c] THEN "out" ELSE "in"
Phone == INSTANCE LineTable WITH
            call <- [c \in Lines |-> CallOf(c)],
            ringing <- {c \in Lines : "RINGING" \in state[c]},
            selected <- selected_call
PhoneSafety == Phone!LineSafety

(* The comment at an ACCEPT of a codec that was not offered (iax.c:2587):  *)
(* "For lack of event to notify the application we use the defined REJECT  *)
(* event."  The application is to hear of it when libiax2 ends a call.     *)
EndNotified ==
    [][\A c \in Lines :
          session[c] # NoSession /\ life[session[c]] = "up" /\ life'[session[c]] # "up"
             => Announced(c)]_vars

(* The comments at the frames of a destroyed session (iax.c:1421), "Just   *)
(* mark these frames as if they've been sent", and where they come up      *)
(* (iax.c:2968), "If final, destroy the session": a final frame ends the   *)
(* call it was sent for, and no other.                                     *)
FinalEndsOwn ==
    [][\A s \in finals \ finals' : life[s] # "up"]_vars
=============================================================================
