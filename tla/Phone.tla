------------------------------- MODULE Phone -------------------------------
(***************************************************************************)
(* The phone (iax2.c, event.c) on top of the call table.  It keeps a state *)
(* of its own for each line, because it "_can't_ rely on libiaxclient's    *)
(* state" (iax2.h:50), and moves it by the keys, in the user interface     *)
(* thread, and by the texts the library posts, in the processing thread.   *)
(* A handler is cut where it calls the library: an action is one iaxc_*    *)
(* call with the phone's own code up to the next, and the other thread may *)
(* act in between.  Animations, leds, texts on the display, sounds, the    *)
(* register of calls and the registration are left out.                    *)
(***************************************************************************)
EXTENDS CallTable

ShownBits == {"RINGING", "OUTGOING", "INCOMING", "ACTIVE", "WAITING"}
Threads   == {"user", "net"}

VARIABLES
    shown,         \* callinfo[c].PRIAX_state
    index,         \* the line that is shown
    current,       \* the line whose callinfo the pointer current leads to
    last_active,   \* the line of the last call that came in
    line_id,       \* the line a text named last, or NoLine
    hold_pressed,
    todo,          \* what is left of the handler each thread is in
    noted,         \* history: the lines whose call rings and was marked
    dialled        \* history: the selected line, if it is selected because
                   \* a call was placed there that was not yet accepted

place     == <<index, current>>
kept      == <<last_active, line_id, hold_pressed>>
own       == <<shown, place, kept>>
phoneVars == <<vars, own, todo, noted, dialled>>

(* The texts that ev_text acts on, and the library calls a handler has     *)
(* still to make.                                                          *)
Heeded == {"disconnected by remote", "rejected by remote", "Hanging up call",
           "Incoming call on line", "accepted", "answered"}
Left(what, c) == [type |-> "left", msg |-> what, line |-> c]
Heed(e) == e.type = "text" /\ e.msg \in Heeded
Heeds(events) ==
    LET first[n \in 0 .. Len(events)] ==      \* of the first n events
          IF n = 0 THEN <<>>
          ELSE IF Heed(events[n]) THEN Append(first[n - 1], events[n])
          ELSE first[n - 1]
    IN  first[Len(events)]

PhoneTypeOK ==
    /\ shown \in [Lines -> SUBSET ShownBits]
    /\ index \in Lines /\ current \in Lines /\ last_active \in Lines
    /\ line_id \in Lines \cup {NoLine}
    /\ hold_pressed \in BOOLEAN
    /\ DOMAIN todo = Threads
    /\ noted \subseteq Lines /\ dialled \subseteq {selected_call}

(* iax2init ends with iaxc_select_call(-1): "mute until asked to unmute".  *)
PhoneInit ==
    /\ Init
    /\ shown = [c \in Lines |-> {}]
    /\ index = 0 /\ current = 0 /\ last_active = 0 /\ line_id = NoLine
    /\ hold_pressed = FALSE
    /\ noted = {} /\ dialled = {}
    /\ todo = [t \in Threads |-> IF t = "user" THEN <<Left("mute", NoLine)>> ELSE <<>>]
-----------------------------------------------------------------------------
Idle(t)   == todo[t] = <<>>
Doing(t, what, c) == ~Idle(t) /\ Head(todo[t]).msg = what /\ Head(todo[t]).line = c
Then(t, ops)   == todo' = [todo EXCEPT ![t] = ops]
Goes(t)        == Then(t, Tail(todo[t]))
GoesOn(t, op)  == Then(t, <<op>> \o Tail(todo[t]))

Shows(c, bits) == shown' = [shown EXCEPT ![c] = @ \cup bits]
Talking        == "ACTIVE" \in shown[current]
TableIdle      == UNCHANGED vars

(* The processing thread takes an event of the network.  What the library  *)
(* posts is handled once the lock is released.                             *)
Serve ==
    /\ Idle("net")
    /\ Network
    /\ Then("net", Heeds(posted'))
    /\ UNCHANGED own

(* Mutant: the line that is shown is freed, whichever was hung up. *)
HungUp_shown(t, c) ==
    /\ Doing(t, "hungup", c)
    /\ shown' = [shown EXCEPT ![current] = {}]
    /\ IF c = index THEN SelectNone ELSE TableIdle
    /\ Goes(t)
    /\ UNCHANGED <<place, kept>>

(* priv_hangup(i), by either thread: the library's call is rejected first. *)
HungUp(t, c) ==
    /\ Doing(t, "hungup", c)
    /\ shown' = [d \in Lines |-> IF d = c THEN {}
                                 ELSE IF d = current /\ c = index THEN shown[d] \ {"RINGING"}
                                 ELSE shown[d]]
    /\ IF c = index THEN SelectNone ELSE TableIdle
    /\ Goes(t)
    /\ UNCHANGED <<place, kept>>
-----------------------------------------------------------------------------
(* The keys.                                                               *)

HangupKey ==
    /\ Idle("user")
    /\ RejectCall(index)
    /\ Then("user", <<Left("hungup", index)>>)
    /\ UNCHANGED own

(* priv_dial: registered, with a number.  The result of iaxc_call is not   *)
(* looked at.                                                              *)
Dial ==
    /\ Call
    /\ Shows(current, {"OUTGOING"})
    /\ UNCHANGED <<place, kept, todo>>

(* The key of the pickup group, and the redial keys of the call register,  *)
(* dial whatever the line's state.                                         *)
DialKey == Idle("user") /\ Dial

(* priv_pickup *)
PickUp ==
    /\ shown[current] \cap {"INCOMING", "WAITING"} # {}
    /\ shown' = [shown EXCEPT ![current] = @ \ {"RINGING"}]
    /\ Select(index)
    /\ Then("user", <<Left("answer", NoLine)>>)
    /\ UNCHANGED <<place, kept>>
PickedUp ==
    /\ Doing("user", "answer", NoLine)
    /\ Answer(index)
    /\ Shows(current, {"ACTIVE"})
    /\ Goes("user")
    /\ UNCHANGED <<place, kept>>

TalkKey ==
    /\ Idle("user")
    /\ \/ PickUp
       \/ shown[current] \cap {"INCOMING", "WAITING", "ACTIVE"} = {} /\ Dial

HoldKey ==
    /\ Idle("user")
    /\ Talking
    /\ hold_pressed' = ~hold_pressed
    /\ IF hold_pressed' THEN SelectNone ELSE Select(index)
    /\ UNCHANGED <<shown, place, last_active, line_id, todo>>

(* priv_select_call: a line that is ACTIVE is held before and unheld       *)
(* after; any other line is muted.                                         *)
Chosen(c) ==
    /\ index' = c /\ current' = c
    /\ IF "ACTIVE" \in shown[c]
       THEN Select(c) /\ Then("user", <<Left("unhold", NoLine)>>)
       ELSE SelectNone /\ Then("user", <<>>)
    /\ UNCHANGED <<shown, kept>>

(* The keys of the two lines; the keys up and down move index to a line    *)
(* next to it before the one that is shown is held.                        *)
LineKey(c) ==
    /\ Idle("user")
    /\ IF Talking
       THEN /\ SelectNone /\ Then("user", <<Left("chosen", c)>>)
            /\ \/ index' = index
               \/ c \in {index - 1, index + 1} /\ index' = c
            /\ UNCHANGED <<shown, current, kept>>
       ELSE Chosen(c)

Hold(c) == Doing("user", "chosen", c) /\ Chosen(c)
Unhold  == Doing("user", "unhold", NoLine) /\ Select(index) /\ Goes("user") /\ UNCHANGED own
Mute    == Doing("user", "mute", NoLine) /\ SelectNone /\ Goes("user") /\ UNCHANGED own
-----------------------------------------------------------------------------
(* ev_text, in the thread that drains the library's events.                *)

(* "Call disconnected by remote" names no line: that of the last call that *)
(* came in is hung up.                                                     *)
OnDisconnected(t) ==
    /\ Doing(t, "disconnected by remote", NoLine)
    /\ RejectCall(last_active)
    /\ GoesOn(t, Left("hungup", last_active))
    /\ UNCHANGED own

(* "Hanging up call %d" is posted for each line as the phone is shut down. *)
OnHanging(t, c) ==
    /\ Doing(t, "Hanging up call", c)
    /\ line_id' = c
    /\ RejectCall(c)
    /\ GoesOn(t, Left("hungup", c))
    /\ UNCHANGED <<shown, place, last_active, hold_pressed>>

(* A call that comes in is marked on the line that is shown, and on its    *)
(* own line as well when the user is talking.                              *)
OnIncoming(t, c) ==
    /\ Doing(t, "Incoming call on line", c)
    /\ line_id' = c /\ last_active' = c
    /\ shown' = [d \in Lines |-> shown[d] \cup
                    (IF d = current THEN {"RINGING", "INCOMING"} ELSE {}) \cup
                    (IF Talking /\ d = c
                       THEN {"RINGING", "INCOMING", "WAITING"} ELSE {})]
    /\ TableIdle
    /\ Goes(t)
    /\ UNCHANGED <<place, hold_pressed>>

(* Mutant: line_id is used before the text has been scanned for it. *)
OnAccepted_unscanned(t, c) ==
    /\ Doing(t, "accepted", c)
    /\ line_id' = c /\ index' = line_id /\ current' = current
    /\ TableIdle
    /\ Goes(t)
    /\ UNCHANGED <<shown, last_active, hold_pressed>>

(* Mutant: the call is moved, and not selected. *)
OnAccepted_unselected(t, c) ==
    /\ Doing(t, "accepted", c)
    /\ line_id' = c /\ index' = c
    /\ current' = c
    /\ shown' = [shown EXCEPT ![c] = shown[current]]
    /\ TableIdle
    /\ Goes(t)
    /\ UNCHANGED <<last_active, hold_pressed>>

(* The call that was dialled follows to the line the library gave it; the  *)
(* line it was dialled on keeps its state.                                 *)
OnAccepted(t, c) ==
    /\ Doing(t, "accepted", c)
    /\ line_id' = c /\ index' = c
    /\ current' = IF c = index THEN current ELSE c
    /\ shown' = [shown EXCEPT ![current'] = shown[current] \cup
                   (IF "OUTGOING" \in shown[current] THEN {"RINGING", "OUTGOING"} ELSE {})]
    /\ IF c = index THEN TableIdle ELSE Select(c)
    /\ Goes(t)
    /\ UNCHANGED <<last_active, hold_pressed>>

(* The line that is shown is marked, whichever line answered. *)
OnAnswered(t, c) ==
    /\ Doing(t, "answered", c)
    /\ Shows(current, {"ACTIVE"})
    /\ TableIdle
    /\ Goes(t)
    /\ UNCHANGED <<place, kept>>

(* Only until a text has named a line does a rejection hang up. *)
OnRejected(t) ==
    /\ Doing(t, "rejected by remote", NoLine)
    /\ IF line_id = NoLine
       THEN RejectCall(index) /\ GoesOn(t, Left("hungup", index))
       ELSE TableIdle /\ Goes(t)
    /\ UNCHANGED own

Handlers(t) ==
    \/ OnDisconnected(t) \/ OnRejected(t)
    \/ \E c \in Lines : \/ OnHanging(t, c) \/ OnIncoming(t, c)
                        \/ OnAccepted(t, c) \/ OnAnswered(t, c)
                        \/ HungUp(t, c)

(* iaxc_shutdown, the last thing the user interface thread does but for    *)
(* handling what that posts.                                               *)
Quit ==
    /\ Idle("user")
    /\ DumpAll
    /\ Then("user", Append(Heeds(posted'), Left("exit", NoLine)))
    /\ UNCHANGED own

User == \/ HangupKey \/ DialKey \/ TalkKey \/ HoldKey
        \/ PickedUp \/ Unhold \/ Mute \/ Quit
        \/ \E c \in Lines : LineKey(c) \/ Hold(c)

(* A call that came in, and rings.                                         *)
CallIn(c) == "ACTIVE" \in state[c] /\ "OUTGOING" \notin state[c]
Rings(c)  == CallIn(c) /\ "RINGING" \in state[c]

(* The line of a call that comes in is marked if it is shown, or if the    *)
(* user is talking, and nobody is about to clear it.                       *)
Marked(c) ==
    /\ \E t \in Threads : Doing(t, "Incoming call on line", c) /\ todo'[t] # todo[t]
    /\ c = current \/ Talking
    /\ \A t \in Threads : ~Doing(t, "hungup", c)

(* A call is placed on the line; a handler is done with the text that its  *)
(* peer accepted it.                                                       *)
Placed(c)  == session'[c] # session[c] /\ "OUTGOING" \in state'[c]
Accepts(c) == \E t \in Threads : Doing(t, "accepted", c) /\ todo'[t] # todo[t]

PhoneNext ==
    /\ Serve \/ User \/ \E t \in Threads : Handlers(t)
    /\ noted' = {c \in Lines : (c \in noted \/ Marked(c)) /\ Rings(c)'}
    /\ dialled' = {c \in Lines \cap {selected_call'} :
                      Placed(c) \/ (c \in dialled /\ ~Accepts(c))}

PhoneSpec == PhoneInit /\ [][PhoneNext]_phoneVars
-----------------------------------------------------------------------------
Quiet == \A t \in Threads : Idle(t)

(* A call that came in on the line that is shown, or while the user was    *)
(* talking on the other one, can be answered for as long as it rings: its  *)
(* line has the mark by which the talk key answers ("if current call is    *)
(* ringing, log and answer", event.c:82), whatever keys are pressed,       *)
(* whichever calls begin and end on the other line, and whatever either    *)
(* thread was in the middle of.                                            *)
StaysAnswerable ==
    \A c \in noted : shown[c] \cap {"INCOMING", "WAITING"} # {}

(* What is heard is what is shown: the line that is selected is the one    *)
(* that index and current name, though both threads move them (iax2.c:191, *)
(* iax2.c:306).  A call that was placed is heard wherever the library put  *)
(* it until its peer accepts it, when the phone follows.                   *)
HeardIsShown ==
    selected_call \in Lines \ dialled => selected_call = index /\ index = current

(* iax2init selects no line: "mute until asked to unmute - we don't want   *)
(* to receive audio without our permission" (iax2.c:790).  The line whose  *)
(* audio is played has no call that came in and was not answered.          *)
MutedUntilAsked ==
    Quiet => \A c \in Lines :
                 c = selected_call /\ CallIn(c) => "COMPLETE" \in state[c]
=============================================================================
