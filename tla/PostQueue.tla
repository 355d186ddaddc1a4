----------------------------- MODULE PostQueue -----------------------------
(***************************************************************************)
(* The event queue of iaxclient_lib.c, and the lock that decides between   *)
(* posting an event to the client and queueing it: get_iaxc_lock,          *)
(* put_iaxc_lock and iaxc_post_event, one memory access per step, run by   *)
(* the user interface thread and by the processing thread.                 *)
(*                                                                         *)
(* An event is posted from inside a critical section, by put_iaxc_lock     *)
(* after it, or by the calls that take no lock (iaxc_select_call,          *)
(* iaxc_answer_call).  The client's callback makes calls of its own.       *)
(***************************************************************************)
EXTENDS Integers, Sequences, FiniteSets

CONSTANTS Threads,    \* the user interface thread, the processing thread
          NoThread,   \* nobody, as the owner of the lock
          MaxEvents,  \* bound on the events posted
          MaxCalls,   \* bound on the calls that lock
          MaxDepth,   \* bound on calls made inside callbacks
          MaxCells    \* bound on the cells malloc'ed

ASSUME ThreadAssumption == NoThread \notin Threads
ASSUME BoundAssumption == {MaxEvents, MaxCalls, MaxDepth, MaxCells} \subseteq Nat

(* A cell of the queue is malloc'ed once and named by the number of mallocs *)
(* before it; HEAD is the variable event_queue, NULL the null pointer.      *)
Events == 1 .. MaxEvents
Cells  == 1 .. MaxCells
HEAD   == 0
NULL   == -1
WILD   == -2   \* a pointer to no cell
Blank  == 0    \* what stands where no event was stored yet

VARIABLES
    owner,      \* who holds iaxc_lock
    locked,     \* iaxc_locked
    next,       \* the pointers: event_queue (next[HEAD]) and each cell's next
    event,      \* the event stored in each cell
    freed,      \* the cells given back
    mallocs,    \* how many cells were taken
    stack,      \* each thread's calls, the innermost last
    issued,     \* how many events were handed to iaxc_post_event
    calls,      \* how many calls took the lock
    posted,     \* history: the events the callback was given, in order
    broken      \* a pointer was followed that is no pointer any more

heap == <<next, event, freed, mallocs>>
vars == <<owner, locked, heap, stack, issued, calls, posted, broken>>

(* The calls: one that locks, at a point of it, with the cells it has      *)
(* taken off the queue; and iaxc_post_event of an event, with its tail and *)
(* the cell it has malloc'ed.                                              *)
Api(at, cell)           == [at |-> at, cell |-> cell]
Post(at, e, tail, cell) == [at |-> at, e |-> e, tail |-> tail, cell |-> cell]

TypeOK ==
    /\ owner \in Threads \cup {NoThread}
    /\ locked \in {0, 1}
    /\ next \in [{HEAD} \cup Cells -> {NULL, WILD} \cup Cells]
    /\ event \in [Cells -> {Blank} \cup Events]
    /\ freed \subseteq Cells
    /\ mallocs \in 0 .. MaxCells
    /\ issued \in 0 .. MaxEvents /\ calls \in 0 .. MaxCalls
    /\ broken \in BOOLEAN

Init ==
    /\ owner = NoThread /\ locked = 0
    /\ next = [c \in {HEAD} \cup Cells |-> IF c = HEAD THEN NULL ELSE WILD]
    /\ event = [c \in Cells |-> Blank]
    /\ freed = {} /\ mallocs = 0
    /\ stack = [t \in Threads |-> <<>>]
    /\ issued = 0 /\ calls = 0
    /\ posted = <<>>
    /\ broken = FALSE
-----------------------------------------------------------------------------
Idle(t) == stack[t] = <<>>
Top(t)  == stack[t][Len(stack[t])]
At(t, point)   == ~Idle(t) /\ Top(t).at = point
Goto(t, frame) == stack' = [stack EXCEPT ![t][Len(stack[t])] = frame]
Push(t, frame) == stack' = [stack EXCEPT ![t] = Append(@, frame)]
Return(t)      == stack' = [stack EXCEPT ![t] = SubSeq(@, 1, Len(@) - 1)]

(* Where a thread may make a call: nowhere else, or inside the callback.   *)
MayCall(t) == Idle(t) \/ (At(t, "callback") /\ Len(stack[t]) < MaxDepth)

(* Memory that is not, or no longer, a cell: the model stops where it is   *)
(* used, since anything may happen then.                                   *)
Wild(c) == c # HEAD /\ (c \notin Cells \/ c \in freed)
Crash == broken' = TRUE /\ UNCHANGED <<owner, locked, heap, stack, issued, calls, posted>>
-----------------------------------------------------------------------------
(* The calls a thread begins.                                              *)
BeginCall(t) ==
    /\ MayCall(t) /\ calls < MaxCalls
    /\ calls' = calls + 1
    /\ Push(t, Api("lock", NULL))
    /\ UNCHANGED <<owner, locked, heap, issued, posted, broken>>

(* iaxc_post_event, of a call without the lock or inside the section.      *)
BeginPost(t) ==
    /\ MayCall(t) \/ At(t, "inside")
    /\ issued < MaxEvents
    /\ issued' = issued + 1
    /\ Push(t, Post("test", issued', NULL, NULL))
    /\ UNCHANGED <<owner, locked, heap, calls, posted, broken>>

(* get_iaxc_lock. *)
Lock(t) ==
    /\ At(t, "lock") /\ owner = NoThread
    /\ owner' = t
    /\ Goto(t, Api("flag", NULL))
    /\ UNCHANGED <<locked, heap, issued, calls, posted, broken>>

(* Mutant: the flag is not raised. *)
Flag_forgotten(t) ==
    /\ At(t, "flag")
    /\ Goto(t, Api("inside", NULL))
    /\ UNCHANGED <<owner, locked, heap, issued, calls, posted, broken>>

Flag(t) ==
    /\ At(t, "flag")
    /\ locked' = 1
    /\ Goto(t, Api("inside", NULL))
    /\ UNCHANGED <<owner, heap, issued, calls, posted, broken>>

(* put_iaxc_lock. *)
Leave(t) ==
    /\ At(t, "inside")
    /\ Goto(t, Api("take", NULL))
    /\ UNCHANGED <<owner, locked, heap, issued, calls, posted, broken>>

Take(t) ==
    /\ At(t, "take")
    /\ Goto(t, Api("reset", next[HEAD]))
    /\ UNCHANGED <<owner, locked, heap, issued, calls, posted, broken>>

(* Mutant: the list is taken and left in the queue as well. *)
Reset_forgotten(t) ==
    /\ At(t, "reset")
    /\ Goto(t, Api("unflag", Top(t).cell))
    /\ UNCHANGED <<owner, locked, heap, issued, calls, posted, broken>>

Reset(t) ==
    /\ At(t, "reset")
    /\ next' = [next EXCEPT ![HEAD] = NULL]
    /\ Goto(t, Api("unflag", Top(t).cell))
    /\ UNCHANGED <<owner, locked, event, freed, mallocs, issued, calls, posted, broken>>

Unflag(t) ==
    /\ At(t, "unflag")
    /\ locked' = 0
    /\ Goto(t, Api("unlock", Top(t).cell))
    /\ UNCHANGED <<owner, heap, issued, calls, posted, broken>>

Unlock(t) ==
    /\ At(t, "unlock")
    /\ owner' = NoThread
    /\ Goto(t, Api("drain", Top(t).cell))
    /\ UNCHANGED <<locked, heap, issued, calls, posted, broken>>

(* The loop of put_iaxc_lock: an event taken off the queue goes through    *)
(* iaxc_post_event again; its cell is then freed.                          *)
Drain(t) ==
    /\ At(t, "drain") /\ Top(t).cell # NULL
    /\ IF Wild(Top(t).cell) THEN Crash
       ELSE /\ stack' = [stack EXCEPT ![t] =
                          Append([@ EXCEPT ![Len(@)] = Api("next", Top(t).cell)],
                                 Post("test", event[Top(t).cell], NULL, NULL))]
            /\ UNCHANGED <<owner, locked, heap, issued, calls, posted, broken>>

(* Mutant: the next cell is freed in place of the posted one. *)
DrainNext_freesNext(t) ==
    /\ At(t, "next")
    /\ Goto(t, Api("drain", next[Top(t).cell]))
    /\ freed' = freed \cup {next[Top(t).cell]}
    /\ UNCHANGED <<owner, locked, next, event, mallocs, issued, calls, posted, broken>>

DrainNext(t) ==
    /\ At(t, "next")
    /\ Goto(t, Api("drain", next[Top(t).cell]))
    /\ freed' = freed \cup {Top(t).cell}
    /\ UNCHANGED <<owner, locked, next, event, mallocs, issued, calls, posted, broken>>

Drained(t) ==
    /\ At(t, "drain") /\ Top(t).cell = NULL
    /\ Return(t)
    /\ UNCHANGED <<owner, locked, heap, issued, calls, posted, broken>>
-----------------------------------------------------------------------------
(* iaxc_post_event: the client hears of the event now, or the queue keeps  *)
(* it, whoever holds the lock.                                             *)
PostNow(t) ==
    /\ At(t, "test") /\ locked = 0
    /\ posted' = Append(posted, Top(t).e)
    /\ Goto(t, Post("callback", Top(t).e, NULL, NULL))
    /\ UNCHANGED <<owner, locked, heap, issued, calls, broken>>

PostDone(t) ==
    /\ At(t, "callback")
    /\ Return(t)
    /\ UNCHANGED <<owner, locked, heap, issued, calls, posted, broken>>

Enqueue(t) ==
    /\ At(t, "test") /\ locked = 1
    /\ Goto(t, Post("walk", Top(t).e, HEAD, NULL))
    /\ UNCHANGED <<owner, locked, heap, issued, calls, posted, broken>>

(* The tail walks to the end of the list.                                  *)
Walk(t) ==
    /\ At(t, "walk")
    /\ IF Wild(Top(t).tail) THEN Crash
       ELSE LET after == next[Top(t).tail] IN
            /\ IF after = NULL THEN Goto(t, [Top(t) EXCEPT !.at = "link"])
                              ELSE Goto(t, [Top(t) EXCEPT !.tail = after])
            /\ UNCHANGED <<owner, locked, heap, issued, calls, posted, broken>>

(* The new cell is malloc'ed into the place that tail points to; its own   *)
(* pointer is whatever the memory held.                                    *)
Link(t) ==
    /\ At(t, "link") /\ mallocs < MaxCells
    /\ IF Wild(Top(t).tail) THEN Crash
       ELSE /\ mallocs' = mallocs + 1
            /\ \E garbage \in {NULL, WILD} :
                   next' = [next EXCEPT ![Top(t).tail] = mallocs', ![mallocs'] = garbage]
            /\ Goto(t, [Top(t) EXCEPT !.at = "fill", !.cell = mallocs'])
            /\ UNCHANGED <<owner, locked, event, freed, issued, calls, posted, broken>>

(* The event is copied into that cell, or into the one found where tail    *)
(* points to when the compiled code reads it again.                        *)
Fill(t) ==
    /\ At(t, "fill")
    /\ \E cell \in {Top(t).cell, IF Wild(Top(t).tail) THEN WILD ELSE next[Top(t).tail]} :
          IF cell = HEAD \/ Wild(cell) THEN Crash
          ELSE /\ event' = [event EXCEPT ![cell] = Top(t).e]
               /\ next' = [next EXCEPT ![cell] = NULL]
               /\ Return(t)
               /\ UNCHANGED <<owner, locked, freed, mallocs, issued, calls, posted, broken>>
-----------------------------------------------------------------------------
Step(t) == \/ Lock(t) \/ Flag(t) \/ Leave(t) \/ Take(t) \/ Reset(t) \/ Unflag(t)
           \/ Unlock(t) \/ Drain(t) \/ DrainNext(t) \/ Drained(t)
           \/ PostNow(t) \/ PostDone(t) \/ Enqueue(t) \/ Walk(t) \/ Link(t) \/ Fill(t)

Next == ~broken /\ \E t \in Threads : BeginCall(t) \/ BeginPost(t) \/ Step(t)

Spec == Init /\ [][Next]_vars
-----------------------------------------------------------------------------
(* The client's callback never runs in the thread that holds the lock: the *)
(* calls it makes would wait for their own thread for ever.  It rests on   *)
(* iaxc_locked being set by whoever holds the lock, for as long.           *)
NoSelfDeadlock == \A t \in Threads : At(t, "callback") \/ At(t, "lock") => owner # t

(* While no pointer goes wild, an event reaches the client once at most,   *)
(* although every queued event passes through iaxc_post_event again and    *)
(* may be queued a second time by a thread that does not hold the lock.    *)
PostedOnce == \A i, j \in DOMAIN posted : posted[i] = posted[j] /\ posted[i] # Blank => i = j

(* The comment at event_queue (iaxclient_lib.c:90) calls it the queue of   *)
(* the events "waiting to be posted once the library lock is released":    *)
(* once no call is under way, every event was posted, or waits there.      *)
Waiting == {event[c] : c \in {d \in Cells : \E p \in {HEAD} \cup (Cells \ freed) : next[p] = d}}
NothingLost ==
    (\A t \in Threads : Idle(t)) =>
        \A e \in 1 .. issued : e \in Waiting \/ \E i \in DOMAIN posted : posted[i] = e
=============================================================================
