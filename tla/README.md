# TLA+ models of priax

priax is a softphone for the IAX2 protocol, written in C on SDL and on a vendored
copy of the iaxclient library. This directory holds TLA+ models of its core, the TLC
configurations that check them on small instances, and proofs, checked by TLAPS, of
what holds for every size.

Paths below are relative to `src/`. Of the library,
`LIB` is `libs/iaxclient/lib/iaxclient_lib.c`, `IAX` is
`libs/iaxclient/lib/libiax2/src/iax.c`, `JB` is `jitterbuf.c` beside it, and `PA` is
`libs/iaxclient/lib/audio_portaudio.c`.

## 1. The system

### Threads

| thread | started | what it runs |
|---|---|---|
| user interface | `priax.c` main | `KeypadLoop` (`keypad.c`): one key event at a time, through `EV_EventHandler` (`event.c`) or `CR_EventHandler` (`callreg.c`) |
| processing | `iaxc_start_processing_thread` (LIB) | `iaxc_processor`, every few milliseconds: lock, `iaxc_service_network`, `service_audio`, `iaxc_refresh_registrations`, unlock and post the queued events |
| audio callback | PortAudio | fills and empties ring buffers, mixes the list of sounds |
| clock | `clock.c` | draws the time |
| ring speaker | `ringstart` (`iax2.c`) | one thread per incoming call that rings |

The library's state is guarded by one mutex, `iaxc_lock`. Two calls do not take it:
`iaxc_select_call` and `iaxc_answer_call`. priax's own state has no lock at all: the keys
change it in the user interface thread, the library's events in whichever thread posts
them.

### Parts

| part | state | operations | talks to |
|---|---|---|---|
| Call table (LIB) | `calls[]` (state bits, session), `selected_call`, `registrations` | `iaxc_call`, `_select_call`, `_answer_call`, `_reject_call*`, `_dump_call*`, `_register`, `_unregister`; network events; the refresh of registrations | calls libiax2; posts events to the client |
| Event posting (LIB) | `iaxc_lock`, `iaxc_locked`, `event_queue` | `get_iaxc_lock`, `put_iaxc_lock`, `iaxc_post_event` | every call above goes through it; it runs the client's callback |
| Session transport (IAX) | per session: `oseqno`, `rseqno`, `iseqno`, `aseqno`; the retry list `schedq` | `iax_send*`, `send_command_final`, `iax_get_event`, `iax_header_to_event` | UDP; the jitter buffer |
| Session lifetime (IAX) | the list of sessions, addressed by pointer | `iax_session_new`, `iax_find_session`, `destroy_session`, `iax_event_free` | the table's lines and registrations point to sessions |
| Jitter buffer (`jitterbuf.c`) | history of delays, ordered queue of frames | `jb_put`, `jb_get`, `jb_next`, `jb_getall` | between the transport and `iax_get_event` |
| Audio driver (`audio_portaudio.c`) | streams, ring buffers, the list of sounds | `pa_play_sound`, `pa_stop_sound`, `pa_mix_sounds` | `service_audio`, the phone's rings |
| Phone control (`iax2.c`, `event.c`) | its own two lines (`PRIAX_state`), `index`, `current`, `last_active`, `hold_pressed` | the keys talk, hangup, hold, up/down, line 1/2; the event callback `ev_text` | calls the table, hears its events |
| Call register (`callreg.c`) | three rings of past calls, the file `calls` | `PRIAX_LogAdd`, `PRIAX_CallReg`, load, dump at exit | the phone logs calls; the keys redial |
| Keypad, display, start-up | what is on the screen; the configuration | drawing, parsing | everything |

The table calls libiax2 under the lock; libiax2 never calls back, but returns events one
at a time from `iax_get_event`, each with the *address* of its session. The table finds
the line or the registration that points to this address and updates it. What the phone
must hear of is posted: at once when the library is not locked, else queued and posted
by whoever unlocks it. The phone keeps lines of its own beside those of the table
(`iax2.h`: "we _can't_ rely on libiaxclient's state") and follows the table by these
events, mostly by their text.

### Hard behaviours

- **Two threads and a queue without a lock.** Events posted by the calls that hold no
  lock meet the critical sections of the others at every memory access.
- **Addresses as names.** Lines, registrations, retried frames and ping timers name a
  session by its address, and the address of a destroyed session is reused.
- **A network that loses, duplicates and reorders**, under sequence numbers of one byte.
- **Ends that are not acknowledged.** A session is destroyed as soon as its last frame
  was sent once.
- **Two tables of lines** that only events keep in step, while keys and network act.
- **Long-lived data at its limits**: the jitter buffer's history and the call register's
  rings wrap around; the register is dumped at exit and loaded late.

`PROJECT.json` lists these hazards at their lines, with the properties that cover them.

## 2. The modules

| module | models | composed with |
|---|---|---|
| `CallTable` | the call table, its registrations, and the life of the sessions they own | instantiates `LineTable` |
| `LineTable` | abstract: what the phone may rely on of the table's lines | |
| `CallTableProofs` | theorems about `CallTable` | extends it and `Recursion` |
| `Phone` | the phone's own lines, its keys and its handler of texts | extends `CallTable` |
| `PhoneProofs` | theorems about `Phone` | extends it and `CallTableProofs` |
| `PostQueue` | the lock, the flag and the queue of events, one memory access per step | |
| `PostQueueProofs` | theorems about `PostQueue` | extends it |
| `IaxLink` | the full frames of one session between two ends running `iax.c`, with the network between them | instantiates `ReliableFifo` |
| `ReliableFifo` | abstract: two queues, in order and without loss while both ends stay | |
| `IaxLinkProofs` | theorems about `IaxLink` | extends it |
| `JitterBuf` | the jitter buffer, and the polling and filing of `iax.c` that drive it | instantiates `Playout` |
| `Playout` | abstract: events that wait, leave once, in order, and are lost only if they are voice | |
| `MiniFrames` | the 16-bit times of voice frames | |
| `JitterBufProofs` | theorems about `JitterBuf` and `MiniFrames` | extends both and `Recursion` |
| `CallLog` | the call register: rings, pages, redial, and the file over restarts | |
| `CallLogProofs` | theorems about `CallLog` | extends it and `Recursion` |
| `SoundList` | the list of sounds, the mixer, and the phone's tones | |
| `SoundListProofs` | theorems about `SoundList` | extends it and `Recursion` |
| `Recursion` | lemmas for all of the proofs: induction, and the existence of recursive functions | |
| `MC...` | the instances TLC checks: symmetry, view, constraint, constants | one per component |

Definitions whose comment begins with "Mutant" change one definition the way a slip in
the code would; `PROJECT.json` names, for each property checked, a mutant that breaks it.
No specification uses them.

### CallTable

`state` and `session` are the fields of `calls[c]`; a state is the set of its
`IAXC_CALL_STATE_*` bits, FREE the empty set. `selected_call` is the variable of that
name. `registered` and `regsession` are the list of registrations. `life` is what
libiax2 knows of each session object: not on its list (`dead`), created by a frame from
the network (`offered`), taken or made by the table (`up`), or ended by a frame that
could not be sent (`final`). `finals` are the addresses that final frames on `schedq`
still name. `posted` is what the step gave to `iaxc_post_event`, in order; `astray` is a
history variable.

An action is one critical section, or one call of the functions without a lock:
`Call`, `Select`, `SelectNone`, `Answer`, `RejectCall`, `DumpCall`, `DumpAll`,
`Register`, `Unregister` are the client's, `Connect` to `RegReply` the arms of
`iaxc_service_network` and `iaxc_handle_network_event`, each with the `iax_event_free`
that follows it, `Refresh` the timer of registrations. `Offer`, `FinalSpent` and
`AcceptUnoffered` are the steps of `iax.c` that create or destroy a session on their
own. A session that is created takes any address at which no session lives: dangling
pointers therefore become live again, as they do with `malloc`.

`RejectCall` on a line without a session hands NULL to libiax2, which fails to send and
changes nothing; `Answer` and `Select` ask nothing of the line, as in the code. Audio,
codecs, URLs, texts, DTMF, netstats and blind transfer leave all of this alone and are
left out. The peer may do anything: any event can arrive for any session that lives.

`LineTable` forgets the sessions: a line has no call, one placed or one that came in; a
set of lines rings; one line is selected. It says that only the client moves the
selection, that a call comes in, ringing, on a line without one, that to select a
ringing call is to answer it, and that a call keeps its direction until it ends. It is
what the phone has of the table.

### PostQueue

A step is one access to `iaxc_lock`, `iaxc_locked` or a pointer of `event_queue`. Each
thread has a stack of calls: one that locks (`Api`), or `iaxc_post_event` (`Post`), and
above the latter the calls the client's callback makes. Cells of the queue are
`malloc`ed once each; the memory of a new cell is uninitialised (`Link` gives its
pointer any value), `event->next` is written after the cell is linked, and a freed cell
or a wild pointer that is followed sets `broken` and ends the behaviour, for then
anything may happen. Which of the two equal expressions `*tail` the compiled code reads
again is left open (`Fill`).

### IaxLink

Both ends run the same code. Sequence numbers are counted without wrapping, and every
test of the code is applied to them modulo `M`, so that properties can name frames.
`retry` is `schedq`, `tries` its retries, `life` the session object; `net` is what is in
flight: a frame sent is lost or joins it, and stays there to be received again, in any
order. `Send` stands for every full frame but the last, `Close` for HANGUP and REJECT,
`Receive` for `iax_header_to_event` with its acknowledgement, VNAK and window tests,
`Resend`, `Spent` and `FinalDone` for the three fates of a frame that comes up on
`schedq`, `Hear` for the peer's final frame coming out of the jitter buffer.

Numbers that wrap can only be told apart if no frame outlives `M` later ones. The code
takes this for granted (256 frames would have to be outstanding); `MayNumber` and
`Young` state it as an assumption on the applications and the network.

### Phone

`Phone` extends `CallTable`: the library's state is there with the phone's own. `shown[c]`
is `callinfo[c].PRIAX_state`; `index`, `last_active`, `line_id` (a static of the handler)
and `hold_pressed` (a static of `event.c`) are the variables of those names. `todo` holds,
for the user interface thread and for the processing thread, what is left of the handler
it is in: a handler is cut at its `iaxc_*` calls, so that an action is one call to the
library together with the phone's own statements up to the next one. `Serve` is one
network event, with the texts it posts queued for `ev_text`; `HangupKey`, `TalkKey`
(with `PickUp` and `Dial`), `HoldKey`, `LineKey`, `DialKey` are the keys, `OnIncoming`,
`OnAccepted`, `OnAnswered`, `OnDisconnected`, `OnHanging`, `OnRejected` the arms of
`handle_status`, `HungUp` what `priv_hangup` does after its call to the library, `Quit`
the shutdown.

Between two such actions the other thread may do anything. `noted` and `dialled` are
history: the lines whose call rings and was marked on that line, and the line that is
selected because a call was placed on it and not accepted yet. They say of which calls
the properties speak, and no action reads them.

Only texts `ev_text` acts upon are kept. The phone is taken to be registered and a
number to be typed in whenever it dials; leds, animations, sounds, volume and mute do not
touch the lines.

### JitterBuf and MiniFrames

`info` is `jb->info` without its statistics, `history`, `hist_ptr`, `hist_maxbuf`,
`hist_minbuf`, `hist_maxbuf_valid` are the fields of those names, `frames` and `free` the
heads of the circular queue and of the free list, `next`, `prev` and `cell` the
`jb_frame` objects, pointer by pointer. `schedule_delivery` is the function of `iax.c`
around `jb_put`, split into its four outcomes; `jb_get` is the poll of `iax_get_event`
with a disjunct for each way through `_jb_get`. Every constant the code writes as a
number of milliseconds is a CONSTANT, so that few instants suffice. `history_put` reads
the delay it is about to overwrite at `hist_ptr & JB_HISTORY_SZ` (`Kicked`), which is not
where it writes; when the index is past the array, what lies there is `hist_ptr`.

`Playout` is what the caller may expect: an event is refused on arrival or waits; those
that wait leave one at a time, the earliest first and in order of arrival among equals;
only voice is thrown away.

`JitterBuf` files events by the sender's time. `MiniFrames` has the functions of `iax.c`
that restore this time from the 16 bits of a mini frame; that they do if the newest time
known is near enough is a theorem of `JitterBufProofs`.

### CallLog

A ring is an array with the number of times it was written (`pos`), as in the code; the
macros `SL_POS` and its like are `Newest`, -1 for an empty ring as in C. `Loaded` and
`Dumped` are the two directions of the file, `Exit` and `Killed` end one run of the phone
and begin the next. `memset(log, 0, MAX)` clears bytes and not records, so that `Loaded`
leaves the slots it does not fill as they were. What lies outside of the array
(`RecordNumber`) may be any number or none. `calls` is history: the calls that there
were, for the properties to compare with; `spoilt` marks the runs of the phone in which
the register was opened after its first call, or never (section 5).

### SoundList

`sounds` is the list, newest first; an entry has its number, which sound of the phone it
copies, its device, position and remaining repetitions. `loaded` is chosen at the start:
each sound comes from its file, from the built-in tone, or from nothing. `MixSounds` is
`pa_mix_sounds` on one buffer: `Sample` takes the samples one at a time where the code
takes them in runs, `Visit` is the walk along the list, which passes over the sound behind
one that is removed. `StopSound` unlinks what the code's loop unlinks. `RingStart`,
`RingBackStart` and `RingStop` are the phone's; that any of them may happen at any time is
more than the phone does. `released` are the sounds whose data the library has freed. To
play such a sound again is undefined; the model goes on with the lengths, which are not
in the freed memory.

## 3. What is checked

| run | instance | distinct states | shows |
|---|---|---|---|
| `call_table` | 2 lines, 3 session addresses, 1 registration | 273,720 | `TypeOK`, `LineHasCall`, `NoSharedSession`, `SessionsOwned`, `OneSelected`; no step violates `NeverDisplaced` or `NoSilentChange`; `CallTable` implements `LineTable` (`PhoneSafety`) |
| `phone` | 2 lines, 2 session addresses, both threads | about 818,600 | `PhoneTypeOK`, `StaysAnswerable`, `HeardIsShown` |
| `link` | M = 4, one end sends 3 frames and its last, 1 retry, 2 frames in flight | 228,307 | `InOrder`, `AckSound`, `NothingForgotten`; `IaxLink` implements `ReliableFifo` (`FifoSafety`, `FifoLiveness`); `NotHalfOpen` |
| `post_queue` | 2 threads, 3 events, 3 locking calls, nesting 3, 5 cells | 1,612,967 | `NoSelfDeadlock`, `PostedOnce` |
| `jitterbuf` | 3 events in a history of 3, 7 instants, late and early by 3 | 344,031 | `WellLinked`, `CalcExact`, `JitterSane`, `NextStillValid`; `JitterBuf` implements `Playout` (`PlayoutSafety`) |
| `call_log` | 2 types, 2 numbers, rings of 3 written up to 5 times, any number of restarts | 728,613 | `NewestFirst`, `RecordOnTop` |
| `sounds` | 2 lines, 4 sounds played, buffers of 4 samples | 129,130 | `PlayedOut`, `RingsSurvive`; no step violates `ToneStops` |
| `call_end`, `call_reuse`, `phone_muted`, `jitter_cache`, `post_lost` | small | | end in the counterexamples of section 5 |

**Bounds.** Two lines is what priax allocates (`MAXLINES`); three session addresses let
both lines and the registration own one, and two owners, of which one has lost its
session, meet at the same address. `MaxReg` bounds the ids of registrations: priax
registers once. `OnCourse` in `MCCallTable` and `MCPhone` stops TLC after the step in
which libiax2 destroys a session under its owner (the defects of section 5: the ownership
properties say nothing after it), and in `MCCallTable` keeps to one address named by a final
frame at a time; the step that leaves the constraint is still checked.

The phone has the lines and the threads it has in the code: two of each. Two session
addresses let each line have a call, and a line that loses its call get another at the
same address while a handler is still at work on the end of the first; a session that is
offered waits for one of them. The registration is left out (`MaxReg` 0), as it touches no
line. `OnCourse` in `MCPhone` also stops at a session whose HANGUP could not be sent, which
is the question of `call_table`, and at the end of `iaxc_shutdown`.

In `link`, two frames and the last one may be outstanding at once, two in flight are the
least that can be reordered, and the acknowledgement of the last frame wraps around to
the number of the first. Frames whose own numbers wrap would take TLC longer than the
liveness properties allow; that the safety properties hold across any number of wraps,
for every `M`, is proved (section 4).

In `post_queue`, the second event is needed to walk the list past a cell that is being
drained, the third to queue one a second time; a callback that makes a locking call whose
events call back again needs nesting 3.

In `jitterbuf`, three events are what a splice in the middle of the list takes, the
history of three is full after them, and seven instants let a frame be due, early, and
late by more than the time a buffer shrinks in. Times shorter than one frame of voice are
not told apart. `MCJitterBuf` also evaluates the statement of `MiniFiledRight` for every
pair of times up to the third wrap.

In `call_log`, rings of three go round with the fourth call, and a full one has a slot
that is neither the oldest nor the newest. `OnTime` in `MCCallLog` does not follow a
register that was opened too late: neither property speaks of it.

In `sounds`, the built-in tone, three samples played twice, starts again within a buffer
of four and ends in the middle of the next; with four sounds in the list one can be
removed, one passed over behind it, and one stopped among the others.

**Symmetry and view.** Session addresses, threads, numbers and `jb_frame` objects are
interchangeable and the specifications choose none of them; no run with symmetry checks
liveness. The views of `MCCallTable` and `MCPhone` leave out `posted`, which every step
writes and only the same step reads. That of `MCPhone` also leaves out what nothing that
follows can tell apart: bits of an ACTIVE line and marks of the phone's lines that no guard
reads, which line `line_id` names once it names one, and the final frames, whose steps a
session that lives survives only as `Withdraw` lets it. TLC counts a state by the
representative it meets first, so that the number of states varies a little.

**Fairness** is assumed in `link` only, and matters to `NotHalfOpen` and `FifoLiveness`:
each end's timers are served, an end that is up keeps sending (its ping), and what is in
the jitter buffer comes out. The processing thread justifies these: it comes round every
few milliseconds for as long as the program runs, serves everything in `schedq` that is
due, and sends a ping for each live session. Nothing is assumed of the network, which may
lose everything.

**Deadlock** is checked in the runs of the call table, of `call_log` and of `sounds`.
`IaxLink` ends when both sessions are gone, `PostQueue` when its events and calls are used
up or `broken` is set, `Phone` when the user quits, and the clock of `JitterBuf` stops at
its bound.

## 4. What is proved

For every number of lines, sessions, registrations, threads, events, sequence numbers,
frames and slots:

| theorem | statement |
|---|---|
| `TypeCorrect`, `LineHasCallAlways`, `OneSelectedAlways` | `Spec => []TypeOK`, `[]LineHasCall`, `[]OneSelected` of `CallTable` |
| `OwnersOrAstray` | `Spec => [](Owners \/ astray # {})` |
| `NoSharedSessionAlways`, `SessionsOwnedAlways` | the two invariants the runs check, which follow from it |
| `NeverDisplacedHolds` | `Spec => NeverDisplaced`, an action property |
| `NoSilentChangeHolds` | `Spec => NoSilentChange`, an action property |
| `TableImplementsLines` | `Spec => PhoneSafety`: the call table implements `LineTable` |
| `PhoneTypeCorrect` | `PhoneSpec => []PhoneTypeOK` |
| `PhoneUsesTable` | `PhoneSpec => Spec`: the phone with its keys is a behaviour of the call table |
| `TableUnderPhone` | what is proved of `CallTable` holds under the phone |
| `StaysAnswerableAlways`, `HeardIsShownAlways` | `PhoneSpec => []StaysAnswerable`, `[]HeardIsShown` |
| `NoSelfDeadlockAlways`, `PostedOnceAlways`, `QueueTypeCorrect` | `Spec => []NoSelfDeadlock`, `[]PostedOnce`, `[]TypeOK` of `PostQueue` |
| `LinkTypeCorrect`, `InOrderAlways`, `AckSoundAlways`, `NothingForgottenAlways` | the four invariants of `IaxLink` |
| `LinkImplementsFifo` | `Spec => FifoSafety`: the transport implements the safety part of `ReliableFifo` |
| `JitterTypeCorrect`, `WellLinkedAlways`, `CalcExactAlways`, `JitterSaneAlways` | the four invariants of `JitterBuf` |
| `NextStillValidAlways` | `Spec => NextStillValid`, an action property |
| `BufferImplementsPlayout` | `Spec => PlayoutSafety`: the jitter buffer implements `Playout` |
| `MiniFiledRight`, `FullFiledRight` | the time of a voice frame is restored if the newest known is less than `WRAP - BIG` away (15.5 s), that of a full frame if it is at most `BIG` away (50 s) |
| `LogTypeCorrect`, `NewestFirstAlways`, `RecordOnTopAlways` | the three invariants of `CallLog` |
| `SoundTypeCorrect`, `PlayedOutAlways` | `Spec => []TypeOK`, `[]PlayedOut` of `SoundList` |
| `ToneStopsHolds`, `RingsSurviveAlways` | `Lines \subseteq {0, 1} /\ Spec => ToneStops`, `[]RingsSurvive` |

The assumptions are those the modules name: at least one line (`NCallsAssumption`), NULL
is no session (`NoSessionAssumption`), nobody is no thread (`ThreadAssumption`), two ends
(`EndsAssumption`), at least one slot and one type of calls (`SizesAssumption`), a jump
taken for a wrap that is at least half of one (`WrapAssumption`), fewer than half of the
delays dropped as outliers (`OutlierAssumption`; `jitterbuf.h` has 3 %), delays well inside
a long (`TimesAssumption`), sounds and buffers with at least one sample
(`SoundsAssumption`), and bounds that are natural numbers. One hypothesis is the table's:
that priax has the lines 0 and 1 and no other (`MAXLINES`), for two of the sounds'
theorems. The theorems about the phone hold for any number of lines, with both threads.

*Call table.* `TypeOK`, `LineHasCall` and `OneSelected` are inductive, given `TypeOK`.
The ownership of sessions is not: a registration that is off the list must have no
session, or its id, given out again, would share one; `RegIdsFresh` says so, and
`Owners` is `astray = {}` with `TypeOK`, `NoSharedSession`, `SessionsOwned` and
`RegIdsFresh`. The proof sorts the actions into four kinds (no owner changes, a line
takes a session, a line drops its session, a registration changes), with one lemma
each. `Owners` lasts until a step makes `astray` non-empty, and `astray` never shrinks:
hence the disjunction in `OwnersOrAstray`. That a line is never given a second session
(`NeverDisplaced`) follows from `LineHasCall`, because both places that fill a line find
it not ACTIVE.

`NoSilentChange` needs what `iaxc_dump_all_calls` posts, which is a recursive function of
the number of lines: that this function exists (`DumpedIs`), and, by induction, that the
event of each line that was not FREE is in it (`DumpTellsAll`).

*Refinement.* Only three bits of a line enter the mapping. `CallTableProofs` has a
lemma for each kind of step of `LineTable`, from what happens to these bits, and
`TableStep` assigns each action of the table to one of them or to a stutter, given
`TypeOK` and `LineHasCall`. It needs no assumption on `astray`.

*Phone.* Every action of the phone makes one call to the library or none, but a call of
the table needs a line of the table: `index`, `last_active`, `line_id` and the lines named
in `todo` come from texts. `PhoneTypeOK` is therefore proved first, and `PhoneUsesTable`
from it, one action at a time.

Neither of the phone's two properties is inductive. For `StaysAnswerable` it must be known
what the threads are about to do to a line that is marked. `Queues` says of `todo` that the
second half of a hangup is what a thread does next, or it is not waiting for one: nothing
that a step posts makes one wait behind a text, since `Heeds`, a recursive function of what
is posted, keeps the texts the phone acts on and nothing else (`HeedsFacts`). `NotedInv`
adds that no thread is about to clear the marks of a line in `noted`. The steps that matter
are the first halves of a hangup: each ends the call of the line whose marks the second
half clears, and so takes the line out of `noted`, whichever line the text was about.

For `HeardIsShown`, `index` and `current` must be known to differ only in the user
interface thread's window between the two halves of a line key (`InWindow`), in which
nothing is selected; `HeardInv` says so. A line the library selects for a call that was
placed is in `dialled`, and it leaves it when "accepted" has moved the phone to that line.

*Event queue.* `NoSelfDeadlock` speaks of a thread's innermost call, and is not
inductive: when the callback returns, the calls below it count. `LockInv` speaks of all
of a thread's calls: the call that holds the lock is the innermost, or the innermost but
one while it queues an event; the owner is the thread that has such a call; and while
that call is inside, `iaxc_locked` is 1. The step that matters is `PostNow`: it found
`iaxc_locked` 0, so no call below it can be inside.

`PostedOnce` follows an event through the queue. `QueueInv` says that it is in one place
at most: with the client, with one call that posts it, or in one cell nobody has posted
from (`OneHolder`). For a step not to make two of one, the cells must be apart, which is
`HeapInv`: one pointer leads to a cell, no two calls hold the same one, and what a call
holds is not freed, and no longer in the queue once the head is reset. The walk over the queue is thereby replaced by
facts about single pointers.

*Transport.* The code compares numbers modulo `M`, the properties compare frames. What
links the two is that numbers less than `M` apart are equal if they are equal modulo `M`
(`ModUnique`, from division by `M`, which is a variable to the provers). `LinkInv` keeps
everything that is compared that close: acknowledged, taken and sent follow each other
(`rseq <= iseq of the peer <= oseq`) within fewer than `M`, one number being kept for the
final frame (`Spare`); what waits on `schedq` and what is in flight carries numbers not
older than `M`. The latter is the assumption of `MayNumber` and `Young`, turned into an
invariant. Then each test of the code decides what it should, `got` is exactly the peer's
frames up to `iseq`, and the refinement follows step by step.

*Jitter buffer.* `JitterInv` has three parts. `HistInv`: as long as the extremes are said to
be valid they are in order and either those of the history or, after a delay has left that
was one of them (section 5), at least not crossed; `Jitter` is their difference, at an
index that `OutlierAssumption` keeps small. That `history_calc_maxbuf` finds the
extremes, `CalcExact`, is an induction over its loop with an insertion per delay.
`InfoInv`: the other fields. `QueueInv`: there are two sequences of cells, the queue and the
free list, with no cell twice, such that the pointers lead from each cell of the first to
the next, back, and around, and the times are in order (`Lists`). Each action does one of
five things to them: a frame is put before the first later one, refused, taken, flushed, or
they stay. From the sequences follow `WellLinked`, the answer of `jb_next`, and the
refinement: what waits in `Playout` is found by a recursive walk along the pointers, which
is shown to visit the first sequence.

*Mini frames.* Division by `WRAP` splits a time in two, and the cases of
`unwrap_timestamp` are told apart by linear arithmetic.

*Sounds.* `SoundInv` gives an account of every entry: it was heard in full once for each
repetition that is used up, and up to its position since (`Good`). A buffer is a loop
over samples (`After`) inside a loop over entries (`MixFrom`), and the account is kept by
each round of either; `Mixed` says what the walk has kept of the entries it passed. With
the lines 0 and 1, stopping a sound asks for a number that no sound has, or only the
oldest, and every sound that is passed on the way is unlinked (`StoppedAll`), the tones of
the line among them (`ToneStops`). The first sound played is the only one that can be
found, and so the only endless one that loses its data (`RingsInv`).

*Recursion.* The library's theorems on induction and recursive definitions take an operator
as a parameter. `Recursion` states what is needed of them with sets and functions: a set
of numbers with 0 and all successors has every number (`AllNumbers`, from the well-founded
order of Nat), a loop has a record of its rounds (`LoopRuns`), and what each round keeps
holds after all (`LoopKeeps`). The definition of a recursive function in the models is a
CHOOSE, which can be used once a function like that is known to exist; `LoopRuns` gives it.

*Call register.* `LogInv` has, for each type of calls, `Ring` (the slots behind `pos` are
the calls, newest first, and what was never written is blank), `Lists` and `Tidy` (the
file is the calls and nothing after them), `Kept` (which of the two holds when: before the
register is opened the calls of earlier runs are in the file, and a call logged then
spoils the run), and `OnPage` (no page is scrolled past its calls until its ring goes
round; `RecordOnTop` needs it). The steps that matter are `Exit`, where a ring becomes a
file, and `CallReg`, where the file becomes a ring read backwards; both need that the
blanks of an array lie together.

Model-checked only:
- Liveness, `NotHalfOpen` and `FifoLiveness`: fairness and ENABLED are out of the prover's
  reach.

Every other property of a run that passes has a theorem.

## 5. What the code does otherwise

Each of these is a run that TLC ends with a counterexample; `PROJECT.json` quotes the
lines.

1. **`call_end`** (IAX:2591). An ACCEPT of a codec that was not offered: REJECT is sent,
   which destroys the session *and its jitter buffer*; the event meant to tell the
   application is then filed in that jitter buffer. The line stays ACTIVE for ever.
   Counterexample: `Call`, `AcceptUnoffered`.
2. **`call_reuse`** (IAX:2971). A HANGUP frame stays on `schedq` under the address of
   the session it destroyed. If the next call's session is allocated there, it is
   destroyed when that frame comes up. `Call`, `DumpCall`, `Call`, `FinalSpent`.
3. **`post_lost`** (LIB:114). `put_iaxc_lock` copies `event_queue` and then resets it; an
   event queued in between by a thread without the lock is lost.
4. **`phone_muted`** (`iax2.c:339`). A call that is placed selects its line; if it times
   out or is busy, nothing takes the selection back, and the next call that comes in on
   that line is heard before it is answered, against `iax2.c:790`.
5. **`jitter_cache`** (JB:158). `history_put` looks up the delay that leaves the history
   with `&` where it should use `%`: the cached extremes outlive it, and for many values
   of `hist_ptr` the read is past the array.

The following came up while modelling. They contradict no promise that the code or its
comments make in so many words, or they lie beside a property that says what does hold.

- **The phone on two lines.** It follows the library by texts most of which name no line,
  so that the other line suffers. The traces are short:
  - *The wrong call is hung up* (`iax2.c:258`). A call is dialled and answered on one line,
    another comes in on the other: `last_active` is the second. The peer of the first hangs
    up, and "Call disconnected by remote" ends the second.
  - *A call is not marked* (`iax2.c:289`). The user has shown line 2, nobody is talking, a
    call comes in on the library's first free line, which is line 1: RINGING and INCOMING
    go to line 2. Line 1 rings with no mark; the talk key on it would dial. This is why
    `StaysAnswerable` speaks of calls that were marked on their line.
  - *A mark outlives its call, or is copied over another* (`iax2.c:303`). A number is
    dialled on line 1, the key of line 2 pressed, and the text "accepted" copies the state
    of line 2 over the OUTGOING of line 1. A number dialled while the shown line has a call
    goes to the other line: "accepted" moves `index` there, and the line that is left keeps
    all marks, because `memset(&p->private.current, ...)` clears the pointer and what
    follows it (`iax2.c:308`).
  - "answered" marks the line that is shown, whichever answered (`iax2.c:330`).
  - *Between the halves of the hangup key* a call that comes in on the line is marked, and
    the second half clears the mark.
- **Keys.** `hold_pressed` belongs to both lines (`event.c:140`): held on one and pressed
  on the other, the key unholds. The previous and next keys move `index` before they
  move `current`.
- **Final frames** are described by the comments of `iax_get_event` as retried until
  acknowledged; one that was sent is never retried (IAX:1171). The peer finds out by its
  own pings timing out, which is what `NotHalfOpen` shows.
- **The file of calls** is written at exit whether or not it was read: leave without
  opening the register and it is emptied of all but this run's calls. Opening it late
  overwrites this run's (`spoilt`). `CR_CurrentRecord` is -1 on an empty ring and, when
  scrolled after a wrap, negative (`callreg.c:80`); the caller also writes a date there.
  Any key without a name dials the record again.
- **Jitter buffer.** With the head of the queue at or before time 0 in silence, `jb_next`
  is LONGMAX and the queue is not polled until an earlier event comes (JB:749).
  `jb_reset` forgets the free list. A silence frame that comes late sets
  `silence_begin_ts` back, and voice older than what was played is played after it.
- **Mini frames.** After more than 15.5 s without news of the time, across a wrap, voice
  is filed 65 s off and dropped as late.
- **Transfers.** `complete_transfer` resets `oseqno`, `iseqno` and `aseqno` but not
  `rseqno`; `stop_transfer` cancels the retries of every frame; a TXREJ goes to the
  address that could not be reached.
- **Sounds.** `iaxc_stop_sound` is to stop the sound with the given number
  (`iaxclient.h`), and `pa_stop_sound` unlinks every sound it passes (PA:315); the phone
  gives it the line's number, where sounds are numbered from 1. On the lines 0 and 1 the
  tones of the line do stop (`ToneStops`), and so does everything else that was playing,
  other lines' rings included. With a third line they need not. After removing a sound
  that is over, `pa_mix_sounds` passes over the next one for one buffer, which the comment
  "don't advance if we removed this member" (PA:280) excludes. The data of a sound that is
  stopped by its number, or has played out, is freed and played again at the next call.
  `ringload` is called once more than there are lines (`iax2.c:784`), and takes a file's
  bytes for samples, of which there are half as many: the second half of a ring is
  silence.
- **Shutdown.** `iaxc_shutdown` destroys the lock without stopping the processing thread.

## 6. What is not modelled, and why

- **Statement-level races in `iaxc_select_call` and `iaxc_answer_call`.** `CallTable`
  takes each call as a whole; `PostQueue` shows what the missing lock does to events.
- **Statement-level races in the phone's handlers.** `Phone` lets the other thread in at
  each call to the library; what a handler does to the phone's own lines between two such
  calls is one step.
- **Times**, outside of `JitterBuf` and `MiniFrames`. Any frame that is scheduled may be
  due, any registration may be refreshed; the order in which frames of `schedq` come up is left open.
- **libiax2's transfers, trunks, authentication and IE encodings**, and the ping and lag
  timers that outlive their session. A transfer has three parties and renumbers both
  ends of a link in mid-call; it wants a model of its own.
- **Of the phone**: registration, DTMF, volume and mute keys, the transfer key, the number
  being edited, and the drawing.
- **Of the call register**: dates and drawing.
- **Of the audio driver**: streams, ring buffers, the echo canceller, mixers and levels;
  the values of samples.
- **Codecs and filters**: numeric transforms without protocol state.
- **Keypad, display, tray, start-up, configuration**: drawing, parsing and straight-line
  initialisation; the keys enter as `Phone`'s actions.
- **The address book**: its only call is commented out.
- **Vendored third-party code** (PortAudio, Speex, GSM, SoX, spandsp and their tools),
  which is by far the larger part of the tree, and the installer.

## 7. Plan

What is left, in this order:

1. **IaxLink, extended**: transfers, with the numbers reset while frames of the old path
   arrive; ping timers that outlive a session, ordered by the addresses of `CallTable`.
2. **Phone, extended**: registration and its texts; what the phone may rely on of the texts
   when they name a line.
3. **Proofs**: the delay of a voice frame in the jitter buffer.
