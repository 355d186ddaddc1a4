----------------------------- MODULE JitterBuf -----------------------------
(***************************************************************************)
(* The jitter buffer of libiax2 (jitterbuf.c) and the caller that polls it *)
(* (iax_get_event): the history of delays with its cached extremes, the    *)
(* circular list of frames and its free list, pointer by pointer, and      *)
(* every branch of _jb_get.  Times are integers in any unit: the           *)
(* milliseconds that the code writes into its tests are constants here.    *)
(* Statistics that nothing reads (late, lost, loss percentage) are left    *)
(* out.                                                                    *)
(***************************************************************************)
EXTENDS Integers, Sequences, SequencesExt

CONSTANTS
    HISTORY_SZ, MAXBUF_SZ,   \* slots of the history, and of its extremes
    DROPPCT,                 \* percentage of the history taken for outliers
    TARGET_EXTRA, ADJUST_DELAY,
    SHRINK_EMPTY, SHRINK_FULL, SHRINK_SILENT,  \* 80, 500 and 10 ms
    resync_threshold, max_jitterbuf, max_contig_interp,   \* jb_conf
    DISCONT_LIMIT,           \* 3: discontinuous delays before a resync
    LONGMAX,
    Cells, NULL,             \* the jb_frame objects malloc can give
    Spans,                   \* lengths of voice frames
    Interpl,                 \* length of an interpolated frame
    Delays,                  \* how late, or early, frames come
    MaxIn, MaxNow            \* bounds: events received, and the clock

ASSUME SizesAssumption ==
    /\ HISTORY_SZ \in Nat \ {0} /\ MAXBUF_SZ \in Nat \ {0}
    /\ DROPPCT \in 0 .. 100 /\ DISCONT_LIMIT \in Nat
    /\ NULL \notin Cells
    /\ MaxIn \in Nat /\ MaxNow \in Nat /\ LONGMAX \in Nat
    /\ Delays \subseteq Int /\ Spans \subseteq Nat

(* Less than half of the history are outliers, at either end (the 3 of     *)
(* JB_HISTORY_DROPPCT, or the 34 of the small models).                     *)
ASSUME OutlierAssumption == DROPPCT < 50

(* Times are integers, and jb_conf's limits; delays lie well inside a long. *)
ASSUME TimesAssumption ==
    /\ {TARGET_EXTRA, ADJUST_DELAY, SHRINK_EMPTY, SHRINK_FULL, SHRINK_SILENT,
        resync_threshold, max_jitterbuf, max_contig_interp, Interpl} \subseteq Int
    /\ \A d, e \in Delays \cup {0} : d - e < LONGMAX /\ e - d < LONGMAX

Types == {"control", "voice", "silence"}
Slots == 0 .. (HISTORY_SZ - 1)
LONGMIN == -LONGMAX - 1

VARIABLES
    now,                \* the receiver's clock, since rxcore
    info,               \* jb->info, without its statistics and settings
    history, hist_ptr, hist_maxbuf, hist_minbuf, hist_maxbuf_valid,
    frames, free,       \* head of the queue, head of the free list
    next, prev, cell,   \* the jb_frame objects: pointers, [data, ts, ms, type]
    arrived,            \* how many events schedule_delivery was given
    ret                 \* what the last call returned: [code, data]

hist  == <<history, hist_ptr, hist_maxbuf, hist_minbuf, hist_maxbuf_valid>>
queue == <<frames, free, next, prev, cell>>
vars  == <<now, info, hist, queue, arrived, ret>>

NoFrame == [data |-> 0, ts |-> 0, ms |-> 0, type |-> "control"]
Returned(code, data) == ret' = [code |-> code, data |-> data]

(* jb_reset, on a buffer whose memory is zero afterwards. *)
FreshInfo == [frames_cur |-> 0, jitter |-> 0, min |-> 0,
              current |-> TARGET_EXTRA, target |-> TARGET_EXTRA,
              next_voice_ts |-> 0, last_voice_ms |-> 0,
              silence_begin_ts |-> -1, last_adjustment |-> 0,
              last_delay |-> 0, cnt_delay_discont |-> 0,
              resync_offset |-> 0, cnt_contig_interp |-> 0]

TypeOK ==
    /\ now \in 0 .. MaxNow
    /\ DOMAIN info = DOMAIN FreshInfo
    /\ \A f \in DOMAIN info : info[f] \in Int
    /\ info.frames_cur \in Nat
    /\ history \in [Slots -> Int]
    /\ hist_ptr \in 0 .. MaxIn
    /\ hist_maxbuf \in [1 .. MAXBUF_SZ -> Int]
    /\ hist_minbuf \in [1 .. MAXBUF_SZ -> Int]
    /\ hist_maxbuf_valid \in BOOLEAN
    /\ frames \in Cells \cup {NULL} /\ free \in Cells \cup {NULL}
    /\ next \in [Cells -> Cells \cup {NULL}]
    /\ prev \in [Cells -> Cells \cup {NULL}]
    /\ cell \in [Cells -> [data : 0 .. MaxIn, ts : Int, ms : Nat, type : Types]]
    /\ arrived \in 0 .. MaxIn

Zeroes == [i \in 1 .. MAXBUF_SZ |-> 0]

Init ==
    /\ now = 0 /\ arrived = 0
    /\ info = FreshInfo
    /\ history = [i \in Slots |-> 0]
    /\ hist_ptr = 0 /\ hist_maxbuf = Zeroes /\ hist_minbuf = Zeroes
    /\ hist_maxbuf_valid = FALSE
    /\ frames = NULL /\ free = NULL
    /\ next = [c \in Cells |-> NULL] /\ prev = [c \in Cells |-> NULL]
    /\ cell = [c \in Cells |-> NoFrame]
    /\ ret = [code |-> "none", data |-> 0]
-----------------------------------------------------------------------------
(* The history of delays.                                                  *)

Smaller(a, b) == IF a < b THEN a ELSE b
Abs(x) == IF x < 0 THEN -x ELSE x

(* The & of two numbers, bit by bit. *)
BitAnd[a \in Nat, b \in Nat] ==
    IF a = 0 \/ b = 0 THEN 0
    ELSE (a % 2) * (b % 2) + 2 * BitAnd[a \div 2, b \div 2]

(* The delay the new one is taken to kick out: slot hist_ptr & HISTORY_SZ. *)
(* When that is HISTORY_SZ it is past the array, where hist_ptr is laid    *)
(* out.                                                                    *)
Kicked ==
    LET i == BitAnd[hist_ptr, HISTORY_SZ] IN
    IF i < HISTORY_SZ THEN history[i] ELSE hist_ptr

(* The cached extremes survive the new delay: neither it nor the one       *)
(* kicked out is taken to be among them.                                   *)
Survive(delay) ==
    /\ hist_ptr + 1 >= HISTORY_SZ
    /\ delay >= hist_minbuf[MAXBUF_SZ] /\ delay <= hist_maxbuf[MAXBUF_SZ]
    /\ Kicked > hist_minbuf[MAXBUF_SZ] /\ Kicked < hist_maxbuf[MAXBUF_SZ]

Remember(delay) ==
    /\ history' = [history EXCEPT ![hist_ptr % HISTORY_SZ] = delay]
    /\ hist_ptr' = hist_ptr + 1
    /\ hist_maxbuf_valid' = (hist_maxbuf_valid /\ Survive(delay))
    /\ UNCHANGED <<hist_maxbuf, hist_minbuf>>

(* The first delay after a resync: the history starts afresh. *)
RememberResynced ==
    /\ history' = [history EXCEPT ![0] = 0]
    /\ hist_ptr' = 1
    /\ hist_maxbuf_valid' = FALSE
    /\ UNCHANGED <<hist_maxbuf, hist_minbuf>>

(* history_calc_maxbuf: the highest and the lowest delays of the history,  *)
(* by insertion into buffers that are full from the start.                 *)
Window == [k \in 1 .. Smaller(hist_ptr, HISTORY_SZ) |->
              history[(hist_ptr - Smaller(hist_ptr, HISTORY_SZ) + k - 1) % HISTORY_SZ]]
InsertBy(Beats(_, _), buf, v) ==
    IF ~Beats(v, buf[MAXBUF_SZ]) THEN buf
    ELSE LET j == CHOOSE k \in 1 .. MAXBUF_SZ :
                     Beats(v, buf[k]) /\ \A l \in 1 .. (k - 1) : ~Beats(v, buf[l])
         IN  [k \in 1 .. MAXBUF_SZ |-> IF k < j THEN buf[k]
                                       ELSE IF k = j THEN v ELSE buf[k - 1]]
Higher(a, b) == a > b
Lower(a, b)  == a < b
(* Mutant: equal delays are inserted once only. *)
InsertHigh_once(buf, v) ==
    IF \E k \in 1 .. MAXBUF_SZ : buf[k] = v THEN buf ELSE InsertBy(Higher, buf, v)
InsertHigh(buf, v) == InsertBy(Higher, buf, v)
InsertLow(buf, v)  == InsertBy(Lower, buf, v)
HighestOf(w) ==
    LET buf[n \in 0 .. Len(w)] == IF n = 0 THEN [k \in 1 .. MAXBUF_SZ |-> LONGMIN]
                                  ELSE InsertHigh(buf[n - 1], w[n])
    IN  buf[Len(w)]
LowestOf(w) ==
    LET buf[n \in 0 .. Len(w)] == IF n = 0 THEN [k \in 1 .. MAXBUF_SZ |-> LONGMAX]
                                  ELSE InsertLow(buf[n - 1], w[n])
    IN  buf[Len(w)]
Highest == HighestOf(Window)
Lowest  == LowestOf(Window)

Recalculates == ~hist_maxbuf_valid /\ hist_ptr > 0
Maxbuf == IF Recalculates THEN Highest ELSE hist_maxbuf
Minbuf == IF Recalculates THEN Lowest ELSE hist_minbuf

(* history_get: the extremes without the outliers, and the target that     *)
(* _jb_get takes from them.                                                *)
(* Mutant: the share of outliers is rounded up. *)
OutlierIndex_up == Smaller((Smaller(hist_ptr, HISTORY_SZ) * DROPPCT + 99) \div 100, MAXBUF_SZ - 1)
OutlierIndex == Smaller((Smaller(hist_ptr, HISTORY_SZ) * DROPPCT) \div 100, MAXBUF_SZ - 1)
Jitter == Maxbuf[OutlierIndex + 1] - Minbuf[OutlierIndex + 1]
LeastDelay == Minbuf[OutlierIndex + 1]

Measure ==
    /\ hist_maxbuf' = Maxbuf /\ hist_minbuf' = Minbuf
    /\ hist_maxbuf_valid' = (hist_maxbuf_valid \/ hist_ptr > 0)
    /\ UNCHANGED <<history, hist_ptr>>

Clamped(t, m) == IF max_jitterbuf # 0 /\ t - m > max_jitterbuf
                 THEN m + max_jitterbuf ELSE t
Measured == [info EXCEPT !.jitter = Jitter, !.min = LeastDelay,
                         !.target = Clamped(Jitter + LeastDelay + TARGET_EXTRA, LeastDelay)]
-----------------------------------------------------------------------------
(* The queue: a circular list from the lowest time to the highest.         *)

QueueNext == IF frames = NULL THEN -1 ELSE cell[frames].ts
QueueLast == IF frames = NULL THEN -1 ELSE cell[prev[frames]].ts

(* The frame object queue_put fills: the first of the free list, else one  *)
(* that malloc gives.                                                      *)
Malloced == {c \in Cells : cell[c] = NoFrame}
NewCell(c) == IF free # NULL THEN c = free ELSE c \in Malloced

(* Mutant: the walk goes past frames due at the same time. *)
Successor_unstable(ts) ==
    LET Walk[p \in Cells] ==
          IF prev[p] \notin {frames, NULL} /\ ts <= cell[prev[p]].ts THEN Walk[prev[p]] ELSE p
    IN  IF ts < QueueNext THEN frames ELSE Walk[frames]

(* The frame the new one is put before: the head, or where the walk back   *)
(* from the head stops, so that it comes after those due no later.  (The   *)
(* NULL is that of the cells never linked, which no walk comes to.)        *)
Successor(ts) ==
    LET Walk[p \in Cells] ==
          IF prev[p] \notin {frames, NULL} /\ ts < cell[prev[p]].ts THEN Walk[prev[p]] ELSE p
    IN  IF ts < QueueNext THEN frames ELSE Walk[frames]

(* Mutant: the frame before is not linked to the new one. *)
LinkBefore_oneWay(c, p) ==
    /\ next' = [next EXCEPT ![c] = p]
    /\ prev' = [prev EXCEPT ![c] = prev[p], ![p] = c]

LinkBefore(c, p) ==
    /\ next' = [next EXCEPT ![c] = p, ![prev[p]] = c]
    /\ prev' = [prev EXCEPT ![c] = prev[p], ![p] = c]

(* Mutant: a frame that goes before the head is not reported. *)
IsHead_emptyOnly(ts) == frames = NULL

IsHead(ts) == frames = NULL \/ ts < QueueNext

(* queue_put *)
QueuePut(e) ==
    /\ \E c \in Cells :
          /\ NewCell(c)
          /\ free' = IF free # NULL THEN next[c] ELSE NULL
          /\ cell' = [cell EXCEPT ![c] = e]
          /\ IF frames = NULL
             THEN /\ next' = [next EXCEPT ![c] = c]
                  /\ prev' = [prev EXCEPT ![c] = c]
             ELSE LinkBefore(c, Successor(e.ts))
          /\ frames' = IF frames = NULL \/ e.ts < QueueNext THEN c ELSE frames
    /\ Returned(IF IsHead(e.ts) THEN "SCHED" ELSE "OK", e.data)

(* queue_get(t): the head leaves the queue if it is due by t. *)
Due(t) == frames # NULL /\ t >= QueueNext
First  == cell[frames]
Unlink ==
    /\ next' = [next EXCEPT ![prev[frames]] = next[frames], ![frames] = free]
    /\ prev' = [prev EXCEPT ![next[frames]] = prev[frames]]
    /\ frames' = IF next[frames] = frames THEN NULL ELSE next[frames]
    /\ free' = frames
    /\ cell' = cell
-----------------------------------------------------------------------------
(* schedule_delivery: an event that came, of the sender's time ts.         *)

Delay(ts) == now - (ts - info.resync_offset)
Counted(type, ts) == type = "voice" /\ ts > 0
Jumps(ts) ==
    /\ resync_threshold # -1
    /\ Abs(Delay(ts) - info.last_delay) > 2 * info.jitter + resync_threshold
Resyncs == info.cnt_delay_discont + 1 > DISCONT_LIMIT

Event(type, ms, ts) == [data |-> arrived + 1, ts |-> ts, ms |-> ms, type |-> type]

(* A jump in the delay: the frame is refused. *)
PutRefused(type, ts) ==
    /\ Counted(type, ts) /\ Jumps(ts) /\ ~Resyncs
    /\ info' = [info EXCEPT !.cnt_delay_discont = @ + 1]
    /\ Returned("DROP", arrived + 1)
    /\ UNCHANGED <<hist, queue>>

(* One jump too many: the buffer takes the frame to be right on time. *)
PutResynced(type, ms, ts) ==
    /\ Counted(type, ts) /\ Jumps(ts) /\ Resyncs
    /\ info' = [info EXCEPT !.cnt_delay_discont = 0, !.last_delay = 0,
                            !.resync_offset = ts - now, !.frames_cur = @ + 1]
    /\ RememberResynced
    /\ QueuePut(Event(type, ms, now))

PutCounted(type, ms, ts) ==
    /\ Counted(type, ts) /\ ~Jumps(ts)
    /\ info' = IF resync_threshold = -1 THEN [info EXCEPT !.frames_cur = @ + 1]
               ELSE [info EXCEPT !.last_delay = Delay(ts), !.cnt_delay_discont = 0,
                                 !.frames_cur = @ + 1]
    /\ Remember(Delay(ts))
    /\ QueuePut(Event(type, ms, ts - info.resync_offset))

PutUncounted(type, ms, ts) ==
    /\ ~Counted(type, ts)
    /\ info' = [info EXCEPT !.frames_cur = @ + 1]
    /\ QueuePut(Event(type, ms, ts - info.resync_offset))
    /\ UNCHANGED hist

schedule_delivery(type, ms, ts) ==
    /\ arrived < MaxIn
    /\ \/ PutRefused(type, ts) \/ PutResynced(type, ms, ts)
       \/ PutCounted(type, ms, ts) \/ PutUncounted(type, ms, ts)
    /\ arrived' = arrived + 1
    /\ UNCHANGED now
-----------------------------------------------------------------------------
(* iax_get_event polls the buffer when jb_next has passed.                 *)

Silent == info.silence_begin_ts # 0
jb_next ==
    IF ~Silent THEN info.next_voice_ts
    ELSE IF QueueNext <= 0 THEN LONGMAX
    ELSE IF info.target - info.current < -TARGET_EXTRA
      THEN info.last_adjustment + SHRINK_SILENT
    ELSE QueueNext + info.target

(* Until when the branches below would wait for the target: *)
Diff     == Measured.target - info.current
TooLong  == Diff < -TARGET_EXTRA
Since(d) == info.last_adjustment + d < now
Expected == info.next_voice_ts - info.current

(* After max_contig_interp interpolations in a row: taken for silence. *)
Interpolated(i) ==
    LET j == [i EXCEPT !.next_voice_ts = @ + Interpl, !.last_voice_ms = Interpl,
                       !.cnt_contig_interp = @ + 1] IN
    IF max_contig_interp # 0 /\ j.cnt_contig_interp >= max_contig_interp
    THEN [j EXCEPT !.silence_begin_ts = j.next_voice_ts - j.current] ELSE j

Grows == /\ Diff > 0
         /\ Since(ADJUST_DELAY) \/ Diff > QueueLast - QueueNext
Grow ==
    /\ ~Silent /\ Grows
    /\ info' = Interpolated([Measured EXCEPT !.current = @ + Interpl,
                                             !.last_adjustment = now])
    /\ Returned("INTERP", 0)
    /\ UNCHANGED queue

(* Not silent, and not growing: what is expected by now is looked for. *)
Talks == ~Silent /\ ~Grows

Got(i, code) ==
    /\ info' = [i EXCEPT !.frames_cur = @ - 1]
    /\ Returned(code, First.data)
    /\ Unlink

GetOther ==
    /\ Talks /\ Due(Expected) /\ First.type # "voice"
    /\ Got(IF First.type = "silence"
             THEN [Measured EXCEPT !.silence_begin_ts = First.ts, !.cnt_contig_interp = 0]
             ELSE Measured,
           "OK")

VoiceDue == Talks /\ Due(Expected) /\ First.type = "voice"
(* Before its time, but not as early as the frame played before it. *)
GetEarly ==
    /\ VoiceDue
    /\ First.ts < Expected /\ First.ts > Expected - info.last_voice_ms
    /\ Got([Measured EXCEPT !.next_voice_ts = First.ts + info.current + First.ms,
                            !.cnt_contig_interp = 0], "OK")

DropLate ==
    /\ VoiceDue
    /\ First.ts <= Expected - info.last_voice_ms /\ First.ts < Expected
    /\ Got(Measured, "DROP")

OnTime == VoiceDue /\ First.ts = Expected
Sized  == IF First.ms > 0 THEN [Measured EXCEPT !.last_voice_ms = First.ms] ELSE Measured

ShrinkByFrame ==
    /\ OnTime /\ TooLong /\ Since(SHRINK_FULL)
    /\ Got([Sized EXCEPT !.current = @ - First.ms, !.last_adjustment = now,
                         !.cnt_contig_interp = 0], "DROP")

GetVoice ==
    /\ OnTime /\ ~(TooLong /\ Since(SHRINK_FULL))
    /\ Got([Sized EXCEPT !.next_voice_ts = @ + First.ms, !.cnt_contig_interp = 0], "OK")

ShrinksEmpty == TooLong /\ (Since(SHRINK_EMPTY) \/ Since(SHRINK_FULL))
ShrinkEmpty ==
    /\ Talks /\ ~Due(Expected) /\ ShrinksEmpty
    /\ info' = [Measured EXCEPT !.current = @ - info.last_voice_ms,
                                !.last_adjustment = now, !.cnt_contig_interp = 0]
    /\ Returned("NOFRAME", 0)
    /\ UNCHANGED queue

Lost ==
    /\ Talks /\ ~Due(Expected) /\ ~ShrinksEmpty
    /\ info' = Interpolated(Measured)
    /\ Returned("INTERP", 0)
    /\ UNCHANGED queue

(* In silence the buffer shrinks whatever it finds. *)
Shrunk == IF TooLong /\ info.last_adjustment + SHRINK_SILENT <= now
          THEN [Measured EXCEPT !.current = @ - Interpl, !.last_adjustment = now]
          ELSE Measured
DueInSilence == Due(now - Shrunk.current)

(* Mutant: a frame is counted as gone whether there was one or not. *)
SilentNone_counted ==
    /\ Silent /\ ~DueInSilence
    /\ info' = [Shrunk EXCEPT !.frames_cur = @ - 1]
    /\ Returned("NOFRAME", 0)
    /\ UNCHANGED queue
SilentNone ==
    /\ Silent /\ ~DueInSilence
    /\ info' = Shrunk
    /\ Returned("NOFRAME", 0)
    /\ UNCHANGED queue
SilentOther ==
    /\ Silent /\ DueInSilence /\ First.type # "voice"
    /\ Got(Shrunk, "OK")
SilentLate ==
    /\ Silent /\ DueInSilence /\ First.type = "voice"
    /\ First.ts < info.silence_begin_ts
    /\ Got(Shrunk, "DROP")
SilentVoice ==
    /\ Silent /\ DueInSilence /\ First.type = "voice"
    /\ First.ts >= info.silence_begin_ts
    /\ Got([Shrunk EXCEPT !.current = Shrunk.target, !.silence_begin_ts = 0,
                          !.next_voice_ts = First.ts + Shrunk.target + First.ms,
                          !.last_voice_ms = First.ms], "OK")

jb_get ==
    /\ now > jb_next
    /\ Measure
    /\ \/ Grow \/ GetOther \/ GetEarly \/ DropLate \/ ShrinkByFrame \/ GetVoice
       \/ ShrinkEmpty \/ Lost
       \/ SilentNone \/ SilentOther \/ SilentLate \/ SilentVoice
    /\ UNCHANGED <<now, arrived>>
-----------------------------------------------------------------------------
(* jb_getinfo, for the statistics that a ping and the phone ask for. *)
jb_getinfo ==
    /\ Measure
    /\ info' = [info EXCEPT !.jitter = Jitter, !.min = LeastDelay]
    /\ Returned("none", 0)
    /\ UNCHANGED <<now, queue, arrived>>

(* A transfer: the queue is emptied by jb_getall, the events freed, the    *)
(* buffer reset (which forgets the free list) and the clock started anew.  *)
Restart ==
    /\ now' = 0
    /\ info' = FreshInfo
    /\ history' = [i \in Slots |-> 0]
    /\ hist_ptr' = 0 /\ hist_maxbuf' = Zeroes /\ hist_minbuf' = Zeroes
    /\ hist_maxbuf_valid' = FALSE
    /\ frames' = NULL /\ free' = NULL
    /\ next' = [c \in Cells |-> NULL] /\ prev' = [c \in Cells |-> NULL]
    /\ cell' = [c \in Cells |-> NoFrame]
    /\ Returned("FLUSH", 0)
    /\ UNCHANGED arrived

Tick ==
    /\ now < MaxNow
    /\ now' = now + 1
    /\ Returned("none", 0)
    /\ UNCHANGED <<info, hist, queue, arrived>>

Next ==
    \/ \E type \in Types, d \in Delays :
          /\ now - d >= 0
          /\ \E ms \in IF type = "voice" THEN Spans ELSE {0} :
                schedule_delivery(type, ms, now - d)
    \/ jb_get \/ jb_getinfo \/ Restart \/ Tick

Spec == Init /\ [][Next]_vars
-----------------------------------------------------------------------------
(* The cells of the queue, from the head on, for as many as frames_cur     *)
(* says there are.                                                         *)
Chain[n \in Nat] ==
    IF n = 0 THEN <<>> ELSE IF n = 1 THEN <<frames>>
    ELSE Append(Chain[n - 1], next[Chain[n - 1][n - 1]])
Queued == IF frames = NULL THEN <<>> ELSE Chain[info.frames_cur]
InQueue == ToSet(Queued)
FreeFrom[c \in Cells \cup {NULL}] == IF c = NULL THEN {} ELSE {c} \cup FreeFrom[next[c]]

(* The circular list is whole after every splice, whatever the order in    *)
(* which frames came and went: frames_cur frames, each linked both ways,   *)
(* the last one back to the head, in order of time, none of them free.     *)
WellLinked ==
    LET q == Queued IN
    /\ Len(q) = info.frames_cur
    /\ IsInjective(q) /\ NULL \notin InQueue
    /\ \A k \in 1 .. Len(q) : LET succ == q[(k % Len(q)) + 1] IN
          next[q[k]] = succ /\ prev[succ] = q[k]
    /\ \A k \in 1 .. (Len(q) - 1) : cell[q[k]].ts <= cell[q[k + 1]].ts
    /\ FreeFrom[free] \cap InQueue = {}

(* The buffer implements Playout: an event that was queued leaves once,    *)
(* the earliest first, and none but voice is dropped ("you don't want to   *)
(* just drop a hangup frame because it's late", iax.c:2309).               *)
Fate(code) == CASE code = "DROP"  -> "dropped"
                [] code = "FLUSH" -> "flushed"
                [] OTHER          -> "delivered"
Events == INSTANCE Playout WITH
    waiting <- {[data |-> cell[c].data, ts |-> cell[c].ts, type |-> cell[c].type] : c \in InQueue},
    left <- IF ret.code \in {"OK", "DROP"} /\ ret.data \notin {cell[c].data : c \in InQueue}
            THEN [how |-> Fate(ret.code), data |-> ret.data]
            ELSE IF ret.code = "FLUSH" THEN [how |-> "flushed", data |-> 0]
            ELSE [how |-> "none", data |-> 0]
PlayoutSafety == Events!PlayoutSafety

(* jitterbuf.h: after JB_OK from jb_put the "last call to jb_next() still  *)
(* valid".                                                                 *)
NextStillValid ==
    [][arrived' # arrived /\ ret'.code = "OK" => jb_next' = jb_next]_vars

(* What history_calc_maxbuf finds is the highest and the lowest delays of  *)
(* the history, each as often as it occurs there, in order.                *)
CalcExact ==
    \A k \in 1 .. Smaller(MAXBUF_SZ, Len(Window)) :
        /\ Cardinality({i \in DOMAIN Window : Window[i] > Highest[k]}) < k
        /\ Cardinality({i \in DOMAIN Window : Window[i] >= Highest[k]}) >= k
        /\ Cardinality({i \in DOMAIN Window : Window[i] < Lowest[k]}) < k
        /\ Cardinality({i \in DOMAIN Window : Window[i] <= Lowest[k]}) >= k

(* The jitter that sizes the buffer is never negative, be the extremes     *)
(* cached or new.                                                          *)
JitterSane == Jitter >= 0

(* The comment at the cache of the extremes (jitterbuf.c:162): they "don't *)
(* need to be recalculated, if this packet's entry doesn't change them":   *)
(* while they are held valid they are those of the history.                *)
CacheExact == hist_maxbuf_valid => hist_maxbuf = Highest /\ hist_minbuf = Lowest
=============================================================================
