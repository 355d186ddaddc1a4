------------------------------ MODULE CallLog ------------------------------
(***************************************************************************)
(* The call register (callreg.c): a ring of the last calls of each type,   *)
(* the pages the user looks at them on, the keys that dial one of them     *)
(* again, and the file they are kept in from one run of the phone to the   *)
(* next.  A call is its number; dates and the drawing are left out.  The   *)
(* ring's slots are those of the C array, so that a position or an offset  *)
(* that leaves the array shows.                                            *)
(***************************************************************************)
EXTENDS Integers, Sequences, FiniteSetsExt

CONSTANTS Numbers,    \* the numbers calls are made to and come from
          Blank,      \* the empty number of a slot that was never written
          NTypes,     \* the types of calls: dialled, received, missed, ...
          MAXLOG,     \* MAXLOG_SEND, MAXLOG_RECV, MAXLOG_LOST
          MaxPos      \* bound on how far a ring is written

ASSUME BlankAssumption == Blank \notin Numbers
ASSUME SizesAssumption == {NTypes, MAXLOG, MaxPos} \subseteq Nat \ {0} /\ MAXLOG <= MaxPos

Types   == 0 .. (NTypes - 1)
LogSend == 0
Slots   == 0 .. (MAXLOG - 1)
Empty   == [i \in Slots |-> Blank]

VARIABLES
    log,                \* sendlog, recvlog, lostlog
    pos,                \* how often each was written: its next slot, modulo MAXLOG
    off,                \* how far each was scrolled
    initialized,        \* PRIAX_CallReg has been called in this run
    CR_current_record,  \* the page that is open, or was last
    open,               \* the register has the keys: CR_EventHandler
    file,               \* what the last run left, newest first
    calls,              \* history: the calls there were, newest first
    spoilt              \* history: the register was opened too late, or never

record == <<log, pos>>
page   == <<off, CR_current_record, open>>
kept   == <<initialized, file>>
vars   == <<record, page, kept, calls, spoilt>>

TypeOK ==
    /\ log \in [Types -> [Slots -> Numbers \cup {Blank}]]
    /\ pos \in [Types -> 0 .. MaxPos]
    /\ off \in [Types -> Slots]
    /\ initialized \in BOOLEAN /\ open \in BOOLEAN /\ spoilt \in BOOLEAN
    /\ CR_current_record \in Types
    /\ file \in [Types -> [Slots -> Numbers \cup {Blank}]]
    /\ calls \in [Types -> Seq(Numbers)] /\ \A k \in Types : Len(calls[k]) <= MAXLOG

(* A phone that was never run: no file, and none reads as an empty one.    *)
Start ==
    /\ log' = [k \in Types |-> Empty]
    /\ pos' = [k \in Types |-> 0] /\ off' = [k \in Types |-> 0]
    /\ initialized' = FALSE /\ open' = FALSE
    /\ CR_current_record' = LogSend
Init ==
    /\ log = [k \in Types |-> Empty]
    /\ pos = [k \in Types |-> 0] /\ off = [k \in Types |-> 0]
    /\ initialized = FALSE /\ open = FALSE
    /\ CR_current_record = LogSend
    /\ file = [k \in Types |-> Empty]
    /\ calls = [k \in Types |-> <<>>]
    /\ spoilt = FALSE
-----------------------------------------------------------------------------
(* SL_POS, RL_POS, LL_POS: C's remainder leaves -1 for an empty ring.      *)
Newest(k) == IF pos[k] = 0 THEN -1 ELSE (pos[k] - 1) % MAXLOG

(* The slot of the i-th call back, where the code goes round the ring...   *)
Back(k, i) == (Newest(k) - i) % MAXLOG
(* ... and CR_CurrentRecord, which does not.                               *)
CurrentRecord == Newest(CR_current_record) - off[CR_current_record]

Filled(slots) == LET blank == {i \in Slots : slots[i] = Blank} IN
                 IF blank = {} THEN MAXLOG ELSE Min(blank)

(* The ring is to hold the last MAXLOG of the calls. *)
Latest(n, s)   == SubSeq(<<n>> \o s, 1, Min({MAXLOG, Len(s) + 1}))
Happened(k, n) == calls' = [calls EXCEPT ![k] = Latest(n, @)]

(* CR_show, scrolled to the top: the calls up to the first empty slot.     *)
Listed(slots) == [i \in 1 .. Filled(slots) |-> slots[i - 1]]
Shown(k)      == Listed([i \in Slots |-> log[k][Back(k, i)]])

Logged(k, n) ==
    /\ pos[k] < MaxPos
    /\ log' = [log EXCEPT ![k][pos[k] % MAXLOG] = n]
    /\ pos' = [pos EXCEPT ![k] = @ + 1]

(* PRIAX_LogAdd: by priv_dial, or as a call ends (priv_hangup).            *)
LogAdd(k, n) ==
    /\ Logged(k, n)
    /\ Happened(k, n)
    /\ UNCHANGED <<page, kept, spoilt>>

(* Mutant: pos is left at the last call that was read. *)
Loaded_last(k) ==
    LET n == Filled(file[k])  last == IF n = 0 THEN 0 ELSE n - 1 IN
    [log |-> [i \in Slots |-> IF i <= last THEN file[k][last - i] ELSE log[k][i]],
     pos |-> last]

(* CR_LoadCalls: the calls of the file, oldest first.  memset clears       *)
(* MAXLOG bytes, no more than the first slot: what was logged before stays *)
(* in the others.                                                          *)
Loaded(k) ==
    LET n == Filled(file[k])  last == IF n = 0 THEN 0 ELSE n - 1 IN
    [log |-> [i \in Slots |-> IF i <= last THEN file[k][last - i] ELSE log[k][i]],
     pos |-> n]

(* PRIAX_CallReg: the file is read when the register is first opened.      *)
CallReg ==
    /\ ~open
    /\ open' = TRUE
    /\ initialized' = TRUE
    /\ IF initialized
       THEN UNCHANGED <<record, spoilt>>
       ELSE /\ log' = [k \in Types |-> Loaded(k).log]
            /\ pos' = [k \in Types |-> Loaded(k).pos]
            /\ spoilt' = (spoilt \/ \E k \in Types : pos[k] > 0)
    /\ UNCHANGED <<off, CR_current_record, file, calls>>
-----------------------------------------------------------------------------
(* The keys of the register.                                               *)

Turned(k) ==
    /\ open /\ k \in Types
    /\ CR_current_record' = k
    /\ UNCHANGED <<record, off, open, kept, calls, spoilt>>
Left  == Turned(CR_current_record - 1)
Right == Turned(CR_current_record + 1)

Scrolled(to) ==
    /\ open
    /\ off' = [off EXCEPT ![CR_current_record] = to]
    /\ UNCHANGED <<record, CR_current_record, open, kept, calls, spoilt>>

(* Mutant: the offset may become negative. *)
Up_unchecked == Scrolled(off[CR_current_record] - 1)
Up == Scrolled(Max({off[CR_current_record] - 1, 0}))

(* Mutant: the end of the calls is not looked for. *)
Below_unchecked(k) == IF off[k] + 1 = MAXLOG THEN off[k] ELSE off[k] + 1

(* One further down, but neither past the array nor past the calls: the    *)
(* test reads the slot of that index, which is where the ring's calls end  *)
(* until it has gone round.                                                *)
Below(k) ==
    IF off[k] + 1 = MAXLOG THEN off[k]
    ELSE IF log[k][off[k] + 1] = Blank THEN Max({Newest(k), 0})
    ELSE off[k] + 1
Down == Scrolled(Below(CR_current_record))

(* The hangup key, or a call that comes in.                                *)
Close ==
    /\ open
    /\ open' = FALSE
    /\ UNCHANGED <<record, off, CR_current_record, kept, calls, spoilt>>

(* The number of the current record.  What lies outside of the array may   *)
(* be any number, or none.                                                 *)
RecordNumber == IF CurrentRecord \in Slots
                THEN {log[CR_current_record][CurrentRecord]}
                ELSE Numbers \cup {Blank}

(* The talk key, and any key that has no name: the number is dialled if it *)
(* is not empty and the phone is registered.  Dialled calls are logged.    *)
Redial ==
    /\ open
    /\ \E n \in RecordNumber :
          \/ /\ open' = FALSE
             /\ UNCHANGED <<record, calls>>
          \/ /\ n = Blank
             /\ UNCHANGED <<open, record, calls>>
          \/ /\ n # Blank
             /\ open' = FALSE
             /\ Logged(LogSend, n)
             /\ Happened(LogSend, n)
    /\ UNCHANGED <<off, CR_current_record, kept, spoilt>>
-----------------------------------------------------------------------------
(* CR_DumpCalls: newest first, all the way round. *)
Dumped(k) == [i \in Slots |-> log[k][Back(k, i)]]

(* The phone exits, and is started again.  The file is written whether or  *)
(* not it was ever read.                                                   *)
Exit ==
    /\ Start
    /\ file' = [k \in Types |-> Dumped(k)]
    /\ spoilt' = (spoilt \/ (~initialized /\ \E k \in Types : Filled(file[k]) > 0))
    /\ calls' = calls

(* It is killed, or cannot write the file: the calls of this run are lost. *)
Killed ==
    /\ Start
    /\ file' = file
    /\ spoilt' = (spoilt \/ \E k \in Types : Listed(file[k]) # calls[k])
    /\ calls' = calls

Next == \/ \E k \in Types, n \in Numbers : LogAdd(k, n)
        \/ CallReg \/ Left \/ Right \/ Up \/ Down \/ Close \/ Redial
        \/ Exit \/ Killed

Spec == Init /\ [][Next]_vars
-----------------------------------------------------------------------------
(* The register shows the calls there were, newest first, over restarts    *)
(* and once the ring has gone round, as long as it was opened in each run  *)
(* before the first call of that run (CR_show, "we loop into the array").  *)
NewestFirst == initialized /\ ~spoilt => \A k \in Types : Shown(k) = calls[k]

(* The record a key dials, or stamps with the time, is the one on the top  *)
(* line of the page ("returns a pointer to the current record",            *)
(* callreg.c:73), until the ring is empty or has gone round.               *)
RecordOnTop ==
    LET k == CR_current_record IN
    open /\ ~spoilt /\ pos[k] \in 1 .. MAXLOG =>
        /\ CurrentRecord = Back(k, off[k])
        /\ log[k][CurrentRecord] # Blank
=============================================================================
