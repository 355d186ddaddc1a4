------------------------------ MODULE Playout ------------------------------
(***************************************************************************)
(* What the jitter buffer promises of the events a session receives: each  *)
(* is refused on arrival or waits; those that wait leave one at a time,    *)
(* the earliest first, and only voice is ever thrown away, unless the      *)
(* session itself is over or starts afresh.                                *)
(***************************************************************************)
EXTENDS Naturals

CONSTANT Types        \* of events: "voice" and the others

VARIABLES arrived,    \* how many events have come; they are numbered
          waiting,    \* the events that wait: [data, ts, type]
          left        \* what became of the event that left last

playVars == <<arrived, waiting, left>>

Nothing == [how |-> "none", data |-> 0]

PlayoutInit == arrived = 0 /\ waiting = {} /\ left = Nothing

(* Earliest by time, and by arrival among those due at the same time. *)
Before(e, f) == e.ts < f.ts \/ (e.ts = f.ts /\ e.data < f.data)
Earliest(e)  == \A f \in waiting \ {e} : Before(e, f)

Keep(e) ==
    /\ e.data = arrived + 1
    /\ arrived' = arrived + 1
    /\ waiting' = waiting \cup {e}
    /\ left' = Nothing

Refuse(type) ==
    /\ type = "voice"
    /\ arrived' = arrived + 1
    /\ waiting' = waiting
    /\ left' = [how |-> "dropped", data |-> arrived + 1]

Release(e, how) ==
    /\ Earliest(e)
    /\ how = "dropped" => e.type = "voice"
    /\ waiting' = waiting \ {e}
    /\ left' = [how |-> how, data |-> e.data]
    /\ arrived' = arrived

(* Nothing leaves: there is nothing due, or voice is made up. *)
Hold == left' = Nothing /\ UNCHANGED <<arrived, waiting>>

Flush == waiting' = {} /\ left' = [how |-> "flushed", data |-> 0] /\ arrived' = arrived

PlayoutNext ==
    \/ \E ts \in {w.ts : w \in waiting'}, type \in Types :
          Keep([data |-> arrived + 1, ts |-> ts, type |-> type])
    \/ \E type \in Types : Refuse(type)
    \/ \E e \in waiting, how \in {"delivered", "dropped"} : Release(e, how)
    \/ Hold
    \/ Flush

PlayoutSafety == PlayoutInit /\ [][PlayoutNext]_playVars
=============================================================================
