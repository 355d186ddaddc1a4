----------------------------- MODULE LineTable -----------------------------
(***************************************************************************)
(* What the call table promises to the phone that uses it, without the     *)
(* sessions, the registrations and the frames behind it: which lines have  *)
(* a call, who placed it, which of them ring, and which line is selected.  *)
(***************************************************************************)
CONSTANTS Lines,      \* the lines
          NoLine      \* what is selected when every call is on hold

VARIABLES call,       \* "none", or who placed the line's call: "out", "in"
          ringing,    \* the lines whose call rings
          selected    \* the line the user talks on, or NoLine

lineVars == <<call, ringing, selected>>

LineInit ==
    /\ call = [c \in Lines |-> "none"]
    /\ ringing = {}
    /\ selected \in Lines

(* The client's calls.  Only they move the selection. *)
Dial(c) ==
    /\ call[c] = "none"
    /\ call' = [call EXCEPT ![c] = "out"]
    /\ ringing' = ringing
    /\ selected' = c

(* To select a call that rings in is to answer it. *)
Select(c) ==
    /\ selected' = c
    /\ ringing' = IF call[c] = "in" THEN ringing \ {c} ELSE ringing
    /\ call' = call

Deselect ==
    /\ selected' = NoLine
    /\ UNCHANGED <<call, ringing>>

(* A call comes in on a line that has none, and rings. *)
Arrive(c) ==
    /\ call[c] = "none"
    /\ call' = [call EXCEPT ![c] = "in"]
    /\ ringing' = ringing \cup {c}
    /\ selected' = selected

(* A call begins to ring, or stops: the peer rings, an end answers.        *)
Ring(c) ==
    /\ call[c] # "none"
    /\ ringing' \in {ringing \cup {c}, ringing \ {c}}
    /\ UNCHANGED <<call, selected>>

(* Calls end, by either end or by a time-out. *)
End(over) ==
    /\ call' = [c \in Lines |-> IF c \in over THEN "none" ELSE call[c]]
    /\ ringing' = ringing \ over
    /\ selected' = selected

LineNext ==
    \/ \E c \in Lines : Dial(c) \/ Select(c) \/ Arrive(c) \/ Ring(c)
    \/ \E over \in SUBSET Lines : End(over)
    \/ Deselect

LineSafety == LineInit /\ [][LineNext]_lineVars
=============================================================================
