------------------------------ MODULE MCPhone ------------------------------
(* Phone with few sessions.  A session that libiax2 ends by itself, and a  *)
(* HANGUP that cannot be sent, are the questions of MCCallTable: here TLC  *)
(* goes no further than the step that does it, nor than the end of         *)
(* iaxc_shutdown.                                                          *)
(*                                                                         *)
(* The view keeps what a later step or a property can tell apart.  It      *)
(* leaves out: the bits of an ACTIVE line that no guard reads (they go     *)
(* with the call); the marks that no handler reads; which line line_id     *)
(* names; and finals, since a final frame whose session lives destroys it  *)
(* against its owner, or does what Withdraw does.                          *)
EXTENDS Phone, TLC

Symmetry == Permutations(Sessions)
OnCourse ==
    /\ astray = {}
    /\ \A s \in Sessions : life[s] # "final"
    /\ ~Doing("user", "exit", NoLine)

SeenBits(c)  == IF "ACTIVE" \in state[c] THEN <<CallIn(c), Rings(c)>> ELSE state[c]
SeenMarks(c) == <<"ACTIVE" \in shown[c], shown[c] \cap {"INCOMING", "WAITING"} = {}>>
PhoneView    == << [c \in Lines |-> SeenBits(c)], session, selected_call, life,
                   [c \in Lines |-> SeenMarks(c)], place, last_active,
                   line_id = NoLine, hold_pressed, todo, noted, dialled >>
=============================================================================
