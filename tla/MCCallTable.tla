---------------------------- MODULE MCCallTable ----------------------------
(* CallTable on the phone's two lines.  posted is written by every step    *)
(* and read by none: the view leaves it out, and the action properties are *)
(* still checked on every step TLC generates.  TLC checks every step up to *)
(* the one that destroys a session under its owner, or that leaves two     *)
(* addresses named by final frames, and none after it.                     *)
EXTENDS CallTable, FiniteSets, TLC

Symmetry  == Permutations(Sessions)
TableView == <<lines, regs, sess>>
OnCourse  == astray = {} /\ Cardinality(finals) < 2
=============================================================================
