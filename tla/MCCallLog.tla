----------------------------- MODULE MCCallLog -----------------------------
(* CallLog on short rings.  What became of calls once the register was     *)
(* opened too late is not followed further.                                *)
EXTENDS CallLog, TLC

Symmetry == Permutations(Numbers)
OnTime   == ~spoilt
=============================================================================
