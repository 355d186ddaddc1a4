---------------------------- MODULE MCJitterBuf ----------------------------
(* JitterBuf with times of a few units, and the times of MiniFrames with   *)
(* a wrap every few units.                                                 *)
EXTENDS JitterBuf, MiniFrames, TLC

CONSTANTS Late, Early     \* how late, and how early, frames come

MCDelays == Late \cup {-d : d \in Early}
Symmetry == Permutations(Cells)

(* The theorem MiniFiledRight, for all times up to the third wrap. *)
ASSUME MiniFramesChecked ==
    \A t, last \in 0 .. 3 * WRAP :
        t - last < WRAP - BIG /\ last - t < WRAP - BIG => Filed(Low(t), last) = t
=============================================================================
