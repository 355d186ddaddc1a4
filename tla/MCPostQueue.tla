---------------------------- MODULE MCPostQueue ----------------------------
EXTENDS PostQueue, TLC

Symmetry == Permutations(Threads)
=============================================================================
