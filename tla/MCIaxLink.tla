----------------------------- MODULE MCIaxLink -----------------------------
EXTENDS IaxLink, TLC

CONSTANTS a, b

\* a is the end that talks, b the one that mostly acknowledges.
Sends_3_0 == a :> 3 @@ b :> 0
=============================================================================
