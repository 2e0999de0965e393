------------------------------ MODULE MCMMData ------------------------------
(* Instances of the images in memory: a short and a long name, a memory    *)
(* that is large enough and one that is not.                               *)
EXTENDS MMData, TLC

CONSTANTS d1, d2, m1, m2, tiny, short, long
MMDatasAlike == Permutations({d1, d2})
=============================================================================
