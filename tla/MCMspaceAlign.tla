--------------------------- MODULE MCMspaceAlign ---------------------------
(* Instances of the mspace with its measured allocations.                  *)
EXTENDS MspaceAlign

(* One element, two equal ones, two different ones, and none.              *)
MCElements == {<<>>, <<1>>, <<12, 12>>, <<1, 20>>}
MCCallocRequests == {<<0, 5>>, <<2, 6>>, <<3, 86>>, <<128, 2>>}
=============================================================================
