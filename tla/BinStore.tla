------------------------------ MODULE BinStore ------------------------------
(***************************************************************************)
(* What the bins of an mspace promise to the routines that use them: the   *)
(* operations of Bins, on sets of chunks.  BinLinks implements this with   *)
(* the lists and trees of malloc.cpp.                                      *)
(***************************************************************************)
EXTENDS Bins

CONSTANTS Chunks, Sizes

VARIABLES bins, size   \* size[c]: the size with which c is in a bin, or 0

Init == bins = init_bins /\ size = [c \in Chunks |-> 0]

Insert(c, s) ==
  /\ size[c] = 0
  /\ bins' = insert_chunk(bins, c, s)
  /\ size' = [size EXCEPT ![c] = s]

Unlink(c) ==
  /\ size[c] # 0
  /\ bins' = unlink_chunk(bins, c, size[c])
  /\ size' = [size EXCEPT ![c] = 0]

Next == \E c \in Chunks : Unlink(c) \/ \E s \in Sizes : Insert(c, s)

Spec == Init /\ [][Next]_<<bins, size>>
=============================================================================
