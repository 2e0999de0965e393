-------------------------------- MODULE Bins --------------------------------
(***************************************************************************)
(* The bins of an mspace: which free chunks it can find again, and the bit *)
(* maps that say which bins hold any (malloc.cpp, "Indexing Bins",         *)
(* "Operations on bin maps", "Operations on smallbins", "Operations on     *)
(* trees").  A bin is the set of the chunks it links; in which order a     *)
(* list or a tree keeps chunks is left open, so that taking a chunk from a *)
(* bin may take any of those the code could find there.                    *)
(***************************************************************************)
EXTENDS BoundaryTags, FiniteSets

NTREEBINS == 32
SmallIndex == 0 .. NSMALLBINS - 1
TreeIndex == 0 .. NTREEBINS - 1
MIN_LARGE_SIZE == NSMALLBINS

BinSet == [smallmap : SUBSET SmallIndex, treemap : SUBSET TreeIndex,
           small : [SmallIndex -> SUBSET Addr], tree : [TreeIndex -> SUBSET Addr]]

init_bins ==
  [smallmap |-> {}, treemap |-> {},
   small |-> [i \in SmallIndex |-> {}], tree |-> [i \in TreeIndex |-> {}]]

is_small(s) == s < NSMALLBINS
small_index(s) == s

(* The number of the highest bit set in X, for X in 1 .. 16^4 - 1 (bsrl).  *)
HighestBit(X) == Cardinality({k \in 1 .. 15 : 2^k <= X})

compute_tree_index(s) ==
  LET X == s \div MIN_LARGE_SIZE
      K == HighestBit(X)
  IN  IF X = 0 THEN 0
      ELSE IF X > 65535 THEN NTREEBINS - 1
      ELSE 2 * K + (IF ((2 * s) \div (2^K * MIN_LARGE_SIZE)) % 2 = 1 THEN 1 ELSE 0)

-----------------------------------------------------------------------------
(* An unmarked bin is overwritten, whatever its links held.                *)
insert_small_chunk(b, p, s) ==
  LET i == small_index(s)
  IN  [b EXCEPT !.smallmap = @ \cup {i},
                !.small[i] = IF i \in b.smallmap THEN @ \cup {p} ELSE {p}]

insert_large_chunk(b, p, s) ==
  LET i == compute_tree_index(s)
  IN  [b EXCEPT !.treemap = @ \cup {i},
                !.tree[i] = IF i \in b.treemap THEN @ \cup {p} ELSE {p}]

(* p leaves the list it is linked in; when it was alone there, the bit     *)
(* that is cleared is that of the size s the caller passes.                *)
unlink_small_chunk(b, p, s) ==
  [b EXCEPT
     !.small = [i \in SmallIndex |-> b.small[i] \ {p}],
     !.smallmap = IF \E i \in SmallIndex : b.small[i] = {p}
                    THEN @ \ {small_index(s)} ELSE @]

(* p leaves the tree whose index it stores.                                *)
unlink_large_chunk(b, p) ==
  [b EXCEPT
     !.tree = [i \in TreeIndex |-> b.tree[i] \ {p}],
     !.treemap = {i \in @ : b.tree[i] # {p}}]

insert_chunk(b, p, s) ==
  IF is_small(s) THEN insert_small_chunk(b, p, s) ELSE insert_large_chunk(b, p, s)

unlink_chunk(b, p, s) ==
  IF is_small(s) THEN unlink_small_chunk(b, p, s) ELSE unlink_large_chunk(b, p)

-----------------------------------------------------------------------------
(* The lowest index of a map: compute_bit2idx(least_bit(map)).             *)
LeastIndex(map) == CHOOSE i \in map : \A j \in map : i <= j

(* The chunks of S that fit nb most tightly, those below nb left out.      *)
Tightest(t, S, nb) ==
  LET fit == {c \in S : t.size[c] >= nb}
  IN  {c \in fit : \A d \in fit : t.size[c] <= t.size[d]}

(* What tmalloc_large finds: the best fit in the tree of nb, or else the   *)
(* least chunk of the next tree that is not empty.                         *)
LargeFit(t, b, nb) ==
  LET i     == compute_tree_index(nb)
      here  == Tightest(t, b.tree[i], nb)
      above == {j \in b.treemap : j > i}
  IN  IF here # {} THEN here
      ELSE IF above # {} THEN Tightest(t, b.tree[LeastIndex(above)], nb)
      ELSE {}

(* What tmalloc_small finds: the least chunk of the first tree.            *)
SmallFitInTree(t, b, nb) == Tightest(t, b.tree[LeastIndex(b.treemap)], nb)

-----------------------------------------------------------------------------
(* The bins b hold exactly the chunks of B, each where its size says, and  *)
(* a map bit is set exactly for a bin that is not empty.                   *)
HoldExactly(b, B, size) ==
  /\ \A i \in SmallIndex :
       b.small[i] = {a \in B : is_small(size[a]) /\ small_index(size[a]) = i}
  /\ \A i \in TreeIndex :
       b.tree[i] = {a \in B : ~is_small(size[a]) /\ compute_tree_index(size[a]) = i}
  /\ b.smallmap = {i \in SmallIndex : b.small[i] # {}}
  /\ b.treemap = {i \in TreeIndex : b.tree[i] # {}}
=============================================================================
