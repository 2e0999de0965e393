---------------------------- MODULE AbstractHeap ----------------------------
(***************************************************************************)
(* What an mspace promises its callers (the mspace_ declarations of        *)
(* malloc-2.8.3.h): memory blocks that never overlap one another and stay  *)
(* where they are until their holder gives them back, in a memory that     *)
(* only its owner extends.                                                 *)
(***************************************************************************)
EXTENDS Integers

CONSTANTS
  Place,      \* where a block may begin, in granules
  Grain       \* bytes of a granule

VARIABLES
  block,      \* block[a]: the bytes held at a, or None
  limit       \* the granule where the memory ends

None == -1
InUse == {a \in Place : block[a] # None}

(* n bytes at a share none with the blocks of S.                           *)
Disjoint(a, n, S) ==
  \A b \in S : \/ a * Grain + n <= b * Grain /\ a # b
               \/ b * Grain + block[b] <= a * Grain /\ a # b

Fits(a, n) == a # 0 /\ a * Grain + n <= limit * Grain

(* Blocks are given out, by most calls one: they overlap neither those     *)
(* that are held nor one another.                                          *)
Allocate(S) ==
  /\ \A a \in S : /\ block'[a] # None
                  /\ Disjoint(a, block'[a], InUse) /\ Fits(a, block'[a])
  /\ \A a, b \in S : a # b => \/ a * Grain + block'[a] <= b * Grain
                             \/ b * Grain + block'[b] <= a * Grain
  /\ block' = [a \in Place |-> IF a \in S THEN block'[a] ELSE block[a]]
  /\ UNCHANGED limit

Release(a) ==
  /\ a \in InUse
  /\ block' = [block EXCEPT ![a] = None]
  /\ UNCHANGED limit

(* A block that grows in place only has the others to avoid; one that      *)
(* moves must not overlap its old self, whose bytes are copied.            *)
Resize(a, b, n) ==
  /\ a \in InUse
  /\ Disjoint(b, n, IF a = b THEN InUse \ {a} ELSE InUse) /\ Fits(b, n)
  /\ block' = [block EXCEPT ![a] = None, ![b] = n]
  /\ UNCHANGED limit

Extend == limit' > limit /\ UNCHANGED block

Init == block = [a \in Place |-> None] /\ limit \in Nat

(* The new blocks are those that the step changes, and the size of one is  *)
(* what is held there after it.                                            *)
Next ==
  \/ Allocate({a \in Place : block'[a] # block[a]})
  \/ \E a \in Place : Release(a)
  \/ \E a, b \in Place : block'[b] # None /\ Resize(a, b, block'[b])
  \/ Extend

Spec == Init /\ [][Next]_<<block, limit>>
=============================================================================
