----------------------------- MODULE BinIndexing ----------------------------
(***************************************************************************)
(* In which tree bin a chunk of a given size is kept, with the widths of   *)
(* the program (malloc.cpp, "Indexing Bins").  A word is the set of the    *)
(* numbers of its bits that are set: a size is a size_t of 64 bits, and    *)
(* what a definition keeps in an unsigned int is cut to 32.                *)
(***************************************************************************)
EXTENDS Bins, FiniteSetsExt

CONSTANT SizeBits     \* the bits that are set in the sizes of the instance

SIZE_T_BITSIZE == 64
TREEBIN_SHIFT == 8

ASSUME SizeBitsAssumption ==
  SizeBits \subseteq 3 .. SIZE_T_BITSIZE - 1 /\ \E k \in SizeBits : k >= TREEBIN_SHIFT

-----------------------------------------------------------------------------
ShiftRight(S, n) == {k - n : k \in {j \in S : j >= n}}
Unsigned(S) == {k \in S : k < 32}
Number(S) == FoldSet(LAMBDA k, n : n + 2 ^ k, 0, S)
Less(S, T) == S # T /\ Max((S \ T) \cup (T \ S)) \in T

(* Two trees for every power of two: the bit of S below its highest says   *)
(* which.  K is the number of the highest bit of S >> TREEBIN_SHIFT.       *)
TreeOf(S, K) == 2 * K + (IF K + TREEBIN_SHIFT - 1 \in S THEN 1 ELSE 0)

(* X is S >> TREEBIN_SHIFT, in the type that it is kept in.                *)
IndexFrom(X, S, K) ==
  IF X = {} THEN 0
  ELSE IF \E k \in X : k > 15 THEN NTREEBINS - 1
  ELSE TreeOf(S, K)

(* x86: X is an unsigned int, of which bsrl gives the highest bit.         *)
compute_tree_index_x86(S) ==
  LET X == Unsigned(ShiftRight(S, TREEBIN_SHIFT)) IN IndexFrom(X, S, Max(X))

(* Elsewhere: X is a size_t, below 2^16 when its highest bit is sought by  *)
(* halves.  Y - 2^k, in 32 bits, has high bits only if Y is less than 2^k. *)
HighestByHalves(X) ==
  LET Y == Number(X)
      N1 == IF Y < 2 ^ 8 THEN 8 ELSE 0
      N2 == IF Y * 2 ^ N1 < 2 ^ 12 THEN 4 ELSE 0
      N3 == IF Y * 2 ^ (N1 + N2) < 2 ^ 14 THEN 2 ELSE 0
      N == N1 + N2 + N3
  IN  14 - N + (Y * 2 ^ N) \div 2 ^ 15
compute_tree_index_portable(S) ==
  LET X == ShiftRight(S, TREEBIN_SHIFT) IN IndexFrom(X, S, HighestByHalves(X))

(* A slip: one bit less to branch on.                                      *)
top_bit_for_tree_index_Less(i) ==
  IF i = NTREEBINS - 1 THEN SIZE_T_BITSIZE - 1 ELSE (i \div 2) + TREEBIN_SHIFT - 3

(* The highest bit that tells sizes of tree i apart.                       *)
top_bit_for_tree_index(i) ==
  IF i = NTREEBINS - 1 THEN SIZE_T_BITSIZE - 1 ELSE (i \div 2) + TREEBIN_SHIFT - 2

minsize_for_tree_index(i) ==
  {(i \div 2) + TREEBIN_SHIFT}
    \cup (IF i % 2 = 1 THEN {(i \div 2) + TREEBIN_SHIFT - 1} ELSE {})

-----------------------------------------------------------------------------
(* The sizes of the instance: large ones of one or two bits.               *)
LargeSizes ==
  {S \in {{k, l} : k, l \in SizeBits} : \E k \in S : k >= TREEBIN_SHIFT}

-----------------------------------------------------------------------------
(* do_check_tree: a chunk is at least as large as the least of its tree,   *)
(* and smaller than the least of the next (compute_tree_index).            *)
InRangeOfTree ==
  \A a \in LargeSizes :
    LET i == compute_tree_index_x86(a) IN
    /\ ~Less(a, minsize_for_tree_index(i))
    /\ i # NTREEBINS - 1 => Less(a, minsize_for_tree_index(i + 1))

(* tmalloc_large takes any chunk of a later tree for large enough: a       *)
(* chunk in an earlier tree than another is the smaller one.               *)
TreesInOrder ==
  \A a, b \in LargeSizes :
    compute_tree_index_x86(a) < compute_tree_index_x86(b) => Less(a, b)

(* A path in a tree branches on the bits from bit_for_tree_index down: the *)
(* sizes in a tree differ in no other bit, so that two chunks whose paths  *)
(* are the same have the same size.                                        *)
PathsTellApart ==
  \A a, b \in LargeSizes :
    LET i == compute_tree_index_x86(a) IN
    compute_tree_index_x86(b) = i =>
      \A k \in (a \ b) \cup (b \ a) : k <= top_bit_for_tree_index(i)

(* An image is written by one program and used by another: the definitions *)
(* of compute_tree_index for different compilers agree.                    *)
IndexIsPortable ==
  \A a \in LargeSizes : compute_tree_index_x86(a) = compute_tree_index_portable(a)
=============================================================================
