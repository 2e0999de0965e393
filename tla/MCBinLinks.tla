----------------------------- MODULE MCBinLinks -----------------------------
(* Instances of BinLinks.  A granule is 8 bytes, and NSMALLBINS = 4 makes  *)
(* sizes from 4 large.  MixedSizes are in two small bins and three trees:  *)
(* 16 .. 23 are one, which branches on three bits; the trees of least      *)
(* sizes in the program, 256 .. 376 bytes, on four.                        *)
(* Widths of BinIndexing: below 2^40 bytes around the powers of two, and   *)
(* of 2^40.                                                                *)
EXTENDS BinLinks, TLC

MixedSizes == {2, 3, 15, 16, 20, 21, 23, 24}
Chunk_Symmetry == Permutations(Chunks)

BelowATebibyte == {3, 5, 6, 7} \cup 8 .. 12 \cup 21 .. 25 \cup {38, 39}
AlsoATebibyte == BelowATebibyte \cup {40}
=============================================================================
