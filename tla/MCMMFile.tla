----------------------------- MODULE MCMMFile -----------------------------
(* Instances of the image files: one process builds, with one object at a  *)
(* time, and one reads, with two.                                          *)
EXTENDS MMFile, TLC

CONSTANTS b1, b2, r1, r2, builder, reader, s1, s2

BuilderAndReaders == (b1 :> builder @@ r1 :> reader @@ r2 :> reader)
BuilderAndReader == (b1 :> builder @@ r1 :> reader)
OneBuilder == (b1 :> builder)
TwoBuilders == (b1 :> builder @@ b2 :> builder)

(* The places of an address space are alike, and so are the two readers.   *)
Alike == Permutations({r1, r2}) \cup Permutations({s1, s2})
SlotsAlike == Permutations({s1, s2})
===========================================================================
