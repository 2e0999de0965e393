----------------------------- MODULE MCBuilder -----------------------------
(* Instances of Build: one process builds, another reads.                  *)
EXTENDS Builder, TLC

CONSTANTS b1, r1, builder, reader, f1, s1, s2

BuilderAndReader == (b1 :> builder @@ r1 :> reader)
OneBuilder == (b1 :> builder)
=============================================================================
