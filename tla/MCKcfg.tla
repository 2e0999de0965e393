------------------------------- MODULE MCKcfg -------------------------------
(* Documents of up to three members, with names of every sort: the number  *)
(* 1 in two spellings, a number whose type cannot write it, a name that is *)
(* no number, and one that continues behind a NUL (here a dot).            *)
EXTENDS Kcfg

CONSTANT MaxMembers

N == [k |-> "number"]
S == [k |-> "string"]
Of(kind, T) == [k |-> kind, of |-> T]

(* Entries are string maps of vectors and of numbers; keys of the other    *)
(* maps are numbers.                                                       *)
MCTypes == {Of("string_map", Of("vector", N)), Of("hash_map", S), Of("map", N),
            Of("vector", Of("map", S))}

MCNames == {"1", "01", "7", "x", "x.y"}
MCLexicalCast == [n \in MCNames |-> CASE n \in {"1", "01"} -> "1"
                                      [] n = "7" -> "7" [] OTHER -> BadCast]
MCKeyText == [n \in MCNames |-> IF n = "7" THEN BadCast ELSE n]
MCCString == [n \in MCNames |-> IF n = "x.y" THEN "x" ELSE n]

SeqsUpTo(A, n) == UNION {[1 .. i -> A] : i \in 0 .. n}

RECURSIVE Inside(_, _)
Inside(T, n) ==
  CASE T.k \in {"number", "string"} -> {Leaf("number", "3"), Leaf("string", "s")}
    [] T.k = "vector" ->
         {Leaf("string", "s")} \cup
         {Nested("array", s) : s \in SeqsUpTo({Member("", d) : d \in Inside(T.of, 1)}, n)}
    [] OTHER ->
         {Leaf("string", "s")} \cup
         {Nested("object", s) :
            s \in SeqsUpTo({Member(m, d) : m \in MCNames, d \in Inside(T.of, 1)}, n)}
MCDocs(T) == Inside(T, MaxMembers) \cup {Absent}

MCGiven(T) ==
  {<<>>} \cup (CASE T.k = "vector" -> {<<[k \in {"1"} |-> "old"]>>}
                 [] T.k = "string_map" -> {[k \in {"x"} |-> <<"2">>]}
                 [] OTHER -> {[k \in {"1"} |-> "2"]})
=============================================================================
