-------------------------------- MODULE Kcfg --------------------------------
(***************************************************************************)
(* The conversion of containers from and to JSON, mmdata_kcfg.hpp.         *)
(*                                                                         *)
(* Parse is a stack of calls, one for each value it is in the middle of; a *)
(* step is a turn of a loop.  Any allocation may throw.  A value that was  *)
(* parsed is written with Serialize, and that is parsed into a new value.  *)
(*                                                                         *)
(* A document is [is |-> its kind, leaf |-> the content of a number or a   *)
(* string, in |-> its members or elements, each with a name].  A container *)
(* is a function of its keys, or a sequence.                               *)
(***************************************************************************)
EXTENDS Integers, SequencesExt, FiniteSetsExt

CONSTANTS
  Types,         \* the types that are parsed
  Docs(_),       \* Docs(T): the documents that a value of type T is read from
  Given(_),      \* Given(T): what a value of type T may hold before
  Names,         \* what members may be called; keys are written alike
  LexicalCast,   \* LexicalCast[n]: n as a K by boost::lexical_cast, or BadCast
  KeyText,       \* KeyText[k]: the K k as a string, or BadCast
  CString,       \* CString[n]: n up to its first NUL
  BadCast

ASSUME NamesAssumption ==
  /\ LexicalCast \in [Names -> Names \cup {BadCast}]
  /\ KeyText \in [Names -> Names \cup {BadCast}]
  /\ CString \in [Names -> Names]

VARIABLES
  ty,      \* the type of the value that is parsed
  doc,     \* the document, or Absent
  given,   \* what the value held when Parse was called
  calls,   \* the calls that have not returned, the innermost last
  v,       \* what the value holds when Parse has returned or thrown
  status,  \* "running", what Parse returned, or "thrown"
  saved    \* <<>>, or <<what was written>> when it is read back
vars == <<ty, doc, given, calls, v, status, saved>>

Absent == [is |-> "absent", leaf |-> "", in |-> <<>>]
Leaf(is, leaf) == [is |-> is, leaf |-> leaf, in |-> <<>>]
Nested(is, in) == [is |-> is, leaf |-> "", in |-> in]
Member(name, val) == [name |-> name, val |-> val]

Maps == {"hash_map", "string_map", "map"}

(* What the value of an SHMConstructor<T> begins with.                     *)
Constructed(T) ==
  CASE T.k = "number" -> "0" [] T.k = "string" -> "" [] OTHER -> <<>>

(* Parse(json, "", value): at is the member it is at, 0 before the loop.   *)
Call(T, json, value) == [ty |-> T, json |-> json, at |-> 0, v |-> value]

Start(T, json, value) ==
  /\ ty = T /\ doc = json /\ given = value
  /\ calls = <<Call(T, json, value)>>

Init ==
  /\ \E T \in Types : \E json \in Docs(T), value \in Given(T) : Start(T, json, value)
  /\ v = <<>> /\ status = "running" /\ saved = <<>>

-----------------------------------------------------------------------------
Top == Last(calls)
Running(kinds) == calls # <<>> /\ Top.ty.k \in kinds
ReplaceTop(f) == calls' = Append(Front(calls), f)

(* v.insert keeps the entry that a key has; v.push_back.                   *)
Insert(m, k, x) == [j \in DOMAIN m \cup {k} |-> IF j \in DOMAIN m THEN m[j] ELSE x]

KeyOf(T, name) == IF T.k = "string_map" THEN name ELSE LexicalCast[name]

(* A slip: a member whose key is there already is not stepped over.        *)
Taken_Stuck(f, x) ==
  LET k == KeyOf(f.ty, f.json.in[f.at].name) IN
  IF f.ty.k \in Maps
    THEN [f EXCEPT !.v = Insert(@, k, x), !.at = IF k \in DOMAIN f.v THEN @ ELSE @ + 1]
    ELSE [f EXCEPT !.v = Append(@, x), !.at = @ + 1]

(* A slip: operator[] in place of insert.                                  *)
Taken_Overwrites(f, x) ==
  LET k == KeyOf(f.ty, f.json.in[f.at].name) IN
  IF f.ty.k \in Maps
    THEN [f EXCEPT !.v = [j \in DOMAIN @ \cup {k} |-> IF j = k THEN x ELSE @[j]],
                   !.at = @ + 1]
    ELSE [f EXCEPT !.v = Append(@, x), !.at = @ + 1]

(* The value of a member has been parsed.                                  *)
Taken(f, x) ==
  [f EXCEPT !.v = IF f.ty.k \in Maps
                    THEN Insert(@, KeyOf(f.ty, f.json.in[f.at].name), x)
                    ELSE Append(@, x),
            !.at = @ + 1]

Finished(result, value) ==
  /\ status' = result /\ v' = value /\ calls' = <<>>

ReturnTrue(x) ==
  /\ IF Len(calls) = 1 THEN Finished("true", x)
     ELSE /\ calls' = Append(Front(Front(calls)), Taken(Last(Front(calls)), x))
          /\ UNCHANGED <<v, status>>
  /\ UNCHANGED <<ty, doc, given, saved>>

(* A slip: nobody clears.                                                  *)
ReturnFalse_Keeps(x) ==
  /\ Finished("false", IF Len(calls) = 1 THEN x ELSE calls[1].v)
  /\ UNCHANGED <<ty, doc, given, saved>>

(* The innermost call leaves x in its value; those that called it clear    *)
(* theirs and return false in turn.                                        *)
ReturnFalse(x) ==
  /\ Finished("false", IF Len(calls) = 1 THEN x ELSE <<>>)
  /\ UNCHANGED <<ty, doc, given, saved>>

(* The numbers are parsed by the library; the strings with assign.         *)
ParseNumber ==
  /\ Running({"number"})
  /\ IF Top.json.is = "number" THEN ReturnTrue(Top.json.leaf) ELSE ReturnFalse(Top.v)

ParseString ==
  /\ Running({"string"})
  /\ IF Top.json.is = "string" THEN ReturnTrue(Top.json.leaf) ELSE ReturnFalse(Top.v)

(* The tests before the loop, and reserve.                                 *)
Enter(is) ==
  /\ Top.at = 0
  /\ IF Top.json.is # is THEN ReturnFalse(Top.v)
     ELSE /\ ReplaceTop([Top EXCEPT !.at = 1])
          /\ UNCHANGED <<ty, doc, given, v, status, saved>>

Parse(T, json) ==
  /\ calls' = Append(calls, Call(T, json, Constructed(T)))
  /\ UNCHANGED <<ty, doc, given, v, status, saved>>

(* A turn of the loop over members.  A key that cannot be converted ends   *)
(* it, and nothing is cleared.                                             *)
ParseMember ==
  LET member == Top.json.in[Top.at] IN
  /\ Top.at \in DOMAIN Top.json.in
  /\ IF KeyOf(Top.ty, member.name) = BadCast THEN ReturnFalse(Top.v)
     ELSE Parse(Top.ty.of, member.val)

Leave == Top.at = Len(Top.json.in) + 1 /\ ReturnTrue(Top.v)

ParseHashMap == Running({"hash_map"}) /\ (Enter("object") \/ ParseMember \/ Leave)
ParseStringMap == Running({"string_map"}) /\ (Enter("object") \/ ParseMember \/ Leave)
ParseMap == Running({"map"}) /\ (Enter("object") \/ ParseMember \/ Leave)

ParseVector ==
  /\ Running({"vector"})
  /\ \/ Enter("array")
     \/ Top.at \in DOMAIN Top.json.in /\ Parse(Top.ty.of, Top.json.in[Top.at].val)
     \/ Leave

(* std::bad_alloc: what the calls built is destroyed, the value is not.    *)
BadAlloc ==
  /\ calls # <<>>
  /\ Finished("thrown", calls[1].v)
  /\ UNCHANGED <<ty, doc, given, saved>>

-----------------------------------------------------------------------------
(* Serialize.  A map is written in the order in which it is iterated; one  *)
(* with a key that has no text is not written at all.                      *)
(* A slip: ++it in the condition of the loop.                              *)
KeysIn_NotFirst(m, order) ==
  LET keys == SelectSeq(order, LAMBDA k : k \in DOMAIN m) IN SubSeq(keys, 2, Len(keys))

KeysIn(m, order) == SelectSeq(order, LAMBDA k : k \in DOMAIN m)

(* text[k] is the name that a key is given, written[k] its value's JSON.   *)
SerializedMap(order, text, written) ==
  LET keys == KeysIn(written, order) IN
  IF \E k \in DOMAIN written : text[k] = BadCast THEN Absent
  ELSE Nested("object", [i \in DOMAIN keys |->
                           Member(CString[text[keys[i]]], written[keys[i]])])

SerializedStringMap(order, written) ==
  SerializedMap(order, [k \in DOMAIN written |-> k], written)

SerializedVector(written) ==
  Nested("array", [i \in DOMAIN written |-> Member("", written[i])])

(* addJsonMember is not called for what is not written.                    *)
Drop(json) == [json EXCEPT !.in = SelectSeq(@, LAMBDA mb : mb.val # Absent)]

RECURSIVE Serialized(_, _, _)
Serialized(T, x, order) ==
  LET written == [k \in DOMAIN x |-> Serialized(T.of, x[k], order)] IN
  CASE T.k \in {"number", "string"} -> Leaf(T.k, x)
    [] T.k = "vector" -> Drop(SerializedVector(written))
    [] T.k = "string_map" -> Drop(SerializedStringMap(order, written))
    [] OTHER -> Drop(SerializedMap(order, KeyText, written))

ReadBack ==
  /\ status = "true" /\ saved = <<>>
  /\ \E order \in SetToSeqs(Names) : doc' = Serialized(ty, v, order)
  /\ saved' = <<v>>
  /\ given' = Constructed(ty)
  /\ calls' = <<Call(ty, doc', given')>>
  /\ status' = "running" /\ v' = <<>>
  /\ UNCHANGED ty

-----------------------------------------------------------------------------
Step ==
  \/ ParseNumber \/ ParseString \/ ParseHashMap \/ ParseStringMap
  \/ ParseMap \/ ParseVector
  \/ ReadBack

Next == Step \/ BadAlloc

(* A thread that has called Parse goes on.                                 *)
Spec == Init /\ [][Next]_vars /\ WF_vars(Step)

-----------------------------------------------------------------------------
(* What Parse should do, without the loops: which documents it accepts ... *)
RECURSIVE Fits(_, _)
Fits(T, json) ==
  CASE T.k \in {"number", "string"} -> json.is = T.k
    [] T.k = "vector" -> json.is = "array" /\ \A i \in DOMAIN json.in : Fits(T.of, json.in[i].val)
    [] OTHER -> /\ json.is = "object"
                /\ \A i \in DOMAIN json.in : /\ KeyOf(T, json.in[i].name) # BadCast
                                             /\ Fits(T.of, json.in[i].val)

(* ... and what the first n members add to a value.                        *)
RECURSIVE Meaning(_, _, _, _)
Meaning(T, json, n, before) ==
  LET Of(i) == Meaning(T.of, json.in[i].val, Len(json.in[i].val.in), Constructed(T.of))
      Keyed(k) == {i \in 1 .. n : KeyOf(T, json.in[i].name) = k}
      Keys == {KeyOf(T, json.in[i].name) : i \in 1 .. n}
  IN  CASE T.k \in {"number", "string"} -> json.leaf
        [] T.k = "vector" -> before \o [i \in 1 .. n |-> Of(i)]
        [] OTHER -> [k \in DOMAIN before \cup Keys |->
                       IF k \in DOMAIN before THEN before[k] ELSE Of(Min(Keyed(k)))]

(* Parse accepts what fits its type and nothing else, and what it then     *)
(* leaves is what was there with what the document adds: the first of      *)
(* members with one key, in whatever spelling, and no key that was there   *)
(* (the loops over members and elements, insert).                          *)
ParsedAsMeant ==
  /\ status = "true" => /\ Fits(ty, doc)
                        /\ v = Meaning(ty, doc, Len(doc.in), given)
  /\ status = "false" => ~Fits(ty, doc)

(* Whoever catches the exception or is told false finds either nothing, or *)
(* what was there and whole entries from the beginning of the document:    *)
(* never a value that was parsed in part, nor an entry behind a bad one    *)
(* (v.clear, the locals of an inner call).                                 *)
NothingHalfParsed ==
  status \in {"false", "thrown"} /\ ty.k \notin {"number", "string"} =>
    \/ status = "false" /\ v = <<>>
    \/ v = given
    \/ \E n \in DOMAIN doc.in :
         /\ Fits(ty, [doc EXCEPT !.in = SubSeq(@, 1, n)])
         /\ v = Meaning(ty, doc, n, given)
         /\ status = "false" => KeyOf(ty, doc.in[n + 1].name) = BadCast

(* What was written is read back as it was, in whatever order a map was    *)
(* iterated, if its keys have texts and no NUL in them (Serialize against  *)
(* Parse).                                                                 *)
RECURSIVE Writable(_, _)
Writable(T, x) ==
  CASE T.k \in {"number", "string"} -> TRUE
    [] T.k = "vector" -> \A i \in DOMAIN x : Writable(T.of, x[i])
    [] OTHER -> \A k \in DOMAIN x :
                  LET text == IF T.k = "string_map" THEN k ELSE KeyText[k] IN
                  text # BadCast /\ CString[text] = text /\ Writable(T.of, x[k])

RoundTrip ==
  saved # <<>> /\ Writable(ty, saved[1]) /\ status \notin {"running", "thrown"} =>
    status = "true" /\ v = saved[1]

(* Parse returns or throws, on every document (it++ on every path).        *)
ParseReturns == status = "running" ~> status # "running"
=============================================================================
