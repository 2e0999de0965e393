---------------------------- MODULE MMDataProofs ----------------------------
(***************************************************************************)
(* Who owns the blocks of images, for any number of images, names, MMData  *)
(* objects and blocks: an entry of a table, a caller, or a constructor     *)
(* that threw.                                                             *)
(*                                                                         *)
(* The inductive invariant MInv says that no block has two owners, that a  *)
(* block of an entry lies where the tables of its image expect it, and     *)
(* that a block in use has an owner.  The last, and that the texts of keys *)
(* lie in the image, needs keys that are made with the image's allocator   *)
(* (~DefaultKeys): the example of the README makes others.                 *)
(***************************************************************************)
EXTENDS MMData, FiniteSetTheorems, TLAPS

USE MemsAssumption

Space == Mems \cup {NULL}
Entry == [node : Blocks \cup {NULL}, text : Blocks \cup {NULL},
          value : Blocks \cup {NULL}]
Image == [made : BOOLEAN, rooted : BOOLEAN,
          naming : [Names -> Entry], root : [Names -> Entry]]

(* The entries of all tables in one function.                              *)
Keys == Mems \X {"naming", "root"} \X Names
At(im, k) == IF k[2] = "naming" THEN im[k[1]].naming[k[3]] ELSE im[k[1]].root[k[3]]
EntriesOf(im) == [k \in Keys |-> At(im, k)]

(* The blocks that an entry owns.                                          *)
All(e) == {e.node, e.text, e.value} \ {NULL}

Typed ==
  /\ meta_ \in [MMDatas -> Space] /\ allocator_ \in [MMDatas -> Space]
  /\ image \in [Mems -> Image]
  /\ live = [b \in DOMAIN live |-> live[b]] /\ DOMAIN live \subseteq Blocks

(* Each block in D has one owner, and each owner's blocks are in D.        *)
Owned(ent, D, mi, le) ==
  /\ \A k \in Keys : All(ent[k]) \subseteq D \ (mi \cup le)
  /\ \A k, l \in Keys : k # l => All(ent[k]) \cap All(ent[l]) = {}
  /\ mi \subseteq D /\ le \subseteq D /\ mi \cap le = {}

(* No block in D is without an owner.                                      *)
Accounted(ent, D, mi, le) ==
  \A b \in D : b \in mi \cup le \/ \E k \in Keys : b \in All(ent[k])

(* The node and the object of an entry lie in the memory of its table; the *)
(* text of its key does, unless it is in the heap of the process.          *)
Placed(ent) ==
  \A k \in Keys :
    /\ ent[k].node # NULL => ent[k].node[1] = k[1]
    /\ ent[k].value # NULL => ent[k].value[1] = k[1] /\ k[2] = "naming"
    /\ ent[k].text # NULL => \/ ent[k].text[1] = k[1]
                             \/ DefaultKeys /\ ent[k].text[1] = Process

(* The object of an entry was made under its name.                         *)
Named(ent, lv) ==
  \A k \in Keys : ent[k].value # NULL => lv[ent[k].value] = Object(k[3])

MInv ==
  /\ Typed /\ damaged = FALSE
  /\ Owned(EntriesOf(image), DOMAIN live, mine, left)
  /\ ~DefaultKeys => Accounted(EntriesOf(image), DOMAIN live, mine, left)
  /\ Placed(EntriesOf(image)) /\ Named(EntriesOf(image), live)

(* The tables of m were emptied, the others are as they were.              *)
Emptied(ent2, ent, m) ==
  \A k \in Keys : ent2[k] = IF k[1] = m THEN NoEntry ELSE ent[k]

(* The entry at k was erased.                                              *)
Erased(ent2, ent, k) == ent2 = [ent EXCEPT ![k] = NoEntry]

(* What the step does to the names that are bound.                         *)
NamesKept ==
  \A m \in Mems, n \in Names :
    LET b == image[m].naming[n].value IN
    b # NULL /\ image'[m].naming[n].value # b =>
      image'[m].naming[n] = NoEntry /\ b \notin DOMAIN live'

-----------------------------------------------------------------------------
(* Owners.                                                                 *)
LEMMA NoEntryOwnsNothing ==
  /\ NoEntry \in Entry /\ All(NoEntry) = {} /\ BlocksOf(NoEntry) = {}
  /\ NoEntry.node = NULL /\ NoEntry.text = NULL /\ NoEntry.value = NULL
  BY DEF NoEntry, Entry, All, BlocksOf

(* A new entry gets blocks that were free, and so may a constructor that   *)
(* throws.                                                                 *)
LEMMA OwnedPut ==
  ASSUME NEW ent \in [Keys -> Entry], NEW D, NEW mi, NEW le, Owned(ent, D, mi, le),
         NEW k \in Keys, All(ent[k]) = {}, NEW e, NEW L,
         All(e) \cap D = {}, L \cap D = {}, L \cap All(e) = {},
         NEW ent2, ent2 = [ent EXCEPT ![k] = e],
         NEW D2, D2 = D \cup All(e) \cup L
  PROVE  /\ Owned(ent2, D2, mi, le \cup L)
         /\ Accounted(ent, D, mi, le) => Accounted(ent2, D2, mi, le \cup L)
  <1> DEFINE A == All(e)
  <1>1. /\ All(ent2[k]) = A
        /\ \A l \in Keys \ {k} : ent2[l] = ent[l]
    OBVIOUS
  <1> HIDE DEF A
  <1>2. D2 = D \cup A \cup L /\ A \cap D = {} /\ L \cap A = {}
    BY DEF A
  <1>3. \A l \in Keys : All(ent2[l]) \subseteq D2 \ (mi \cup (le \cup L))
    BY <1>1, <1>2 DEF Owned
  <1>4. \A l, j \in Keys : l # j => All(ent2[l]) \cap All(ent2[j]) = {}
    BY <1>1, <1>2 DEF Owned
  <1>5. Owned(ent2, D2, mi, le \cup L)
    BY <1>2, <1>3, <1>4 DEF Owned
  <1>6. ASSUME Accounted(ent, D, mi, le) PROVE Accounted(ent2, D2, mi, le \cup L)
    <2>1. \A b \in D : b \in mi \cup le \/ \E l \in Keys \ {k} : b \in All(ent[l])
      BY <1>6 DEF Accounted
    <2> QED
      BY <1>1, <1>2, <2>1 DEF Accounted
  <1> QED
    BY <1>5, <1>6

(* An entry that is erased takes its blocks with it.                       *)
LEMMA OwnedErased ==
  ASSUME NEW ent \in [Keys -> Entry], NEW D, NEW mi, NEW le, Owned(ent, D, mi, le), NEW k \in Keys,
         NEW ent2, Erased(ent2, ent, k)
  PROVE  /\ Owned(ent2, D \ All(ent[k]), mi, le)
         /\ Accounted(ent, D, mi, le) => Accounted(ent2, D \ All(ent[k]), mi, le)
  <1> DEFINE D2 == D \ All(ent[k])
  <1>1. /\ All(ent2[k]) = {}
        /\ \A l \in Keys \ {k} : ent2[l] = ent[l]
    BY NoEntryOwnsNothing DEF Erased
  <1>2. \A l \in Keys \ {k} : All(ent[l]) \cap All(ent[k]) = {}
    BY DEF Owned
  <1>3. Owned(ent2, D2, mi, le)
    <2>1. \A l \in Keys : All(ent2[l]) \subseteq D2 \ (mi \cup le)
      BY <1>1, <1>2 DEF Owned
    <2>2. \A l, j \in Keys : l # j => All(ent2[l]) \cap All(ent2[j]) = {}
      BY <1>1 DEF Owned
    <2>3. mi \subseteq D2 /\ le \subseteq D2 /\ mi \cap le = {}
      BY DEF Owned
    <2> QED
      BY <2>1, <2>2, <2>3 DEF Owned
  <1>4. ASSUME Accounted(ent, D, mi, le) PROVE Accounted(ent2, D2, mi, le)
    <2>1. \A b \in D2 : b \in mi \cup le \/ \E l \in Keys \ {k} : b \in All(ent[l])
      BY <1>4 DEF Accounted
    <2> QED
      BY <1>1, <2>1 DEF Accounted
  <1> QED
    BY <1>3, <1>4

(* A new image has no entries, and nothing that was in its memory is left. *)
LEMMA OwnedCreated ==
  ASSUME NEW ent \in [Keys -> Entry],
         NEW D \in SUBSET Blocks, NEW mi, NEW le, Owned(ent, D, mi, le),
         Placed(ent), NEW m \in Mems, NEW gone, gone = {b \in Blocks : b[1] = m},
         NEW ent2, Emptied(ent2, ent, m)
  PROVE  /\ Owned(ent2, D \ gone, mi \ gone, le \ gone)
         /\ ~DefaultKeys /\ Accounted(ent, D, mi, le) =>
              Accounted(ent2, D \ gone, mi \ gone, le \ gone)
  <1>1. \A k \in Keys : ent2[k] = IF k[1] = m THEN NoEntry ELSE ent[k]
    BY DEF Emptied
  <1>2. \A k \in Keys : k[1] # m => All(ent[k]) \cap gone = {}
    <2>1. ASSUME NEW k \in Keys, k[1] # m, NEW b \in All(ent[k]) PROVE b[1] # m
      <3>1. b[1] = k[1] \/ b[1] = Process
        BY <2>1 DEF Placed, All
      <3> QED
        BY <2>1, <3>1
    <2> QED
      BY <2>1
  <1>3. \A k \in Keys : All(ent2[k]) = IF k[1] = m THEN {} ELSE All(ent[k])
    BY <1>1, NoEntryOwnsNothing
  <1>4. Owned(ent2, D \ gone, mi \ gone, le \ gone)
    BY <1>2, <1>3 DEF Owned
  <1>5. ASSUME ~DefaultKeys, Accounted(ent, D, mi, le)
        PROVE  Accounted(ent2, D \ gone, mi \ gone, le \ gone)
    <2>1. \A k \in Keys : k[1] = m => All(ent[k]) \subseteq gone
      <3>1. ASSUME NEW k \in Keys, k[1] = m, NEW b \in All(ent[k]) PROVE b \in gone
        <4>1. b[1] = m /\ b \in Blocks
          BY <1>5, <3>1 DEF Placed, All, Entry
        <4> QED
          BY <4>1
      <3> QED
        BY <3>1
    <2> QED
      BY <1>3, <1>5, <2>1 DEF Accounted
  <1> QED
    BY <1>4, <1>5

-----------------------------------------------------------------------------
(* Blocks.                                                                 *)
LEMMA FreshIsFree ==
  ASSUME NEW held, NEW h \in Heaps, Spare(held, h) # {}
  PROVE  Fresh(held, h) \in Blocks \ DOMAIN held /\ Fresh(held, h)[1] = h
  <1> DEFINE i == CHOOSE j \in Spare(held, h) : TRUE
  <1>1. i \in Spare(held, h)
    OBVIOUS
  <1> HIDE DEF i
  <1>2. Fresh(held, h) = <<h, i>>
    BY DEF Fresh, i
  <1> QED
    BY <1>1, <1>2 DEF Spare, Blocks

(* A heap, as a function from blocks.                                      *)
IsHeap(held) == held = [b \in DOMAIN held |-> held[b]] /\ DOMAIN held \subseteq Blocks

(* Two heaps have the same in the blocks that both have.                   *)
Agree(h, held) == \A c \in DOMAIN h : c \in DOMAIN held => h[c] = held[c]

LEMMA PutFacts ==
  ASSUME NEW held, IsHeap(held), NEW b \in Blocks \ DOMAIN held, NEW content,
         NEW h, h = Put(held, b, content)
  PROVE  /\ IsHeap(h) /\ DOMAIN h = DOMAIN held \cup {b} /\ h[b] = content
         /\ Agree(h, held)
  BY DEF Put, IsHeap, Agree

LEMMA WithoutFacts ==
  ASSUME NEW held, IsHeap(held), NEW B, NEW h, h = Without(held, B)
  PROVE  /\ IsHeap(h) /\ DOMAIN h = DOMAIN held \ B
         /\ Agree(h, held)
  BY DEF Without, IsHeap, Agree

(* A heap that has i blocks to spare for i of 1 and 2.                     *)
LEMMA RoomToSpare ==
  ASSUME NEW held, NEW h
  PROVE  /\ Cardinality(Spare(held, h)) \in Nat
         /\ Cardinality(Spare(held, h)) >= 1 => Spare(held, h) # {}
         /\ Cardinality(Spare(held, h)) >= 2 => \A i : Spare(held, h) \ {i} # {}
  <1> DEFINE S == Spare(held, h)
  <1>1. IsFiniteSet(S)
    <2>1. S \in SUBSET (1 .. Room) /\ IsFiniteSet(1 .. Room)
      BY FS_Interval DEF Spare
    <2> QED
      BY <2>1, FS_Subset
  <1> HIDE DEF S
  <1>2. Cardinality(S) \in Nat
    BY <1>1, FS_CardinalityType
  <1>3. Cardinality(S) >= 1 => S # {}
    BY <1>1, <1>2, FS_EmptySet
  <1>4. ASSUME Cardinality(S) >= 2, NEW i, S \ {i} = {} PROVE FALSE
    <2>1. S = {} \/ S = {i}
      BY <1>4
    <2> QED
      BY <1>2, <1>4, <2>1, FS_EmptySet, FS_Singleton
  <1> QED
    BY <1>2, <1>3, <1>4 DEF S

(* What insert adds to a heap that has room for it.                        *)
LEMMA InsertedFits ==
  ASSUME NEW held, IsHeap(held), NEW m \in Mems, NEW n \in Names,
         NEW space \in Space, CanInsert(held, m, n, space),
         NEW ins, ins = Inserted(held, m, n, space, NULL)
  PROVE  /\ ins.entry \in Entry /\ ins.entry.value = NULL
         /\ ins.entry.node # NULL /\ ins.entry.node[1] = m
         /\ ins.entry.text # NULL => ins.entry.text[1] = HeapOf(space)
         /\ IsHeap(ins.heap) /\ All(ins.entry) \cap DOMAIN held = {}
         /\ DOMAIN ins.heap = DOMAIN held \cup All(ins.entry)
         /\ Agree(ins.heap, held)
  <1> DEFINE node == Fresh(held, m)
             nodeOf == [what |-> "node", name |-> n]
             textOf == [what |-> "text", name |-> n]
             withNode == Put(held, node, nodeOf)
             H == HeapOf(space)
             text == Fresh(withNode, H)
             withText == Put(withNode, text, textOf)
             needs(h) == (IF h = m THEN 1 ELSE 0) + (IF n \in LongNames /\ h = H THEN 1 ELSE 0)
  <1>1. m \in Heaps /\ H \in Heaps
    BY DEF Heaps, HeapOf, Space
  <1>2. \A h \in Heaps : needs(h) <= Cardinality(Spare(held, h))
    BY DEF CanInsert
  <1>5. ins = [entry |-> [node |-> node, text |-> IF n \in LongNames THEN text ELSE NULL,
                          value |-> NULL],
               heap |-> IF n \in LongNames THEN withText ELSE withNode]
    BY DEF Inserted
  <1> HIDE DEF nodeOf, textOf
  <1>3. node \in Blocks \ DOMAIN held /\ node[1] = m
    <2>1. needs(m) >= 1
      OBVIOUS
    <2>2. Cardinality(Spare(held, m)) >= 1
      BY <1>1, <1>2, <2>1, RoomToSpare
    <2> QED
      BY <1>1, <2>2, RoomToSpare, FreshIsFree
  <1>4. /\ IsHeap(withNode) /\ DOMAIN withNode = DOMAIN held \cup {node}
        /\ \A b \in DOMAIN held : withNode[b] = held[b]
    <2>1. withNode = Put(held, node, nodeOf) /\ node \in Blocks \ DOMAIN held
      BY <1>3
    <2> HIDE DEF node, withNode
    <2>2. IsHeap(withNode) /\ DOMAIN withNode = DOMAIN held \cup {node} /\ Agree(withNode, held)
      BY <2>1, PutFacts
    <2> QED
      BY <2>2 DEF Agree
  <1>6. NULL \notin Blocks
    BY DEF Blocks, Heaps
  <1>7. CASE n \notin LongNames
    <2>1. ins = [entry |-> [node |-> node, text |-> NULL, value |-> NULL], heap |-> withNode]
      BY <1>5, <1>7
    <2> HIDE DEF node, withNode
    <2>2. All(ins.entry) = {node}
      BY <1>3, <1>6, <2>1 DEF All
    <2>3. ins.entry \in Entry /\ ins.entry.value = NULL /\ ins.entry.node = node
          /\ ins.entry.text = NULL /\ ins.heap = withNode
      BY <1>3, <2>1 DEF Entry
    <2> QED
      BY <1>3, <1>4, <1>6, <2>2, <2>3 DEF Agree
  <1>8. CASE n \in LongNames
    <2>1. Spare(withNode, H) # {}
      <3>1. CASE H = m
        <4>1. needs(m) = 2
          BY <1>8, <3>1
        <4>2. Cardinality(Spare(held, m)) >= 2
          BY <1>1, <1>2, <4>1, RoomToSpare
        <4>3. Spare(held, m) \ {node[2]} # {}
          BY <4>2, RoomToSpare
        <4>4. Spare(held, m) \ {node[2]} \subseteq Spare(withNode, m)
          <5> HIDE DEF node, withNode
          <5> QED
            BY <1>3, <1>4 DEF Spare
        <4> QED
          BY <3>1, <4>3, <4>4
      <3>2. CASE H # m
        <4>1. needs(H) = 1
          BY <1>8, <3>2
        <4>2. Cardinality(Spare(held, H)) >= 1
          BY <1>1, <1>2, <4>1, RoomToSpare
        <4>3. Spare(held, H) # {}
          BY <4>2, RoomToSpare
        <4>4. Spare(held, H) \subseteq Spare(withNode, H)
          <5> HIDE DEF node, withNode, H
          <5> QED
            BY <1>3, <1>4, <3>2 DEF Spare
        <4> QED
          BY <4>3, <4>4
      <3> QED
        BY <3>1, <3>2
    <2> HIDE DEF node, withNode, H
    <2>2. text \in Blocks \ DOMAIN withNode /\ text[1] = H
      BY <1>1, <2>1, FreshIsFree
    <2>3. /\ IsHeap(withText) /\ DOMAIN withText = DOMAIN withNode \cup {text}
          /\ \A b \in DOMAIN withNode : withText[b] = withNode[b]
      <3>1. withText = Put(withNode, text, textOf)
        OBVIOUS
      <3> HIDE DEF text, withText
      <3>2. /\ IsHeap(withText) /\ DOMAIN withText = DOMAIN withNode \cup {text}
            /\ Agree(withText, withNode)
        BY <1>4, <2>2, <3>1, PutFacts
      <3> QED
        BY <3>2 DEF Agree
    <2>4. ins = [entry |-> [node |-> node, text |-> text, value |-> NULL], heap |-> withText]
      BY <1>5, <1>8
    <2> HIDE DEF text, withText
    <2>5. All(ins.entry) = {node, text}
      BY <1>3, <1>6, <2>2, <2>4 DEF All
    <2>6. ins.entry \in Entry /\ ins.entry.value = NULL /\ ins.entry.node = node
          /\ ins.entry.text = text /\ ins.heap = withText
      BY <1>3, <2>2, <2>4 DEF Entry
    <2> QED
      BY <1>3, <1>4, <1>6, <2>2, <2>3, <2>5, <2>6 DEF H, Agree
  <1> QED
    BY <1>7, <1>8

-----------------------------------------------------------------------------
(* A table is changed in one entry, or all tables of an image are emptied. *)
LEMMA EntryTypes ==
  ASSUME NEW im \in [Mems -> Image], NEW k \in Keys
  PROVE  /\ EntriesOf(im) \in [Keys -> Entry]
         /\ EntriesOf(im)[k] = At(im, k)
  <1>1. \A l \in Keys : At(im, l) \in Entry
    <2>1. ASSUME NEW l \in Keys PROVE At(im, l) \in Entry
      <3>1. l[1] \in Mems /\ l[3] \in Names
        BY DEF Keys
      <3>2. im[l[1]].naming \in [Names -> Entry] /\ im[l[1]].root \in [Names -> Entry]
        BY <3>1 DEF Image
      <3> QED
        BY <3>1, <3>2 DEF At
    <2> QED
      BY <2>1
  <1> QED
    BY <1>1 DEF EntriesOf

(* A table of m with entry e for n.                                        *)
WithNaming(im, m, n, e) == [im EXCEPT ![m].naming[n] = e]
WithRoot(im, m, n, e) == [im EXCEPT ![m].root[n] = e]

LEMMA NamingChanged ==
  ASSUME NEW im \in [Mems -> Image], NEW m \in Mems, NEW n \in Names, NEW e \in Entry,
         NEW im2, im2 = WithNaming(im, m, n, e)
  PROVE  /\ im2 \in [Mems -> Image]
         /\ EntriesOf(im2) = [EntriesOf(im) EXCEPT ![<<m, "naming", n>>] = e]
  <1> DEFINE k == <<m, "naming", n>>
             i == [im[m] EXCEPT !.naming = [im[m].naming EXCEPT ![n] = e]]
  <1>1. im2 = [im EXCEPT ![m] = i]
    BY DEF WithNaming
  <1>2. /\ i \in Image /\ i.naming = [im[m].naming EXCEPT ![n] = e] /\ i.root = im[m].root
        /\ im[m].naming \in [Names -> Entry]
    BY DEF Image
  <1> HIDE DEF i
  <1>3. im2 \in [Mems -> Image] /\ im2[m] = i /\ \A o \in Mems \ {m} : im2[o] = im[o]
    BY <1>1, <1>2
  <1>4. ASSUME NEW l \in Keys PROVE At(im2, l) = IF l = k THEN e ELSE At(im, l)
    <2>1. l[1] \in Mems /\ l[2] \in {"naming", "root"} /\ l[3] \in Names
          /\ l = <<l[1], l[2], l[3]>>
      BY DEF Keys
    <2>2. l = k <=> l[1] = m /\ l[2] = "naming" /\ l[3] = n
      BY <2>1
    <2>3. CASE l[1] # m
      BY <1>3, <2>1, <2>2, <2>3 DEF At
    <2>4. CASE l[1] = m /\ l[2] = "root"
      BY <1>2, <1>3, <2>1, <2>2, <2>4 DEF At
    <2>5. CASE l[1] = m /\ l[2] = "naming"
      BY <1>2, <1>3, <2>1, <2>2, <2>5 DEF At
    <2> QED
      BY <2>1, <2>3, <2>4, <2>5
  <1>5. k \in Keys
    BY DEF Keys
  <1> HIDE DEF k
  <1>6. EntriesOf(im2) = [EntriesOf(im) EXCEPT ![k] = e]
    BY <1>4, <1>5 DEF EntriesOf
  <1> QED
    BY <1>3, <1>6 DEF k

LEMMA RootChanged ==
  ASSUME NEW im \in [Mems -> Image], NEW m \in Mems, NEW n \in Names, NEW e \in Entry,
         NEW im2, im2 = WithRoot(im, m, n, e)
  PROVE  /\ im2 \in [Mems -> Image]
         /\ EntriesOf(im2) = [EntriesOf(im) EXCEPT ![<<m, "root", n>>] = e]
  <1> DEFINE k == <<m, "root", n>>
             i == [im[m] EXCEPT !.root = [im[m].root EXCEPT ![n] = e]]
  <1>1. im2 = [im EXCEPT ![m] = i]
    BY DEF WithRoot
  <1>2. /\ i \in Image /\ i.root = [im[m].root EXCEPT ![n] = e] /\ i.naming = im[m].naming
        /\ im[m].root \in [Names -> Entry]
    BY DEF Image
  <1> HIDE DEF i
  <1>3. im2 \in [Mems -> Image] /\ im2[m] = i /\ \A o \in Mems \ {m} : im2[o] = im[o]
    BY <1>1, <1>2
  <1>4. ASSUME NEW l \in Keys PROVE At(im2, l) = IF l = k THEN e ELSE At(im, l)
    <2>1. l[1] \in Mems /\ l[2] \in {"naming", "root"} /\ l[3] \in Names
          /\ l = <<l[1], l[2], l[3]>>
      BY DEF Keys
    <2>2. l = k <=> l[1] = m /\ l[2] = "root" /\ l[3] = n
      BY <2>1
    <2>3. CASE l[1] # m
      BY <1>3, <2>1, <2>2, <2>3 DEF At
    <2>4. CASE l[1] = m /\ l[2] = "root"
      BY <1>2, <1>3, <2>1, <2>2, <2>4 DEF At
    <2>5. CASE l[1] = m /\ l[2] = "naming"
      BY <1>2, <1>3, <2>1, <2>2, <2>5 DEF At
    <2> QED
      BY <2>1, <2>3, <2>4, <2>5
  <1>5. k \in Keys
    BY DEF Keys
  <1> HIDE DEF k
  <1>6. EntriesOf(im2) = [EntriesOf(im) EXCEPT ![k] = e]
    BY <1>4, <1>5 DEF EntriesOf
  <1> QED
    BY <1>3, <1>6 DEF k

LEMMA ImageEmptied ==
  ASSUME NEW im \in [Mems -> Image], NEW m \in Mems, NEW i \in Image,
         i.naming = NoEntries, i.root = NoEntries,
         NEW im2, im2 = [im EXCEPT ![m] = i]
  PROVE  /\ im2 \in [Mems -> Image]
         /\ Emptied(EntriesOf(im2), EntriesOf(im), m)
  <1>1. im2 \in [Mems -> Image] /\ im2[m] = i /\ \A o \in Mems \ {m} : im2[o] = im[o]
    OBVIOUS
  <1>2. ASSUME NEW k \in Keys
        PROVE  At(im2, k) = IF k[1] = m THEN NoEntry ELSE At(im, k)
    <2>1. k[1] \in Mems /\ k[3] \in Names
      BY DEF Keys
    <2>2. NoEntries[k[3]] = NoEntry
      BY <2>1 DEF NoEntries
    <2>3. CASE k[1] = m
      BY <1>1, <2>1, <2>2, <2>3 DEF At
    <2>4. CASE k[1] # m
      BY <1>1, <2>1, <2>4 DEF At
    <2> QED
      BY <2>3, <2>4
  <1> QED
    BY <1>1, <1>2 DEF EntriesOf, Emptied

-----------------------------------------------------------------------------
(* Steps.  An entry that was not there is made, of blocks that were free;  *)
(* blocks that a constructor left may be lost besides.                     *)
LEMMA EntryGotten ==
  ASSUME MInv, NEW k \in Keys, EntriesOf(image)[k] = NoEntry,
         NEW e \in Entry, e.node # NULL => e.node[1] = k[1],
         e.value # NULL => e.value[1] = k[1] /\ k[2] = "naming",
         e.text # NULL => \/ e.text[1] = k[1]
                          \/ DefaultKeys /\ e.text[1] = Process,
         image' \in [Mems -> Image],
         EntriesOf(image') = [EntriesOf(image) EXCEPT ![k] = e],
         NEW L, L \cap DOMAIN live = {}, L \cap All(e) = {},
         All(e) \cap DOMAIN live = {},
         IsHeap(live'), DOMAIN live' = DOMAIN live \cup All(e) \cup L,
         Agree(live', live),
         e.value # NULL => live'[e.value] = Object(k[3]),
         mine' = mine, left' = left \cup L, damaged' = damaged,
         meta_' = meta_, allocator_' = allocator_
  PROVE  MInv' /\ NamesKept
  <1> DEFINE ent == EntriesOf(image)
             ent2 == EntriesOf(image')
  <1>1. /\ image \in [Mems -> Image] /\ Owned(ent, DOMAIN live, mine, left)
        /\ ~DefaultKeys => Accounted(ent, DOMAIN live, mine, left)
        /\ Placed(ent) /\ Named(ent, live)
    BY DEF MInv, Typed
  <1>2. ent \in [Keys -> Entry] /\ All(ent[k]) = {}
    BY <1>1, EntryTypes, NoEntryOwnsNothing
  <1> HIDE DEF ent, ent2
  <1>3. /\ ent2 = [ent EXCEPT ![k] = e] /\ ent2[k] = e /\ ent[k] = NoEntry
        /\ \A l \in Keys \ {k} : ent2[l] = ent[l]
    BY <1>2 DEF ent, ent2
  <1>4. /\ Owned(ent2, DOMAIN live', mine', left')
        /\ ~DefaultKeys => Accounted(ent2, DOMAIN live', mine', left')
    <2> DEFINE D2 == DOMAIN live'
               D == DOMAIN live
    <2>1. D2 = D \cup All(e) \cup L /\ mine' = mine /\ left' = left \cup L
      OBVIOUS
    <2>2. All(e) \cap D = {} /\ L \cap D = {} /\ L \cap All(e) = {}
      OBVIOUS
    <2>3. Owned(ent, D, mine, left) /\ (~DefaultKeys => Accounted(ent, D, mine, left))
      BY <1>1
    <2> HIDE DEF D2, D
    <2>4. /\ Owned(ent2, D2, mine, left \cup L)
          /\ ~DefaultKeys => Accounted(ent2, D2, mine, left \cup L)
      BY <1>2, <1>3, <2>1, <2>2, <2>3, OwnedPut
    <2> QED
      BY <2>1, <2>4 DEF D2
  <1>5. Placed(ent2)
    BY <1>1, <1>3 DEF Placed
  <1>6. Named(ent2, live')
    <2>1. ASSUME NEW l \in Keys, ent2[l].value # NULL
          PROVE  live'[ent2[l].value] = Object(l[3])
      <3>1. CASE l = k
        BY <1>3, <2>1, <3>1
      <3>2. CASE l # k
        <4>1. ent2[l] = ent[l] /\ ent[l].value \in DOMAIN live
          BY <1>1, <1>3, <2>1, <3>2 DEF Owned, All
        <4>2. live'[ent[l].value] = live[ent[l].value]
          BY <4>1 DEF Agree
        <4> QED
          BY <1>1, <2>1, <4>1, <4>2 DEF Named
      <3> QED
        BY <3>1, <3>2
    <2> QED
      BY <2>1 DEF Named
  <1>7. NamesKept
    <2>1. ASSUME NEW m \in Mems, NEW n \in Names, image[m].naming[n].value # NULL
          PROVE  image'[m].naming[n] = image[m].naming[n]
      <3> DEFINE l == <<m, "naming", n>>
      <3>1. l \in Keys /\ ent[l] = image[m].naming[n] /\ ent2[l] = image'[m].naming[n]
        BY DEF Keys, ent, ent2, EntriesOf, At
      <3> HIDE DEF l
      <3>2. l # k
        BY <1>3, <2>1, <3>1, NoEntryOwnsNothing
      <3> QED
        BY <1>3, <3>1, <3>2
    <2> QED
      BY <2>1 DEF NamesKept
  <1> QED
    BY <1>1, <1>4, <1>5, <1>6, <1>7 DEF MInv, Typed, IsHeap, ent2

(* An entry is erased, with what it owns.                                  *)
LEMMA EntryLost ==
  ASSUME MInv, NEW k \in Keys, image' \in [Mems -> Image],
         EntriesOf(image') = [EntriesOf(image) EXCEPT ![k] = NoEntry],
         live' = Without(live, All(EntriesOf(image)[k])),
         mine' = mine, left' = left, damaged' = damaged,
         meta_' = meta_, allocator_' = allocator_
  PROVE  MInv' /\ NamesKept
  <1> DEFINE ent == EntriesOf(image)
             ent2 == EntriesOf(image')
  <1>1. /\ image \in [Mems -> Image] /\ Owned(ent, DOMAIN live, mine, left)
        /\ ~DefaultKeys => Accounted(ent, DOMAIN live, mine, left)
        /\ Placed(ent) /\ Named(ent, live) /\ IsHeap(live)
    BY DEF MInv, Typed, IsHeap
  <1>2. ent \in [Keys -> Entry]
    BY <1>1, EntryTypes
  <1>3. /\ IsHeap(live') /\ DOMAIN live' = DOMAIN live \ All(ent[k])
        /\ \A b \in DOMAIN live' : live'[b] = live[b]
    <2> DEFINE B == All(ent[k])
    <2>1. live' = Without(live, B) /\ IsHeap(live)
      BY <1>1
    <2> HIDE DEF B
    <2>2. IsHeap(live') /\ DOMAIN live' = DOMAIN live \ B /\ Agree(live', live)
      BY <2>1, WithoutFacts
    <2> QED
      BY <2>2 DEF B, Agree
  <1> HIDE DEF ent, ent2
  <1>4. /\ ent2 = [ent EXCEPT ![k] = NoEntry] /\ ent2[k] = NoEntry
        /\ \A l \in Keys \ {k} : ent2[l] = ent[l]
    BY <1>2 DEF ent, ent2
  <1>5. /\ Owned(ent2, DOMAIN live', mine', left')
        /\ ~DefaultKeys => Accounted(ent2, DOMAIN live', mine', left')
    <2> DEFINE D2 == DOMAIN live'
               D == DOMAIN live
    <2>1. D2 = D \ All(ent[k]) /\ mine' = mine /\ left' = left
      BY <1>3
    <2>2. Owned(ent, D, mine, left) /\ (~DefaultKeys => Accounted(ent, D, mine, left))
      BY <1>1
    <2> HIDE DEF D2, D
    <2>3. /\ Owned(ent2, D2, mine, left)
          /\ ~DefaultKeys => Accounted(ent2, D2, mine, left)
      <3>1. Erased(ent2, ent, k)
        BY <1>4 DEF Erased
      <3>2. /\ Owned(ent2, D \ All(ent[k]), mine, left)
            /\ Accounted(ent, D, mine, left) => Accounted(ent2, D \ All(ent[k]), mine, left)
        BY <1>2, <2>2, <3>1, OwnedErased
      <3> QED
        BY <2>1, <2>2, <3>2
    <2> QED
      BY <2>1, <2>3 DEF D2
  <1>6. Placed(ent2)
    BY <1>1, <1>4, NoEntryOwnsNothing DEF Placed
  <1>7. Named(ent2, live')
    <2>1. ASSUME NEW l \in Keys, ent2[l].value # NULL
          PROVE  live'[ent2[l].value] = Object(l[3])
      <3>1. l # k /\ ent2[l] = ent[l]
        BY <1>4, <2>1, NoEntryOwnsNothing
      <3>2. ent2[l].value \in DOMAIN live'
        BY <1>5, <2>1 DEF Owned, All
      <3> QED
        BY <1>1, <1>3, <2>1, <3>1, <3>2 DEF Named
    <2> QED
      BY <2>1 DEF Named
  <1>8. NamesKept
    <2> SUFFICES ASSUME NEW m \in Mems, NEW n \in Names, NEW b, b = image[m].naming[n].value,
                        b # NULL, image'[m].naming[n].value # b
                 PROVE  image'[m].naming[n] = NoEntry /\ b \notin DOMAIN live'
      BY DEF NamesKept
    <2> DEFINE l == <<m, "naming", n>>
    <2>1. l \in Keys /\ ent[l] = image[m].naming[n] /\ ent2[l] = image'[m].naming[n]
      BY DEF Keys, ent, ent2, EntriesOf, At
    <2> HIDE DEF l
    <2>2. l = k
      BY <1>4, <2>1
    <2> QED
      BY <1>3, <1>4, <2>1, <2>2 DEF All
  <1> QED
    BY <1>1, <1>3, <1>5, <1>6, <1>7, <1>8 DEF MInv, Typed, IsHeap, ent2

(* The tables stay as they are; a caller, or a constructor that throws,    *)
(* gets a block, or a caller gives one back.                               *)
LEMMA EntriesStay ==
  ASSUME MInv, image' = image, IsHeap(live'), damaged' = damaged,
         Owned(EntriesOf(image), DOMAIN live', mine', left'),
         Accounted(EntriesOf(image), DOMAIN live, mine, left) =>
           Accounted(EntriesOf(image), DOMAIN live', mine', left'),
         Agree(live', live),
         meta_' \in [MMDatas -> Space], allocator_' \in [MMDatas -> Space]
  PROVE  MInv' /\ NamesKept
  <1>1. Named(EntriesOf(image), live')
    <2>1. ASSUME NEW k \in Keys, EntriesOf(image)[k].value # NULL
          PROVE  live'[EntriesOf(image)[k].value] = Object(k[3])
      <3> DEFINE b == EntriesOf(image)[k].value
      <3>1. b \in All(EntriesOf(image)[k])
        BY <2>1 DEF All
      <3> HIDE DEF b
      <3>2. b \in DOMAIN live \ mine /\ b \in DOMAIN live'
        BY <3>1 DEF MInv, Owned
      <3>3. live[b] = Object(k[3])
        BY <2>1 DEF MInv, Named, b
      <3> QED
        BY <3>2, <3>3 DEF b, Agree
    <2> QED
      BY <2>1 DEF Named
  <1>2. NamesKept
    BY DEF NamesKept
  <1>3. Typed'
    BY DEF MInv, Typed, IsHeap
  <1> QED
    BY <1>1, <1>2, <1>3 DEF MInv

-----------------------------------------------------------------------------
(* What MInv says of the heap and of an entry.                             *)
LEMMA Parts ==
  ASSUME MInv
  PROVE  /\ IsHeap(live) /\ image \in [Mems -> Image]
         /\ meta_ \in [MMDatas -> Space] /\ allocator_ \in [MMDatas -> Space]
         /\ EntriesOf(image) \in [Keys -> Entry]
         /\ \A m \in Mems, n \in Names :
              /\ <<m, "naming", n>> \in Keys /\ <<m, "root", n>> \in Keys
              /\ EntriesOf(image)[<<m, "naming", n>>] = image[m].naming[n]
              /\ EntriesOf(image)[<<m, "root", n>>] = image[m].root[n]
  <1>1. IsHeap(live) /\ image \in [Mems -> Image]
    BY DEF MInv, Typed, IsHeap
  <1>2. meta_ \in [MMDatas -> Space] /\ allocator_ \in [MMDatas -> Space]
    BY DEF MInv, Typed
  <1>3. \A m \in Mems, n \in Names : <<m, "naming", n>> \in Keys /\ <<m, "root", n>> \in Keys
    BY DEF Keys
  <1>4. ASSUME NEW m \in Mems, NEW n \in Names
        PROVE  /\ EntriesOf(image)[<<m, "naming", n>>] = image[m].naming[n]
               /\ EntriesOf(image)[<<m, "root", n>>] = image[m].root[n]
    BY <1>3 DEF EntriesOf, At
  <1>5. EntriesOf(image) \in [Keys -> Entry]
    BY <1>1, EntryTypes DEF EntriesOf
  <1> QED
    BY <1>1, <1>2, <1>3, <1>4, <1>5

(* CreateAllocator and LoadRootWriteObject empty the memory.               *)
LEMMA CreatedKeeps ==
  ASSUME MInv, NEW d \in MMDatas, NEW m \in Mems, NEW rooted \in BOOLEAN,
         Created(d, m, rooted), meta_' \in [MMDatas -> Space]
  PROVE  MInv' /\ NamesKept
  <1> DEFINE gone == {b \in Blocks : b[1] = m}
             ent == EntriesOf(image)
             ent2 == EntriesOf(image')
             i == [NoMeta EXCEPT !.made = TRUE, !.rooted = rooted]
  <1>1. /\ IsHeap(live) /\ image \in [Mems -> Image] /\ ent \in [Keys -> Entry]
        /\ allocator_ \in [MMDatas -> Space]
        /\ \A o \in Mems, n \in Names :
             <<o, "naming", n>> \in Keys /\ ent[<<o, "naming", n>>] = image[o].naming[n]
    BY Parts
  <1>2. /\ image' = [image EXCEPT ![m] = i]
        /\ live' = Without(live, gone) /\ mine' = mine \ gone /\ left' = left \ gone
        /\ allocator_' = [allocator_ EXCEPT ![d] = Assigned(allocator_[d], m)]
        /\ damaged' = damaged
    BY DEF Created
  <1>3. i \in Image /\ i.naming = NoEntries /\ i.root = NoEntries
    BY NoEntryOwnsNothing DEF Image, NoMeta, NoEntries
  <1> HIDE DEF i
  <1>4. image' \in [Mems -> Image]
        /\ Emptied(ent2, ent, m)
    BY <1>1, <1>2, <1>3, ImageEmptied
  <1>5. allocator_' \in [MMDatas -> Space]
    <2>1. Assigned(allocator_[d], m) \in Space
      BY <1>1 DEF Assigned, Space
    <2> QED
      BY <1>1, <1>2, <2>1
  <1>6. IsHeap(live') /\ DOMAIN live' = DOMAIN live \ gone /\ Agree(live', live)
    <2> HIDE DEF gone
    <2> QED
      BY <1>1, <1>2, WithoutFacts
  <1> HIDE DEF ent, ent2
  <1>7. /\ Owned(ent, DOMAIN live, mine, left) /\ Placed(ent) /\ Named(ent, live)
        /\ ~DefaultKeys => Accounted(ent, DOMAIN live, mine, left)
        /\ DOMAIN live \in SUBSET Blocks /\ damaged = FALSE
    BY <1>1 DEF MInv, ent, IsHeap
  <1>8. /\ Owned(ent2, DOMAIN live', mine', left')
        /\ ~DefaultKeys => Accounted(ent2, DOMAIN live', mine', left')
    <2> DEFINE D == DOMAIN live
               D2 == DOMAIN live'
    <2>1. D2 = D \ gone /\ D \in SUBSET Blocks
      BY <1>6, <1>7
    <2>2. Owned(ent, D, mine, left) /\ (~DefaultKeys => Accounted(ent, D, mine, left))
      BY <1>7
    <2>3. gone = {b \in Blocks : b[1] = m}
      OBVIOUS
    <2> HIDE DEF D, D2, gone
    <2>4. /\ Owned(ent2, D \ gone, mine \ gone, left \ gone)
          /\ ~DefaultKeys => Accounted(ent2, D \ gone, mine \ gone, left \ gone)
      BY <1>1, <1>4, <1>7, <2>1, <2>2, <2>3, OwnedCreated
    <2> QED
      BY <1>2, <2>1, <2>4 DEF D2
  <1>9. \A k \in Keys : ent2[k] = IF k[1] = m THEN NoEntry ELSE ent[k]
    BY <1>4 DEF Emptied
  <1>10. Placed(ent2)
    BY <1>7, <1>9, NoEntryOwnsNothing DEF Placed
  <1>11. Named(ent2, live')
    <2>1. ASSUME NEW k \in Keys, ent2[k].value # NULL
          PROVE  live'[ent2[k].value] = Object(k[3])
      <3>1. ent2[k] = ent[k] /\ live[ent[k].value] = Object(k[3])
        BY <1>7, <1>9, <2>1, NoEntryOwnsNothing DEF Named
      <3>2. ent2[k].value \in DOMAIN live' /\ ent2[k].value \in DOMAIN live
        BY <1>6, <1>8, <2>1 DEF Owned, All
      <3> QED
        BY <1>6, <3>1, <3>2 DEF Agree
    <2> QED
      BY <2>1 DEF Named
  <1>12. NamesKept
    <2> SUFFICES ASSUME NEW o \in Mems, NEW n \in Names, NEW b, b = image[o].naming[n].value,
                        b # NULL, image'[o].naming[n].value # b
                 PROVE  image'[o].naming[n] = NoEntry /\ b \notin DOMAIN live'
      BY DEF NamesKept
    <2> DEFINE l == <<o, "naming", n>>
    <2>1. l \in Keys /\ ent[l] = image[o].naming[n] /\ ent2[l] = image'[o].naming[n]
          /\ l[1] = o
      BY <1>1 DEF Keys, ent2, EntriesOf, At
    <2> HIDE DEF l
    <2>2. o = m /\ ent2[l] = NoEntry
      BY <1>9, <2>1
    <2>3. b \in Blocks /\ b[1] = m
      BY <1>1, <1>7, <2>1, <2>2 DEF Placed, Entry
    <2> QED
      BY <1>6, <2>1, <2>2, <2>3
  <1> QED
    BY <1>2, <1>4, <1>5, <1>6, <1>7, <1>8, <1>10, <1>11, <1>12
    DEF MInv, Typed, IsHeap, ent2

(* LoadRootReadObject touches the MMData only.                             *)
LEMMA ReadKeeps ==
  ASSUME MInv, NEW d \in MMDatas, NEW m \in Mems, LoadRootReadObject(d, m)
  PROVE  MInv' /\ NamesKept
  <1>1. /\ image' = image /\ live' = live /\ mine' = mine /\ left' = left
        /\ damaged' = damaged /\ allocator_' = allocator_
        /\ meta_' = [meta_ EXCEPT ![d] = m]
    BY DEF LoadRootReadObject
  <1>2. meta_' \in [MMDatas -> Space]
    BY <1>1, Parts DEF Space
  <1> QED
    BY <1>1, <1>2 DEF MInv, Typed, NamesKept

(* New gives a block that was free to the caller, or leaves it.            *)
LEMMA NewKeeps ==
  ASSUME MInv, NEW d \in MMDatas, New(d)
  PROVE  MInv' /\ NamesKept
  <1> DEFINE h == HeapOf(allocator_[d])
             b == Fresh(live, h)
             ent == EntriesOf(image)
             content == Object(NULL)
  <1>1. /\ Spare(live, h) # {} /\ live' = Put(live, b, content)
        /\ \/ mine' = mine \cup {b} /\ left' = left
           \/ left' = left \cup {b} /\ mine' = mine
        /\ image' = image /\ damaged' = damaged
        /\ meta_' = meta_ /\ allocator_' = allocator_
    BY DEF New
  <1>2. h \in Heaps
    BY Parts DEF Heaps, HeapOf, Space
  <1> HIDE DEF h, content
  <1>3. b \in Blocks \ DOMAIN live
    BY <1>1, <1>2, FreshIsFree
  <1> HIDE DEF b
  <1>4. IsHeap(live') /\ DOMAIN live' = DOMAIN live \cup {b} /\ Agree(live', live)
    BY <1>1, <1>3, Parts, PutFacts
  <1>5. Owned(ent, DOMAIN live, mine, left)
    BY DEF MInv
  <1> HIDE DEF ent
  <1>6. Owned(ent, DOMAIN live', mine', left')
    BY <1>1, <1>3, <1>4, <1>5 DEF Owned
  <1>7. Accounted(ent, DOMAIN live, mine, left) =>
          Accounted(ent, DOMAIN live', mine', left')
    BY <1>1, <1>4 DEF Accounted
  <1> QED
    BY <1>1, <1>4, <1>6, <1>7, Parts, EntriesStay DEF ent

(* Delete takes a caller's block back.                                     *)
LEMMA DeleteKeeps ==
  ASSUME MInv, NEW d \in MMDatas, NEW b \in mine, Delete(d, b)
  PROVE  MInv' /\ NamesKept
  <1> DEFINE ent == EntriesOf(image)
             B == {b}
  <1>1. /\ live' = Without(live, B) /\ mine' = mine \ {b} /\ left' = left
        /\ image' = image /\ damaged' = damaged
        /\ meta_' = meta_ /\ allocator_' = allocator_
    BY DEF Delete
  <1> HIDE DEF B
  <1>2. IsHeap(live') /\ DOMAIN live' = DOMAIN live \ B /\ Agree(live', live)
    BY <1>1, Parts, WithoutFacts
  <1>3. Owned(ent, DOMAIN live, mine, left)
    BY DEF MInv
  <1> HIDE DEF ent
  <1>4. Owned(ent, DOMAIN live', mine', left')
    BY <1>1, <1>2, <1>3 DEF Owned, B
  <1>5. Accounted(ent, DOMAIN live, mine, left) =>
          Accounted(ent, DOMAIN live', mine', left')
    BY <1>1, <1>2 DEF Accounted, B
  <1> QED
    BY <1>1, <1>2, <1>4, <1>5, Parts, EntriesStay DEF ent

(* NewNamingObject inserts the name, and binds it unless the object's      *)
(* memory, or its constructor, throws.                                     *)
LEMMA NewNamingKeeps ==
  ASSUME MInv, NEW d \in MMDatas, NEW n \in Names, NewNamingObject(d, n)
  PROVE  MInv' /\ NamesKept
  <1> DEFINE m == meta_[d]
             space == allocator_[d]
             ins == Inserted(live, m, n, space, NULL)
             h == HeapOf(space)
             b == Fresh(ins.heap, h)
             bound == [ins.entry EXCEPT !.value = b]
             content == Object(n)
             k == <<m, "naming", n>>
             ent == EntriesOf(image)
  <1>1. m \in Mems /\ space = m /\ h = m /\ m \in Heaps
    BY Parts DEF NewNamingObject, Builds, Space, HeapOf, Heaps
  <1>2. /\ image[m].naming[n] = NoEntry /\ CanInsert(live, m, n, space)
        /\ \/ /\ image' = WithNaming(image, m, n, ins.entry)
              /\ live' = ins.heap /\ left' = left
           \/ /\ Spare(ins.heap, h) # {} /\ live' = Put(ins.heap, b, content)
              /\ image' = WithNaming(image, m, n, bound) /\ left' = left
           \/ /\ Spare(ins.heap, h) # {} /\ live' = Put(ins.heap, b, content)
              /\ image' = WithNaming(image, m, n, ins.entry)
              /\ left' = left \cup {b}
        /\ meta_' = meta_ /\ allocator_' = allocator_ /\ mine' = mine
        /\ damaged' = damaged
    BY DEF NewNamingObject, Has, WithNaming
  <1>3. /\ IsHeap(live) /\ image \in [Mems -> Image]
        /\ k \in Keys /\ ent[k] = NoEntry
        /\ k[1] = m /\ k[2] = "naming" /\ k[3] = n
    BY <1>1, <1>2, Parts
  <1>4. space \in Space
    BY <1>1 DEF Space
  <1> HIDE DEF m, space, content
  <1>5. ins = Inserted(live, m, n, space, NULL)
    OBVIOUS
  <1> HIDE DEF ins
  <1>6. /\ ins.entry \in Entry /\ ins.entry.value = NULL
        /\ ins.entry.node # NULL /\ ins.entry.node[1] = m
        /\ ins.entry.text # NULL => ins.entry.text[1] = m
        /\ IsHeap(ins.heap) /\ All(ins.entry) \cap DOMAIN live = {}
        /\ DOMAIN ins.heap = DOMAIN live \cup All(ins.entry)
        /\ Agree(ins.heap, live)
    BY <1>1, <1>2, <1>3, <1>4, <1>5, InsertedFits
  <1>7. CASE image' = WithNaming(image, m, n, ins.entry) /\ live' = ins.heap /\ left' = left
    <2> DEFINE e == ins.entry
               L == {}
    <2>1. image' = WithNaming(image, m, n, e) /\ e \in Entry
      BY <1>6, <1>7
    <2> HIDE DEF e, k
    <2>2. image' \in [Mems -> Image] /\ EntriesOf(image') = [EntriesOf(image) EXCEPT ![k] = e]
      BY <1>1, <1>3, <2>1, NamingChanged DEF k
    <2>3. L \cap DOMAIN live = {} /\ L \cap All(e) = {} /\ left' = left \cup L
          /\ DOMAIN live' = DOMAIN live \cup All(e) \cup L
      BY <1>6, <1>7 DEF e
    <2>4. /\ e.value = NULL /\ e.node[1] = k[1] /\ (e.text # NULL => e.text[1] = k[1])
          /\ All(e) \cap DOMAIN live = {} /\ IsHeap(live') /\ Agree(live', live)
      BY <1>3, <1>6, <1>7 DEF e
    <2> HIDE DEF L
    <2> QED
      BY <1>2, <1>3, <2>1, <2>2, <2>3, <2>4, EntryGotten
  <1>8. ASSUME Spare(ins.heap, h) # {}, live' = Put(ins.heap, b, content)
        PROVE  /\ b \in Blocks /\ b \notin DOMAIN live \cup All(ins.entry) /\ b[1] = m
               /\ IsHeap(live') /\ DOMAIN live' = DOMAIN live \cup All(ins.entry) \cup {b}
               /\ live'[b] = content /\ Agree(live', live)
    <2>1. h \in Heaps /\ h = m
      BY <1>1
    <2> DEFINE hp == ins.heap
    <2>2. IsHeap(hp) /\ Spare(hp, h) # {} /\ b = Fresh(hp, h) /\ live' = Put(hp, b, content)
          /\ DOMAIN hp = DOMAIN live \cup All(ins.entry) /\ Agree(hp, live)
      BY <1>6, <1>8
    <2> HIDE DEF hp, b, h
    <2>3. b \in Blocks \ DOMAIN hp /\ b[1] = m
      BY <2>1, <2>2, FreshIsFree
    <2>4. IsHeap(live') /\ DOMAIN live' = DOMAIN hp \cup {b} /\ live'[b] = content
          /\ Agree(live', hp)
      BY <2>2, <2>3, PutFacts
    <2>5. Agree(live', live)
      BY <2>2, <2>4 DEF Agree
    <2> QED
      BY <2>2, <2>3, <2>4, <2>5
  <1> HIDE DEF b, h
  <1>9. CASE /\ Spare(ins.heap, h) # {} /\ live' = Put(ins.heap, b, content)
             /\ image' = WithNaming(image, m, n, bound) /\ left' = left
    <2> DEFINE e == bound
               L == {}
    <2>1. /\ b \in Blocks /\ b \notin DOMAIN live \cup All(ins.entry) /\ b[1] = m
          /\ IsHeap(live') /\ DOMAIN live' = DOMAIN live \cup All(ins.entry) \cup {b}
          /\ live'[b] = content /\ Agree(live', live)
      BY <1>8, <1>9
    <2>2. /\ e \in Entry /\ e.value = b /\ e.node = ins.entry.node /\ e.text = ins.entry.text
          /\ image' = WithNaming(image, m, n, e)
      BY <1>6, <1>9, <2>1 DEF Entry
    <2> HIDE DEF e, bound, k
    <2>3. b # NULL
      BY <2>1 DEF Blocks, Heaps
    <2>4. All(e) = All(ins.entry) \cup {b}
      BY <1>6, <2>2, <2>3 DEF All
    <2>5. image' \in [Mems -> Image] /\ EntriesOf(image') = [EntriesOf(image) EXCEPT ![k] = e]
      BY <1>1, <1>3, <2>2, NamingChanged DEF k
    <2>6. L \cap DOMAIN live = {} /\ L \cap All(e) = {} /\ left' = left \cup L
          /\ DOMAIN live' = DOMAIN live \cup All(e) \cup L
      BY <1>9, <2>1, <2>4
    <2>7. /\ e.value[1] = k[1] /\ e.node[1] = k[1] /\ (e.text # NULL => e.text[1] = k[1])
          /\ All(e) \cap DOMAIN live = {}
      BY <1>3, <1>6, <2>1, <2>2, <2>4
    <2>8. live'[e.value] = Object(k[3])
      BY <1>3, <2>1, <2>2 DEF content
    <2> HIDE DEF L
    <2> QED
      BY <1>2, <1>3, <2>1, <2>2, <2>5, <2>6, <2>7, <2>8, EntryGotten
  <1>10. CASE /\ Spare(ins.heap, h) # {} /\ live' = Put(ins.heap, b, content)
              /\ image' = WithNaming(image, m, n, ins.entry)
              /\ left' = left \cup {b}
    <2> DEFINE e == ins.entry
               L == {b}
    <2>1. image' = WithNaming(image, m, n, e) /\ e \in Entry
      BY <1>6, <1>10
    <2>2. /\ b \in Blocks /\ b \notin DOMAIN live \cup All(e) /\ b[1] = m
          /\ IsHeap(live') /\ DOMAIN live' = DOMAIN live \cup All(e) \cup {b}
          /\ Agree(live', live)
      BY <1>8, <1>10
    <2>3. /\ e.value = NULL /\ e.node[1] = k[1] /\ (e.text # NULL => e.text[1] = k[1])
          /\ All(e) \cap DOMAIN live = {}
      BY <1>3, <1>6
    <2> HIDE DEF e, k
    <2>4. image' \in [Mems -> Image] /\ EntriesOf(image') = [EntriesOf(image) EXCEPT ![k] = e]
      BY <1>1, <1>3, <2>1, NamingChanged DEF k
    <2>5. L \cap DOMAIN live = {} /\ L \cap All(e) = {} /\ left' = left \cup L
          /\ DOMAIN live' = DOMAIN live \cup All(e) \cup L
      BY <1>10, <2>2
    <2> HIDE DEF L
    <2> QED
      BY <1>2, <1>3, <2>1, <2>2, <2>3, <2>4, <2>5, EntryGotten
  <1> QED
    BY <1>2, <1>7, <1>9, <1>10

(* DeleteNamingObject gives back the object, the node and the text.        *)
LEMMA DeleteNamingKeeps ==
  ASSUME MInv, NEW d \in MMDatas, NEW n \in Names, DeleteNamingObject(d, n)
  PROVE  MInv' /\ NamesKept
  <1> DEFINE m == meta_[d]
             b == image[m].naming[n].value
             k == <<m, "naming", n>>
             ent == EntriesOf(image)
             gone == {b} \cup BlocksOf(image[m].naming[n])
  <1>1. m \in Mems /\ allocator_[d] = m
    BY Parts DEF DeleteNamingObject, Builds, Space
  <1>2. /\ b # NULL /\ damaged' = (damaged \/ Foreign(allocator_[d], b))
        /\ live' = Without(live, gone)
        /\ image' = WithNaming(image, m, n, NoEntry)
        /\ meta_' = meta_ /\ allocator_' = allocator_ /\ mine' = mine /\ left' = left
    BY <1>1 DEF DeleteNamingObject, GetNamingObject, WithNaming
  <1>3. /\ image \in [Mems -> Image] /\ k \in Keys /\ ent[k] = image[m].naming[n]
        /\ ent \in [Keys -> Entry] /\ k[1] = m
    BY <1>1, Parts
  <1>4. gone = All(ent[k])
    BY <1>2, <1>3 DEF All, BlocksOf
  <1>5. b \in DOMAIN live /\ b[1] = m /\ damaged = FALSE
    BY <1>2, <1>3 DEF MInv, Owned, Placed, All
  <1>6. damaged' = damaged
    BY <1>1, <1>2, <1>5 DEF Foreign, HeapOf
  <1> HIDE DEF m, b, gone
  <1>7. image' \in [Mems -> Image] /\ EntriesOf(image') = [EntriesOf(image) EXCEPT ![k] = NoEntry]
    BY <1>1, <1>2, <1>3, NamingChanged, NoEntryOwnsNothing
  <1> HIDE DEF k
  <1> QED
    BY <1>2, <1>3, <1>4, <1>6, <1>7, EntryLost

(* The caller puts a key into the root table.                              *)
LEMMA InsertRootKeeps ==
  ASSUME MInv, NEW d \in MMDatas, NEW n \in Names, NEW space \in KeySpaces(d),
         InsertRoot(d, n, space)
  PROVE  MInv' /\ NamesKept
  <1> DEFINE m == meta_[d]
             ins == Inserted(live, m, n, space, NULL)
             e == ins.entry
             k == <<m, "root", n>>
             ent == EntriesOf(image)
             L == {}
  <1>1. m \in Mems /\ allocator_[d] = m
    BY Parts DEF InsertRoot, Builds, Space
  <1>2. /\ image[m].root[n] = NoEntry /\ CanInsert(live, m, n, space)
        /\ image' = WithRoot(image, m, n, e) /\ live' = ins.heap
        /\ meta_' = meta_ /\ allocator_' = allocator_ /\ mine' = mine
        /\ left' = left /\ damaged' = damaged
    BY DEF InsertRoot, Has, WithRoot
  <1>3. /\ IsHeap(live) /\ image \in [Mems -> Image]
        /\ k \in Keys /\ ent[k] = NoEntry /\ k[1] = m
    BY <1>1, <1>2, Parts
  <1>4. space = m \/ (space = NULL /\ DefaultKeys)
    BY <1>1 DEF KeySpaces
  <1>5. /\ space \in Space
        /\ HeapOf(space) = m \/ (HeapOf(space) = Process /\ DefaultKeys)
    BY <1>1, <1>4 DEF Space, HeapOf
  <1> HIDE DEF m
  <1>6. ins = Inserted(live, m, n, space, NULL)
    OBVIOUS
  <1> HIDE DEF ins
  <1>7. /\ e \in Entry /\ e.value = NULL
        /\ e.node # NULL /\ e.node[1] = m
        /\ e.text # NULL => e.text[1] = HeapOf(space)
        /\ IsHeap(ins.heap) /\ All(e) \cap DOMAIN live = {}
        /\ DOMAIN ins.heap = DOMAIN live \cup All(e)
        /\ Agree(ins.heap, live)
    BY <1>1, <1>2, <1>3, <1>5, <1>6, InsertedFits
  <1> HIDE DEF e
  <1>8. image' \in [Mems -> Image] /\ EntriesOf(image') = [EntriesOf(image) EXCEPT ![k] = e]
    BY <1>1, <1>2, <1>3, <1>7, RootChanged
  <1> HIDE DEF k
  <1>9. L \cap DOMAIN live = {} /\ L \cap All(e) = {} /\ left' = left \cup L
        /\ DOMAIN live' = DOMAIN live \cup All(e) \cup L
    BY <1>2, <1>7
  <1>10. /\ e.node[1] = k[1]
         /\ e.text # NULL => e.text[1] = k[1] \/ (DefaultKeys /\ e.text[1] = Process)
         /\ IsHeap(live') /\ Agree(live', live)
    BY <1>2, <1>3, <1>5, <1>7
  <1> HIDE DEF L
  <1> QED
    BY <1>2, <1>3, <1>7, <1>8, <1>9, <1>10, EntryGotten

(* The caller erases a key from the root table.                            *)
LEMMA EraseRootKeeps ==
  ASSUME MInv, NEW d \in MMDatas, NEW n \in Names, EraseRoot(d, n)
  PROVE  MInv' /\ NamesKept
  <1> DEFINE m == meta_[d]
             k == <<m, "root", n>>
             ent == EntriesOf(image)
             gone == BlocksOf(image[m].root[n])
  <1>1. m \in Mems
    BY Parts DEF EraseRoot, Builds, Space
  <1>2. /\ damaged' = (damaged \/ ~(gone \subseteq DOMAIN live))
        /\ live' = Without(live, gone)
        /\ image' = WithRoot(image, m, n, NoEntry)
        /\ meta_' = meta_ /\ allocator_' = allocator_ /\ mine' = mine /\ left' = left
    BY DEF EraseRoot, WithRoot
  <1>3. /\ image \in [Mems -> Image] /\ k \in Keys /\ ent[k] = image[m].root[n]
        /\ ent \in [Keys -> Entry] /\ k[2] = "root"
    BY <1>1, Parts
  <1>4. ent[k].value = NULL
    BY <1>3 DEF MInv, Placed
  <1>5. gone = All(ent[k])
    BY <1>3, <1>4 DEF All, BlocksOf
  <1>6. gone \subseteq DOMAIN live /\ damaged = FALSE
    BY <1>3, <1>5 DEF MInv, Owned
  <1>7. damaged' = damaged
    BY <1>2, <1>6
  <1> HIDE DEF m, gone
  <1>8. image' \in [Mems -> Image] /\ EntriesOf(image') = [EntriesOf(image) EXCEPT ![k] = NoEntry]
    BY <1>1, <1>2, <1>3, RootChanged, NoEntryOwnsNothing
  <1> HIDE DEF k
  <1> QED
    BY <1>2, <1>3, <1>5, <1>7, <1>8, EntryLost

-----------------------------------------------------------------------------
(* Initially no image has an entry and no block is in use.                 *)
LEMMA InitKeeps == Init => MInv
  <1> SUFFICES ASSUME Init PROVE MInv
    OBVIOUS
  <1> DEFINE ent == EntriesOf(image)
  <1>1. image = [m \in Mems |-> NoMeta] /\ live = << >> /\ DOMAIN live = {}
        /\ mine = {} /\ left = {} /\ damaged = FALSE
    BY DEF Init
  <1>2. NoMeta \in Image
    BY NoEntryOwnsNothing DEF NoMeta, NoEntries, Image
  <1>3. \A k \in Keys : ent[k] = NoEntry
    <2>1. ASSUME NEW k \in Keys PROVE At(image, k) = NoEntry
      <3>1. k[1] \in Mems /\ k[3] \in Names
        BY DEF Keys
      <3> QED
        BY <1>1, <3>1 DEF At, NoMeta, NoEntries
    <2> QED
      BY <2>1 DEF EntriesOf
  <1> HIDE DEF ent
  <1>4. Typed
    BY <1>1, <1>2 DEF Init, Typed, Space
  <1>5. Owned(ent, DOMAIN live, mine, left) /\ Accounted(ent, DOMAIN live, mine, left)
    BY <1>1, <1>3, NoEntryOwnsNothing DEF Owned, Accounted
  <1>6. Placed(ent) /\ Named(ent, live)
    BY <1>3, NoEntryOwnsNothing DEF Placed, Named
  <1> QED
    BY <1>1, <1>4, <1>5, <1>6 DEF MInv, ent

LEMMA StepKeeps == MInv /\ [Next]_vars => MInv' /\ [NamesKept]_vars
  <1> SUFFICES ASSUME MInv, [Next]_vars PROVE MInv' /\ [NamesKept]_vars
    OBVIOUS
  <1>1. CASE UNCHANGED vars
    <2>1. /\ meta_' = meta_ /\ allocator_' = allocator_ /\ image' = image /\ live' = live
          /\ mine' = mine /\ left' = left /\ damaged' = damaged
      BY <1>1 DEF vars
    <2> QED
      BY <1>1, <2>1 DEF MInv, Typed
  <1>2. CASE Next
    <2>1. PICK d \in MMDatas :
            \/ \E m \in Mems : \/ CreateAllocator(d, m) \/ LoadRootWriteObject(d, m)
                               \/ LoadRootReadObject(d, m)
            \/ New(d)
            \/ \E b \in mine : Delete(d, b)
            \/ \E n \in Names : \/ NewNamingObject(d, n) \/ DeleteNamingObject(d, n)
                                \/ \E space \in KeySpaces(d) : InsertRoot(d, n, space)
                                \/ EraseRoot(d, n)
      BY <1>2 DEF Next
    <2>2. ASSUME NEW m \in Mems, CreateAllocator(d, m) PROVE MInv' /\ NamesKept
      <3>1. Created(d, m, FALSE) /\ meta_' \in [MMDatas -> Space]
        BY <2>2, Parts DEF CreateAllocator
      <3> QED
        BY <3>1, CreatedKeeps
    <2>3. ASSUME NEW m \in Mems, LoadRootWriteObject(d, m) PROVE MInv' /\ NamesKept
      <3>1. Created(d, m, TRUE) /\ meta_' \in [MMDatas -> Space]
        BY <2>3, Parts DEF LoadRootWriteObject, Space
      <3> QED
        BY <3>1, CreatedKeeps
    <2>4. ASSUME NEW m \in Mems, LoadRootReadObject(d, m) PROVE MInv' /\ NamesKept
      BY <2>4, ReadKeeps
    <2>5. CASE New(d)
      BY <2>5, NewKeeps
    <2>6. ASSUME NEW b \in mine, Delete(d, b) PROVE MInv' /\ NamesKept
      BY <2>6, DeleteKeeps
    <2>7. ASSUME NEW n \in Names, NewNamingObject(d, n) PROVE MInv' /\ NamesKept
      BY <2>7, NewNamingKeeps
    <2>8. ASSUME NEW n \in Names, DeleteNamingObject(d, n) PROVE MInv' /\ NamesKept
      BY <2>8, DeleteNamingKeeps
    <2>9. ASSUME NEW n \in Names, NEW space \in KeySpaces(d), InsertRoot(d, n, space)
          PROVE  MInv' /\ NamesKept
      BY <2>9, InsertRootKeeps
    <2>10. ASSUME NEW n \in Names, EraseRoot(d, n) PROVE MInv' /\ NamesKept
      BY <2>10, EraseRootKeeps
    <2> QED
      BY <2>1, <2>2, <2>3, <2>4, <2>5, <2>6, <2>7, <2>8, <2>9, <2>10
  <1> QED
    BY <1>1, <1>2

LEMMA BlocksHaveOwners == Spec => []MInv /\ [][NamesKept]_vars
  <1>1. Init => MInv
    BY InitKeeps
  <1>2. MInv /\ [Next]_vars => MInv' /\ [NamesKept]_vars
    BY StepKeeps
  <1> QED
    BY <1>1, <1>2, PTL DEF Spec

-----------------------------------------------------------------------------
(* A name stays bound to the object that was made under it until the       *)
(* object is deleted or its memory gets a new image                        *)
(* (NewNamingObject: insert does not replace).                             *)
THEOREM NamesStayKept == Spec => NamesKeepTheirObjects
  BY BlocksHaveOwners, PTL DEF NamesKeepTheirObjects, NamesKept

(* A name is bound to an object that was made under it and is not the      *)
(* caller's to delete, and no block is freed twice, as none has two owners *)
(* (NewNamingObject, DeleteNamingObject, New, Delete, erase).              *)
THEOREM NamesStayBound == Spec => []NamesBindTheirObjects
  <1>1. MInv => NamesBindTheirObjects
    <2> SUFFICES ASSUME MInv PROVE NamesBindTheirObjects
      OBVIOUS
    <2> DEFINE ent == EntriesOf(image)
    <2>1. \A m \in Mems, n \in Names :
            /\ <<m, "naming", n>> \in Keys /\ <<m, "root", n>> \in Keys
            /\ ent[<<m, "naming", n>>] = image[m].naming[n]
            /\ ent[<<m, "root", n>>] = image[m].root[n]
      BY Parts
    <2>2. Owned(ent, DOMAIN live, mine, left) /\ Named(ent, live)
      BY DEF MInv
    <2> HIDE DEF ent
    <2>3. ASSUME NEW m \in Mems, NEW n \in Names, image[m].naming[n].value # NULL
          PROVE  LET b == image[m].naming[n].value IN
                 b \in DOMAIN live /\ live[b] = Object(n) /\ b \notin mine
      <3> DEFINE k == <<m, "naming", n>>
      <3>1. k \in Keys /\ ent[k] = image[m].naming[n] /\ k[3] = n
        BY <2>1
      <3> HIDE DEF k
      <3> QED
        BY <2>2, <2>3, <3>1 DEF Owned, Named, All
    <2>4. ASSUME NEW m \in Mems, NEW t \in {"naming", "root"}, NEW u \in {"naming", "root"},
                 NEW n \in Names, NEW o \in Names, <<t, n>> # <<u, o>>
          PROVE  BlocksOf(Table(m, t)[n]) \cap BlocksOf(Table(m, u)[o]) = {}
      <3> DEFINE k == <<m, t, n>>
                 l == <<m, u, o>>
      <3>1. k \in Keys /\ l \in Keys /\ k # l
        BY <2>4 DEF Keys
      <3>2. ent[k] = Table(m, t)[n] /\ ent[l] = Table(m, u)[o]
        <4>1. ASSUME NEW v \in {"naming", "root"}, NEW q \in Names
              PROVE  ent[<<m, v, q>>] = Table(m, v)[q]
          <5>1. CASE v = "naming"
            BY <2>1, <5>1 DEF Table
          <5>2. CASE v = "root"
            BY <2>1, <5>2 DEF Table
          <5> QED
            BY <5>1, <5>2
        <4> QED
          BY <4>1
      <3> HIDE DEF k, l
      <3>3. All(ent[k]) \cap All(ent[l]) = {}
        BY <2>2, <3>1 DEF Owned
      <3> QED
        BY <3>2, <3>3 DEF All, BlocksOf
    <2> QED
      BY <2>3, <2>4 DEF NamesBindTheirObjects
  <1> QED
    BY <1>1, BlocksHaveOwners, PTL

(* What can be reached from an image is what its entries own.              *)
LEMMA ReachableIsOwned ==
  ASSUME MInv, NEW m \in Mems, NEW b
  PROVE  b \in Reachable(m) <=> \E k \in Keys : k[1] = m /\ b \in All(EntriesOf(image)[k])
  <1> DEFINE ent == EntriesOf(image)
  <1>1. \A n \in Names :
          /\ <<m, "naming", n>> \in Keys /\ <<m, "root", n>> \in Keys
          /\ ent[<<m, "naming", n>>] = image[m].naming[n]
          /\ ent[<<m, "root", n>>] = image[m].root[n]
    BY Parts
  <1> HIDE DEF ent
  <1>2. ASSUME NEW e PROVE b \in All(e) <=> b \in (BlocksOf(e) \cup {e.value}) \ {NULL}
    BY DEF All, BlocksOf
  <1>3. b \in Reachable(m) <=> \E e \in Entries(m) : b \in All(e)
    <2> DEFINE F(e) == BlocksOf(e) \cup {e.value}
               U == UNION {F(e) : e \in Entries(m)}
    <2>1. b \in U <=> \E e \in Entries(m) : b \in F(e)
      OBVIOUS
    <2>2. Reachable(m) = U \ {NULL}
      BY DEF Reachable
    <2>3. \A e : b \in All(e) <=> b \in F(e) /\ b # NULL
      BY <1>2
    <2> HIDE DEF F, U
    <2> QED
      BY <2>1, <2>2, <2>3
  <1>4. ASSUME NEW e \in Entries(m), b \in All(e)
        PROVE  \E k \in Keys : k[1] = m /\ b \in All(ent[k])
    <2>1. PICK n \in Names : e = image[m].naming[n] \/ e = image[m].root[n]
      BY DEF Entries
    <2>2. <<m, "naming", n>>[1] = m /\ <<m, "root", n>>[1] = m
      OBVIOUS
    <2> QED
      BY <1>1, <1>4, <2>1, <2>2
  <1>5. ASSUME NEW k \in Keys, k[1] = m PROVE ent[k] \in Entries(m)
    <2>1. PICK n \in Names : k = <<m, "naming", n>> \/ k = <<m, "root", n>>
      <3>1. PICK o \in Mems, t \in {"naming", "root"}, n \in Names : k = <<o, t, n>>
        BY DEF Keys
      <3>2. k[1] = o
        BY <3>1
      <3> QED
        BY <1>5, <3>1, <3>2
    <2> QED
      BY <1>1, <2>1 DEF Entries
  <1> QED
    BY <1>3, <1>4, <1>5 DEF ent

(* With keys that are made with the allocator of the image, as in          *)
(* test_main.cpp, everything that can be reached from an image is          *)
(* allocated, in that image.                                               *)
THEOREM ImagesSelfContained == ~DefaultKeys => (Spec => []SelfContained)
  <1> SUFFICES ASSUME ~DefaultKeys PROVE Spec => []SelfContained
    OBVIOUS
  <1>1. MInv => SelfContained
    <2> SUFFICES ASSUME MInv, NEW m \in Mems, NEW b \in Reachable(m)
                 PROVE  b \in DOMAIN live /\ b[1] = m
      BY DEF SelfContained
    <2>1. PICK k \in Keys : k[1] = m /\ b \in All(EntriesOf(image)[k])
      BY ReachableIsOwned
    <2> QED
      BY <2>1 DEF MInv, Owned, Placed, All
  <1> QED
    BY <1>1, BlocksHaveOwners, PTL

(* With such keys every block in use has an owner: nothing is lost but     *)
(* what a constructor that threw left, and nothing is freed that is not in *)
(* use, or to a heap that does not own it.                                 *)
THEOREM NothingIsLost == ~DefaultKeys => (Spec => []NothingElseLeaks)
  <1> SUFFICES ASSUME ~DefaultKeys PROVE Spec => []NothingElseLeaks
    OBVIOUS
  <1>1. MInv => NothingElseLeaks
    <2> SUFFICES ASSUME MInv PROVE NothingElseLeaks
      OBVIOUS
    <2> DEFINE ent == EntriesOf(image)
    <2>1. /\ Owned(ent, DOMAIN live, mine, left) /\ Accounted(ent, DOMAIN live, mine, left)
          /\ ~damaged
      BY DEF MInv
    <2>2. ASSUME NEW b PROVE b \in DOMAIN live <=>
            b \in (UNION {Reachable(m) : m \in Mems}) \cup mine \cup left
      <3> DEFINE U == UNION {Reachable(m) : m \in Mems}
      <3>1. b \in U <=> \E m \in Mems : b \in Reachable(m)
        OBVIOUS
      <3>2. (\E m \in Mems : b \in Reachable(m)) <=> \E k \in Keys : b \in All(ent[k])
        <4>1. \A k \in Keys : k[1] \in Mems
          BY DEF Keys
        <4> QED
          BY <4>1, ReachableIsOwned
      <3> HIDE DEF ent, U
      <3>3. b \in DOMAIN live <=> b \in mine \cup left \/ \E k \in Keys : b \in All(ent[k])
        BY <2>1 DEF Owned, Accounted
      <3>4. b \in DOMAIN live <=> b \in U \cup mine \cup left
        BY <3>1, <3>2, <3>3
      <3> QED
        BY <3>4 DEF U
    <2> QED
      BY <2>1, <2>2 DEF NothingElseLeaks
  <1> QED
    BY <1>1, BlocksHaveOwners, PTL
=============================================================================
