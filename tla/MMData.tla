------------------------------- MODULE MMData -------------------------------
(***************************************************************************)
(* Images in memory: MMData with its naming table and root object          *)
(* (mmdata.hpp, mmdata.cpp), and Allocator, which decides from which heap  *)
(* the memory of a container comes (allocator.hpp, common_types.hpp).      *)
(*                                                                         *)
(* A call is a step, as the library is used by one thread.  The heap of an *)
(* image is a number of blocks, one for a node of a table, for the text of *)
(* a string that is too long to be kept in place, or for an object.  An    *)
(* allocation may fail with blocks left, as they need not fit.             *)
(***************************************************************************)
EXTENDS Integers, FiniteSets

CONSTANTS
  MMDatas,      \* MMData objects
  Mems,         \* the memories that images are made in
  SmallMems,    \* those that CreateAllocator refuses
  Names,        \* names of objects, and keys of the root table
  LongNames,    \* those whose text needs a block
  Room,         \* blocks of a heap
  NULL,
  Process,      \* the heap of the process
  DefaultKeys   \* keys are made as in the example of the README

ASSUME MemsAssumption ==
  /\ SmallMems \subseteq Mems /\ LongNames \subseteq Names /\ Room \in Nat
  /\ {NULL, Process} \cap Mems = {} /\ NULL # Process
  /\ NULL \notin (Mems \cup {Process}) \X (1 .. Room)
  /\ DefaultKeys \in BOOLEAN

VARIABLES
  meta_,       \* meta_[d]: the memory that MMData d looks names up in
  allocator_,  \* allocator_[d]: the space of its allocator, or NULL
  image,       \* image[m]: whether m holds a Meta and a root; its two tables
  live,        \* live[b]: what block b holds, for the blocks in use
  mine,        \* the objects that callers have from New
  left,        \* the blocks of objects whose constructor threw
  damaged      \* a heap was given what it does not own, or NULL was followed
vars == <<meta_, allocator_, image, live, mine, left, damaged>>

Heaps == Mems \cup {Process}
Blocks == Heaps \X (1 .. Room)

(* An entry of a table: the block of its node, the block of its key's      *)
(* text (or NULL), and the pointer it maps to (NULL in the root table).    *)
NoEntry == [node |-> NULL, text |-> NULL, value |-> NULL]
NoEntries == [n \in Names |-> NoEntry]
NoMeta == [made |-> FALSE, rooted |-> FALSE, naming |-> NoEntries, root |-> NoEntries]
Has(table, n) == table[n] # NoEntry

Init ==
  /\ meta_ = [d \in MMDatas |-> NULL]
  /\ allocator_ = [d \in MMDatas |-> NULL]
  /\ image = [m \in Mems |-> NoMeta]
  /\ live = << >>
  /\ mine = {} /\ left = {} /\ damaged = FALSE

-----------------------------------------------------------------------------
(* Allocator<T>.  One without a space serves from the heap of the process. *)
HeapOf(space) == IF space = NULL THEN Process ELSE space

(* Copying and assignment never take a space away.                         *)
Assigned(space, other) == IF other = NULL THEN space ELSE other

Spare(held, h) == {i \in 1 .. Room : <<h, i>> \notin DOMAIN held}
Fresh(held, h) == <<h, CHOOSE i \in Spare(held, h) : TRUE>>

(* The heap after a block for content was allocated; there must be one.    *)
Put(held, b, content) ==
  [c \in DOMAIN held \cup {b} |-> IF c = b THEN content ELSE held[c]]
Without(held, B) == [c \in DOMAIN held \ B |-> held[c]]

(* deallocate through an allocator with this space.                        *)
Foreign(space, b) == b \notin DOMAIN live \/ b[1] # HeapOf(space)

-----------------------------------------------------------------------------
(* A slip: the key in the table is made without an allocator.              *)
Inserted_DefaultKey(held, m, n, space, value) ==
  LET node == Fresh(held, m)
      withNode == Put(held, node, [what |-> "node", name |-> n])
      text == Fresh(withNode, Process)
  IN  [entry |-> [node |-> node, text |-> IF n \in LongNames THEN text ELSE NULL,
                  value |-> value],
       heap |-> IF n \in LongNames
                  THEN Put(withNode, text, [what |-> "text", name |-> n])
                  ELSE withNode]

(* insert(value_type(key, ...)) into a table of memory m, the key made     *)
(* with an allocator of the given space: the node comes from the table's   *)
(* allocator, the text of the key's copy from the key's.                   *)
Inserted(held, m, n, space, value) ==
  LET node == Fresh(held, m)
      withNode == Put(held, node, [what |-> "node", name |-> n])
      text == Fresh(withNode, HeapOf(space))
  IN  [entry |-> [node |-> node, text |-> IF n \in LongNames THEN text ELSE NULL,
                  value |-> value],
       heap |-> IF n \in LongNames
                  THEN Put(withNode, text, [what |-> "text", name |-> n])
                  ELSE withNode]
CanInsert(held, m, n, space) ==
  LET needs(h) == (IF h = m THEN 1 ELSE 0)
                  + (IF n \in LongNames /\ h = HeapOf(space) THEN 1 ELSE 0)
  IN  \A h \in Heaps : needs(h) <= Cardinality(Spare(held, h))

(* erase: the node goes, and the key's destructor frees its text.          *)
BlocksOf(e) == {e.node, e.text} \ {NULL}

-----------------------------------------------------------------------------
(* A caller uses an MMData for one memory.                                 *)
Uses(d, m) == meta_[d] \in {NULL, m} /\ allocator_[d] \in {NULL, m}

(* Everything that was in m is gone; callers forget what they had there.   *)
Created(d, m, rooted) ==
  LET gone == {b \in Blocks : b[1] = m} IN
  /\ allocator_' = [allocator_ EXCEPT ![d] = Assigned(@, m)]
  /\ image' = [image EXCEPT ![m] = [NoMeta EXCEPT !.made = TRUE, !.rooted = rooted]]
  /\ live' = Without(live, gone)
  /\ mine' = mine \ gone /\ left' = left \ gone
  /\ UNCHANGED damaged

(* meta_ is not CreateAllocator's to set.                                  *)
CreateAllocator(d, m) ==
  /\ Uses(d, m) /\ m \notin SmallMems
  /\ Created(d, m, FALSE)
  /\ UNCHANGED meta_

LoadRootWriteObject(d, m) ==
  /\ Uses(d, m) /\ m \notin SmallMems
  /\ Created(d, m, TRUE)
  /\ meta_' = [meta_ EXCEPT ![d] = m]

LoadRootReadObject(d, m) ==
  /\ Uses(d, m) /\ image[m].made
  /\ meta_' = [meta_ EXCEPT ![d] = m]
  /\ UNCHANGED <<allocator_, image, live, mine, left, damaged>>

-----------------------------------------------------------------------------
(* New: the caller has an object, or an exception, of allocate or of the   *)
(* constructor; the latter's block stays allocated.                        *)
Object(n) == [what |-> "object", name |-> n]

New(d) ==
  LET h == HeapOf(allocator_[d])
      b == Fresh(live, h)
  IN  /\ Spare(live, h) # {}
      /\ live' = Put(live, b, Object(NULL))
      /\ \/ mine' = mine \cup {b} /\ UNCHANGED left
         \/ left' = left \cup {b} /\ UNCHANGED mine
      /\ UNCHANGED <<meta_, allocator_, image, damaged>>

(* Delete through an MMData with the space that the object came from.      *)
Delete(d, b) ==
  /\ b \in mine /\ b[1] = HeapOf(allocator_[d])
  /\ live' = Without(live, {b}) /\ mine' = mine \ {b}
  /\ UNCHANGED <<meta_, allocator_, image, left, damaged>>

-----------------------------------------------------------------------------
(* Who makes named objects has made the allocator too.                     *)
Builds(d) == meta_[d] # NULL /\ allocator_[d] = meta_[d]

(* A slip: operator[] in place of insert.                                  *)
NewNamingObject_Replaces(d, n) ==
  LET m == meta_[d]
      ins == Inserted(live, m, n, allocator_[d], NULL)
      b == Fresh(ins.heap, m)
  IN  /\ Builds(d) /\ CanInsert(live, m, n, allocator_[d])
      /\ Spare(ins.heap, m) # {}
      /\ image' = [image EXCEPT ![m].naming[n] = [ins.entry EXCEPT !.value = b]]
      /\ live' = Put(ins.heap, b, Object(n))
      /\ UNCHANGED <<meta_, allocator_, mine, left, damaged>>

(* The name goes in before the object is made: when that throws, the name  *)
(* stays, bound to nil; a name that is there, whatever it is bound to, is  *)
(* refused with NULL.                                                      *)
NewNamingObject(d, n) ==
  LET m == meta_[d]
      ins == Inserted(live, m, n, allocator_[d], NULL)
      h == HeapOf(allocator_[d])
      b == Fresh(ins.heap, h)
      bound == [ins.entry EXCEPT !.value = b]
      Bind(e) == image' = [image EXCEPT ![m].naming[n] = e]
  IN  /\ Builds(d) /\ ~Has(image[m].naming, n)
      /\ CanInsert(live, m, n, allocator_[d])
      /\ \/ /\ Bind(ins.entry) /\ live' = ins.heap
            /\ UNCHANGED left
         \/ /\ Spare(ins.heap, h) # {}
            /\ live' = Put(ins.heap, b, Object(n))
            /\ \/ Bind(bound) /\ UNCHANGED left
               \/ Bind(ins.entry) /\ left' = left \cup {b}
      /\ UNCHANGED <<meta_, allocator_, mine, damaged>>

(* What a caller gets who asks for n: NULL for nil as for no entry.        *)
GetNamingObject(d, n) == IF meta_[d] = NULL THEN NULL ELSE image[meta_[d]].naming[n].value

(* A slip: the object is destroyed, the entry stays.                       *)
DeleteNamingObject_KeepsEntry(d, n) ==
  LET b == GetNamingObject(d, n) IN
  /\ Builds(d) /\ b # NULL
  /\ damaged' = (damaged \/ Foreign(allocator_[d], b))
  /\ live' = Without(live, {b})
  /\ UNCHANGED <<meta_, allocator_, image, mine, left>>

(* The caller passes the object that the name is bound to.                 *)
DeleteNamingObject(d, n) ==
  LET m == meta_[d]
      b == GetNamingObject(d, n)
  IN  /\ Builds(d) /\ b # NULL
      /\ damaged' = (damaged \/ Foreign(allocator_[d], b))
      /\ live' = Without(live, {b} \cup BlocksOf(image[m].naming[n]))
      /\ image' = [image EXCEPT ![m].naming[n] = NoEntry]
      /\ UNCHANGED <<meta_, allocator_, mine, left>>

-----------------------------------------------------------------------------
(* The caller fills the root table.  A key is made with the allocator of   *)
(* the image (test_main.cpp), or with a default one (README.md).           *)
KeySpaces(d) == {allocator_[d]} \cup (IF DefaultKeys THEN {NULL} ELSE {})

InsertRoot(d, n, space) ==
  LET m == meta_[d]
      ins == Inserted(live, m, n, space, NULL)
  IN  /\ Builds(d) /\ image[m].rooted /\ ~Has(image[m].root, n)
      /\ CanInsert(live, m, n, space)
      /\ image' = [image EXCEPT ![m].root[n] = ins.entry]
      /\ live' = ins.heap
      /\ UNCHANGED <<meta_, allocator_, mine, left, damaged>>

(* A slip: the node is freed and its key is not destroyed.                 *)
EraseRoot_NoDestroy(d, n) ==
  LET m == meta_[d] IN
  /\ Builds(d) /\ Has(image[m].root, n)
  /\ live' = Without(live, {image[m].root[n].node})
  /\ image' = [image EXCEPT ![m].root[n] = NoEntry]
  /\ UNCHANGED <<meta_, allocator_, mine, left, damaged>>

EraseRoot(d, n) ==
  LET m == meta_[d]
      blocks == BlocksOf(image[m].root[n])
  IN  /\ Builds(d) /\ Has(image[m].root, n)
      /\ damaged' = (damaged \/ ~(blocks \subseteq DOMAIN live))
      /\ live' = Without(live, blocks)
      /\ image' = [image EXCEPT ![m].root[n] = NoEntry]
      /\ UNCHANGED <<meta_, allocator_, mine, left>>

-----------------------------------------------------------------------------
Next ==
  \E d \in MMDatas :
    \/ \E m \in Mems : \/ CreateAllocator(d, m) \/ LoadRootWriteObject(d, m)
                       \/ LoadRootReadObject(d, m)
    \/ New(d)
    \/ \E b \in mine : Delete(d, b)
    \/ \E n \in Names : \/ NewNamingObject(d, n) \/ DeleteNamingObject(d, n)
                        \/ \E space \in KeySpaces(d) : InsertRoot(d, n, space)
                        \/ EraseRoot(d, n)

Spec == Init /\ [][Next]_vars

-----------------------------------------------------------------------------
Entries(m) == {image[m].naming[n] : n \in Names} \cup {image[m].root[n] : n \in Names}

(* What a process that maps m can follow pointers to from its tables.      *)
Reachable(m) == (UNION {BlocksOf(e) \cup {e.value} : e \in Entries(m)}) \ {NULL}

(* All that can be reached from an image is allocated, and lies in it, so  *)
(* that a process that maps it finds it there (the allocators of tables,   *)
(* keys and objects; "store&read complex data sturctures in files",        *)
(* README.md:4).                                                           *)
SelfContained ==
  \A m \in Mems : \A b \in Reachable(m) : b \in DOMAIN live /\ b[1] = m

Table(m, t) == IF t = "naming" THEN image[m].naming ELSE image[m].root

(* A name is bound to an object that was made under it and is not the      *)
(* caller's to delete, and no block has two owners (NewNamingObject,       *)
(* DeleteNamingObject).                                                    *)
NamesBindTheirObjects ==
  /\ \A m \in Mems, n \in Names :
       LET b == image[m].naming[n].value IN
       b # NULL => b \in DOMAIN live /\ live[b] = Object(n) /\ b \notin mine
  /\ \A m \in Mems, t, u \in {"naming", "root"}, n, k \in Names :
       <<t, n>> # <<u, k>> =>
         BlocksOf(Table(m, t)[n]) \cap BlocksOf(Table(m, u)[k]) = {}

(* Every block in use can be reached from an image, is an object a caller  *)
(* has, or was left by a constructor that threw, and nothing was freed     *)
(* that was not in use, or to a heap that did not own it (New, Delete,     *)
(* erase).                                                                 *)
NothingElseLeaks ==
  /\ DOMAIN live = (UNION {Reachable(m) : m \in Mems}) \cup mine \cup left
  /\ ~damaged

(* Making an object under one name, or making and deleting others, leaves  *)
(* a name bound to the object it had: only its deletion, or a new image,   *)
(* takes it away (NewNamingObject: insert does not replace).               *)
NamesKeepTheirObjects ==
  [][\A m \in Mems, n \in Names :
       LET b == image[m].naming[n].value IN
       b # NULL /\ image'[m].naming[n].value # b =>
         image'[m].naming[n] = NoEntry /\ b \notin DOMAIN live']_vars

(* NewNamingObject refuses a name because it is taken ("//duplicate",      *)
(* mmdata.hpp:107): a name in the table has an object.                     *)
TakenNamesHaveObjects ==
  \A m \in Mems, n \in Names :
    Has(image[m].naming, n) => image[m].naming[n].value # NULL
=============================================================================
