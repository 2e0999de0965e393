---------------------------- MODULE MMFileProofs ----------------------------
(***************************************************************************)
(* The safety of image files, for any number of processes, objects, files  *)
(* and places to map them, and files of any size.                          *)
(*                                                                         *)
(* It is promised to callers that are careful: they heed a NULL root,      *)
(* shrink a file they have built and only once, and a process that builds  *)
(* has one object at a time.  The inductive invariant FileInv says of each *)
(* object what its phase means: which mapping it has, what the file under  *)
(* it holds, and that nobody else is building that file.                   *)
(***************************************************************************)
EXTENDS MMFile, TLAPS

USE ActorsAssumption, SizesAssumption

BuildersAlone == \A h \in Builders : Owner[h] \notin Overlapping
CarefulCallers == Careful /\ BuildersAlone

Image == [root : BOOLEAN, items : Nat, trimmed : BOOLEAN]
Mapping == [file : Files, size : Int, writable : BOOLEAN]
Phases == {"none", "new", "resized", "mapped", "building", "reading",
           "closed", "statted", "refused", "shrunk"}
Object == [phase : Phases, path : Files \cup {NULL}, file_size : Int,
           buf : Slots \cup {NULL}, size : Int, readonly : BOOLEAN,
           space : Slots \cup {NULL}, len : Int, promised : BOOLEAN]

Typed ==
  /\ file \in [Files -> [size : Int, image : Image]]
  /\ map \in [Procs -> [Slots -> Mapping \cup {NULL}]]
  /\ obj \in [Objects -> Object]
  /\ pmparams \in [Procs -> Slots \cup {NULL}]
  /\ built \in [Files -> Int]

(* The objects that have something mapped.                                 *)
Attached(h) == obj[h].phase \in {"mapped", "refused", "building", "reading"}

(* What a caller has in hand.                                              *)
InHand(h) ==
  /\ obj[h].phase = "none" => ~obj[h].promised
  /\ obj[h].phase # "none" => obj[h].path \in Files
  /\ obj[h].phase \in {"none", "new", "resized", "statted"} =>
       obj[h].buf = NULL /\ ~obj[h].readonly
  /\ obj[h].phase \in {"refused", "shrunk"} \/ Writes(h) =>
       h \in Builders /\ ~obj[h].readonly

(* An attached object has its file mapped, as it may be used.              *)
HasMapping(h) ==
  Attached(h) => /\ obj[h].buf # NULL /\ Maps(h, obj[h].buf, ~obj[h].readonly)
                 /\ At(h)[obj[h].buf].size = obj[h].size

Shares(g, h) == g # h /\ Owner[g] = Owner[h]

(* Two objects share a process only where they may, and never a mapping.   *)
Apart(g, h) ==
  Shares(g, h) =>
    /\ Owner[h] \notin Overlapping => obj[g].phase = "none" \/ obj[h].phase = "none"
    /\ Attached(g) /\ Attached(h) => obj[g].buf # obj[h].buf

(* A file is written through one object at a time.                         *)
OneWriter(g, h) == g # h /\ Writes(g) /\ Writes(h) => obj[g].path # obj[h].path

Constructed(h, f) ==
  /\ file[f].image.root /\ obj[h].space = obj[h].buf /\ file[f].size = obj[h].size
  /\ used_space(file[f].image) <= obj[h].size
  /\ pmparams[Owner[h]] = obj[h].buf

(* What is true of a file at each step of being built.                     *)
Progress(h) ==
  LET f == obj[h].path IN
  /\ Writes(h) => built[f] = NotBuilt /\ ~obj[h].promised
  /\ obj[h].phase = "resized" => file[f].size = obj[h].file_size
  /\ obj[h].phase = "mapped" => file[f].size = obj[h].size
  /\ Writes(h) /\ obj[h].phase \in {"building", "reading"} => Constructed(h, f)
  /\ obj[h].phase = "closed" =>
       /\ file[f].image.root /\ obj[h].len = used_space(file[f].image)
       /\ obj[h].len <= file[f].size

(* A build that was finished left an image that lies within the file.      *)
Finished(f) ==
  built[f] # NotBuilt =>
    /\ file[f].image.root /\ file[f].image.items = built[f]
    /\ used_space(file[f].image) <= file[f].size

(* A promised reader has the image within the size it saw.                 *)
Promise(h) ==
  obj[h].promised /\ obj[h].phase \in {"statted", "reading"} =>
    /\ built[obj[h].path] # NotBuilt
    /\ used_space(file[obj[h].path].image) <=
         IF obj[h].phase = "statted" THEN obj[h].len ELSE obj[h].size

(* What is mapped was mapped by an object that has yet to unmap it.        *)
Mine(p, s) ==
  map[p][s] # NULL => \E h \in Objects : Owner[h] = p /\ obj[h].buf = s /\ Attached(h)

FileInv ==
  /\ Typed
  /\ \A h \in Objects : InHand(h) /\ HasMapping(h) /\ Progress(h) /\ Promise(h)
  /\ \A g, h \in Objects : Apart(g, h) /\ OneWriter(g, h)
  /\ \A f \in Files : Finished(f)
  /\ \A p \in Procs, s \in Slots : Mine(p, s)

-----------------------------------------------------------------------------
USE DEF Attached, Writes, Maps, At

LEMMA NotBuiltIsInt == NotBuilt \in Int \ Nat
  BY DEF NotBuilt

LEMMA InitFiles == Init => FileInv
  BY DEF Init, FileInv, Typed, Object, Phases, Image, Mapping, NoImage, NoObject,
     InHand, HasMapping, Progress, Promise, Apart, OneWriter, Finished, Mine,
     NotBuilt, Shares

(* No two objects come to share what they did not, if none takes a mapping *)
(* or begins.                                                              *)
LEMMA StayApart ==
  ASSUME FileInv,
         \A k \in Objects :
            /\ obj'[k].phase # "none" => obj[k].phase # "none"
            /\ Attached(k)' => Attached(k) /\ obj'[k].buf = obj[k].buf
  PROVE  \A g, k \in Objects : Apart(g, k)'
  BY DEF FileInv, Apart, Shares

(* ... nor come to write the same file, if none begins to write.           *)
LEMMA StayOneWriter ==
  ASSUME FileInv,
         \A k \in Objects : Writes(k)' => Writes(k) /\ obj'[k].path = obj[k].path
  PROVE  \A g, k \in Objects : OneWriter(g, k)'
  BY DEF FileInv, OneWriter

(* A mapping that is left alone serves who had it.                         *)
LEMMA StayMapped ==
  ASSUME FileInv, UNCHANGED map,
         \A k \in Objects : Attached(k)' =>
            /\ Attached(k) /\ obj'[k].path = obj[k].path /\ obj'[k].buf = obj[k].buf
            /\ obj'[k].size = obj[k].size /\ (obj[k].readonly => obj'[k].readonly)
  PROVE  \A k \in Objects : HasMapping(k)'
  BY DEF FileInv, HasMapping

(* A mapping keeps its owner.                                              *)
LEMMA StayMine ==
  ASSUME FileInv, UNCHANGED map,
         \A k \in Objects : Attached(k) => Attached(k)' /\ obj'[k].buf = obj[k].buf
  PROVE  \A p \in Procs, s \in Slots : Mine(p, s)'
  BY DEF FileInv, Mine

(* A process that builds has no other object.                              *)
LEMMA Alone ==
  ASSUME FileInv, BuildersAlone, NEW h \in Objects, h \in Builders,
         obj[h].phase # "none", NEW k \in Objects \ {h}, Owner[k] = Owner[h]
  PROVE  obj[k].phase = "none"
  BY DEF FileInv, BuildersAlone, Apart, Shares

(* Who writes a file harms nobody but those who no longer rely on it.      *)
LEMMA OthersUnharmed ==
  ASSUME FileInv, BuildersAlone, NEW h \in Objects, Writes(h),
         \A k \in Objects \ {h} : obj'[k] = obj[k],
         \A e \in Files \ {obj[h].path} : file'[e] = file[e] /\ built'[e] = built[e],
         \A p \in Procs \ {Owner[h]} : pmparams'[p] = pmparams[p]
  PROVE  /\ \A k \in Objects \ {h} : InHand(k)' /\ Progress(k)' /\ Promise(k)'
         /\ \A e \in Files \ {obj[h].path} : Finished(e)'
  <1> DEFINE f == obj[h].path
  <1>1. /\ h \in Builders /\ obj[h].phase # "none" /\ built[f] = NotBuilt
    BY DEF FileInv, InHand, Progress
  <1> SUFFICES ASSUME NEW k \in Objects \ {h}
               PROVE  InHand(k)' /\ Progress(k)' /\ Promise(k)'
    BY DEF FileInv, Finished
  <1>2. InHand(k)'
    BY DEF FileInv, InHand
  <1>3. obj[k].phase # "none" => obj[k].path \in Files /\ Owner[k] # Owner[h]
    BY <1>1, Alone DEF FileInv, InHand
  <1>4. Progress(k) /\ Promise(k) /\ InHand(k) /\ OneWriter(h, k)
    BY DEF FileInv
  <1>5. CASE obj[k].path = f
    <2>1. ~Writes(k) /\ obj'[k] = obj[k]
      BY <1>4, <1>5 DEF OneWriter
    <2>2. ~(obj[k].promised /\ obj[k].phase \in {"statted", "reading"})
      BY <1>1, <1>4, <1>5 DEF Promise
    <2> QED
      BY <1>2, <2>1, <2>2 DEF Progress, Promise
  <1>6. CASE obj[k].path # f
    BY <1>3, <1>4, <1>6 DEF Progress, Promise, Constructed, InHand
  <1> QED
    BY <1>2, <1>5, <1>6

(* An object gets a mapping where there was none.                          *)
LEMMA MappingAdded ==
  ASSUME FileInv, NEW h \in Objects, NEW s \in Slots, NEW size \in Int,
         NEW writable \in BOOLEAN,
         At(h)[s] = NULL, ~Attached(h), obj[h].phase # "none",
         map' = Mapped(h, s, size, writable),
         Attached(h)', obj'[h].buf = s, obj'[h].path = obj[h].path,
         obj'[h].size = size, obj'[h].readonly = ~writable,
         \A k \in Objects \ {h} : obj'[k] = obj[k]
  PROVE  /\ \A k \in Objects : HasMapping(k)'
         /\ \A g, k \in Objects : Apart(g, k)'
         /\ \A p \in Procs, t \in Slots : Mine(p, t)'
         /\ map' \in [Procs -> [Slots -> Mapping \cup {NULL}]]
  <1> DEFINE p == Owner[h]
             entry == [file |-> obj[h].path, size |-> size, writable |-> writable]
  <1>1. /\ entry \in Mapping /\ entry # NULL
        /\ entry.file = obj[h].path /\ entry.size = size
        /\ entry.writable = writable
    BY DEF FileInv, InHand, Mapping
  <1> HIDE DEF entry
  <1>2. /\ map'[p][s] = entry
        /\ \A t \in Slots \ {s} : map'[p][t] = map[p][t]
        /\ \A q \in Procs \ {p} : map'[q] = map[q]
        /\ map' \in [Procs -> [Slots -> Mapping \cup {NULL}]]
    BY <1>1 DEF Mapped, FileInv, Typed, entry
  <1>3. \A k \in Objects \ {h} : Attached(k) /\ Owner[k] = p => obj[k].buf # s
    BY DEF FileInv, HasMapping
  <1>4. \A k \in Objects : Attached(k) => obj[k].buf \in Slots
    BY DEF FileInv, Typed, Object, HasMapping
  <1>5. \A k \in Objects : HasMapping(k)'
    <2> SUFFICES ASSUME NEW k \in Objects
                 PROVE  HasMapping(k)'
      OBVIOUS
    <2>1. CASE k = h
      BY <1>1, <1>2, <2>1 DEF HasMapping
    <2>2. CASE k # h
      <3>1. obj'[k] = obj[k] /\ HasMapping(k)
        BY <2>2 DEF FileInv
      <3>2. Attached(k) => map'[Owner[k]][obj[k].buf] = map[Owner[k]][obj[k].buf]
        BY <1>2, <1>3, <1>4, <2>2
      <3> QED
        BY <3>1, <3>2 DEF HasMapping
    <2> QED
      BY <2>1, <2>2
  <1>6. \A g, k \in Objects : Apart(g, k)'
    BY <1>3 DEF FileInv, Apart, Shares
  <1>7. \A q \in Procs, t \in Slots : Mine(q, t)'
    <2> SUFFICES ASSUME NEW q \in Procs, NEW t \in Slots, map'[q][t] # NULL
                 PROVE  \E k \in Objects : Owner[k] = q /\ obj'[k].buf = t /\ Attached(k)'
      BY DEF Mine
    <2>1. CASE q = p /\ t = s
      BY <2>1
    <2>2. CASE ~(q = p /\ t = s)
      <3>1. map[q][t] # NULL /\ Mine(q, t)
        BY <1>2, <2>2 DEF FileInv
      <3>2. PICK k \in Objects : Owner[k] = q /\ obj[k].buf = t /\ Attached(k)
        BY <3>1 DEF Mine
      <3> QED
        BY <3>2
    <2> QED
      BY <2>1, <2>2
  <1> QED
    BY <1>2, <1>5, <1>6, <1>7

(* An object unmaps what it has mapped, or where it once had.              *)
LEMMA MappingRemoved ==
  ASSUME FileInv, NEW h \in Objects, obj[h].phase # "none",
         \A k \in Objects \ {h} :
            Owner[k] = Owner[h] /\ Attached(k) => obj[k].buf # obj[h].buf,
         map' = Unmap(Owner[h], obj[h].buf), ~Attached(h)',
         \A k \in Objects \ {h} : obj'[k] = obj[k]
  PROVE  /\ \A k \in Objects : HasMapping(k)'
         /\ \A g, k \in Objects : Apart(g, k)'
         /\ \A p \in Procs, t \in Slots : Mine(p, t)'
         /\ map' \in [Procs -> [Slots -> Mapping \cup {NULL}]]
  <1> DEFINE p == Owner[h]
             s == obj[h].buf
  <1>1. s \in Slots \cup {NULL} /\ (s \in Slots => s # NULL)
    BY DEF FileInv, Typed, Object
  <1>2. /\ \A t \in Slots \ {s} : map'[p][t] = map[p][t]
        /\ \A q \in Procs \ {p} : map'[q] = map[q]
        /\ s \in Slots => map'[p][s] = NULL
        /\ map' \in [Procs -> [Slots -> Mapping \cup {NULL}]]
    BY <1>1 DEF Unmap, FileInv, Typed
  <1>4. \A k \in Objects : Attached(k) => obj[k].buf \in Slots
    BY DEF FileInv, Typed, Object, HasMapping
  <1>5. \A k \in Objects : HasMapping(k)'
    BY <1>1, <1>2, <1>4 DEF FileInv, HasMapping
  <1>6. \A g, k \in Objects : Apart(g, k)'
    BY DEF FileInv, Apart, Shares
  <1>7. \A q \in Procs, t \in Slots : Mine(q, t)'
    BY <1>2 DEF FileInv, Mine
  <1> QED
    BY <1>2, <1>5, <1>6, <1>7

-----------------------------------------------------------------------------
LEMMA ConstructSafe ==
  ASSUME FileInv, NEW h \in Objects, NEW f \in Files, NEW size \in SizesFor(h),
         Construct(h, f, size)
  PROVE  FileInv'
  <1>1. /\ obj[h].phase = "none" /\ obj'[h].phase = "new" /\ obj'[h].path = f
        /\ obj'[h].buf = NULL /\ ~obj'[h].promised /\ ~obj'[h].readonly
        /\ \A k \in Objects \ {h} : obj'[k] = obj[k]
        /\ UNCHANGED <<file, map, pmparams, built, faulted>>
    BY DEF Construct, FileInv, Typed, Object, InHand
  <1>2. Typed'
    <2>1. obj[h] \in Object /\ size \in Int
      BY DEF FileInv, Typed, SizesFor
    <2>2. [obj[h] EXCEPT !.phase = "new", !.path = f, !.file_size = size] \in Object
      BY <2>1 DEF Object, Phases
    <2> QED
      BY <1>1, <2>2 DEF Construct, FileInv, Typed
  <1>3. \A k \in Objects : InHand(k)' /\ HasMapping(k)'
    BY <1>1 DEF FileInv, InHand, HasMapping
  <1>4. \A k \in Objects : Progress(k)' /\ Promise(k)'
    BY <1>1 DEF FileInv, Progress, Promise, Constructed
  <1>5. \A g, k \in Objects : Apart(g, k)'
    <2>1. Owner[h] \notin Overlapping =>
            \A g \in Objects \ {h} : Owner[g] = Owner[h] => obj[g].phase = "none"
      BY DEF Construct
    <2>2. \A g, k \in Objects : Apart(g, k)
      BY DEF FileInv
    <2> QED
      BY <1>1, <2>1, <2>2 DEF Apart, Shares
  <1>6. \A g, k \in Objects : OneWriter(g, k)'
    BY <1>1, StayOneWriter
  <1>7. \A p \in Procs, s \in Slots : Mine(p, s)'
    BY <1>1, StayMine
  <1>8. \A e \in Files : Finished(e)'
    BY <1>1 DEF FileInv, Finished
  <1> QED
    BY <1>1, <1>2, <1>3, <1>4, <1>5, <1>6, <1>7, <1>8 DEF FileInv

(* The file that is opened is nobody's image any more.                     *)
LEMMA OpenWriteSafe ==
  ASSUME FileInv, NEW h \in Objects, OpenWrite(h)
  PROVE  FileInv'
  <1> DEFINE f == obj[h].path
  <1>0. \A k \in Objects : obj[k] \in Object
    BY DEF FileInv, Typed
  <1>1. /\ obj[h].phase = "new" /\ h \in Builders /\ f \in Files
        /\ obj'[h].phase = "resized"
        /\ \A k \in Objects :
             /\ k # h => obj'[k].phase = obj[k].phase
             /\ obj'[k].path = obj[k].path /\ obj'[k].buf = obj[k].buf
             /\ obj'[k].size = obj[k].size /\ obj'[k].space = obj[k].space
             /\ obj'[k].len = obj[k].len /\ obj'[k].readonly = obj[k].readonly
             /\ obj'[k].file_size = obj[k].file_size
             /\ obj'[k].promised => obj[k].promised /\ k # h /\ obj[k].path # f
        /\ \A k \in Objects \ {h} : Writes(k) => obj[k].path # f
        /\ UNCHANGED <<map, pmparams, faulted>>
    <2>1. /\ obj[h].phase = "new" /\ h \in Builders /\ ~BuiltElsewhere(h)
          /\ obj' = [k \in Objects |->
                       IF k = h THEN [obj[k] EXCEPT !.phase = "resized", !.promised = FALSE]
                       ELSE IF obj[k].path = f THEN [obj[k] EXCEPT !.promised = FALSE]
                       ELSE obj[k]]
          /\ UNCHANGED <<map, pmparams, faulted>>
      BY DEF OpenWrite
    <2>2. f \in Files
      BY <2>1 DEF FileInv, InHand
    <2>3. ASSUME NEW k \in Objects
          PROVE  /\ k # h => obj'[k].phase = obj[k].phase
                 /\ obj'[k].path = obj[k].path /\ obj'[k].buf = obj[k].buf
                 /\ obj'[k].size = obj[k].size /\ obj'[k].space = obj[k].space
                 /\ obj'[k].len = obj[k].len /\ obj'[k].readonly = obj[k].readonly
                 /\ obj'[k].file_size = obj[k].file_size
                 /\ obj'[k].promised => obj[k].promised /\ k # h /\ obj[k].path # f
      BY <1>0, <2>1 DEF Object
    <2>4. obj'[h].phase = "resized"
      BY <1>0, <2>1 DEF Object
    <2>5. \A k \in Objects \ {h} : Writes(k) => obj[k].path # f
      BY <2>1 DEF BuiltElsewhere
    <2> QED
      BY <2>1, <2>2, <2>3, <2>4, <2>5
  <1>2. /\ file'[f].size = obj[h].file_size
        /\ built'[f] = NotBuilt
        /\ \A e \in Files \ {f} : file'[e] = file[e] /\ built'[e] = built[e]
    BY <1>1 DEF OpenWrite, FileInv, Typed, Resized
  <1>3. Typed'
    <2>1. Resized(file[f], obj[h].file_size) \in [size : Int, image : Image]
      BY <1>0, <1>1 DEF FileInv, Typed, Object, Resized, NoImage, Image
    <2>2. file' \in [Files -> [size : Int, image : Image]]
      BY <1>1, <2>1 DEF OpenWrite, FileInv, Typed
    <2>3. built' \in [Files -> Int]
      BY <1>1, NotBuiltIsInt DEF OpenWrite, FileInv, Typed
    <2>4. \A k \in Objects : obj'[k] \in Object
      <3> SUFFICES ASSUME NEW k \in Objects
                   PROVE  obj'[k] \in Object
        OBVIOUS
      <3>1. /\ [obj[k] EXCEPT !.phase = "resized", !.promised = FALSE] \in Object
            /\ [obj[k] EXCEPT !.promised = FALSE] \in Object
        BY <1>0 DEF Object, Phases
      <3> QED
        BY <1>0, <3>1 DEF OpenWrite
    <2> QED
      BY <1>1, <2>2, <2>3, <2>4 DEF OpenWrite, FileInv, Typed
  <1>4. \A k \in Objects : InHand(k)' /\ HasMapping(k)'
    BY <1>1 DEF FileInv, InHand, HasMapping
  <1>5. \A k \in Objects : Progress(k)' /\ Promise(k)'
    <2> SUFFICES ASSUME NEW k \in Objects
                 PROVE  Progress(k)' /\ Promise(k)'
      OBVIOUS
    <2>1. CASE k = h
      BY <1>1, <1>2, <2>1 DEF FileInv, Progress, Promise, Constructed
    <2>2. CASE k # h /\ obj[k].path = f
      BY <1>1, <1>2, <2>2 DEF FileInv, Progress, Promise, Constructed
    <2>3. CASE k # h /\ obj[k].path # f
      <3>1. obj[k].phase # "none" => obj[k].path \in Files
        BY DEF FileInv, InHand
      <3> QED
        BY <1>1, <1>2, <2>3, <3>1 DEF FileInv, Progress, Promise, Constructed
    <2> QED
      BY <2>1, <2>2, <2>3
  <1>6. \A g, k \in Objects : Apart(g, k)'
    BY <1>1, StayApart
  <1>7. \A g, k \in Objects : OneWriter(g, k)'
    BY <1>1 DEF FileInv, OneWriter
  <1>8. \A p \in Procs, s \in Slots : Mine(p, s)'
    BY <1>1, StayMine
  <1>9. \A e \in Files : Finished(e)'
    BY <1>1, <1>2 DEF FileInv, Finished
  <1> QED
    BY <1>1, <1>2, <1>3, <1>4, <1>5, <1>6, <1>7, <1>8, <1>9 DEF FileInv

(* The mapping is new, or the object is as it was.                         *)
LEMMA MapForWriteSafe ==
  ASSUME FileInv, BuildersAlone, NEW h \in Objects, MapForWrite(h)
  PROVE  FileInv'
  <1> DEFINE f == obj[h].path
  <1>1. /\ obj[h] \in Object /\ obj[h].phase = "resized" /\ h \in Builders
        /\ f \in Files /\ obj[h].buf = NULL /\ ~obj[h].readonly
        /\ built[f] = NotBuilt /\ ~obj[h].promised /\ file[f].size = obj[h].file_size
        /\ UNCHANGED <<file, pmparams, built, faulted>>
    BY DEF MapForWrite, FileInv, Typed, InHand, Progress
  <1>2. CASE map' = map /\ obj' = [obj EXCEPT ![h].phase = "new"]
    <2>1. /\ obj'[h].phase = "new" /\ obj'[h].path = f /\ obj'[h].buf = NULL
          /\ ~obj'[h].readonly /\ ~obj'[h].promised
          /\ \A k \in Objects \ {h} : obj'[k] = obj[k]
      BY <1>1, <1>2 DEF FileInv, Typed, Object
    <2>2. Typed'
      BY <1>1, <1>2 DEF FileInv, Typed, Object, Phases
    <2>3. \A k \in Objects : InHand(k)' /\ HasMapping(k)'
      BY <1>1, <1>2, <2>1 DEF FileInv, InHand, HasMapping
    <2>4. \A k \in Objects : Progress(k)' /\ Promise(k)'
      BY <1>1, <2>1 DEF FileInv, Progress, Promise, Constructed
    <2>5. \A g, k \in Objects : Apart(g, k)' /\ OneWriter(g, k)'
      BY <1>1, <2>1, StayApart, StayOneWriter
    <2>6. \A p \in Procs, s \in Slots : Mine(p, s)'
      BY <1>1, <1>2, <2>1, StayMine
    <2>7. \A e \in Files : Finished(e)'
      BY <1>1 DEF FileInv, Finished
    <2> QED
      BY <1>1, <2>2, <2>3, <2>4, <2>5, <2>6, <2>7 DEF FileInv
  <1>3. CASE \E s \in Slots :
               /\ At(h)[s] = NULL
               /\ map' = Mapped(h, s, obj[h].file_size, TRUE)
               /\ obj' = [obj EXCEPT ![h].phase = "mapped", ![h].buf = s,
                            ![h].size = obj[h].file_size, ![h].readonly = FALSE]
    <2>1. PICK s \in Slots :
               /\ At(h)[s] = NULL
               /\ map' = Mapped(h, s, obj[h].file_size, TRUE)
               /\ obj' = [obj EXCEPT ![h].phase = "mapped", ![h].buf = s,
                            ![h].size = obj[h].file_size, ![h].readonly = FALSE]
      BY <1>3
    <2>2. /\ obj'[h].phase = "mapped" /\ obj'[h].path = f /\ obj'[h].buf = s
          /\ obj'[h].size = obj[h].file_size /\ obj'[h].size \in Int
          /\ ~obj'[h].readonly /\ obj'[h].readonly = FALSE /\ ~obj'[h].promised
          /\ obj'[h] \in Object
          /\ \A k \in Objects \ {h} : obj'[k] = obj[k]
      BY <1>1, <2>1 DEF FileInv, Typed, Object, Phases
    <2>3. /\ \A k \in Objects : HasMapping(k)'
          /\ \A g, k \in Objects : Apart(g, k)'
          /\ \A p \in Procs, t \in Slots : Mine(p, t)'
          /\ map' \in [Procs -> [Slots -> Mapping \cup {NULL}]]
      <3>1. obj[h].file_size \in Int /\ obj'[h].readonly = ~TRUE
        BY <1>1, <2>2 DEF Object
      <3> QED
        BY <1>1, <2>1, <2>2, <3>1, MappingAdded
    <2>4. Typed'
      BY <1>1, <2>1, <2>2, <2>3 DEF FileInv, Typed
    <2>5. /\ \A k \in Objects \ {h} : InHand(k)' /\ Progress(k)' /\ Promise(k)'
          /\ \A e \in Files \ {f} : Finished(e)'
      BY <1>1, <2>2, OthersUnharmed
    <2>6. InHand(h)' /\ Progress(h)' /\ Promise(h)' /\ Finished(f)'
      BY <1>1, <2>2 DEF InHand, Progress, Promise, Finished
    <2>7. \A g, k \in Objects : OneWriter(g, k)'
      BY <1>1, <2>2, StayOneWriter
    <2>8. \A k \in Objects : InHand(k)' /\ Progress(k)' /\ Promise(k)'
      BY <2>5, <2>6
    <2>9. \A e \in Files : Finished(e)'
      BY <2>2, <2>5, <2>6
    <2> QED
      BY <1>1, <2>3, <2>4, <2>7, <2>8, <2>9 DEF FileInv
  <1> QED
    BY <1>2, <1>3 DEF MapForWrite

(* What who builds has: a mapping to write to, alone in the process.       *)
LEMMA BuildingFacts ==
  ASSUME FileInv, BuildersAlone, NEW h \in Objects,
         obj[h].phase \in {"mapped", "building"}
  PROVE  /\ h \in Builders /\ obj[h].path \in Files /\ obj[h].buf \in Slots
         /\ Maps(h, obj[h].buf, TRUE) /\ ~obj[h].readonly /\ ~obj[h].promised
         /\ built[obj[h].path] = NotBuilt
         /\ file[obj[h].path].size = obj[h].size /\ obj[h].size \in Int
         /\ obj[h].phase = "building" =>
              /\ Constructed(h, obj[h].path)
              /\ ParamsMapped(Owner[h]) /\ Maps(h, obj[h].space, FALSE)
  <1>1. InHand(h) /\ HasMapping(h) /\ Progress(h) /\ obj[h] \in Object
    BY DEF FileInv, Typed
  <1>2. /\ h \in Builders /\ obj[h].path \in Files /\ ~obj[h].readonly
        /\ obj[h].buf # NULL /\ Maps(h, obj[h].buf, TRUE) /\ obj[h].size \in Int
        /\ obj[h].buf \in Slots
    BY <1>1 DEF InHand, HasMapping, Object
  <1> QED
    BY <1>1, <1>2 DEF Progress, Constructed, ParamsMapped

(* The image is made anew, and there is room for it.                       *)
LEMMA CreateRootSafe ==
  ASSUME FileInv, BuildersAlone, NEW h \in Objects, CreateRoot(h)
  PROVE  FileInv'
  <1> DEFINE f == obj[h].path
  <1>1. /\ obj[h] \in Object /\ obj[h].phase = "mapped" /\ h \in Builders
        /\ f \in Files /\ obj[h].buf \in Slots /\ Maps(h, obj[h].buf, TRUE)
        /\ ~obj[h].readonly /\ built[f] = NotBuilt /\ ~obj[h].promised
        /\ file[f].size = obj[h].size /\ obj[h].size \in Int
    BY BuildingFacts DEF CreateRoot, FileInv, Typed
  <1>2. CASE TooSmall(obj[h].size)
    <2>1. /\ obj' = [obj EXCEPT ![h].phase = "refused"]
          /\ UNCHANGED <<file, map, pmparams, built, faulted>>
      BY <1>2 DEF CreateRoot
    <2>2. /\ obj'[h].phase = "refused" /\ obj'[h].path = f /\ obj'[h].buf = obj[h].buf
          /\ obj'[h].size = obj[h].size /\ ~obj'[h].readonly /\ ~obj'[h].promised
          /\ \A k \in Objects \ {h} : obj'[k] = obj[k]
          /\ Typed'
      BY <1>1, <2>1 DEF FileInv, Typed, Object, Phases
    <2>3. \A k \in Objects : InHand(k)' /\ HasMapping(k)'
      BY <1>1, <2>1, <2>2 DEF FileInv, InHand, HasMapping
    <2>4. \A k \in Objects : Progress(k)' /\ Promise(k)'
      BY <1>1, <2>1, <2>2 DEF FileInv, Progress, Promise, Constructed
    <2>5. \A g, k \in Objects : Apart(g, k)' /\ OneWriter(g, k)'
      BY <1>1, <2>1, <2>2, StayApart, StayOneWriter
    <2>6. \A p \in Procs, s \in Slots : Mine(p, s)'
      BY <1>1, <2>1, <2>2, StayMine
    <2>7. \A e \in Files : Finished(e)'
      BY <2>1 DEF FileInv, Finished
    <2> QED
      BY <2>1, <2>2, <2>3, <2>4, <2>5, <2>6, <2>7 DEF FileInv
  <1>3. CASE ~TooSmall(obj[h].size)
    <2>1. /\ file' = [file EXCEPT ![f].image = NewImage]
          /\ pmparams' = [pmparams EXCEPT ![Owner[h]] = obj[h].buf]
          /\ obj' = [obj EXCEPT ![h].phase = "building", ![h].space = obj[h].buf]
          /\ UNCHANGED <<map, built, faulted>>
      BY <1>1, <1>3 DEF CreateRoot
    <2>2. /\ obj'[h].phase = "building" /\ obj'[h].path = f /\ obj'[h].buf = obj[h].buf
          /\ obj'[h].space = obj[h].buf /\ obj'[h].size = obj[h].size
          /\ ~obj'[h].readonly /\ ~obj'[h].promised
          /\ \A k \in Objects \ {h} : obj'[k] = obj[k]
      BY <1>1, <2>1 DEF FileInv, Typed, Object
    <2>3. /\ file'[f].image = NewImage /\ file'[f].size = file[f].size
          /\ \A e \in Files \ {f} : file'[e] = file[e]
          /\ pmparams'[Owner[h]] = obj[h].buf
          /\ \A p \in Procs \ {Owner[h]} : pmparams'[p] = pmparams[p]
      BY <1>1, <2>1 DEF FileInv, Typed
    <2>4. Typed'
      <3>1. NewImage \in Image
        BY DEF NewImage, Image
      <3>2. file' \in [Files -> [size : Int, image : Image]]
        BY <1>1, <2>1, <3>1 DEF FileInv, Typed
      <3>3. pmparams' \in [Procs -> Slots \cup {NULL}]
        BY <1>1, <2>1 DEF FileInv, Typed
      <3>4. [obj[h] EXCEPT !.phase = "building", !.space = obj[h].buf] \in Object
        BY <1>1 DEF Object, Phases
      <3>5. obj' \in [Objects -> Object]
        BY <1>1, <2>1, <3>4 DEF FileInv, Typed
      <3> QED
        BY <2>1, <3>2, <3>3, <3>5 DEF FileInv, Typed
    <2>5. \A k \in Objects : HasMapping(k)'
      BY <1>1, <2>1, <2>2, StayMapped
    <2>6. /\ \A k \in Objects \ {h} : InHand(k)' /\ Progress(k)' /\ Promise(k)'
          /\ \A e \in Files \ {f} : Finished(e)'
      BY <1>1, <2>1, <2>2, <2>3, OthersUnharmed
    <2>7. InHand(h)' /\ Progress(h)' /\ Promise(h)' /\ Finished(f)'
      <3>1. used_space(NewImage) <= obj[h].size /\ NewImage.root
        BY <1>1, <1>3 DEF TooSmall, used_space, NewImage, ALLOCATOR_META_SIZE
      <3> QED
        BY <1>1, <2>1, <2>2, <2>3, <3>1
        DEF InHand, Progress, Promise, Finished, Constructed
    <2>8. \A g, k \in Objects : Apart(g, k)' /\ OneWriter(g, k)'
      BY <1>1, <2>2, StayApart, StayOneWriter
    <2>9. \A p \in Procs, s \in Slots : Mine(p, s)'
      BY <1>1, <2>1, <2>2, StayMine
    <2>10. /\ \A k \in Objects : InHand(k)' /\ Progress(k)' /\ Promise(k)'
           /\ \A e \in Files : Finished(e)'
      BY <2>2, <2>6, <2>7
    <2> QED
      BY <2>1, <2>4, <2>5, <2>8, <2>9, <2>10 DEF FileInv
  <1> QED
    BY <1>2, <1>3

(* Between building and reading what is being built, all stays as it is.   *)
LEMMA LoadAgainSafe ==
  ASSUME FileInv, Careful, NEW h \in Objects, LoadAgain(h)
  PROVE  FileInv'
  <1>1. /\ obj[h] \in Object /\ Writes(h)
        /\ obj[h].phase \in {"building", "reading"}
        /\ UNCHANGED <<file, map, pmparams, built, faulted>>
    BY DEF LoadAgain, FileInv, Typed
  <1>2. /\ obj'[h].phase \in {"building", "reading"}
        /\ obj'[h].path = obj[h].path /\ obj'[h].buf = obj[h].buf
        /\ obj'[h].size = obj[h].size /\ obj'[h].space = obj[h].space
        /\ obj'[h].readonly = obj[h].readonly /\ obj'[h].promised = obj[h].promised
        /\ \A k \in Objects \ {h} : obj'[k] = obj[k]
        /\ Typed'
    <2>1. PICK to \in {"building", "reading"} : obj' = [obj EXCEPT ![h].phase = to]
      BY DEF LoadAgain
    <2> QED
      BY <1>1, <2>1 DEF FileInv, Typed, Object, Phases
  <1>3. \A k \in Objects : InHand(k)' /\ HasMapping(k)'
    BY <1>1, <1>2, StayMapped DEF FileInv, InHand
  <1>4. \A k \in Objects : Progress(k)' /\ Promise(k)'
    BY <1>1, <1>2 DEF FileInv, Progress, Promise, Constructed
  <1>5. \A g, k \in Objects : Apart(g, k)' /\ OneWriter(g, k)'
    BY <1>1, <1>2, StayApart, StayOneWriter
  <1>6. \A p \in Procs, s \in Slots : Mine(p, s)'
    BY <1>1, <1>2, StayMine
  <1>7. \A e \in Files : Finished(e)'
    BY <1>1 DEF FileInv, Finished
  <1> QED
    BY <1>1, <1>2, <1>3, <1>4, <1>5, <1>6, <1>7 DEF FileInv

-----------------------------------------------------------------------------
(* A reader is promised what a finished build left in the file.            *)
LEMMA OpenReadSafe ==
  ASSUME FileInv, NEW h \in Objects, OpenRead(h)
  PROVE  FileInv'
  <1> DEFINE f == obj[h].path
  <1>1. /\ obj[h] \in Object /\ obj[h].phase = "new" /\ f \in Files
        /\ obj[h].buf = NULL /\ ~obj[h].readonly /\ file[f].size \in Int
        /\ UNCHANGED <<file, map, pmparams, built, faulted>>
    BY DEF OpenRead, FileInv, Typed, InHand
  <1>2. /\ obj'[h].phase = "statted" /\ obj'[h].path = f /\ obj'[h].buf = NULL
        /\ obj'[h].len = file[f].size /\ ~obj'[h].readonly
        /\ obj'[h].promised => built[f] # NotBuilt
        /\ \A k \in Objects \ {h} : obj'[k] = obj[k]
    BY <1>1 DEF OpenRead, FileInv, Typed, Object
  <1>3. Typed'
    <2>1. (built[f] # NotBuilt) \in BOOLEAN
      OBVIOUS
    <2>2. [obj[h] EXCEPT !.phase = "statted", !.len = file[f].size,
                         !.promised = built[f] # NotBuilt] \in Object
      BY <1>1, <2>1 DEF Object, Phases
    <2> QED
      BY <1>1, <2>2 DEF OpenRead, FileInv, Typed
  <1>4. \A k \in Objects : InHand(k)' /\ HasMapping(k)'
    BY <1>1, <1>2, StayMapped DEF FileInv, InHand
  <1>5. \A k \in Objects : Progress(k)' /\ Promise(k)'
    BY <1>1, <1>2 DEF FileInv, Progress, Promise, Constructed, Finished
  <1>6. \A g, k \in Objects : Apart(g, k)' /\ OneWriter(g, k)'
    BY <1>1, <1>2, StayApart, StayOneWriter
  <1>7. \A p \in Procs, s \in Slots : Mine(p, s)'
    BY <1>1, <1>2, StayMine
  <1>8. \A e \in Files : Finished(e)'
    BY <1>1 DEF FileInv, Finished
  <1> QED
    BY <1>1, <1>3, <1>4, <1>5, <1>6, <1>7, <1>8 DEF FileInv

(* What was within the size that was seen is within what is mapped.        *)
LEMMA MapForReadSafe ==
  ASSUME FileInv, NEW h \in Objects, MapForRead(h)
  PROVE  FileInv'
  <1> DEFINE f == obj[h].path
  <1>1. /\ obj[h] \in Object /\ obj[h].phase = "statted"
        /\ f \in Files /\ obj[h].buf = NULL /\ ~obj[h].readonly
        /\ UNCHANGED <<file, pmparams, built, faulted>>
    BY DEF MapForRead, FileInv, Typed, InHand
  <1>2. CASE map' = map /\ obj' = [obj EXCEPT ![h].phase = "new"]
    <2>1. /\ obj'[h].phase = "new" /\ obj'[h].path = f /\ obj'[h].buf = NULL
          /\ ~obj'[h].readonly
          /\ \A k \in Objects \ {h} : obj'[k] = obj[k]
      BY <1>1, <1>2 DEF FileInv, Typed, Object
    <2>2. Typed'
      BY <1>1, <1>2 DEF FileInv, Typed, Object, Phases
    <2>3. \A k \in Objects : InHand(k)' /\ HasMapping(k)'
      BY <1>1, <1>2, <2>1, StayMapped DEF FileInv, InHand
    <2>4. \A k \in Objects : Progress(k)' /\ Promise(k)'
      BY <1>1, <2>1 DEF FileInv, Progress, Promise, Constructed
    <2>5. \A g, k \in Objects : Apart(g, k)' /\ OneWriter(g, k)'
      BY <1>1, <2>1, StayApart, StayOneWriter
    <2>6. \A p \in Procs, s \in Slots : Mine(p, s)'
      BY <1>1, <1>2, <2>1, StayMine
    <2>7. \A e \in Files : Finished(e)'
      BY <1>1 DEF FileInv, Finished
    <2> QED
      BY <1>1, <2>2, <2>3, <2>4, <2>5, <2>6, <2>7 DEF FileInv
  <1>3. CASE \E s \in Slots :
               /\ At(h)[s] = NULL
               /\ map' = Mapped(h, s, obj[h].len, FALSE)
               /\ obj' = [obj EXCEPT ![h].phase = "reading", ![h].buf = s,
                            ![h].size = obj[h].len, ![h].readonly = TRUE]
    <2>1. PICK s \in Slots :
               /\ At(h)[s] = NULL
               /\ map' = Mapped(h, s, obj[h].len, FALSE)
               /\ obj' = [obj EXCEPT ![h].phase = "reading", ![h].buf = s,
                            ![h].size = obj[h].len, ![h].readonly = TRUE]
      BY <1>3
    <2>2. /\ obj'[h].phase = "reading" /\ obj'[h].path = f /\ obj'[h].buf = s
          /\ obj'[h].size = obj[h].len /\ obj'[h].size \in Int
          /\ obj'[h].readonly = TRUE /\ obj'[h].promised = obj[h].promised
          /\ obj'[h] \in Object
          /\ \A k \in Objects \ {h} : obj'[k] = obj[k]
      BY <1>1, <2>1 DEF FileInv, Typed, Object, Phases
    <2>3. /\ \A k \in Objects : HasMapping(k)'
          /\ \A g, k \in Objects : Apart(g, k)'
          /\ \A p \in Procs, t \in Slots : Mine(p, t)'
          /\ map' \in [Procs -> [Slots -> Mapping \cup {NULL}]]
      <3>1. obj[h].len \in Int /\ obj'[h].readonly = ~FALSE
        BY <1>1, <2>2 DEF Object
      <3> QED
        BY <1>1, <2>1, <2>2, <3>1, MappingAdded
    <2>4. Typed'
      BY <1>1, <2>1, <2>2, <2>3 DEF FileInv, Typed
    <2>5. \A k \in Objects : InHand(k)'
      BY <1>1, <2>2 DEF FileInv, InHand
    <2>6. \A k \in Objects : Progress(k)' /\ Promise(k)'
      BY <1>1, <2>2 DEF FileInv, Progress, Promise, Constructed
    <2>7. \A g, k \in Objects : OneWriter(g, k)'
      BY <1>1, <2>2, StayOneWriter
    <2>8. \A e \in Files : Finished(e)'
      BY <1>1 DEF FileInv, Finished
    <2> QED
      BY <1>1, <2>3, <2>4, <2>5, <2>6, <2>7, <2>8 DEF FileInv
  <1> QED
    BY <1>2, <1>3 DEF MapForRead

-----------------------------------------------------------------------------
(* An image that is being built changes, and still fits.                   *)
LEMMA ImageChanges ==
  ASSUME FileInv, BuildersAlone, NEW h \in Objects, obj[h].phase = "building",
         UNCHANGED <<map, obj, pmparams, built, faulted>>, Typed',
         \A e \in Files \ {obj[h].path} : file'[e] = file[e],
         file'[obj[h].path].size = file[obj[h].path].size,
         file'[obj[h].path].image.root,
         used_space(file'[obj[h].path].image) <= obj[h].size
  PROVE  FileInv'
  <1> DEFINE f == obj[h].path
  <1>1. /\ \A k \in Objects \ {h} : InHand(k)' /\ Progress(k)' /\ Promise(k)'
        /\ \A e \in Files \ {f} : Finished(e)'
    BY OthersUnharmed
  <1>2. InHand(h) /\ Progress(h) /\ built[f] = NotBuilt /\ ~obj[h].promised
    BY BuildingFacts DEF FileInv
  <1>3. InHand(h)' /\ Progress(h)' /\ Promise(h)' /\ Finished(f)'
    BY <1>2 DEF InHand, Progress, Promise, Finished, Constructed
  <1>4. \A g, k \in Objects : Apart(g, k)' /\ OneWriter(g, k)'
    BY StayApart, StayOneWriter
  <1>5. \A p \in Procs, s \in Slots : Mine(p, s)'
    BY StayMine
  <1>6. \A k \in Objects : HasMapping(k)'
    BY StayMapped
  <1>7. /\ \A k \in Objects : InHand(k)' /\ Progress(k)' /\ Promise(k)'
        /\ \A e \in Files : Finished(e)'
    BY <1>1, <1>3
  <1> QED
    BY <1>4, <1>5, <1>6, <1>7 DEF FileInv

LEMMA InsertSafe ==
  ASSUME FileInv, BuildersAlone, NEW h \in Objects, Insert(h)
  PROVE  FileInv'
  <1> DEFINE f == obj[h].path
             im == file[f].image
  <1>1. obj[h].phase = "building" /\ Maps(h, obj[h].buf, TRUE) /\ f \in Files
    BY BuildingFacts DEF Insert
  <1>2. /\ used_space(im) + 1 < obj[h].size
        /\ file' = [file EXCEPT ![f].image.items = @ + 1]
        /\ UNCHANGED <<map, obj, pmparams, built, faulted>>
    BY <1>1 DEF Insert
  <1>3. file[f] \in [size : Int, image : Image] /\ im.items \in Nat /\ im.root
    BY <1>1, BuildingFacts DEF FileInv, Typed, Image, Constructed
  <1>4. /\ file'[f].size = file[f].size /\ file'[f].image.root
        /\ file'[f].image.items = im.items + 1
        /\ \A e \in Files \ {f} : file'[e] = file[e]
        /\ Typed'
    <2> DEFINE made == [file[f] EXCEPT !.image.items = @ + 1]
    <2>1. /\ made \in [size : Int, image : Image]
          /\ made.size = file[f].size /\ made.image.root
          /\ made.image.items = im.items + 1
      BY <1>2, <1>3 DEF Image
    <2>2. file' = [file EXCEPT ![f] = made]
      BY <1>1, <1>2, <1>3 DEF FileInv, Typed
    <2> HIDE DEF made
    <2> QED
      BY <1>1, <1>2, <2>1, <2>2 DEF FileInv, Typed
  <1>5. used_space(file'[f].image) <= obj[h].size
    <2>1. obj[h].size \in Int
      BY <1>1, BuildingFacts
    <2> QED
      BY <1>2, <1>3, <1>4, <2>1 DEF used_space, ALLOCATOR_META_SIZE
  <1> QED
    BY <1>1, <1>2, <1>4, <1>5, ImageChanges

LEMMA EraseSafe ==
  ASSUME FileInv, BuildersAlone, NEW h \in Objects, Erase(h)
  PROVE  FileInv'
  <1> DEFINE f == obj[h].path
             im == file[f].image
             trims == obj[h].size - used_space(im) + 1 > TrimAbove /\ ~im.trimmed
             made == [root |-> im.root, items |-> im.items - 1,
                      trimmed |-> im.trimmed \/ trims]
  <1>1. /\ obj[h].phase = "building" /\ Maps(h, obj[h].buf, TRUE) /\ f \in Files
        /\ ParamsMapped(Owner[h])
    BY BuildingFacts DEF Erase
  <1>2. /\ im.items > 0
        /\ file' = [file EXCEPT ![f].image = made]
        /\ UNCHANGED <<map, obj, pmparams, built, faulted>>
    BY <1>1 DEF Erase
  <1>3. /\ file[f] \in [size : Int, image : Image] /\ im.items \in Nat /\ im.root
        /\ used_space(im) <= obj[h].size /\ obj[h].size \in Int
    BY <1>1, BuildingFacts DEF FileInv, Typed, Image, Constructed
  <1> HIDE DEF made
  <1>4. /\ file'[f].size = file[f].size /\ file'[f].image.root
        /\ file'[f].image.items = im.items - 1
        /\ \A e \in Files \ {f} : file'[e] = file[e]
        /\ Typed'
    <2>1. made.root /\ made.items = im.items - 1 /\ made \in Image
      BY <1>2, <1>3 DEF made, Image
    <2>2. [file[f] EXCEPT !.image = made] \in [size : Int, image : Image]
      BY <1>3, <2>1
    <2>3. file' = [file EXCEPT ![f] = [file[f] EXCEPT !.image = made]]
      BY <1>1, <1>2
    <2>4. Typed'
      BY <1>1, <1>2, <2>2, <2>3 DEF FileInv, Typed
    <2> QED
      BY <1>1, <1>2, <1>3, <2>1, <2>3, <2>4 DEF FileInv, Typed
  <1>5. used_space(file'[f].image) <= obj[h].size
    BY <1>1, <1>2, <1>3, <1>4 DEF used_space, ALLOCATOR_META_SIZE
  <1> QED
    BY <1>1, <1>2, <1>4, <1>5, ImageChanges

-----------------------------------------------------------------------------
(* The process that builds had this mapping only.                          *)
LEMMA ShrinkCloseSafe ==
  ASSUME FileInv, BuildersAlone, NEW h \in Objects, obj[h].phase = "building",
         ShrinkClose(h)
  PROVE  FileInv'
  <1> DEFINE f == obj[h].path
             used == used_space(file[f].image)
  <1>1. /\ obj[h] \in Object /\ obj[h].phase = "building" /\ h \in Builders
        /\ f \in Files /\ built[f] = NotBuilt /\ ~obj[h].readonly /\ ~obj[h].promised
        /\ file[f].image.root /\ used <= file[f].size
        /\ Maps(h, obj[h].space, FALSE)
    BY BuildingFacts DEF ShrinkClose, FileInv, Typed, Constructed
  <1>2. /\ map' = Unmap(Owner[h], obj[h].buf)
        /\ obj' = [obj EXCEPT ![h].phase = "closed", ![h].len = used]
        /\ UNCHANGED <<file, pmparams, built, faulted>>
    BY <1>1 DEF ShrinkClose
  <1>3. used \in Int
    BY <1>1 DEF FileInv, Typed, Image, used_space, ALLOCATOR_META_SIZE
  <1>4. /\ obj'[h].phase = "closed" /\ obj'[h].path = f /\ obj'[h].len = used
        /\ ~obj'[h].readonly /\ ~obj'[h].promised /\ obj'[h] \in Object
        /\ \A k \in Objects \ {h} : obj'[k] = obj[k]
        /\ obj' \in [Objects -> Object]
    BY <1>1, <1>2, <1>3 DEF FileInv, Typed, Object, Phases
  <1>5. \A k \in Objects \ {h} : Owner[k] = Owner[h] => ~Attached(k)
    BY <1>1, Alone
  <1>6. /\ \A k \in Objects : HasMapping(k)'
        /\ \A g, k \in Objects : Apart(g, k)'
        /\ \A p \in Procs, t \in Slots : Mine(p, t)'
        /\ map' \in [Procs -> [Slots -> Mapping \cup {NULL}]]
    BY <1>1, <1>2, <1>4, <1>5, MappingRemoved
  <1>7. /\ \A k \in Objects \ {h} : InHand(k)' /\ Progress(k)' /\ Promise(k)'
        /\ \A e \in Files \ {f} : Finished(e)'
    BY <1>1, <1>2, <1>4, OthersUnharmed
  <1>8. InHand(h)' /\ Progress(h)' /\ Promise(h)' /\ Finished(f)'
    BY <1>1, <1>2, <1>4 DEF InHand, Progress, Promise, Finished
  <1>9. \A g, k \in Objects : OneWriter(g, k)'
    BY <1>1, <1>4, StayOneWriter
  <1>10. /\ \A k \in Objects : InHand(k)' /\ Progress(k)' /\ Promise(k)'
         /\ \A e \in Files : Finished(e)'
    BY <1>4, <1>7, <1>8
  <1>11. Typed'
    BY <1>2, <1>4, <1>6 DEF FileInv, Typed
  <1> QED
    BY <1>2, <1>6, <1>9, <1>10, <1>11 DEF FileInv

(* What is cut off is above the image.                                     *)
LEMMA ShrinkCutSafe ==
  ASSUME FileInv, BuildersAlone, NEW h \in Objects, ShrinkCut(h)
  PROVE  FileInv'
  <1> DEFINE f == obj[h].path
             len == obj[h].len
  <1>1. /\ obj[h] \in Object /\ obj[h].phase = "closed" /\ h \in Builders
        /\ f \in Files /\ ~obj[h].readonly /\ ~obj[h].promised
        /\ file[f].image.root /\ len = used_space(file[f].image) /\ len <= file[f].size
        /\ file[f] \in [size : Int, image : Image] /\ len \in Int
        /\ UNCHANGED <<map, pmparams, faulted>>
    BY DEF ShrinkCut, FileInv, Typed, InHand, Progress, Object
  <1>2. /\ obj'[h].phase = "shrunk" /\ obj'[h].path = f
        /\ ~obj'[h].readonly /\ ~obj'[h].promised
        /\ \A k \in Objects \ {h} : obj'[k] = obj[k]
        /\ obj' \in [Objects -> Object]
    BY <1>1 DEF ShrinkCut, FileInv, Typed, Object, Phases
  <1>3. /\ built'[f] = file[f].image.items
        /\ \A e \in Files \ {f} : built'[e] = built[e]
        /\ built' \in [Files -> Int]
    BY <1>1 DEF ShrinkCut, FileInv, Typed, Image
  <1>4. /\ Resized(file[f], CutAt(len)).image = file[f].image
        /\ Resized(file[f], CutAt(len)).size = len
        /\ Resized(file[f], CutAt(len)) \in [size : Int, image : Image]
    BY <1>1 DEF Resized, CutAt
  <1>5. /\ file'[f].image = file[f].image /\ file'[f].size \in {file[f].size, len}
        /\ \A e \in Files \ {f} : file'[e] = file[e]
        /\ file' \in [Files -> [size : Int, image : Image]]
    <2>1. CASE file' = file
      BY <1>1, <2>1 DEF FileInv, Typed
    <2>2. CASE file' = [file EXCEPT ![f] = Resized(@, CutAt(len))]
      BY <1>1, <1>4, <2>2 DEF FileInv, Typed
    <2> QED
      BY <2>1, <2>2 DEF ShrinkCut
  <1>6. Typed'
    BY <1>1, <1>2, <1>3, <1>5 DEF FileInv, Typed
  <1>7. /\ \A k \in Objects \ {h} : InHand(k)' /\ Progress(k)' /\ Promise(k)'
        /\ \A e \in Files \ {f} : Finished(e)'
    BY <1>1, <1>2, <1>3, <1>5, OthersUnharmed
  <1>8. InHand(h)' /\ Progress(h)' /\ Promise(h)'
    BY <1>1, <1>2 DEF InHand, Progress, Promise
  <1>9. Finished(f)'
    BY <1>1, <1>2, <1>3, <1>5 DEF Finished
  <1>10. /\ \A k \in Objects : InHand(k)' /\ Progress(k)' /\ Promise(k)'
         /\ \A e \in Files : Finished(e)'
    BY <1>2, <1>7, <1>8, <1>9
  <1>11. \A g, k \in Objects : Apart(g, k)' /\ OneWriter(g, k)'
    BY <1>1, <1>2, StayApart, StayOneWriter
  <1>12. \A k \in Objects : HasMapping(k)'
    BY <1>1, <1>2, StayMapped
  <1>13. \A p \in Procs, s \in Slots : Mine(p, s)'
    BY <1>1, <1>2, StayMine
  <1> QED
    BY <1>1, <1>6, <1>10, <1>11, <1>12, <1>13 DEF FileInv

LEMMA NoObjectTyped == NoObject \in Object
  BY DEF NoObject, Object, Phases

(* A destructor unmaps again what ShrinkToFit has unmapped, but the        *)
(* process has nothing else then that could lie there.                     *)
LEMMA DestroySafe ==
  ASSUME FileInv, BuildersAlone, NEW h \in Objects, Destroy(h)
  PROVE  FileInv'
  <1>1. /\ obj[h] \in Object /\ InHand(h) /\ obj[h].phase # "none"
        /\ obj[h].phase \in {"new", "building", "refused", "shrunk", "reading"}
        /\ map' = Unmap(Owner[h], obj[h].buf) /\ obj' = [obj EXCEPT ![h] = NoObject]
        /\ UNCHANGED <<file, pmparams, built, faulted>>
    BY DEF Destroy, FileInv, Typed
  <1>2. /\ obj'[h] = NoObject /\ obj'[h].phase = "none" /\ ~obj'[h].promised
        /\ ~obj'[h].readonly /\ obj'[h].buf = NULL
        /\ \A k \in Objects \ {h} : obj'[k] = obj[k]
        /\ obj' \in [Objects -> Object]
    BY <1>1, NoObjectTyped DEF FileInv, Typed, NoObject
  <1>3. \A k \in Objects \ {h} :
           Owner[k] = Owner[h] /\ Attached(k) => obj[k].buf # obj[h].buf
    <2>1. CASE obj[h].phase = "new"
      BY <1>1, <2>1 DEF InHand, FileInv, HasMapping
    <2>2. CASE obj[h].phase = "shrunk"
      BY <1>1, <2>2, Alone DEF InHand
    <2>3. CASE Attached(h)
      BY <2>3 DEF FileInv, Apart, Shares
    <2> QED
      BY <1>1, <2>1, <2>2, <2>3
  <1>4. /\ \A k \in Objects : HasMapping(k)'
        /\ \A g, k \in Objects : Apart(g, k)'
        /\ \A p \in Procs, t \in Slots : Mine(p, t)'
        /\ map' \in [Procs -> [Slots -> Mapping \cup {NULL}]]
    BY <1>1, <1>2, <1>3, MappingRemoved
  <1>5. Typed'
    BY <1>1, <1>2, <1>4 DEF FileInv, Typed
  <1>6. \A k \in Objects : InHand(k)'
    BY <1>1, <1>2 DEF FileInv, InHand
  <1>7. \A k \in Objects : Progress(k)' /\ Promise(k)'
    BY <1>1, <1>2 DEF FileInv, Progress, Promise, Constructed
  <1>8. \A g, k \in Objects : OneWriter(g, k)'
    BY <1>1, <1>2, StayOneWriter
  <1>9. \A e \in Files : Finished(e)'
    BY <1>1 DEF FileInv, Finished
  <1> QED
    BY <1>1, <1>4, <1>5, <1>6, <1>7, <1>8, <1>9 DEF FileInv

(* A process that dies leaves to the others what is theirs.                *)
LEMMA DeathSafe ==
  ASSUME FileInv, NEW p \in Procs, Died(p), UNCHANGED <<file, built>>
  PROVE  FileInv'
  <1>1. /\ map' = [map EXCEPT ![p] = [s \in Slots |-> NULL]]
        /\ obj' = [h \in Objects |-> IF Owner[h] = p THEN NoObject ELSE obj[h]]
        /\ pmparams' = [pmparams EXCEPT ![p] = NULL]
        /\ UNCHANGED <<file, built>>
    BY DEF Died
  <1>2. /\ \A k \in Objects :
             IF Owner[k] = p
               THEN /\ obj'[k].phase = "none" /\ ~obj'[k].promised
                    /\ ~obj'[k].readonly /\ obj'[k].buf = NULL
             ELSE obj'[k] = obj[k]
        /\ \A q \in Procs \ {p} : map'[q] = map[q] /\ pmparams'[q] = pmparams[q]
        /\ \A s \in Slots : map'[p][s] = NULL
    BY <1>1 DEF FileInv, Typed, NoObject
  <1>3. Typed'
    BY <1>1, NoObjectTyped DEF FileInv, Typed
  <1>4. \A k \in Objects : InHand(k)' /\ HasMapping(k)'
    BY <1>2 DEF FileInv, InHand, HasMapping
  <1>5. \A k \in Objects : Progress(k)' /\ Promise(k)'
    BY <1>1, <1>2 DEF FileInv, Progress, Promise, Constructed
  <1>6. \A g, k \in Objects : Apart(g, k)'
    BY <1>2 DEF FileInv, Apart, Shares
  <1>7. \A g, k \in Objects : OneWriter(g, k)'
    BY <1>2 DEF FileInv, OneWriter
  <1>8. \A q \in Procs, s \in Slots : Mine(q, s)'
    BY <1>2 DEF FileInv, Mine
  <1>9. \A e \in Files : Finished(e)'
    BY <1>1 DEF FileInv, Finished
  <1> QED
    BY <1>1, <1>3, <1>4, <1>5, <1>6, <1>7, <1>8, <1>9 DEF FileInv

-----------------------------------------------------------------------------
(* Who builds has all mapped that a call touches.                          *)
LEMMA BuildersDoNotFault ==
  ASSUME FileInv, BuildersAlone, NEW h \in Objects,
         \/ CreateRoot(h) \/ Insert(h) \/ Erase(h)
         \/ obj[h].phase = "building" /\ ShrinkClose(h)
  PROVE  UNCHANGED faulted
  BY BuildingFacts DEF CreateRoot, Insert, Erase, ShrinkClose

LEMMA NextSafe ==
  ASSUME FileInv, NoFault, CarefulCallers, [Next]_vars
  PROVE  FileInv' /\ NoFault'
  <1> USE DEF CarefulCallers, NoFault
  <1>1. CASE UNCHANGED vars
    BY <1>1 DEF vars, FileInv, Typed, InHand, HasMapping, Progress, Constructed,
       Promise, Apart, Shares, OneWriter, Finished, Mine
  <1>2. ASSUME NEW p \in Procs, Crash(p)
        PROVE  FileInv' /\ NoFault'
    BY <1>2, DeathSafe DEF Crash
  <1>3. ASSUME NEW h \in Objects, NEW f \in Files, NEW size \in SizesFor(h),
               Construct(h, f, size)
        PROVE  FileInv' /\ NoFault'
    BY <1>3, ConstructSafe DEF Construct
  <1>4. ASSUME NEW h \in Objects, OpenWrite(h) \/ MapForWrite(h) \/ LoadAgain(h)
        PROVE  FileInv' /\ NoFault'
    BY <1>4, OpenWriteSafe, MapForWriteSafe, LoadAgainSafe
    DEF OpenWrite, MapForWrite, LoadAgain
  <1>5. ASSUME NEW h \in Objects, OpenRead(h) \/ MapForRead(h)
        PROVE  FileInv' /\ NoFault'
    BY <1>5, OpenReadSafe, MapForReadSafe DEF OpenRead, MapForRead
  <1>6. ASSUME NEW h \in Objects, CreateRoot(h) \/ Insert(h) \/ Erase(h)
        PROVE  FileInv' /\ NoFault'
    BY <1>6, CreateRootSafe, InsertSafe, EraseSafe, BuildersDoNotFault
  <1>7. ASSUME NEW h \in Objects, ShrinkClose(h)
        PROVE  FileInv' /\ NoFault'
    <2>1. obj[h].phase = "building"
      BY <1>7 DEF ShrinkClose, MayShrink
    <2> QED
      BY <1>7, <2>1, ShrinkCloseSafe, BuildersDoNotFault
  <1>8. ASSUME NEW h \in Objects, ShrinkCut(h) \/ Destroy(h)
        PROVE  FileInv' /\ NoFault'
    BY <1>8, ShrinkCutSafe, DestroySafe DEF ShrinkCut, Destroy
  <1> QED
    BY <1>1, <1>2, <1>3, <1>4, <1>5, <1>6, <1>7, <1>8 DEF Next

(* With careful callers the invariant holds in every state, and no call    *)
(* touches memory that is not mapped as it is used.                        *)
THEOREM FilesStaySafe == CarefulCallers => (Spec => [](FileInv /\ NoFault))
  <1> SUFFICES ASSUME CarefulCallers
               PROVE  Spec => [](FileInv /\ NoFault)
    OBVIOUS
  <1>1. Init => FileInv /\ NoFault
    BY InitFiles DEF Init, NoFault
  <1>2. (FileInv /\ NoFault) /\ [Next]_vars => (FileInv /\ NoFault)'
    BY NextSafe
  <1> QED
    BY <1>1, <1>2, PTL DEF Spec

(* A promised reader sees all that was built, in a mapping of its own.     *)
THEOREM ReadersSeeTheImage == CarefulCallers => (Spec => []ReaderSeesImage)
  <1>1. FileInv => ReaderSeesImage
    <2> SUFFICES ASSUME FileInv, NEW h \in Objects,
                        obj[h].phase = "reading", obj[h].promised
                 PROVE  LET f == obj[h].path IN
                        /\ Maps(h, obj[h].buf, FALSE)
                        /\ file[f].image.root /\ file[f].image.items = built[f]
                        /\ used_space(file[f].image) <= file[f].size
                        /\ used_space(file[f].image) <= At(h)[obj[h].buf].size
      BY DEF ReaderSeesImage
    <2>1. InHand(h) /\ HasMapping(h) /\ Promise(h) /\ obj[h].path \in Files
      BY DEF FileInv, InHand
    <2>2. Finished(obj[h].path)
      BY <2>1 DEF FileInv
    <2> QED
      BY <2>1, <2>2 DEF HasMapping, Promise, Finished
  <1> QED
    BY <1>1, FilesStaySafe, PTL

(* No call of a careful caller touches memory that is not mapped.          *)
THEOREM NobodyFaults == CarefulCallers => (Spec => []NoFault)
  BY FilesStaySafe, PTL

(* A root to build from was constructed, where its allocator works.        *)
THEOREM RootsStayConstructed == CarefulCallers => (Spec => []RootsAreConstructed)
  <1>1. FileInv => RootsAreConstructed
    BY DEF FileInv, RootsAreConstructed, Progress, Constructed
  <1> QED
    BY <1>1, FilesStaySafe, PTL

(* What is mapped has an object that will unmap it.                        *)
THEOREM NothingMappedLeaks == CarefulCallers => (Spec => []NoMappingLeaks)
  <1>1. FileInv => NoMappingLeaks
    <2> SUFFICES ASSUME FileInv, NEW p \in Procs, NEW s \in Slots, map[p][s] # NULL
                 PROVE  \E h \in Objects : Owner[h] = p /\ obj[h].buf = s /\ Maps(h, s, FALSE)
      BY DEF NoMappingLeaks
    <2>1. PICK h \in Objects : Owner[h] = p /\ obj[h].buf = s /\ Attached(h)
      BY DEF FileInv, Mine
    <2> QED
      BY <2>1 DEF FileInv, HasMapping
  <1> QED
    BY <1>1, FilesStaySafe, PTL

(* The malloc_params of an image are there while it is built.              *)
THEOREM ParamsStayForCareful == CarefulCallers => (Spec => []ParamsStayMapped)
  <1>1. FileInv /\ BuildersAlone => ParamsStayMapped
    BY BuildingFacts DEF ParamsStayMapped
  <1>2. CarefulCallers => BuildersAlone
    BY DEF CarefulCallers
  <1> SUFFICES ASSUME CarefulCallers
               PROVE  Spec => []ParamsStayMapped
    OBVIOUS
  <1>3. FileInv => ParamsStayMapped
    BY <1>1, <1>2
  <1> QED
    BY <1>3, FilesStaySafe, PTL

=============================================================================
