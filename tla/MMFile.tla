------------------------------- MODULE MMFile -------------------------------
(***************************************************************************)
(* Image files and the MMFileData objects of the processes that map them:  *)
(* mmap.cpp, mmdata.cpp, and LoadRootWriteObject and LoadRootReadObject of *)
(* mmdata.hpp.  A call is cut into steps where another process can see or  *)
(* change the file in between, and a process may die before every step.    *)
(*                                                                         *)
(* The heap of an image is reduced to what a file has to hold of it: a     *)
(* root, items, and where top begins (TruncationKeepsHeld of MspaceProps   *)
(* says that nothing in use lies above).  Sizes are in units of            *)
(* ALLOCATOR_META_SIZE, an item takes one.                                 *)
(***************************************************************************)
EXTENDS Integers, FiniteSets

CONSTANTS
  Procs,         \* processes, each with an address space
  Objects,       \* MMFileData objects
  Owner,         \* Owner[h]: the process of h
  Builders,      \* the objects that may be used to build an image
  Overlapping,   \* the processes that may have two objects at a time
  Files,
  FileSizes,     \* what the constructor may be given
  Slots,         \* places in an address space; mappings in two never overlap
  NULL,
  MaxItems,      \* bound on the items of an image
  TrimAbove,     \* DEFAULT_TRIM_THRESHOLD: a top above it is trimmed, once
  Careful        \* callers heed a NULL root, and shrink once

ASSUME ActorsAssumption ==
  /\ Owner \in [Objects -> Procs] /\ Builders \subseteq Objects
  /\ Overlapping \subseteq Procs
  /\ NULL \notin Slots \cup [file : Files, size : Int, writable : BOOLEAN]
ASSUME SizesAssumption ==
  /\ FileSizes \subseteq Int /\ MaxItems \in Nat /\ TrimAbove \in Nat
  /\ Careful \in BOOLEAN

VARIABLES
  file,       \* file[f]: its size, 0 if it is not there, and its image
  map,        \* map[p][s]: what process p has mapped at s, or NULL
  obj,        \* obj[h]: the fields of h, and how far its caller has come
  pmparams,   \* pmparams[p]: the image whose malloc_params p uses
  built,      \* built[f]: the items that a finished build left, or NotBuilt
  faulted     \* processes that touched memory which is not theirs
vars == <<file, map, obj, pmparams, built, faulted>>

NotBuilt == -1
ALLOCATOR_META_SIZE == 1

(* trimmed: trim_check has been set to MAX_SIZE_T.                         *)
NoImage == [root |-> FALSE, items |-> 0, trimmed |-> FALSE]
NewImage == [root |-> TRUE, items |-> 0, trimmed |-> FALSE]

(* Allocator::used_space: Meta, the malloc_state, and what lies below top. *)
used_space(image) == 2 * ALLOCATOR_META_SIZE + image.items

(* phase: the caller of h has in hand nothing; a "new" object; one in the *)
(* middle of a call ("resized", "mapped", "closed", "statted"); a root to  *)
(* build from ("building") or to read ("reading"); an object whose load    *)
(* was "refused", or that was "shrunk".                                    *)
(* len: the size that a call in progress has in a local variable.          *)
(* promised: no build of the file has begun since h found it built.        *)
NoObject == [phase |-> "none", path |-> NULL, file_size |-> 0, buf |-> NULL,
             size |-> 0, readonly |-> FALSE, space |-> NULL, len |-> 0,
             promised |-> FALSE]

At(h) == map[Owner[h]]
Maps(h, s, writable) ==
  /\ s # NULL /\ At(h)[s] # NULL
  /\ At(h)[s].file = obj[h].path /\ (writable => At(h)[s].writable)

(* The page of the malloc_params that h reads is mapped.                   *)
ParamsMapped(p) == pmparams[p] = NULL \/ map[p][pmparams[p]] # NULL

Init ==
  /\ file = [f \in Files |-> [size |-> 0, image |-> NoImage]]
  /\ map = [p \in Procs |-> [s \in Slots |-> NULL]]
  /\ obj = [h \in Objects |-> NoObject]
  /\ pmparams = [p \in Procs |-> NULL]
  /\ built = [f \in Files |-> NotBuilt]
  /\ faulted = {}

-----------------------------------------------------------------------------
(* The end of a process: its mappings and objects go, its files stay.      *)
Died(p) ==
  /\ map' = [map EXCEPT ![p] = [s \in Slots |-> NULL]]
  /\ obj' = [h \in Objects |-> IF Owner[h] = p THEN NoObject ELSE obj[h]]
  /\ pmparams' = [pmparams EXCEPT ![p] = NULL]

Crash(p) ==
  /\ \E h \in Objects : Owner[h] = p /\ obj[h].phase # "none"
  /\ Died(p)
  /\ UNCHANGED <<file, built, faulted>>

Fault(h) ==
  /\ Died(Owner[h])
  /\ faulted' = faulted \cup {Owner[h]}
  /\ UNCHANGED <<file, built>>

(* ftruncate and truncate: what is cut off does not come back.             *)
Resized(fl, size) ==
  [size |-> size, image |-> IF used_space(fl.image) <= size THEN fl.image ELSE NoImage]

(* munmap of all that lies at s, whoever mapped it.                        *)
Unmap(p, s) == IF s = NULL THEN map ELSE [map EXCEPT ![p][s] = NULL]

-----------------------------------------------------------------------------
(* Construction; who only reads leaves out the size.                       *)
SizesFor(h) == IF h \in Builders THEN FileSizes ELSE {-1}

Construct(h, f, size) ==
  /\ obj[h].phase = "none"
  /\ Owner[h] \notin Overlapping =>
       \A g \in Objects \ {h} : Owner[g] = Owner[h] => obj[g].phase = "none"
  /\ obj' = [obj EXCEPT ![h].phase = "new", ![h].path = f, ![h].file_size = size]
  /\ UNCHANGED <<file, map, pmparams, built, faulted>>

-----------------------------------------------------------------------------
(* LoadRootWriteObject.  Callers build a file in one place at a time; who  *)
(* reads what is being built still builds.                                 *)
Writes(h) ==
  \/ obj[h].phase \in {"resized", "mapped", "building", "closed"}
  \/ obj[h].phase = "reading" /\ ~obj[h].readonly
BuiltElsewhere(h) ==
  \E g \in Objects \ {h} : obj[g].path = obj[h].path /\ Writes(g)

(* MMapBuf::Init opens the file and gives it the size that is wanted.      *)
OpenWrite(h) ==
  LET f == obj[h].path IN
  /\ obj[h].phase = "new" /\ h \in Builders /\ ~BuiltElsewhere(h)
  /\ obj[h].file_size > 0
  /\ file' = [file EXCEPT ![f] = Resized(@, obj[h].file_size)]
  /\ built' = [built EXCEPT ![f] = NotBuilt]
  /\ obj' = [g \in Objects |->
               IF g = h THEN [obj[g] EXCEPT !.phase = "resized", !.promised = FALSE]
               ELSE IF obj[g].path = f THEN [obj[g] EXCEPT !.promised = FALSE]
               ELSE obj[g]]
  /\ UNCHANGED <<map, pmparams, faulted>>

Mapped(h, s, size, writable) ==
  [map EXCEPT ![Owner[h]][s] = [file |-> obj[h].path, size |-> size,
                                writable |-> writable]]

(* ... and maps it, anywhere; or mmap fails, and the object is as before.  *)
MapForWrite(h) ==
  /\ obj[h].phase = "resized"
  /\ \/ \E s \in Slots :
          /\ At(h)[s] = NULL
          /\ map' = Mapped(h, s, obj[h].file_size, TRUE)
          /\ obj' = [obj EXCEPT ![h].phase = "mapped", ![h].buf = s,
                                ![h].size = obj[h].file_size, ![h].readonly = FALSE]
     \/ /\ obj' = [obj EXCEPT ![h].phase = "new"]
        /\ UNCHANGED map
  /\ UNCHANGED <<file, pmparams, built, faulted>>

TooSmall(memsize) == memsize < ALLOCATOR_META_SIZE * 2

(* A slip: the root is handed out whatever CreateAllocator says.           *)
CreateRoot_Unchecked(h) ==
  LET f == obj[h].path IN
  /\ obj[h].phase = "mapped"
  /\ IF TooSmall(obj[h].size)
       THEN /\ obj' = [obj EXCEPT ![h].phase = "building"]
            /\ UNCHANGED <<file, map, pmparams, built, faulted>>
     ELSE /\ file' = [file EXCEPT ![f].image = NewImage]
          /\ pmparams' = [pmparams EXCEPT ![Owner[h]] = obj[h].buf]
          /\ obj' = [obj EXCEPT ![h].phase = "building", ![h].space = obj[h].buf]
          /\ UNCHANGED <<map, built, faulted>>

(* CreateAllocator and the root, or NULL if the memory is too small.       *)
CreateRoot(h) ==
  /\ obj[h].phase = "mapped"
  /\ IF TooSmall(obj[h].size)
       THEN /\ obj' = [obj EXCEPT ![h].phase = "refused"]
            /\ UNCHANGED <<file, map, pmparams, built, faulted>>
     ELSE IF ~Maps(h, obj[h].buf, TRUE) THEN Fault(h)
     ELSE /\ file' = [file EXCEPT ![obj[h].path].image = NewImage]
          /\ pmparams' = [pmparams EXCEPT ![Owner[h]] = obj[h].buf]
          /\ obj' = [obj EXCEPT ![h].phase = "building", ![h].space = obj[h].buf]
          /\ UNCHANGED <<map, built, faulted>>

(* A file that is mapped already is not opened again: who builds reads in  *)
(* between, and goes on.                                                   *)
LoadAgain(h) ==
  /\ obj[h].buf # NULL
  /\ Careful => obj[h].phase \in {"building", "reading"} /\ ~obj[h].readonly
  /\ \/ /\ obj[h].phase \in {"refused", "shrunk", "reading"} /\ h \in Builders
        /\ ~BuiltElsewhere(h)
        /\ obj' = [obj EXCEPT ![h].phase = "building"]
     \/ /\ obj[h].phase \in {"refused", "shrunk", "building"}
        /\ obj' = [obj EXCEPT ![h].phase = "reading"]
  /\ UNCHANGED <<file, map, pmparams, built, faulted>>

-----------------------------------------------------------------------------
(* LoadRootReadObject.  An empty file is refused; the size that is mapped  *)
(* is the one that fstat saw.                                              *)
OpenRead(h) ==
  LET f == obj[h].path IN
  /\ obj[h].phase = "new" /\ file[f].size > 0
  /\ obj' = [obj EXCEPT ![h].phase = "statted", ![h].len = file[f].size,
                        ![h].promised = built[f] # NotBuilt]
  /\ UNCHANGED <<file, map, pmparams, built, faulted>>

MapForRead(h) ==
  /\ obj[h].phase = "statted"
  /\ \/ \E s \in Slots :
          /\ At(h)[s] = NULL
          /\ map' = Mapped(h, s, obj[h].len, FALSE)
          /\ obj' = [obj EXCEPT ![h].phase = "reading", ![h].buf = s,
                                ![h].size = obj[h].len, ![h].readonly = TRUE]
     \/ /\ obj' = [obj EXCEPT ![h].phase = "new"]
        /\ UNCHANGED map
  /\ UNCHANGED <<file, pmparams, built, faulted>>

-----------------------------------------------------------------------------
(* The caller builds.  Only a top of more than nothing serves a request;   *)
(* otherwise bad_alloc leaves the image as it was.                         *)
Insert(h) ==
  LET im == file[obj[h].path].image IN
  /\ obj[h].phase = "building"
  /\ IF ~Maps(h, obj[h].buf, TRUE) THEN Fault(h)
     ELSE /\ im.items < MaxItems /\ used_space(im) + 1 < obj[h].size
          /\ file' = [file EXCEPT ![obj[h].path].image.items = @ + 1]
          /\ UNCHANGED <<map, obj, pmparams, built, faulted>>

(* Memory freed into a large top makes sys_trim read the granularity; the  *)
(* segment is extern, nothing is released, and trim_check is latched.      *)
Erase(h) ==
  LET im == file[obj[h].path].image
      trims == obj[h].size - used_space(im) + 1 > TrimAbove /\ ~im.trimmed
  IN  /\ obj[h].phase = "building"
      /\ IF ~Maps(h, obj[h].buf, TRUE) \/ (trims /\ ~ParamsMapped(Owner[h]))
           THEN Fault(h)
         ELSE /\ im.items > 0
              /\ file' = [file EXCEPT ![obj[h].path].image =
                            [root |-> im.root, items |-> im.items - 1,
                             trimmed |-> im.trimmed \/ trims]]
              /\ UNCHANGED <<map, obj, pmparams, built, faulted>>

-----------------------------------------------------------------------------
(* ShrinkToFit.                                                            *)
ShrinkRefuses(h) == obj[h].readonly \/ obj[h].buf = NULL

MayShrink(h) ==
  \/ obj[h].phase = "building"
  \/ ~Careful /\ obj[h].phase \in {"new", "refused", "shrunk", "reading"}

(* A slip: the file is unmapped before used_space is asked for.            *)
ShrinkClose_First(h) == MayShrink(h) /\ ~ShrinkRefuses(h) /\ Fault(h)

(* used_space is asked for through the allocator; then the file is         *)
(* unmapped, at an address that stays in buf.                              *)
ShrinkClose(h) ==
  /\ MayShrink(h) /\ ~ShrinkRefuses(h)
  /\ IF ~Maps(h, obj[h].space, FALSE) THEN Fault(h)
     ELSE /\ map' = Unmap(Owner[h], obj[h].buf)
          /\ obj' = [obj EXCEPT ![h].phase = "closed",
                                ![h].len = used_space(file[obj[h].path].image)]
          /\ UNCHANGED <<file, pmparams, built, faulted>>

(* A slip: the file is cut where mspace_used would.                        *)
CutAt_Used(used) == used - 1

CutAt(used) == used

(* ... and cut; when truncate fails nobody looks, and the file stays large.*)
ShrinkCut(h) ==
  LET f == obj[h].path IN
  /\ obj[h].phase = "closed"
  /\ file' \in {file, [file EXCEPT ![f] = Resized(@, CutAt(obj[h].len))]}
  /\ built' = [built EXCEPT ![f] = file[f].image.items]
  /\ obj' = [obj EXCEPT ![h].phase = "shrunk"]
  /\ UNCHANGED <<map, pmparams, faulted>>

(* A slip: atuoclose is not looked at.                                     *)
Destroy_NoClose(h) ==
  /\ obj[h].phase \in {"new", "building", "refused", "shrunk", "reading"}
  /\ obj' = [obj EXCEPT ![h] = NoObject]
  /\ UNCHANGED <<file, map, pmparams, built, faulted>>

(* The destructor of MMapBuf closes, whether or not that was done before.  *)
Destroy(h) ==
  /\ obj[h].phase \in {"new", "building", "refused", "shrunk", "reading"}
  /\ map' = Unmap(Owner[h], obj[h].buf)
  /\ obj' = [obj EXCEPT ![h] = NoObject]
  /\ UNCHANGED <<file, pmparams, built, faulted>>

-----------------------------------------------------------------------------
Next ==
  \/ \E h \in Objects :
       \/ \E f \in Files, size \in SizesFor(h) : Construct(h, f, size)
       \/ OpenWrite(h) \/ MapForWrite(h) \/ CreateRoot(h) \/ LoadAgain(h)
       \/ OpenRead(h) \/ MapForRead(h)
       \/ Insert(h) \/ Erase(h)
       \/ ShrinkClose(h) \/ ShrinkCut(h) \/ Destroy(h)
  \/ \E p \in Procs : Crash(p)

Spec == Init /\ [][Next]_vars

-----------------------------------------------------------------------------
(* Who opens a file after it was shrunk sees all that was built, for as    *)
(* long as nobody builds it anew: root and items are within the file and   *)
(* within what is mapped, and the mapping is its own and stays             *)
(* (ShrinkToFit, LoadRootReadObject, the destructors of other objects).    *)
ReaderSeesImage ==
  \A h \in Objects :
    obj[h].phase = "reading" /\ obj[h].promised =>
      LET f == obj[h].path IN
      /\ Maps(h, obj[h].buf, FALSE)
      /\ file[f].image.root /\ file[f].image.items = built[f]
      /\ used_space(file[f].image) <= file[f].size
      /\ used_space(file[f].image) <= At(h)[obj[h].buf].size

(* No call touches memory that is not mapped, or mapped for reading only:  *)
(* not the image, not the allocator's, not the malloc_params.              *)
NoFault == faulted = {}

(* A root that a caller gets to build from was constructed, and the        *)
(* allocator works in the memory it lies in (LoadRootWriteObject: NULL     *)
(* when CreateAllocator refuses).                                          *)
RootsAreConstructed ==
  \A h \in Objects :
    obj[h].phase = "building" =>
      file[obj[h].path].image.root /\ obj[h].space = obj[h].buf

(* A process maps nothing but what its objects have to unmap               *)
(* (MMapBuf: autoclose).                                                   *)
NoMappingLeaks ==
  \A p \in Procs, s \in Slots :
    map[p][s] # NULL =>
      \E h \in Objects : Owner[h] = p /\ obj[h].buf = s /\ Maps(h, s, FALSE)

(* The malloc_params are there for every image that is being built         *)
(* ("There is a single instance, mparams", malloc.cpp:2410).               *)
ParamsStayMapped ==
  \A h \in Objects : obj[h].phase = "building" => ParamsMapped(Owner[h])

(* ShrinkToFit refuses an object that has nothing mapped ("MMFileData is   *)
(* not opened.", mmdata.cpp:81).                                           *)
ShrinkNeedsOpen ==
  \A h \in Objects :
    obj[h].phase \in {"new", "refused", "shrunk"} /\ ~ShrinkRefuses(h) =>
      Maps(h, obj[h].buf, FALSE)
=============================================================================
