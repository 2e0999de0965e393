---------------------------- MODULE BuilderProofs ----------------------------
(***************************************************************************)
(* The safety of DataImageBuilder::Build, for any sources, files, memories *)
(* and readers, whatever it does about an image that does not open.        *)
(*                                                                         *)
(* FileInv of MMFileProofs holds here too, although Build heeds no NULL:   *)
(* what it then touches ends its process.  JobInv ties the place where the *)
(* thread stands to the phase of its MMFileData, and what it has inserted  *)
(* to the items of the image.                                              *)
(***************************************************************************)
EXTENDS Builder, MMFileProofs

USE ActorsAssumption, SizesAssumption, BuildAssumption
USE DEF Attached, Writes, Maps, At

(* The thread that builds has its process to itself.                       *)
OwnProcess == \A h \in Objects \ {mfile} : Owner[h] # Builder

(* The image holds what was inserted, and fits.                            *)
HoldsEntries(image, size) ==
  /\ image.root /\ image.items = job.entries /\ used_space(image) <= size

Job == [at : Where, dst : {"none", "file", "buffer"}, lines : Int,
        entries : Nat, result : Int]

JobTyped ==
  /\ job \in Job
  /\ buffer \in [size : Nat, image : Image]

(* Where the MMFileData is when the thread is somewhere.                   *)
Stands ==
  LET phase == obj[mfile].phase IN
  /\ job.at \in {"idle"} \cup Ended \/ job.dst # "file" => phase = "none"
  /\ job.dst = "file" =>
       /\ job.at = "load" => phase \in {"new", "resized", "mapped"}
       /\ job.at = "lines" => phase \in {"new", "building", "refused"}
       /\ job.at = "shrink" => phase = "closed"
       /\ job.at \in {"return", "unwind"} => phase # "none"
  /\ job.at = "shrink" => job.dst = "file"
  /\ job.at \notin {"idle"} \cup Ended => job.dst # "none"
  /\ job.at = "load" => job.entries = 0
  /\ phase \in {"none", "new", "resized", "mapped", "refused"} =>
       obj[mfile].space = NULL

FileSoFar ==
  LET f == obj[mfile].path IN
  job.dst = "file" /\ obj[mfile].phase \in {"building", "closed"} =>
    HoldsEntries(file[f].image, file[f].size)

BufferSoFar ==
  job.dst = "buffer" =>
    /\ job.at = "load" => buffer.image = NoImage
    /\ job.at = "lines" /\ buffer.image.root => HoldsEntries(buffer.image, buffer.size)

JobInv == JobTyped /\ Stands /\ FileSoFar /\ BufferSoFar

BInv == FileInv /\ JobInv /\ AnsweredMeansBuilt

USE DEF Ended

-----------------------------------------------------------------------------
LEMMA InBuild ==
  /\ mfile \in Objects /\ mfile \in Builders /\ Builder \in Procs
  /\ \A h \in Objects \ {mfile} : h \notin Builders
  BY DEF Builder

LEMMA BInitSafe == BInit => BInv
  <1> SUFFICES ASSUME BInit
               PROVE  BInv
    OBVIOUS
  <1>1. FileInv
    BY InitFiles DEF BInit
  <1>2. obj[mfile].phase = "none" /\ obj[mfile].space = NULL
    BY DEF BInit, Init, NoObject
  <1>3. job = Idle /\ buffer = [size |-> 0, image |-> NoImage]
    BY DEF BInit
  <1>4. job \in Job /\ job.at = "idle" /\ job.dst = "none" /\ job.entries = 0
    BY <1>3 DEF Job, Where, Idle
  <1>5. buffer \in [size : Nat, image : Image]
    BY <1>3 DEF NoImage, Image
  <1>6. JobInv
    BY <1>2, <1>4, <1>5 DEF JobInv, JobTyped, Stands, FileSoFar, BufferSoFar
  <1>7. AnsweredMeansBuilt
    BY <1>4 DEF AnsweredMeansBuilt
  <1> QED
    BY <1>1, <1>6, <1>7 DEF BInv

LEMMA KeptSafe ==
  ASSUME FileInv, FileKept
  PROVE  FileInv'
  BY DEF FileKept, vars, FileInv, Typed, InHand, HasMapping, Progress, Constructed,
     Promise, Apart, Shares, OneWriter, Finished, Mine

LEMMA Going ==
  ASSUME JobTyped, NEW at \in Where, Goes(at)
  PROVE  /\ job' \in Job /\ job'.at = at /\ job'.dst = job.dst
         /\ job'.entries = job.entries /\ job'.result = job.result
  BY DEF JobTyped, Job, Goes

(* What others do, the thread that builds does not notice.                 *)
LEMMA UnnoticedSafe ==
  ASSUME BInv, FileInv', obj'[mfile] = obj[mfile], UNCHANGED <<file, job, buffer>>
  PROVE  BInv'
  BY DEF BInv, JobInv, JobTyped, Stands, FileSoFar, BufferSoFar, HoldsEntries,
     AnsweredMeansBuilt

(* The process that builds ends.                                           *)
LEMMA DiesSafe ==
  ASSUME BInv, Died(Builder), Goes("died"), UNCHANGED <<file, built, buffer>>
  PROVE  BInv'
  <1>1. FileInv'
    BY DeathSafe DEF BInv, Builder
  <1>2. /\ job' \in Job /\ job'.at = "died" /\ job'.dst = job.dst
        /\ job'.entries = job.entries /\ job'.result = job.result
    BY Going DEF BInv, JobInv, Where
  <1>3. obj'[mfile].phase = "none" /\ obj'[mfile].space = NULL
    BY DEF Died, Builder, NoObject
  <1>4. JobInv'
    BY <1>2, <1>3 DEF BInv, JobInv, JobTyped, Stands, FileSoFar, BufferSoFar
  <1>5. AnsweredMeansBuilt'
    BY <1>2 DEF AnsweredMeansBuilt
  <1> QED
    BY <1>1, <1>4, <1>5 DEF BInv

-----------------------------------------------------------------------------
(* A job begins.                                                           *)
LEMMA IdleTyped == Idle \in Job
  BY DEF Idle, Job, Where

LEMMA Begins ==
  ASSUME NEW dst \in {"file", "buffer"}, Begin(dst)
  PROVE  job' \in Job /\ job'.at = "load" /\ job'.dst = dst /\ job'.entries = 0
  <1> Idle.entries = 0
    BY DEF Idle
  <1> HIDE DEF Idle
  <1> QED
    BY IdleTyped DEF Begin, Job, Where

LEMMA CallSafe ==
  ASSUME BInv, Call
  PROVE  BInv'
  <1>1. CASE CallRefused
    <2>1. job' = [Idle EXCEPT !.at = "returned", !.result = -1]
      BY <1>1 DEF CallRefused
    <2>2. job'.at = "returned" /\ job'.result = -1 /\ job'.dst = "none" /\ job' \in Job
      <3> Idle.entries = 0 /\ Idle.dst = "none"
        BY DEF Idle
      <3> HIDE DEF Idle
      <3>1. -1 \in Int
        OBVIOUS
      <3>2. job'.at = "returned" /\ job'.result = -1 /\ job'.dst = "none"
        BY <2>1, IdleTyped DEF Job
      <3> QED
        BY <2>1, <3>1, <3>2, IdleTyped DEF Job, Where
    <2>3. obj[mfile].phase = "none" /\ UNCHANGED <<obj, buffer>> /\ FileInv'
      BY <1>1, KeptSafe DEF CallRefused, FileKept, vars, BInv, JobInv, Stands
    <2> QED
      BY <2>2, <2>3 DEF BInv, JobInv, JobTyped, Stands, FileSoFar, BufferSoFar,
         AnsweredMeansBuilt
  <1>2. ASSUME NEW f \in Files, NEW size \in FileSizes, CallForFile(f, size)
        PROVE  BInv'
    <2>2. job'.at = "load" /\ job'.entries = 0 /\ job'.dst = "file" /\ job' \in Job
      BY <1>2, Begins DEF CallForFile
    <2>3. Construct(mfile, f, size) /\ FileInv' /\ buffer' = buffer
      BY <1>2, ConstructSafe DEF CallForFile, BInv, SizesFor
    <2>4. obj'[mfile].phase = "new" /\ obj[mfile].phase = "none"
          /\ obj'[mfile].space = obj[mfile].space
      BY <2>3 DEF Construct, BInv, FileInv, Typed, Object
    <2> QED
      BY <2>2, <2>3, <2>4 DEF BInv, JobInv, JobTyped, Stands, FileSoFar,
         BufferSoFar, AnsweredMeansBuilt
  <1>3. ASSUME NEW size \in BufSizes, CallForBuffer(size)
        PROVE  BInv'
    <2>2. job'.at = "load" /\ job'.entries = 0 /\ job'.dst = "buffer" /\ job' \in Job
      BY <1>3, Begins DEF CallForBuffer
    <2>3. buffer' = [size |-> size, image |-> NoImage]
      BY <1>3 DEF CallForBuffer
    <2>4. buffer'.image = NoImage /\ buffer' \in [size : Nat, image : Image]
      BY <2>3 DEF NoImage, Image
    <2>5. obj[mfile].phase = "none" /\ obj' = obj /\ FileInv'
      BY <1>3, KeptSafe
      DEF CallForBuffer, Begin, FileKept, vars, BInv, JobInv, Stands
    <2> QED
      BY <2>2, <2>4, <2>5 DEF BInv, JobInv, JobTyped, Stands, FileSoFar,
         BufferSoFar, AnsweredMeansBuilt
  <1> QED
    BY <1>1, <1>2, <1>3 DEF Call

(* Of what LoadRootWriteObject does, only the root that it makes counts.   *)
LEMMA LoadFileSafe ==
  ASSUME BInv, BuildersAlone, LoadFile
  PROVE  BInv'
  <1> DEFINE phase == obj[mfile].phase
  <1>1. /\ job.at = "load" /\ job.dst = "file" /\ job.entries = 0 /\ job \in Job
        /\ phase \in {"new", "resized", "mapped"} /\ buffer' = buffer
        /\ obj[mfile] \in Object /\ JobTyped /\ FileInv /\ buffer \in [size : Nat, image : Image]
    BY DEF LoadFile, BInv, JobInv, JobTyped, Stands, FileInv, Typed
  <1>2. CASE OpenFails
    <2>1. job'.at = "lines" /\ job'.dst = "file" /\ job'.entries = 0 /\ job' \in Job
      BY <1>1, <1>2, Going DEF OpenFails, Where
    <2>2. obj' = obj /\ phase = "new" /\ FileInv'
      BY <1>1, <1>2, KeptSafe DEF OpenFails, FileKept, vars
    <2> QED
      BY <1>1, <2>1, <2>2 DEF BInv, JobInv, JobTyped, Stands, FileSoFar, BufferSoFar,
         AnsweredMeansBuilt
  <1>3. CASE OpenWrite(mfile) /\ UNCHANGED job
    <2>1. obj'[mfile].phase = "resized" /\ FileInv'
          /\ obj'[mfile].space = obj[mfile].space
      BY <1>1, <1>3, OpenWriteSafe DEF OpenWrite, FileInv, Typed, Object
    <2> QED
      BY <1>1, <1>3, <2>1 DEF BInv, JobInv, JobTyped, Stands, FileSoFar, BufferSoFar,
         AnsweredMeansBuilt
  <1>4. CASE MapForWrite(mfile) /\ IF obj'[mfile].phase = "new" THEN Goes("lines") ELSE UNCHANGED job
    <2>1. obj'[mfile].phase \in {"new", "mapped"} /\ FileInv'
          /\ obj'[mfile].space = obj[mfile].space
      <3>1. FileInv'
        BY <1>1, <1>4, MapForWriteSafe
      <3>2. CASE \E s \in Slots : obj' = [obj EXCEPT ![mfile].phase = "mapped",
                   ![mfile].buf = s, ![mfile].size = obj[mfile].file_size,
                   ![mfile].readonly = FALSE]
        BY <1>1, <3>1, <3>2 DEF FileInv, Typed, Object
      <3>3. CASE obj' = [obj EXCEPT ![mfile].phase = "new"]
        BY <1>1, <3>1, <3>3 DEF FileInv, Typed, Object
      <3> QED
        BY <1>4, <3>1, <3>2, <3>3 DEF MapForWrite
    <2>2. /\ job'.dst = "file" /\ job'.entries = 0 /\ job' \in Job
          /\ IF obj'[mfile].phase = "new" THEN job'.at = "lines" ELSE job'.at = "load"
      BY <1>1, <1>4, Going DEF Where
    <2> QED
      BY <1>1, <2>1, <2>2 DEF BInv, JobInv, JobTyped, Stands, FileSoFar, BufferSoFar,
         AnsweredMeansBuilt
  <1>5. CASE CreateRoot(mfile) /\ GoesOrDies("lines")
    <2> DEFINE f == obj[mfile].path
               size == obj[mfile].size
    <2>1. /\ phase = "mapped" /\ f \in Files /\ Maps(mfile, obj[mfile].buf, TRUE)
          /\ file[f].size = size /\ size \in Int
      BY <1>1, <1>5, BuildingFacts DEF CreateRoot
    <2>2. /\ FileInv' /\ obj'[mfile].path = f
          /\ IF TooSmall(size)
               THEN obj'[mfile].phase = "refused" /\ obj'[mfile].space = obj[mfile].space
             ELSE /\ obj'[mfile].phase = "building"
                  /\ file'[f].image = NewImage /\ file'[f].size = size
      <3>1. FileInv'
        BY <1>1, <1>5, CreateRootSafe
      <3>2. CASE TooSmall(size)
        BY <1>1, <1>5, <3>1, <3>2 DEF CreateRoot, FileInv, Typed, Object
      <3>3. CASE ~TooSmall(size)
        <4>1. /\ file' = [file EXCEPT ![f].image = NewImage]
              /\ obj' = [obj EXCEPT ![mfile].phase = "building",
                                    ![mfile].space = obj[mfile].buf]
          BY <1>5, <2>1, <3>3 DEF CreateRoot
        <4> QED
          BY <1>1, <2>1, <3>1, <3>3, <4>1 DEF FileInv, Typed, Object
      <3> QED
        BY <3>2, <3>3
    <2>3. ~TooSmall(size) => NewImage.root /\ NewImage.items = 0 /\ used_space(NewImage) <= size
      BY <2>1 DEF TooSmall, used_space, NewImage, ALLOCATOR_META_SIZE
    <2>4. obj'[mfile] # NoObject
      BY <2>2 DEF NoObject
    <2>5. job'.at = "lines" /\ job'.dst = "file" /\ job'.entries = 0 /\ job' \in Job
      BY <1>1, <1>5, <2>4, Going DEF Where, GoesOrDies, Survives
    <2> QED
      BY <1>1, <2>2, <2>3, <2>5 DEF BInv, JobInv, JobTyped, Stands, FileSoFar,
         BufferSoFar, HoldsEntries, AnsweredMeansBuilt
  <1> QED
    BY <1>2, <1>3, <1>4, <1>5 DEF LoadFile

LEMMA LoadBufferSafe ==
  ASSUME BInv, LoadBuffer
  PROVE  BInv'
  <1>1. /\ job.dst = "buffer" /\ job.entries = 0 /\ JobTyped /\ buffer.image = NoImage
        /\ obj' = obj /\ obj[mfile].phase = "none" /\ FileInv'
    BY KeptSafe DEF LoadBuffer, BInv, JobInv, BufferSoFar, Stands, FileKept, vars
  <1>2. job'.at = "lines" /\ job'.dst = "buffer" /\ job'.entries = 0 /\ job' \in Job
    BY <1>1, Going DEF LoadBuffer, Where
  <1>3. /\ buffer'.size = buffer.size /\ buffer'.image.items = 0
        /\ buffer'.image.root => ~TooSmall(buffer.size)
        /\ buffer' \in [size : Nat, image : Image]
    <2> DEFINE fits == ~TooSmall(buffer.size)
    <2>1. buffer' = [buffer EXCEPT !.image.root = fits] /\ fits \in BOOLEAN
      BY DEF LoadBuffer
    <2> HIDE DEF fits
    <2>2. buffer'.image.root = fits
      BY <1>1, <2>1 DEF JobTyped, Image
    <2>3. /\ buffer'.size = buffer.size /\ buffer'.image.items = 0
          /\ buffer' \in [size : Nat, image : Image]
      <3>1. buffer.image.items = 0
        BY <1>1 DEF NoImage
      <3>2. [buffer.image EXCEPT !.root = fits] \in Image
        BY <1>1, <2>1 DEF JobTyped, Image
      <3> QED
        BY <1>1, <2>1, <3>1, <3>2 DEF JobTyped, Image
    <2> QED
      BY <2>2, <2>3 DEF fits
  <1>4. buffer'.image.root => used_space(buffer'.image) <= buffer'.size
    BY <1>1, <1>3 DEF TooSmall, used_space, ALLOCATOR_META_SIZE, JobTyped
  <1> QED
    BY <1>1, <1>2, <1>3, <1>4 DEF BInv, JobInv, JobTyped, Stands, FileSoFar,
       BufferSoFar, HoldsEntries, AnsweredMeansBuilt

-----------------------------------------------------------------------------
LEMMA SkipLineSafe ==
  ASSUME BInv, SkipLine
  PROVE  BInv'
  <1>1. /\ job.at = "lines" /\ job'.at = job.at /\ job'.dst = job.dst
        /\ job'.entries = job.entries /\ job'.result = job.result /\ job' \in Job
    BY DEF SkipLine, ReadsLine, InLoop, BInv, JobInv, JobTyped, Job
  <1>2. UNCHANGED <<file, obj, buffer>> /\ FileInv'
    BY KeptSafe DEF SkipLine, FileKept, vars, BInv
  <1> QED
    BY <1>1, <1>2 DEF BInv, JobInv, JobTyped, Stands, FileSoFar, BufferSoFar,
       HoldsEntries, AnsweredMeansBuilt

(* One line, one entry, one item.                                          *)
LEMMA InsertLineSafe ==
  ASSUME BInv, BuildersAlone, InsertLine
  PROVE  BInv'
  <1>1. /\ job.at = "lines" /\ HasRoot /\ JobTyped /\ FileInv
        /\ job.dst \in {"file", "buffer"}
    BY DEF InsertLine, ReadsLine, InLoop, BInv, JobInv, JobTyped, Job, Stands
  <1>2. ASSUME Inserted
        PROVE  /\ job'.at = "lines" /\ job'.dst = job.dst /\ job' \in Job
               /\ job'.entries = job.entries + 1
    <2>1. job \in Job /\ job.lines + 1 \in Int /\ job.entries + 1 \in Nat
      BY <1>1 DEF JobTyped, Job
    <2> QED
      BY <1>1, <1>2, <2>1 DEF Inserted, Job
  <1>3. CASE job.dst = "file"
    <2> DEFINE f == obj[mfile].path
               im == file[f].image
    <2>1. /\ Insert(mfile) /\ buffer' = buffer /\ obj[mfile].phase = "building"
          /\ f \in Files /\ Maps(mfile, obj[mfile].buf, TRUE)
          /\ file[f].size = obj[mfile].size
      BY <1>1, <1>3, InBuild, BuildingFacts DEF InsertLine, HasRoot
    <2>2. /\ used_space(im) + 1 < obj[mfile].size
          /\ file' = [file EXCEPT ![f].image.items = @ + 1] /\ obj' = obj
      BY <2>1 DEF Insert
    <2>3. /\ file[f] \in [size : Int, image : Image] /\ im.items \in Nat
          /\ HoldsEntries(im, file[f].size)
      BY <1>1, <1>3, <2>1 DEF BInv, JobInv, FileSoFar, FileInv, Typed, Image
    <2>4. /\ file'[f].size = file[f].size /\ file'[f].image.root
          /\ file'[f].image.items = job.entries + 1
      <3> DEFINE made == [file[f] EXCEPT !.image.items = @ + 1]
      <3>1. /\ made.size = file[f].size /\ made.image.root
            /\ made.image.items = im.items + 1
        BY <2>3 DEF Image, HoldsEntries
      <3>2. file'[f] = made
        BY <1>1, <2>1, <2>2, <2>3 DEF FileInv, Typed
      <3> HIDE DEF made
      <3> QED
        BY <2>3, <3>1, <3>2 DEF HoldsEntries
    <2>5. used_space(file'[f].image) <= file'[f].size
      BY <1>1, <2>1, <2>2, <2>3, <2>4
      DEF used_space, ALLOCATOR_META_SIZE, HoldsEntries, JobTyped, Job
    <2>6. Inserted /\ FileInv'
      BY <1>1, <2>1, <2>2, InBuild, InsertSafe DEF InsertLine, Survives, NoObject
    <2> QED
      BY <1>1, <1>2, <1>3, <2>1, <2>2, <2>4, <2>5, <2>6
      DEF BInv, JobInv, JobTyped, Stands, FileSoFar, BufferSoFar, HoldsEntries,
          AnsweredMeansBuilt
  <1>4. CASE job.dst = "buffer"
    <2>1. /\ used_space(buffer.image) + 1 < buffer.size /\ FileKept /\ Inserted
          /\ buffer' = [buffer EXCEPT !.image.items = @ + 1]
      BY <1>4 DEF InsertLine, Survives
    <2>2. HoldsEntries(buffer.image, buffer.size)
      BY <1>1, <1>4 DEF BInv, JobInv, BufferSoFar, HasRoot
    <2>3. /\ buffer'.size = buffer.size /\ buffer'.image.root
          /\ buffer'.image.items = job.entries + 1
          /\ buffer' \in [size : Nat, image : Image]
      BY <1>1, <2>1, <2>2 DEF JobTyped, Image, HoldsEntries
    <2>4. used_space(buffer'.image) <= buffer'.size
      BY <1>1, <2>1, <2>2, <2>3
      DEF used_space, ALLOCATOR_META_SIZE, HoldsEntries, JobTyped, Job
    <2>5. UNCHANGED <<file, obj>> /\ FileInv'
      BY <1>1, <2>1, KeptSafe DEF FileKept, vars
    <2> QED
      BY <1>1, <1>2, <1>4, <2>1, <2>3, <2>4, <2>5
      DEF BInv, JobInv, JobTyped, Stands, FileSoFar, BufferSoFar, HoldsEntries,
          AnsweredMeansBuilt
  <1> QED
    BY <1>1, <1>3, <1>4

(* An exception leaves what was inserted, and gives no answer.             *)
LEMMA LineThrowsSafe ==
  ASSUME BInv, LineThrows
  PROVE  BInv'
  <1>1. /\ job.at = "lines" /\ HasRoot /\ JobTyped /\ job.dst \in {"file", "buffer"}
    BY DEF LineThrows, ReadsLine, InLoop, BInv, JobInv, JobTyped, Job, Stands
  <1>2. /\ job' \in Job /\ job'.at = "unwind" /\ job'.dst = job.dst
        /\ job'.entries = job.entries
    BY <1>1, Going DEF LineThrows, Where
  <1>3. UNCHANGED <<file, obj, buffer>> /\ FileInv'
    BY KeptSafe DEF LineThrows, FileKept, vars, BInv
  <1> QED
    BY <1>1, <1>2, <1>3 DEF BInv, JobInv, JobTyped, Stands, FileSoFar, BufferSoFar,
       HoldsEntries, HasRoot, AnsweredMeansBuilt

LEMMA FaultSafe ==
  ASSUME BInv, Fault(mfile), Goes("died"), UNCHANGED buffer
  PROVE  BInv'
  BY DiesSafe DEF Fault, Builder

-----------------------------------------------------------------------------
LEMMA Answering ==
  ASSUME JobTyped, NEW result \in Int, Answers(result)
  PROVE  /\ job' \in Job /\ job'.at = "return" /\ job'.dst = job.dst
         /\ job'.entries = job.entries /\ job'.result = result
  BY DEF JobTyped, Job, Where, Answers

LEMMA EndOfFileSafe ==
  ASSUME BInv, BuildersAlone, EndOfFile
  PROVE  BInv'
  <1>1. /\ job.at = "lines" /\ job.dst = "file" /\ JobTyped /\ FileInv
        /\ buffer' = buffer /\ obj[mfile].phase \in {"new", "building", "refused"}
    BY DEF EndOfFile, InLoop, BInv, JobInv, Stands
  <1>2. CASE ShrinkRefuses(mfile)
    <2>1. Answers(-1) /\ UNCHANGED <<file, obj>> /\ FileInv' /\ -1 \in Int
      BY <1>1, <1>2, KeptSafe DEF EndOfFile, FileKept, vars
    <2>2. /\ job' \in Job /\ job'.at = "return" /\ job'.dst = "file"
          /\ job'.entries = job.entries /\ job'.result = -1
      BY <1>1, <2>1, Answering
    <2>3. AnsweredMeansBuilt'
      BY <2>2 DEF AnsweredMeansBuilt
    <2> QED
      BY <1>1, <2>1, <2>2, <2>3 DEF BInv, JobInv, JobTyped, Stands, FileSoFar,
         BufferSoFar, HoldsEntries
  <1>3. CASE ~ShrinkRefuses(mfile) /\ obj[mfile].phase = "building"
    <2>1. ShrinkClose(mfile) /\ GoesOrDies("shrink") /\ FileInv'
      BY <1>1, <1>3, InBuild, ShrinkCloseSafe DEF EndOfFile
    <2>2. /\ file' = file /\ obj[mfile] \in Object
          /\ obj' = [obj EXCEPT ![mfile].phase = "closed",
                       ![mfile].len = used_space(file[obj[mfile].path].image)]
      BY <1>1, <1>3, <2>1, InBuild, BuildingFacts DEF ShrinkClose, FileInv, Typed
    <2>3. obj'[mfile].phase = "closed" /\ obj'[mfile].path = obj[mfile].path
      BY <1>1, <2>2, InBuild DEF FileInv, Typed, Object
    <2>4. /\ job' \in Job /\ job'.at = "shrink" /\ job'.dst = "file"
          /\ job'.entries = job.entries
      <3>1. Survives
        BY <2>3 DEF Survives, NoObject
      <3> QED
        BY <1>1, <2>1, <3>1, Going DEF GoesOrDies, Where
    <2> QED
      BY <1>1, <1>3, <2>1, <2>2, <2>3, <2>4
      DEF BInv, JobInv, JobTyped, Stands, FileSoFar, BufferSoFar, HoldsEntries,
          AnsweredMeansBuilt
  <1>4. CASE ~ShrinkRefuses(mfile) /\ obj[mfile].phase = "refused"
    <2>1. obj[mfile].space = NULL
      BY <1>4 DEF BInv, JobInv, Stands
    <2>2. Fault(mfile) /\ GoesOrDies("shrink")
      BY <1>4, <2>1 DEF EndOfFile, ShrinkClose
    <2>3. obj'[mfile] = NoObject
      BY <2>2, InBuild DEF Fault, Died
    <2> QED
      BY <1>1, <2>2, <2>3, FaultSafe DEF GoesOrDies, Survives
  <1>5. obj[mfile].phase = "new" => ShrinkRefuses(mfile)
    BY <1>1, InBuild DEF FileInv, InHand, ShrinkRefuses
  <1> QED
    BY <1>1, <1>2, <1>3, <1>4, <1>5

(* The file is cut where the image ends: nothing of it goes.               *)
LEMMA CutFileSafe ==
  ASSUME BInv, BuildersAlone, CutFile
  PROVE  BInv'
  <1> DEFINE f == obj[mfile].path
             len == obj[mfile].len
  <1>1. /\ job.at = "shrink" /\ job.dst = "file" /\ JobTyped /\ FileInv
        /\ buffer' = buffer /\ obj[mfile].phase = "closed"
        /\ ShrinkCut(mfile) /\ Answers(len) /\ len \in Int
    BY InBuild DEF CutFile, BInv, JobInv, Stands, FileInv, Typed, Object
  <1>2. /\ f \in Files /\ HoldsEntries(file[f].image, file[f].size)
        /\ len = used_space(file[f].image)
    BY <1>1, InBuild DEF BInv, JobInv, FileSoFar, FileInv, InHand, Progress
  <1>3. FileInv' /\ obj'[mfile].phase = "shrunk"
    <2>1. obj' = [obj EXCEPT ![mfile].phase = "shrunk"] /\ obj \in [Objects -> Object]
      BY <1>1 DEF ShrinkCut, FileInv, Typed
    <2> QED
      BY <1>1, <2>1, InBuild, ShrinkCutSafe DEF Object
  <1>4. file'[f].image = file[f].image /\ len <= file'[f].size
    <2>1. CASE file' = file
      BY <1>2, <2>1 DEF HoldsEntries
    <2>2. CASE file' = [file EXCEPT ![f] = Resized(@, CutAt(len))]
      BY <1>1, <1>2, <2>2 DEF FileInv, Typed, Resized, CutAt
    <2> QED
      BY <1>1, <2>1, <2>2 DEF ShrinkCut
  <1>5. /\ job' \in Job /\ job'.at = "return" /\ job'.dst = "file"
        /\ job'.entries = job.entries /\ job'.result = len
    BY <1>1, Answering
  <1>6. AnsweredMeansBuilt'
    BY <1>2, <1>4, <1>5 DEF AnsweredMeansBuilt, HoldsEntries
  <1> QED
    BY <1>1, <1>3, <1>5, <1>6 DEF BInv, JobInv, JobTyped, Stands, FileSoFar, BufferSoFar

LEMMA EndOfFileBufferSafe ==
  ASSUME BInv, EndOfFileBuffer
  PROVE  BInv'
  <1> DEFINE used == used_space(buffer.image)
  <1>1. /\ job.at = "lines" /\ job.dst = "buffer" /\ JobTyped /\ FileInv
        /\ buffer' = buffer
    BY DEF EndOfFileBuffer, InLoop, BInv, JobInv
  <1>2. CASE HasRoot
    <2>1. Answers(used) /\ UNCHANGED <<file, obj>> /\ FileInv'
      BY <1>1, <1>2, KeptSafe DEF EndOfFileBuffer, FileKept, vars
    <2>2. HoldsEntries(buffer.image, buffer.size) /\ used \in Int
      BY <1>1, <1>2 DEF HasRoot, BInv, JobInv, BufferSoFar, JobTyped, Image,
         used_space, ALLOCATOR_META_SIZE
    <2>3. /\ job' \in Job /\ job'.at = "return" /\ job'.dst = "buffer"
          /\ job'.entries = job.entries /\ job'.result = used
      BY <1>1, <2>1, <2>2, Answering
    <2> QED
      BY <1>1, <2>1, <2>2, <2>3 DEF BInv, JobInv, JobTyped, Stands, FileSoFar,
         BufferSoFar, HoldsEntries, AnsweredMeansBuilt
  <1>3. CASE ~HasRoot
    BY <1>1, <1>3, FaultSafe DEF EndOfFileBuffer
  <1> QED
    BY <1>2, <1>3

LEMMA LeaveSafe ==
  ASSUME BInv, BuildersAlone, Leave
  PROVE  BInv'
  <1>1. /\ job.at \in {"return", "unwind"} /\ JobTyped /\ FileInv
        /\ buffer' = buffer /\ Unwound
    BY DEF Leave, BInv, JobInv
  <1>2. /\ job' \in Job /\ job'.dst = job.dst /\ job'.entries = job.entries
        /\ job'.result = job.result
        /\ job'.at = IF job.at = "return" THEN "returned" ELSE "threw"
    BY <1>1, Going DEF Unwound, Where
  <1>3. /\ FileInv' /\ file' = file /\ obj'[mfile].phase = "none"
        /\ obj'[mfile].space = NULL
    <2>1. CASE job.dst = "file"
      <3>1. Destroy(mfile) /\ FileInv'
        BY <1>1, <2>1, InBuild, DestroySafe DEF Leave
      <3>2. file' = file /\ obj'[mfile] = NoObject
        BY <1>1, <3>1, InBuild DEF Destroy, FileInv, Typed
      <3> QED
        BY <3>1, <3>2 DEF NoObject
    <2>2. CASE job.dst # "file"
      <3>1. UNCHANGED <<file, obj>> /\ FileInv'
        BY <1>1, <2>2, KeptSafe DEF Leave, FileKept, vars
      <3> QED
        BY <2>2, <3>1 DEF BInv, JobInv, Stands
    <2> QED
      BY <2>1, <2>2
  <1> QED
    BY <1>1, <1>2, <1>3 DEF BInv, JobInv, JobTyped, Stands, FileSoFar, BufferSoFar,
       HoldsEntries, AnsweredMeansBuilt

-----------------------------------------------------------------------------
LEMMA OthersSafe ==
  ASSUME BInv, BuildersAlone, Readers \/ ReaderCrash
  PROVE  BInv'
  <1>1. ASSUME NEW h \in Objects \ {mfile}, NEW f \in Files, Construct(h, f, -1),
               UNCHANGED <<job, buffer>>
        PROVE  BInv'
    <2>1. -1 \in SizesFor(h)
      BY InBuild DEF SizesFor
    <2>2. FileInv'
      BY <1>1, <2>1, ConstructSafe DEF BInv
    <2>3. obj'[mfile] = obj[mfile] /\ file' = file
      BY <1>1, InBuild DEF Construct, BInv, FileInv, Typed
    <2> QED
      BY <1>1, <2>2, <2>3, UnnoticedSafe
  <1>2. ASSUME NEW h \in Objects \ {mfile}, OpenRead(h) \/ MapForRead(h) \/ Destroy(h),
               UNCHANGED <<job, buffer>>
        PROVE  BInv'
    <2>1. FileInv'
      BY <1>2, OpenReadSafe, MapForReadSafe, DestroySafe DEF BInv
    <2>2. obj'[mfile] = obj[mfile] /\ file' = file
      BY <1>2, InBuild DEF OpenRead, MapForRead, Destroy, BInv, FileInv, Typed
    <2> QED
      BY <1>2, <2>1, <2>2, UnnoticedSafe
  <1>3. ASSUME NEW p \in Procs \ {Builder}, Crash(p), UNCHANGED <<job, buffer>>
        PROVE  BInv'
    <2>1. FileInv'
      BY <1>3, DeathSafe DEF Crash, BInv
    <2>2. obj'[mfile] = obj[mfile] /\ file' = file
      BY <1>3, InBuild DEF Crash, Died, Builder
    <2> QED
      BY <1>3, <2>1, <2>2, UnnoticedSafe
  <1> QED
    BY <1>1, <1>2, <1>3 DEF Readers, ReaderCrash

LEMMA BNextSafe ==
  ASSUME BInv, BuildersAlone, [BNext]_bvars
  PROVE  BInv'
  <1>1. CASE UNCHANGED bvars
    <2>1. FileInv' /\ UNCHANGED <<file, obj, job, buffer>>
      BY <1>1, KeptSafe DEF bvars, vars, FileKept, BInv
    <2> QED
      BY <2>1, UnnoticedSafe
  <1>2. CASE LoadFile \/ LoadBuffer
    BY <1>2, LoadFileSafe, LoadBufferSafe
  <1>3. CASE SkipLine \/ InsertLine \/ LineThrows
    BY <1>3, SkipLineSafe, InsertLineSafe, LineThrowsSafe
  <1>4. CASE InsertThroughNull
    BY <1>4, FaultSafe DEF InsertThroughNull
  <1>5. CASE EndOfFile \/ CutFile \/ EndOfFileBuffer \/ Leave
    BY <1>5, EndOfFileSafe, CutFileSafe, EndOfFileBufferSafe, LeaveSafe
  <1>6. CASE BuilderCrash
    BY <1>6, DiesSafe DEF BuilderCrash
  <1> QED
    BY <1>1, <1>2, <1>3, <1>4, <1>5, <1>6, CallSafe, OthersSafe DEF BNext, BuildStep

LEMMA BuildsStaySafe == BuildersAlone => (BSpec => []BInv)
  <1> SUFFICES ASSUME BuildersAlone
               PROVE  BSpec => []BInv
    OBVIOUS
  <1>1. BInv /\ [BNext]_bvars => BInv'
    BY BNextSafe
  <1> QED
    BY <1>1, BInitSafe, PTL DEF BSpec

(* A size that Build answers is that of an image with every entry in it,   *)
(* and the file holds all of it, whoever reads or dies meanwhile.          *)
THEOREM AnswersAreBuilt == BuildersAlone => (BSpec => []AnsweredMeansBuilt)
  <1>1. BInv => AnsweredMeansBuilt
    BY DEF BInv
  <1> QED
    BY <1>1, BuildsStaySafe, PTL

(* However Build ends, its process has nothing of it mapped any more.      *)
THEOREM EndedMeansUnmapped ==
  BuildersAlone /\ OwnProcess => (BSpec => []NothingStaysMapped)
  <1> SUFFICES ASSUME BuildersAlone, OwnProcess
               PROVE  BSpec => []NothingStaysMapped
    OBVIOUS
  <1>1. BInv => NothingStaysMapped
    <2> SUFFICES ASSUME BInv, job.at \in Ended, NEW s \in Slots, map[Builder][s] # NULL
                 PROVE  FALSE
      BY DEF NothingStaysMapped
    <2>1. PICK h \in Objects : Owner[h] = Builder /\ Attached(h)
      BY InBuild DEF BInv, FileInv, Mine
    <2>2. h = mfile
      BY <2>1 DEF OwnProcess
    <2> QED
      BY <2>1, <2>2 DEF BInv, JobInv, Stands
  <1> QED
    BY <1>1, BuildsStaySafe, PTL

=============================================================================
