------------------------------ MODULE Builder ------------------------------
(***************************************************************************)
(* DataImageBuilder::Build, mmdata_util.hpp, over the image files of       *)
(* MMFile: the steps of the object it makes are those of MMFile, in the    *)
(* order in which Build takes them, among those of the other objects.      *)
(***************************************************************************)
EXTENDS MMFile

CONSTANTS
  mfile,       \* the MMFileData of Build
  BufSizes,    \* sizes of memory that Build may be given in place of a file
  MaxLines     \* bound on the lines of a source file

ASSUME BuildAssumption ==
  /\ Builders = {mfile} /\ MaxLines \in Nat /\ MaxLines <= MaxItems
  /\ BufSizes \subseteq Nat

VARIABLES
  job,      \* where the thread is that builds
  buffer    \* the memory: its size and its image
bvars == <<file, map, obj, pmparams, built, faulted, job, buffer>>

(* at: before the source is opened; in LoadRootWriteObject; in the loop;   *)
(* in ShrinkToFit; before the destructors, after a return or a throw; and  *)
(* how it ended.  lines: those read; entries: those that were inserted.    *)
Where == {"idle", "load", "lines", "shrink", "return", "unwind",
          "returned", "threw", "died"}
Ended == {"returned", "threw", "died"}
Idle == [at |-> "idle", dst |-> "none", lines |-> 0, entries |-> 0, result |-> 0]

BInit ==
  /\ Init
  /\ job = Idle /\ buffer = [size |-> 0, image |-> NoImage]

Builder == Owner[mfile]
Goes(at) == job' = [job EXCEPT !.at = at]
FileKept == UNCHANGED vars

(* job follows, unless the step of the object was the last of its process. *)
Survives == job.dst = "file" => obj'[mfile] # NoObject
GoesOrDies(at) == IF Survives THEN Goes(at) ELSE Goes("died")

-----------------------------------------------------------------------------
(* A call of Build.  A source that does not open, or no destination: -1.   *)
Begin(dst) ==
  /\ job.at \in {"idle"} \cup Ended
  /\ job' = [Idle EXCEPT !.at = "load", !.dst = dst]

CallRefused ==
  /\ job.at \in {"idle"} \cup Ended
  /\ job' = [Idle EXCEPT !.at = "returned", !.result = -1]
  /\ FileKept /\ UNCHANGED buffer

CallForFile(f, size) == Begin("file") /\ Construct(mfile, f, size) /\ UNCHANGED buffer

CallForBuffer(size) ==
  /\ Begin("buffer") /\ buffer' = [size |-> size, image |-> NoImage]
  /\ FileKept

-----------------------------------------------------------------------------
(* LoadRootWriteObject; its answer is not looked at.                       *)
OpenFails == obj[mfile].phase = "new" /\ FileKept /\ Goes("lines")

LoadFile ==
  /\ job.at = "load" /\ job.dst = "file"
  /\ \/ OpenFails
     \/ OpenWrite(mfile) /\ UNCHANGED job
     \/ MapForWrite(mfile) /\ IF obj'[mfile].phase = "new" THEN Goes("lines") ELSE UNCHANGED job
     \/ CreateRoot(mfile) /\ GoesOrDies("lines")
  /\ UNCHANGED buffer

(* A slip: memory of any size will do.                                     *)
LoadBuffer_Unchecked ==
  /\ job.at = "load" /\ job.dst = "buffer"
  /\ buffer' = [buffer EXCEPT !.image.root = TRUE]
  /\ Goes("lines")
  /\ FileKept

LoadBuffer ==
  /\ job.at = "load" /\ job.dst = "buffer"
  /\ buffer' = [buffer EXCEPT !.image.root = ~TooSmall(buffer.size)]
  /\ Goes("lines")
  /\ FileKept

HasRoot ==
  IF job.dst = "file" THEN obj[mfile].phase = "building" ELSE buffer.image.root

-----------------------------------------------------------------------------
(* The loop over the lines of the source.                                  *)
InLoop == job.at = "lines"
ReadsLine == InLoop /\ job.lines < MaxLines

(* An empty line, or one that does not parse.                              *)
SkipLine ==
  /\ ReadsLine
  /\ job' = [job EXCEPT !.lines = @ + 1]
  /\ FileKept /\ UNCHANGED buffer

Inserted == job' = [job EXCEPT !.lines = @ + 1, !.entries = @ + 1]

InsertLine ==
  /\ ReadsLine /\ HasRoot
  /\ \/ job.dst = "file" /\ Insert(mfile) /\ UNCHANGED buffer
     \/ /\ job.dst = "buffer" /\ used_space(buffer.image) + 1 < buffer.size
        /\ buffer' = [buffer EXCEPT !.image.items = @ + 1]
        /\ FileKept
  /\ IF Survives THEN Inserted ELSE Goes("died")

(* table is NULL.                                                          *)
InsertThroughNull ==
  /\ ReadsLine /\ ~HasRoot
  /\ Fault(mfile) /\ Goes("died")
  /\ UNCHANGED buffer

(* A slip: bad_alloc is caught, and the source read again.                 *)
LineThrows_Retries ==
  /\ ReadsLine /\ HasRoot
  /\ job' = [job EXCEPT !.lines = 0, !.entries = 0]
  /\ FileKept /\ UNCHANGED buffer

(* bad_alloc, of the entry's strings or of Insert, leaves Build.           *)
LineThrows ==
  /\ ReadsLine /\ HasRoot
  /\ Goes("unwind")
  /\ FileKept /\ UNCHANGED buffer

-----------------------------------------------------------------------------
(* The end of the source.                                                  *)
Answers(result) == job' = [job EXCEPT !.at = "return", !.result = result]

EndOfFile ==
  /\ InLoop /\ job.dst = "file"
  /\ IF ShrinkRefuses(mfile) THEN FileKept /\ Answers(-1)
     ELSE ShrinkClose(mfile) /\ GoesOrDies("shrink")
  /\ UNCHANGED buffer

CutFile ==
  /\ job.at = "shrink"
  /\ ShrinkCut(mfile) /\ Answers(obj[mfile].len)
  /\ UNCHANGED buffer

(* used_space of an allocator without a space reads address 0.             *)
EndOfFileBuffer ==
  /\ InLoop /\ job.dst = "buffer"
  /\ IF HasRoot THEN FileKept /\ Answers(used_space(buffer.image))
     ELSE Fault(mfile) /\ Goes("died")
  /\ UNCHANGED buffer

(* The destructor of mfile, on return or when an exception passes.         *)
Unwound == Goes(IF job.at = "return" THEN "returned" ELSE "threw")

(* A slip: mfile is allocated with new, and an exception passes it by.     *)
Leave_NoUnwind ==
  /\ job.at \in {"return", "unwind"}
  /\ IF job.dst = "file" /\ job.at = "return" THEN Destroy(mfile) ELSE FileKept
  /\ Unwound
  /\ UNCHANGED buffer

Leave ==
  /\ job.at \in {"return", "unwind"}
  /\ IF job.dst = "file" THEN Destroy(mfile) ELSE FileKept
  /\ Unwound
  /\ UNCHANGED buffer

BuildStep ==
  \/ LoadFile \/ LoadBuffer
  \/ SkipLine \/ InsertLine \/ InsertThroughNull \/ LineThrows
  \/ EndOfFile \/ CutFile \/ EndOfFileBuffer \/ Leave

-----------------------------------------------------------------------------
Call ==
  \/ CallRefused
  \/ \E f \in Files, size \in FileSizes : CallForFile(f, size)
  \/ \E size \in BufSizes : CallForBuffer(size)

Readers ==
  \E h \in Objects \ {mfile} :
    /\ \/ \E f \in Files : Construct(h, f, -1)
       \/ OpenRead(h) \/ MapForRead(h) \/ Destroy(h)
    /\ UNCHANGED <<job, buffer>>

BuilderCrash ==
  /\ job.at \notin {"idle"} \cup Ended
  /\ Died(Builder) /\ Goes("died")
  /\ UNCHANGED <<file, built, faulted, buffer>>

ReaderCrash == \E p \in Procs \ {Builder} : Crash(p) /\ UNCHANGED <<job, buffer>>

BNext == Call \/ BuildStep \/ Readers \/ BuilderCrash \/ ReaderCrash

(* The thread that builds goes on; nobody else has to do anything.         *)
BSpec == BInit /\ [][BNext]_bvars /\ WF_bvars(BuildStep)

-----------------------------------------------------------------------------
(* A Build that answers with a size has left an image with a root and one  *)
(* item for every line that parsed, and the size is where it ends, at or   *)
(* before the end of the file (Build, ShrinkToFit).                        *)
AnsweredMeansBuilt ==
  job.at \in {"return", "returned"} /\ job.result # -1 =>
    IF job.dst = "buffer"
      THEN /\ buffer.image.root /\ buffer.image.items = job.entries
           /\ job.result = used_space(buffer.image) /\ job.result <= buffer.size
    ELSE \E f \in Files :
           /\ file[f].image.root /\ file[f].image.items = job.entries
           /\ job.result = used_space(file[f].image) /\ job.result <= file[f].size

(* What Build opened is closed when it has ended, however it ended: the    *)
(* process that builds maps nothing any more (the destructor of mfile).    *)
NothingStaysMapped ==
  job.at \in Ended => \A s \in Slots : map[Builder][s] = NULL

(* Build comes to an end, by a return, a throw or the end of its process.  *)
BuildEnds == (job.at \notin {"idle"} \cup Ended) ~> (job.at \in Ended)

(* Build says of an image that cannot be opened that it cannot, and does   *)
(* not work without one ("MMap File size too small or negative.",          *)
(* mmdata.hpp:184).                                                        *)
BuildNeverFaults == Builder \notin faulted
=============================================================================
