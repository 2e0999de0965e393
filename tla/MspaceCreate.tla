---------------------------- MODULE MspaceCreate ----------------------------
(***************************************************************************)
(* How an mspace is laid out in a given memory: MMData::CreateAllocator    *)
(* (mmdata.cpp), create_mspace_with_base, init_user_mstate, init_top; and  *)
(* malloc_params, which lies at the beginning of that memory and to which  *)
(* pmparams of the process points (malloc.cpp).                            *)
(*                                                                         *)
(* Addresses and sizes are in bytes.  What init_user_mstate leaves is the  *)
(* initial state of Mspace.                                                *)
(***************************************************************************)
EXTENDS Integers

CONSTANTS
  Mems,           \* memories: files that are mapped, or buffers of a caller
  Base, MemSize,  \* the address and the size of each
  DirtyMems,      \* those that do not begin as zeros
  WORD,           \* bytes of a size_t: 4 or 8
  SizeofState,    \* sizeof(struct malloc_state)
  PageSize,       \* sysconf(_SC_PAGESIZE)
  SizeMax,        \* sizes are below
  OptValues,      \* values that mspace_mallopt is given
  NULL

ASSUME WordAssumption == WORD \in {4, 8}
ASSUME PageAssumption == PageSize \in Nat /\ PageSize > 0 /\ SizeMax \in Nat
ASSUME StateAssumption == SizeofState \in Nat /\ SizeofState >= 2 * WORD
ASSUME MemsAssumption ==
  /\ Base \in [Mems -> Nat] /\ MemSize \in [Mems -> Nat]
  /\ DirtyMems \subseteq Mems /\ NULL \notin Mems /\ OptValues \subseteq Nat

VARIABLES
  params,     \* params[m]: the malloc_params in memory m; params[NULL]: default_mparams
  pmparams,   \* where pmparams of the process points
  mstate,     \* mstate[m]: the malloc_state in m, or None
  accepted,   \* the memories for which CreateAllocator has returned 0
  settings    \* what was asked for with mallopt, or the defaults
vars == <<params, pmparams, mstate, accepted, settings>>

-----------------------------------------------------------------------------
MALLOC_ALIGNMENT == 8
ALLOCATOR_META_SIZE == 4096
RoundUp(n) == ((n + MALLOC_ALIGNMENT - 1) \div MALLOC_ALIGNMENT) * MALLOC_ALIGNMENT

(* struct malloc_params: five sizes, and flags that fill a word.           *)
SizeofParams == 6 * WORD

(* A struct malloc_chunk and a struct malloc_segment have four words.      *)
PadRequest(n) == RoundUp(n + WORD)
MIN_CHUNK == RoundUp(4 * WORD)
ToMem(p) == p + 2 * WORD
AlignOffset(a) == (MALLOC_ALIGNMENT - (a % MALLOC_ALIGNMENT)) % MALLOC_ALIGNMENT

(* A slip: only the last chunk is counted, not the segment record.         *)
TOP_FOOT_SIZE_ChunkOnly == MIN_CHUNK

(* The foot of a segment: the trailing chunk and room for a segment record.*)
TOP_FOOT_SIZE == AlignOffset(ToMem(0)) + PadRequest(4 * WORD) + MIN_CHUNK

(* A size in a head, without the flags in its low bits.                    *)
ChunkSize(head) == head - (head % MALLOC_ALIGNMENT)

-----------------------------------------------------------------------------
DEFAULT_TRIM_THRESHOLD == 2 * 1024 * 1024
NoParams == [magic |-> 0, page_size |-> 0, granularity |-> 0, trim_threshold |-> 0]
Defaults == [granularity |-> 65536, trim_threshold |-> DEFAULT_TRIM_THRESHOLD]
Garbage == [magic |-> 7, page_size |-> 7, granularity |-> 0, trim_threshold |-> 7]

(* init_mparams.  What is there is kept, if only it has a page_size.       *)
Initialized(pp) ==
  IF pp.page_size # 0 THEN pp
  ELSE [magic |-> IF pp.magic = 0 THEN 1 ELSE pp.magic,
        page_size |-> PageSize,
        granularity |-> Defaults.granularity,
        trim_threshold |-> Defaults.trim_threshold]

-----------------------------------------------------------------------------
(* The malloc_state that Meta refers to, the first top chunk, the segment; *)
(* Nothing when Meta refers to address 0.                                  *)
Nothing == [seg_base |-> 0, seg_size |-> 0, state |-> 0, top |-> 0, topsize |-> 0,
            head |-> 0, trim_check |-> 0]
Made(m) == mstate[m] # Nothing

MSize == PadRequest(SizeofState)

init_top(tbase, tsize, p, psize, pp) ==
  LET offset == AlignOffset(ToMem(p)) IN
  [seg_base |-> tbase, seg_size |-> tsize,
   state |-> ToMem(tbase + AlignOffset(ToMem(tbase))),
   top |-> p + offset, topsize |-> psize - offset,
   head |-> psize - offset, trim_check |-> pp.trim_threshold]

(* A slip: the foot is left to top.                                        *)
init_user_mstate_NoFoot(tbase, tsize, pp) ==
  LET mn == tbase + AlignOffset(ToMem(tbase)) + MSize
  IN  init_top(tbase, tsize, mn, tbase + tsize - mn, pp)

init_user_mstate(tbase, tsize, pp) ==
  LET msp == tbase + AlignOffset(ToMem(tbase))
      mn == msp + MSize
  IN  init_top(tbase, tsize, mn, tbase + tsize - mn - TOP_FOOT_SIZE, pp)

(* The second test is one of unsigned numbers.                             *)
Fits(capacity, pp) ==
  /\ capacity > MSize + TOP_FOOT_SIZE
  /\ capacity < (SizeMax - (MSize + TOP_FOOT_SIZE + pp.page_size)) % SizeMax

(* What lies behind Meta in memory m, and how much of it is offered.       *)
MspaceBuf(m) == Base[m] + ALLOCATOR_META_SIZE
allign_page(size) == size - (size % PageSize)
MetaSize(m) == allign_page(MemSize[m] - ALLOCATOR_META_SIZE)

create_mspace_with_base(m, recreate) ==
  LET first_init == recreate \/ params[m].magic = 0
      pp == IF first_init THEN Initialized(params[m]) ELSE params[m]
      base == MspaceBuf(m) + SizeofParams
  IN  /\ pmparams' = m
      /\ params' = [params EXCEPT ![m] = pp]
      /\ mstate' = [mstate EXCEPT ![m] =
           IF ~Fits(MetaSize(m), pp) THEN Nothing
           ELSE IF first_init THEN init_user_mstate(base, MetaSize(m), pp)
           ELSE @]

-----------------------------------------------------------------------------
Init ==
  /\ params = [m \in Mems \cup {NULL} |-> IF m \in DirtyMems THEN Garbage ELSE NoParams]
  /\ pmparams = NULL
  /\ mstate = [m \in Mems |-> Nothing]
  /\ accepted = {} /\ settings = Defaults

(* A slip: the size of the memory is not looked at.                        *)
TooSmall_Meta(m) == MemSize[m] < ALLOCATOR_META_SIZE

TooSmall(m) == MemSize[m] < ALLOCATOR_META_SIZE * 2

(* CreateAllocator does not look at what create_mspace_with_base answers.  *)
CreateAllocator(m) ==
  /\ ~TooSmall(m)
  /\ create_mspace_with_base(m, TRUE)
  /\ accepted' = accepted \cup {m}
  /\ UNCHANGED settings

(* A call without recreate, as the header offers it, finds the mspace that *)
(* is there.                                                               *)
Attach(m) ==
  /\ Made(m)
  /\ create_mspace_with_base(m, FALSE)
  /\ accepted' = accepted \cup {m}
  /\ UNCHANGED settings

IsPowerOf2(n) == \E i \in 0 .. 30 : n = 2 ^ i

(* A slip: the value of the granularity is not looked at.                  *)
mspace_mallopt_Unchecked(param, val) ==
  /\ params' = [params EXCEPT ![pmparams] = [Initialized(@) EXCEPT ![param] = val]]
  /\ settings' = [settings EXCEPT ![param] = val]
  /\ UNCHANGED <<pmparams, mstate, accepted>>

(* change_mparam, in whatever malloc_params pmparams points to; the        *)
(* threshold for mmap is left out, an mspace has no mmapped chunks.        *)
mspace_mallopt(param, val) ==
  LET pp == Initialized(params[pmparams]) IN
  IF param = "granularity" /\ (val < pp.page_size \/ ~(val = 0 \/ IsPowerOf2(val)))
    THEN /\ params' = [params EXCEPT ![pmparams] = pp]
         /\ UNCHANGED <<pmparams, mstate, accepted, settings>>
  ELSE /\ params' = [params EXCEPT ![pmparams] = [pp EXCEPT ![param] = val]]
       /\ settings' = [settings EXCEPT ![param] = val]
       /\ UNCHANGED <<pmparams, mstate, accepted>>

(* Another process maps the files.                                         *)
Restart ==
  /\ params' = [params EXCEPT ![NULL] = NoParams]
  /\ pmparams' = NULL /\ accepted' = {} /\ settings' = Defaults
  /\ UNCHANGED mstate

Next ==
  \/ \E m \in Mems : CreateAllocator(m) \/ Attach(m)
  \/ \E param \in {"trim_threshold", "granularity"}, val \in OptValues :
       mspace_mallopt(param, val)
  \/ Restart

Spec == Init /\ [][Next]_vars

-----------------------------------------------------------------------------
(* All that creation writes lies in the memory it was given, although the  *)
(* segment does not: malloc_params, malloc_state and top follow each other *)
(* behind Meta, and the head of the trailing chunk, which init_top writes  *)
(* behind top, ends before the memory does                                 *)
(* (create_mspace_with_base: base moves on, capacity stays).               *)
WrittenInMemory ==
  \A m \in Mems : Made(m) =>
    LET s == mstate[m] IN
    /\ MspaceBuf(m) + SizeofParams <= s.state - 2 * WORD
    /\ s.state + SizeofState <= ToMem(s.top)
    /\ s.topsize > 0
    /\ ToMem(s.top + s.topsize) <= Base[m] + MemSize[m]

(* The first top is what do_check_top_chunk asserts of one: aligned, of    *)
(* the size its head says, and the last of its segment ("assert(sz ==      *)
(* m->topsize)", malloc.cpp:2997).                                         *)
TopIsAChunk ==
  \A m \in Mems : Made(m) =>
    LET s == mstate[m] IN
    /\ ToMem(s.top) % MALLOC_ALIGNMENT = 0
    /\ ChunkSize(s.head) = s.topsize
    /\ s.topsize > 0
    /\ s.topsize = s.seg_base + s.seg_size - s.top - TOP_FOOT_SIZE

(* Memory that CreateAllocator accepts has an mspace ("Too small mem size  *)
(* to create allocator.", mmdata.cpp:55).                                  *)
AcceptedHasMspace == \A m \in accepted : Made(m)

(* While a process has an mspace, the parameters that its sys_trim divides *)
(* by are checked ones ("page size must all be powers of 2",               *)
(* malloc.cpp:2940).                                                       *)
ParamsAreSane ==
  accepted # {} =>
    LET pp == params[pmparams] IN
    IsPowerOf2(pp.page_size) /\ IsPowerOf2(pp.granularity)

(* What was set with mallopt holds for the process ("There is a single     *)
(* instance, mparams", malloc.cpp:2410).                                   *)
SettingsHold ==
  accepted # {} =>
    /\ params[pmparams].granularity = settings.granularity
    /\ params[pmparams].trim_threshold = settings.trim_threshold
=============================================================================
