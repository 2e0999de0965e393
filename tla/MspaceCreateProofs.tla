------------------------- MODULE MspaceCreateProofs -------------------------
(***************************************************************************)
(* Where create_mspace_with_base lays an mspace out, for memories of any   *)
(* size at any addresses that are aligned, any size of malloc_state and    *)
(* either word size.                                                       *)
(*                                                                         *)
(* The segment is longer than what is left of the memory by SizeofParams;  *)
(* Laid says where everything comes to lie, and Foot that TOP_FOOT_SIZE    *)
(* makes up for it.                                                        *)
(***************************************************************************)
EXTENDS MspaceCreate, TLAPS

USE WordAssumption, PageAssumption, StateAssumption, MemsAssumption
USE DEF MALLOC_ALIGNMENT, ALLOCATOR_META_SIZE

AlignedBases == \A m \in Mems : Base[m] % MALLOC_ALIGNMENT = 0

(* The base of the segment: create_mspace_with_base has moved it on.       *)
SegBase(m) == MspaceBuf(m) + SizeofParams

Laid(m, s) ==
  /\ MetaSize(m) > MSize + TOP_FOOT_SIZE
  /\ s.seg_base = SegBase(m) /\ s.seg_size = MetaSize(m)
  /\ s.state = ToMem(SegBase(m))
  /\ s.top = SegBase(m) + MSize
  /\ s.topsize = MetaSize(m) - MSize - TOP_FOOT_SIZE
  /\ s.head = s.topsize

IInv ==
  /\ mstate = [m \in Mems |-> mstate[m]]
  /\ \A m \in Mems : Made(m) => Laid(m, mstate[m])

-----------------------------------------------------------------------------
(* The foot is as large as malloc_params and the words of a head together, *)
(* and a word more.                                                        *)
LEMMA Foot ==
  /\ SizeofParams \in Nat /\ SizeofParams % MALLOC_ALIGNMENT = 0
  /\ TOP_FOOT_SIZE >= SizeofParams + 3 * WORD
  /\ TOP_FOOT_SIZE % MALLOC_ALIGNMENT = 0
  /\ TOP_FOOT_SIZE \in Nat
  BY DEF TOP_FOOT_SIZE, AlignOffset, ToMem, PadRequest, MIN_CHUNK, RoundUp, SizeofParams

(* The malloc_state has a chunk of its own, of a rounded size.             *)
LEMMA StateChunk ==
  /\ MSize \in Nat /\ MSize % MALLOC_ALIGNMENT = 0
  /\ MSize >= SizeofState + WORD
  BY DEF MSize, PadRequest, RoundUp

(* Nothing is added to an address that is aligned.                         *)
LEMMA AlignedStays ==
  ASSUME NEW a \in Int, a % MALLOC_ALIGNMENT = 0
  PROVE  AlignOffset(ToMem(a)) = 0
  BY DEF AlignOffset, ToMem

(* What is offered to the mspace lies in the memory.                       *)
LEMMA Offered ==
  ASSUME NEW m \in Mems
  PROVE  MetaSize(m) \in Int /\ MetaSize(m) <= MemSize[m] - ALLOCATOR_META_SIZE
  BY DEF MetaSize, allign_page

LEMMA SegBaseAligned ==
  ASSUME NEW m \in Mems, AlignedBases
  PROVE  /\ SegBase(m) \in Nat /\ SegBase(m) % MALLOC_ALIGNMENT = 0
         /\ SegBase(m) = Base[m] + ALLOCATOR_META_SIZE + SizeofParams
  BY Foot DEF SegBase, MspaceBuf, AlignedBases

(* The pages of a memory are a multiple of the alignment if a page is.     *)
LEMMA PagesAligned ==
  ASSUME NEW m \in Mems, PageSize % MALLOC_ALIGNMENT = 0
  PROVE  MetaSize(m) % MALLOC_ALIGNMENT = 0
  <1> DEFINE size == MemSize[m] - ALLOCATOR_META_SIZE
             q == size \div PageSize
             k == PageSize \div MALLOC_ALIGNMENT
  <1>1. size \in Int /\ q \in Int /\ k \in Int /\ PageSize = MALLOC_ALIGNMENT * k
    OBVIOUS
  <1>2. size - (size % PageSize) = PageSize * q
    OBVIOUS
  <1>3. \A n \in Int : (MALLOC_ALIGNMENT * n) % MALLOC_ALIGNMENT = 0
    OBVIOUS
  <1>4. PageSize * q = MALLOC_ALIGNMENT * (k * q) /\ k * q \in Int
    BY <1>1
  <1> QED
    BY <1>2, <1>3, <1>4 DEF MetaSize, allign_page

(* What init_user_mstate makes of a memory that fits.                      *)
LEMMA Fresh ==
  ASSUME NEW m \in Mems, AlignedBases, NEW pp, Fits(MetaSize(m), pp)
  PROVE  Laid(m, init_user_mstate(SegBase(m), MetaSize(m), pp))
  <1>1. MetaSize(m) > MSize + TOP_FOOT_SIZE
    BY DEF Fits
  <1>2. AlignOffset(ToMem(SegBase(m))) = 0
    BY SegBaseAligned, AlignedStays
  <1>3. /\ SegBase(m) + MSize \in Int
        /\ (SegBase(m) + MSize) % MALLOC_ALIGNMENT = 0
    BY SegBaseAligned, StateChunk
  <1>4. AlignOffset(ToMem(SegBase(m) + MSize)) = 0
    BY <1>3, AlignedStays
  <1>5. /\ SegBase(m) \in Int /\ MSize \in Int /\ TOP_FOOT_SIZE \in Int
        /\ MetaSize(m) \in Int
    BY SegBaseAligned, StateChunk, Foot, Offered
  <1>6. SegBase(m) + 0 = SegBase(m)
    BY <1>5
  <1>7. init_user_mstate(SegBase(m), MetaSize(m), pp) =
          init_top(SegBase(m), MetaSize(m), SegBase(m) + MSize,
                   SegBase(m) + MetaSize(m) - (SegBase(m) + MSize) - TOP_FOOT_SIZE, pp)
    BY <1>2, <1>6 DEF init_user_mstate
  <1>8. SegBase(m) + MetaSize(m) - (SegBase(m) + MSize) - TOP_FOOT_SIZE - 0
          = MetaSize(m) - MSize - TOP_FOOT_SIZE
    BY <1>5
  <1> QED
    BY <1>1, <1>2, <1>3, <1>4, <1>5, <1>6, <1>7, <1>8 DEF Laid, init_top

-----------------------------------------------------------------------------
LEMMA InitLaid == Init => IInv
  BY DEF Init, IInv, Made

LEMMA CreateLaid ==
  ASSUME AlignedBases, IInv, NEW m \in Mems, NEW recreate \in BOOLEAN,
         create_mspace_with_base(m, recreate)
  PROVE  IInv'
  <1> DEFINE first_init == recreate \/ params[m].magic = 0
             pp == IF first_init THEN Initialized(params[m]) ELSE params[m]
             new == IF ~Fits(MetaSize(m), pp) THEN Nothing
                    ELSE IF first_init
                      THEN init_user_mstate(SegBase(m), MetaSize(m), pp)
                      ELSE mstate[m]
  <1>1. mstate' = [mstate EXCEPT ![m] = new]
    BY DEF create_mspace_with_base, SegBase
  <1>2. new # Nothing => Laid(m, new)
    <2>1. CASE ~Fits(MetaSize(m), pp)
      BY <2>1
    <2>2. CASE Fits(MetaSize(m), pp) /\ first_init
      BY <2>2, Fresh
    <2>3. CASE Fits(MetaSize(m), pp) /\ ~first_init
      BY <2>3 DEF IInv, Made
    <2> QED
      BY <2>1, <2>2, <2>3
  <1> HIDE DEF new
  <1>3. mstate = [n \in Mems |-> mstate[n]]
    BY DEF IInv
  <1>4. /\ mstate' = [n \in Mems |-> IF n = m THEN new ELSE mstate[n]]
        /\ mstate'[m] = new /\ \A n \in Mems \ {m} : mstate'[n] = mstate[n]
    BY <1>1, <1>3
  <1>5. mstate' = [n \in Mems |-> mstate'[n]]
    BY <1>4
  <1>6. \A n \in Mems : mstate'[n] # Nothing => Laid(n, mstate'[n])
    BY <1>2, <1>4 DEF IInv, Made
  <1> QED
    BY <1>5, <1>6 DEF IInv, Made

LEMMA StepLaid ==
  ASSUME AlignedBases, IInv, [Next]_vars
  PROVE  IInv'
  <1>1. ASSUME NEW m \in Mems, CreateAllocator(m)  PROVE IInv'
    BY <1>1, CreateLaid DEF CreateAllocator
  <1>2. ASSUME NEW m \in Mems, Attach(m)  PROVE IInv'
    BY <1>2, CreateLaid DEF Attach
  <1>3. ASSUME UNCHANGED mstate  PROVE IInv'
    BY <1>3 DEF IInv, Made
  <1>4. ASSUME NEW param, NEW val, mspace_mallopt(param, val)  PROVE UNCHANGED mstate
    BY <1>4 DEF mspace_mallopt
  <1>5. Restart => UNCHANGED mstate
    BY DEF Restart
  <1>6. UNCHANGED vars => UNCHANGED mstate
    BY DEF vars
  <1> QED
    BY <1>1, <1>2, <1>3, <1>4, <1>5, <1>6 DEF Next

(* Where the parts of an mspace lie, in every behavior.                    *)
LEMMA AlwaysLaid == ASSUME AlignedBases PROVE Spec => []IInv
  BY InitLaid, StepLaid, PTL DEF Spec

(* Creation writes only in the memory it was given, if that is aligned:    *)
(* the segment ends SizeofParams behind it, the last head that is written  *)
(* does not.                                                               *)
THEOREM CreationStaysInMemory ==
  ASSUME AlignedBases PROVE Spec => []WrittenInMemory
  <1>1. IInv => WrittenInMemory
    <2> SUFFICES ASSUME IInv, NEW m \in Mems, Made(m)
                 PROVE  /\ MspaceBuf(m) + SizeofParams <= mstate[m].state - 2 * WORD
                        /\ mstate[m].state + SizeofState <= ToMem(mstate[m].top)
                        /\ mstate[m].topsize > 0
                        /\ ToMem(mstate[m].top + mstate[m].topsize) <= Base[m] + MemSize[m]
      BY DEF WrittenInMemory
    <2>1. Laid(m, mstate[m])
      BY DEF IInv
    <2>2. /\ SegBase(m) \in Nat /\ MSize \in Nat /\ TOP_FOOT_SIZE \in Nat
          /\ MetaSize(m) \in Int /\ Base[m] \in Nat /\ MemSize[m] \in Nat
          /\ SizeofParams \in Nat
      BY SegBaseAligned, StateChunk, Foot, Offered
    <2>3. mstate[m].state - 2 * WORD = MspaceBuf(m) + SizeofParams
      BY <2>1, <2>2 DEF Laid, ToMem, SegBase
    <2>4. mstate[m].state + SizeofState <= ToMem(mstate[m].top)
      BY <2>1, <2>2, StateChunk DEF Laid, ToMem
    <2>5. mstate[m].topsize > 0
      BY <2>1, <2>2 DEF Laid
    <2>6. ToMem(mstate[m].top + mstate[m].topsize)
            = SegBase(m) + MetaSize(m) - TOP_FOOT_SIZE + 2 * WORD
      BY <2>1, <2>2 DEF Laid, ToMem
    <2>7. TOP_FOOT_SIZE >= SizeofParams + 2 * WORD
      BY Foot, <2>2
    <2>8. ToMem(mstate[m].top + mstate[m].topsize) <= Base[m] + MemSize[m]
      BY <2>2, <2>6, <2>7, SegBaseAligned, Offered
    <2> QED
      BY <2>2, <2>3, <2>4, <2>5, <2>8 DEF SegBase
  <1> QED
    BY <1>1, AlwaysLaid, PTL

(* The first top passes the assertions of do_check_top_chunk, if memory    *)
(* and pages are aligned.                                                  *)
THEOREM FirstTopIsAChunk ==
  ASSUME AlignedBases, PageSize % MALLOC_ALIGNMENT = 0
  PROVE  Spec => []TopIsAChunk
  <1>1. IInv => TopIsAChunk
    <2> SUFFICES ASSUME IInv, NEW m \in Mems, Made(m)
                 PROVE  /\ ToMem(mstate[m].top) % MALLOC_ALIGNMENT = 0
                        /\ ChunkSize(mstate[m].head) = mstate[m].topsize
                        /\ mstate[m].topsize > 0
                        /\ mstate[m].topsize = mstate[m].seg_base + mstate[m].seg_size
                                                 - mstate[m].top - TOP_FOOT_SIZE
      BY DEF TopIsAChunk
    <2>1. Laid(m, mstate[m])
      BY DEF IInv
    <2>2. /\ SegBase(m) \in Nat /\ SegBase(m) % MALLOC_ALIGNMENT = 0
          /\ MSize \in Nat /\ MSize % MALLOC_ALIGNMENT = 0
          /\ TOP_FOOT_SIZE \in Nat /\ TOP_FOOT_SIZE % MALLOC_ALIGNMENT = 0
          /\ MetaSize(m) \in Int /\ MetaSize(m) % MALLOC_ALIGNMENT = 0
      BY SegBaseAligned, StateChunk, Foot, Offered, PagesAligned
    <2>3. ToMem(mstate[m].top) % MALLOC_ALIGNMENT = 0
      BY <2>1, <2>2 DEF Laid, ToMem
    <2>4. /\ mstate[m].topsize = MetaSize(m) - MSize - TOP_FOOT_SIZE
          /\ mstate[m].topsize % MALLOC_ALIGNMENT = 0 /\ mstate[m].topsize > 0
      BY <2>1, <2>2 DEF Laid
    <2>5. ChunkSize(mstate[m].head) = mstate[m].topsize
      BY <2>1, <2>2, <2>4 DEF Laid, ChunkSize
    <2> QED
      BY <2>1, <2>2, <2>3, <2>4, <2>5 DEF Laid
  <1> QED
    BY <1>1, AlwaysLaid, PTL
-----------------------------------------------------------------------------
(* The test of CreateAllocator is meant for pages of ALLOCATOR_META_SIZE,  *)
(* a malloc_state that leaves something of one, and memories far below the *)
(* range of a size_t that begin as zeros.                                  *)
Ordinary ==
  /\ PageSize = ALLOCATOR_META_SIZE /\ DirtyMems = {}
  /\ MSize + TOP_FOOT_SIZE < ALLOCATOR_META_SIZE
  /\ \A m \in Mems : MemSize[m] + MSize + TOP_FOOT_SIZE + PageSize < SizeMax

Params == [magic : Nat, page_size : {0, PageSize}, granularity : Nat, trim_threshold : Nat]

AInv ==
  /\ params \in [Mems \cup {NULL} -> Params] /\ pmparams \in Mems \cup {NULL}
  /\ mstate = [m \in Mems |-> mstate[m]]
  /\ accepted \subseteq Mems
  /\ \A m \in Mems : Made(m) => ~TooSmall(m)
  /\ AcceptedHasMspace

LEMMA InitializedParams ==
  ASSUME NEW pp \in Params  PROVE Initialized(pp) \in Params
  BY DEF Initialized, Params, Defaults, DEFAULT_TRIM_THRESHOLD

(* A memory that is not too small has a page behind Meta.                  *)
LEMMA Enough ==
  ASSUME Ordinary, NEW m \in Mems, ~TooSmall(m), NEW pp \in Params
  PROVE  Fits(MetaSize(m), pp) /\ MetaSize(m) > 0
  <1> DEFINE need == MSize + TOP_FOOT_SIZE + pp.page_size
             room == SizeMax - need
  <1>1. /\ MSize \in Nat /\ TOP_FOOT_SIZE \in Nat /\ MSize > 0
        /\ MemSize[m] \in Nat /\ pp.page_size \in 0 .. PageSize
    BY StateChunk, Foot DEF Params
  <1>2. /\ MetaSize(m) \in Int /\ MetaSize(m) >= ALLOCATOR_META_SIZE
        /\ MetaSize(m) <= MemSize[m]
    BY <1>1 DEF TooSmall, MetaSize, allign_page, Ordinary
  <1>3. room \in 0 .. SizeMax - 1 /\ MetaSize(m) < room
    <2>1. MemSize[m] + MSize + TOP_FOOT_SIZE + PageSize < SizeMax
      BY DEF Ordinary
    <2>2. SizeMax \in Nat /\ PageSize \in Nat
      OBVIOUS
    <2>3. need \in Nat /\ need > 0 /\ MemSize[m] + need < SizeMax
      BY <1>1, <2>1, <2>2
    <2> HIDE DEF need
    <2> QED
      BY <1>1, <1>2, <2>2, <2>3
  <1>4. SizeMax \in Nat /\ SizeMax > 0
    BY <1>3
  <1>5. room % SizeMax = room
    <2> HIDE DEF room
    <2> QED BY <1>3, <1>4
  <1>6. MetaSize(m) > MSize + TOP_FOOT_SIZE
    BY <1>1, <1>2 DEF Ordinary
  <1> QED
    BY <1>2, <1>3, <1>5, <1>6 DEF Fits

LEMMA InitAccepts == Ordinary /\ Init => AInv
  BY DEF Init, AInv, Ordinary, NoParams, Params, Made, AcceptedHasMspace

(* Creation in a memory that is large enough makes an mspace, or keeps one.*)
LEMMA CreateMakes ==
  ASSUME Ordinary, AInv, NEW m \in Mems, NEW recreate \in BOOLEAN,
         recreate \/ Made(m), ~TooSmall(m),
         create_mspace_with_base(m, recreate),
         accepted' = accepted \cup {m}
  PROVE  AInv'
  <1> DEFINE first_init == recreate \/ params[m].magic = 0
             pp == IF first_init THEN Initialized(params[m]) ELSE params[m]
             new == IF ~Fits(MetaSize(m), pp) THEN Nothing
                    ELSE IF first_init
                      THEN init_user_mstate(MspaceBuf(m) + SizeofParams, MetaSize(m), pp)
                      ELSE mstate[m]
  <1>1. /\ mstate' = [mstate EXCEPT ![m] = new]
        /\ params' = [params EXCEPT ![m] = pp] /\ pmparams' = m
    BY DEF create_mspace_with_base
  <1>2. pp \in Params
    BY InitializedParams DEF AInv
  <1>3. Fits(MetaSize(m), pp) /\ MetaSize(m) > 0
    BY <1>2, Enough
  <1>4. new # Nothing
    <2>1. CASE first_init
      <3>1. new.seg_size = MetaSize(m)
        BY <1>3, <2>1 DEF init_user_mstate, init_top
      <3>2. Nothing.seg_size = 0
        BY DEF Nothing
      <3> QED
        BY <1>3, <3>1, <3>2, Offered
    <2>2. CASE ~first_init
      BY <1>3, <2>2 DEF Made
    <2> QED
      BY <2>1, <2>2
  <1> HIDE DEF new, pp
  <1>5. mstate = [n \in Mems |-> mstate[n]]
    BY DEF AInv
  <1>6. /\ mstate' = [n \in Mems |-> IF n = m THEN new ELSE mstate[n]]
        /\ mstate'[m] = new /\ \A n \in Mems \ {m} : mstate'[n] = mstate[n]
    BY <1>1, <1>5
  <1>7. mstate' = [n \in Mems |-> mstate'[n]]
    BY <1>6
  <1>8. \A n \in Mems : Made(n)' => ~TooSmall(n)
    BY <1>6 DEF AInv, Made
  <1>9. accepted' \subseteq Mems /\ \A n \in accepted' : Made(n)'
    BY <1>4, <1>6 DEF AInv, Made, AcceptedHasMspace
  <1>10. params' \in [Mems \cup {NULL} -> Params] /\ pmparams' \in Mems \cup {NULL}
    BY <1>1, <1>2 DEF AInv
  <1> QED
    BY <1>7, <1>8, <1>9, <1>10 DEF AInv, AcceptedHasMspace, TooSmall

LEMMA MalloptKeeps ==
  ASSUME Ordinary, AInv, NEW param \in {"trim_threshold", "granularity"},
         NEW val \in OptValues, mspace_mallopt(param, val)
  PROVE  AInv'
  <1> DEFINE pp == Initialized(params[pmparams])
  <1>1. pp \in Params
    BY InitializedParams DEF AInv
  <1>2. [pp EXCEPT ![param] = val] \in Params
    <2> HIDE DEF pp
    <2>1. val \in Nat
      OBVIOUS
    <2>2. CASE param = "granularity"
      BY <1>1, <2>1, <2>2 DEF Params
    <2>3. CASE param = "trim_threshold"
      BY <1>1, <2>1, <2>3 DEF Params
    <2> QED
      BY <2>2, <2>3
  <1>3. /\ params' \in [Mems \cup {NULL} -> Params]
        /\ UNCHANGED <<pmparams, mstate, accepted>>
    <2>1. \/ params' = [params EXCEPT ![pmparams] = pp]
          \/ params' = [params EXCEPT ![pmparams] = [pp EXCEPT ![param] = val]]
      BY DEF mspace_mallopt
    <2>2. UNCHANGED <<pmparams, mstate, accepted>>
      BY DEF mspace_mallopt
    <2> HIDE DEF pp
    <2> QED
      BY <1>1, <1>2, <2>1, <2>2 DEF AInv
  <1> QED
    BY <1>3 DEF AInv, Made, TooSmall, AcceptedHasMspace

LEMMA StepAccepts ==
  ASSUME Ordinary, AInv, [Next]_vars
  PROVE  AInv'
  <1>1. ASSUME NEW m \in Mems, CreateAllocator(m)  PROVE AInv'
    BY <1>1, CreateMakes DEF CreateAllocator
  <1>2. ASSUME NEW m \in Mems, Attach(m)  PROVE AInv'
    <2>1. ~TooSmall(m) /\ Made(m)
      BY <1>2 DEF Attach, AInv
    <2> QED
      BY <1>2, <2>1, CreateMakes DEF Attach
  <1>3. ASSUME NEW param \in {"trim_threshold", "granularity"}, NEW val \in OptValues,
               mspace_mallopt(param, val)
        PROVE  AInv'
    BY <1>3, MalloptKeeps
  <1>4. CASE Restart
    BY <1>4 DEF Restart, AInv, Made, TooSmall, AcceptedHasMspace, NoParams, Params
  <1>5. CASE UNCHANGED vars
    BY <1>5 DEF vars, AInv, Made, TooSmall, AcceptedHasMspace
  <1> QED
    BY <1>1, <1>2, <1>3, <1>4, <1>5 DEF Next

(* Memory that CreateAllocator accepts has an mspace, with pages of 4096.  *)
THEOREM AcceptedMemoryHasAnMspace ==
  ASSUME Ordinary PROVE Spec => []AcceptedHasMspace
  <1>1. AInv => AcceptedHasMspace
    BY DEF AInv
  <1> QED
    BY <1>1, InitAccepts, StepAccepts, PTL DEF Spec

-----------------------------------------------------------------------------
(* Parameters of memory that begins as zeros have either not been made, or *)
(* their granularity is checked; those of an mspace have been made.        *)
Untouched(pp) == pp.page_size = 0 /\ pp.magic = 0
Checked(pp) == pp.page_size = PageSize /\ IsPowerOf2(pp.granularity)

SaneParams ==
  {pp \in [magic : Nat, page_size : Nat, granularity : Nat, trim_threshold : Nat] :
     Untouched(pp) \/ Checked(pp)}

PInv ==
  /\ params \in [Mems \cup {NULL} -> SaneParams] /\ pmparams \in Mems \cup {NULL}
  /\ accepted # {} => Checked(params[pmparams])

LEMMA DefaultsAreSane == NoParams \in SaneParams /\ Untouched(NoParams) /\ IsPowerOf2(65536)
  <1>1. 65536 = 2 ^ 16
    OBVIOUS
  <1>2. IsPowerOf2(65536)
    BY <1>1 DEF IsPowerOf2
  <1> QED
    BY <1>2 DEF NoParams, SaneParams, Untouched

LEMMA InitializedChecked ==
  ASSUME NEW pp \in SaneParams
  PROVE  Initialized(pp) \in SaneParams /\ Checked(Initialized(pp))
  <1>1. CASE pp.page_size # 0
    BY <1>1 DEF Initialized, SaneParams, Untouched
  <1>2. CASE pp.page_size = 0
    <2>1. Initialized(pp) = [magic |-> IF pp.magic = 0 THEN 1 ELSE pp.magic,
                             page_size |-> PageSize, granularity |-> 65536,
                             trim_threshold |-> DEFAULT_TRIM_THRESHOLD]
      BY <1>2 DEF Initialized, Defaults
    <2>2. pp.magic \in Nat /\ DEFAULT_TRIM_THRESHOLD \in Nat
      BY DEF SaneParams, DEFAULT_TRIM_THRESHOLD
    <2>3. Checked(Initialized(pp))
      BY <2>1, DefaultsAreSane DEF Checked
    <2> QED
      BY <2>1, <2>2, <2>3 DEF SaneParams
  <1> QED
    BY <1>1, <1>2

(* What create_mspace_with_base leaves to the process is checked.          *)
LEMMA CreateChecks ==
  ASSUME PInv, NEW m \in Mems, NEW recreate \in BOOLEAN,
         create_mspace_with_base(m, recreate)
  PROVE  PInv'
  <1> DEFINE first_init == recreate \/ params[m].magic = 0
             pp == IF first_init THEN Initialized(params[m]) ELSE params[m]
  <1>1. params' = [params EXCEPT ![m] = pp] /\ pmparams' = m
    BY DEF create_mspace_with_base
  <1>2. params[m] \in SaneParams
    BY DEF PInv
  <1>3. pp \in SaneParams /\ Checked(pp)
    <2>1. CASE first_init
      BY <1>2, <2>1, InitializedChecked
    <2>2. CASE ~first_init
      BY <1>2, <2>2 DEF SaneParams, Untouched
    <2> QED
      BY <2>1, <2>2
  <1> HIDE DEF pp
  <1> QED
    BY <1>1, <1>3 DEF PInv

(* change_mparam refuses a granularity that is not a power of two, and 0,  *)
(* which is below a page.                                                  *)
LEMMA MalloptChecks ==
  ASSUME PInv, NEW param \in {"trim_threshold", "granularity"},
         NEW val \in OptValues, mspace_mallopt(param, val)
  PROVE  PInv'
  <1> DEFINE pp == Initialized(params[pmparams])
  <1>1. pp \in SaneParams /\ Checked(pp)
    BY InitializedChecked DEF PInv
  <1>2. val \in Nat
    OBVIOUS
  <1>3. \/ params' = [params EXCEPT ![pmparams] = pp]
        \/ /\ params' = [params EXCEPT ![pmparams] = [pp EXCEPT ![param] = val]]
           /\ param = "granularity" =>
                ~(val < pp.page_size) /\ (val = 0 \/ IsPowerOf2(val))
    BY DEF mspace_mallopt
  <1>4. pmparams' = pmparams /\ accepted' = accepted
    BY DEF mspace_mallopt
  <1> HIDE DEF pp
  <1>5. ASSUME param = "granularity" => ~(val < pp.page_size) /\ (val = 0 \/ IsPowerOf2(val))
        PROVE  [pp EXCEPT ![param] = val] \in SaneParams /\ Checked([pp EXCEPT ![param] = val])
    <2>1. CASE param = "granularity"
      <3>1. IsPowerOf2(val)
        BY <1>1, <1>2, <1>5, <2>1 DEF Checked
      <3> QED
        BY <1>1, <1>2, <2>1, <3>1 DEF SaneParams, Checked
    <2>2. CASE param = "trim_threshold"
      BY <1>1, <1>2, <2>2 DEF SaneParams, Checked
    <2> QED
      BY <2>1, <2>2
  <1>6. PICK q \in SaneParams : Checked(q) /\ params' = [params EXCEPT ![pmparams] = q]
    BY <1>1, <1>3, <1>5
  <1> QED
    BY <1>4, <1>6 DEF PInv

(* The parameters that sys_trim divides by are powers of two, on a machine *)
(* whose pages are, in memory that begins as zeros, after any sequence of  *)
(* creations, attachments, options and restarts (malloc.cpp:2940).         *)
THEOREM ParametersStaySane ==
  ASSUME IsPowerOf2(PageSize), DirtyMems = {} PROVE Spec => []ParamsAreSane
  <1>1. Init => PInv
    BY DefaultsAreSane DEF Init, PInv
  <1>2. ASSUME PInv, [Next]_vars PROVE PInv'
    <2>1. ASSUME NEW m \in Mems, CreateAllocator(m) PROVE PInv'
      BY <1>2, <2>1, CreateChecks DEF CreateAllocator
    <2>2. ASSUME NEW m \in Mems, Attach(m) PROVE PInv'
      BY <1>2, <2>2, CreateChecks DEF Attach
    <2>3. ASSUME NEW param \in {"trim_threshold", "granularity"}, NEW val \in OptValues,
                 mspace_mallopt(param, val)
          PROVE  PInv'
      BY <1>2, <2>3, MalloptChecks
    <2>4. CASE Restart
      BY <1>2, <2>4, DefaultsAreSane DEF Restart, PInv
    <2>5. CASE UNCHANGED vars
      BY <1>2, <2>5 DEF vars, PInv
    <2> QED
      BY <1>2, <2>1, <2>2, <2>3, <2>4, <2>5 DEF Next
  <1>3. PInv => ParamsAreSane
    BY DEF PInv, ParamsAreSane, Checked
  <1> QED
    BY <1>1, <1>2, <1>3, PTL DEF Spec
=============================================================================
