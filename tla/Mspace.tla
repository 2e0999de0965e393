------------------------------- MODULE Mspace -------------------------------
(***************************************************************************)
(* One mspace: the boundary-tag heap that mmdata places in a mapped file   *)
(* or in a caller's buffer (malloc.cpp, create_mspace_with_base and the    *)
(* mspace_ routines).  Everything runs in the one thread that builds the   *)
(* image (USE_LOCKS is 0), so an action is one whole call.                 *)
(*                                                                         *)
(* A routine is an operator from the state of the mspace to the set of     *)
(* its results: more than one because the order within a bin is open.      *)
(* The segment is EXTERN (create_mspace_with_base), sys_alloc is gone and  *)
(* no chunk is mmapped: the branches only those reach are left out.        *)
(***************************************************************************)
EXTENDS Bins

CONSTANTS
  SegBase,                  \* the first chunk, that of the malloc_state
  MSTATE_SIZE,              \* granules of that chunk
  InitTopSize,              \* granules of the top chunk at creation
  TOP_FOOT_SIZE,            \* granules after top that end the segment
  TRIM_THRESHOLD,           \* pmparams->trim_threshold, in granules
  MAX_RELEASE_CHECK_RATE,   \* large frees between two looks for segments
  SIZE_T_MOD,               \* granules that a size_t can count
  MallocSizes,              \* bytes that mspace_malloc is asked for
  ReallocSizes,             \* bytes that mspace_realloc is asked for
  GrowSizes,                \* granules that mspace_inc_size adds
  TrimPads                  \* pads that mspace_trim is given

ASSUME SegmentAssumption ==
  /\ SegBase \in Nat \ {0}
  /\ MSTATE_SIZE \in Nat /\ MSTATE_SIZE >= MIN_CHUNK_SIZE
  /\ InitTopSize \in Nat \ {0} /\ TOP_FOOT_SIZE \in Nat \ {0}
  /\ SegBase + MSTATE_SIZE + InitTopSize <= AddrMax
ASSUME ParamsAssumption ==
  /\ TRIM_THRESHOLD \in Nat /\ MAX_RELEASE_CHECK_RATE \in Nat \ {0}
  /\ SIZE_T_MOD \in Nat /\ SIZE_T_MOD > AddrMax + TOP_FOOT_SIZE
ASSUME RequestsAssumption ==
  /\ MallocSizes \subseteq Nat /\ ReallocSizes \subseteq Nat
  /\ GrowSizes \subseteq Nat /\ TrimPads \subseteq Nat

VARIABLES
  ms,    \* the malloc_state and the tags of the chunks of its segment
  held   \* held[a]: the bytes the caller was promised at a, or NotHeld
vars == <<ms, held>>

NotHeld == -1
MAX_SIZE_T == SIZE_T_MOD - 1

(* Bytes; requests this large are refused.                                 *)
MAX_REQUEST == (SIZE_T_MOD - 4 * MIN_CHUNK_SIZE) * MALLOC_ALIGNMENT

(* Addition of granules in a size_t, for operands that are in range.       *)
Wrap(x) == IF x < 0 THEN x + SIZE_T_MOD
           ELSE IF x >= SIZE_T_MOD THEN x - SIZE_T_MOD ELSE x

MState == [tags : Tags, bins : BinSet, top : Addr, topsize : Nat,
           dv : Addr, dvsize : Nat, exts : 0 .. MAX_SIZE_T,
           seg_size : Nat, trim_check : Nat,
           release_checks : 1 .. MAX_RELEASE_CHECK_RATE, aborted : BOOLEAN]

Aborted(m) == [m EXCEPT !.aborted = TRUE]

ok_address(a) == a >= SegBase
ok_next(p, n) == p < n

-----------------------------------------------------------------------------
(* Creation.                                                               *)
set_trailer(t, e) ==
  [t EXCEPT !.size[e] = TOP_FOOT_SIZE, !.cin = @ \ {e}, !.pin = @ \ {e}]

init_top(m, p, psize) ==
  [m EXCEPT !.tags = set_trailer(set_top_head(@, p, psize), p + psize),
            !.top = p, !.topsize = psize, !.trim_check = TRIM_THRESHOLD]

ZeroTags == [size |-> [a \in Addr |-> 0], cin |-> {}, pin |-> {},
             foot |-> [a \in Addr |-> 0]]

init_user_mstate ==
  init_top([tags |-> set_size_and_pinuse_of_inuse_chunk(ZeroTags, SegBase, MSTATE_SIZE),
            bins |-> init_bins, top |-> 0, topsize |-> 0, dv |-> 0, dvsize |-> 0,
            exts |-> 0, seg_size |-> MSTATE_SIZE + InitTopSize + TOP_FOOT_SIZE,
            trim_check |-> 0, release_checks |-> MAX_RELEASE_CHECK_RATE,
            aborted |-> FALSE],
           SegBase + MSTATE_SIZE, InitTopSize)

-----------------------------------------------------------------------------
(* Trimming.  The segment is extern: nothing can be released, the look for *)
(* unused segments only resets its countdown, and the failure disables     *)
(* later automatic trims.                                                  *)
release_unused_segments(m) == [m EXCEPT !.release_checks = MAX_RELEASE_CHECK_RATE]

sys_trim(m, pad) ==
  IF pad >= MAX_REQUEST THEN m
  ELSE [release_unused_segments(m) EXCEPT
          !.trim_check = IF m.topsize > @ THEN MAX_SIZE_T ELSE @]

should_trim(m, s) == s > m.trim_check

-----------------------------------------------------------------------------
(* mspace_malloc.  A result is the new state and the memory, 0 for NULL.   *)
Null(m) == [ms |-> m, mem |-> 0]

(* postaction: exts counts the chunk at p, of the given size.              *)
Return(m, p, chunk_size) ==
  [ms |-> [m EXCEPT !.exts = Wrap(@ + chunk_size)], mem |-> chunk2mem(p)]

Split(t, p, nb, rsize) ==
  set_size_and_pinuse_of_free_chunk(
    set_size_and_pinuse_of_inuse_chunk(t, p, nb), p + nb, rsize)

replace_dv(m, p, s) ==
  [m EXCEPT !.bins = IF m.dvsize # 0
                       THEN insert_small_chunk(@, m.dv, m.dvsize) ELSE @,
            !.dv = p, !.dvsize = s]

RemainderlessFit(m, nb) ==
  LET i == IF nb \in m.bins.smallmap THEN nb ELSE nb + 1
  IN  {Return([m EXCEPT !.bins = unlink_small_chunk(@, p, i),
                        !.tags = set_inuse_and_pinuse(@, p, i)], p, m.tags.size[p])
         : p \in m.bins.small[i]}

(* A slip: the split of 4-byte sizes, where any remainder is a chunk.      *)
NextSmallBin_Splits(m, nb) ==
  LET i == LeastIndex({j \in m.bins.smallmap : j > nb})
  IN  {Return(replace_dv([m EXCEPT !.bins = unlink_small_chunk(@, p, i),
                                   !.tags = Split(@, p, nb, i - nb)],
                         p + nb, i - nb), p, nb) : p \in m.bins.small[i]}

NextSmallBin(m, nb) ==
  LET i     == LeastIndex({j \in m.bins.smallmap : j > nb})
      rsize == i - nb
      Taken(p) == [m EXCEPT !.bins = unlink_small_chunk(@, p, i)]
  IN  {IF SIZE_T_SIZE # 4 /\ rsize < MIN_CHUNK_SIZE
         THEN Return([Taken(p) EXCEPT !.tags = set_inuse_and_pinuse(@, p, i)], p, i)
         ELSE Return(replace_dv([Taken(p) EXCEPT !.tags = Split(@, p, nb, rsize)],
                                p + nb, rsize), p, nb)
         : p \in m.bins.small[i]}

(* The end of tmalloc_small and of tmalloc_large: v leaves its tree whole, *)
(* or what is left of it becomes dv, or goes to a bin.                     *)
TakeFromTree(m, v, nb, toDv) ==
  LET rsize == m.tags.size[v] - nb
      t     == [m EXCEPT !.bins = unlink_large_chunk(@, v)]
      s     == [t EXCEPT !.tags = Split(@, v, nb, rsize)]
  IN  IF ~ok_address(v) \/ ~ok_next(v, v + nb) THEN Null(Aborted(m))
      ELSE IF rsize < MIN_CHUNK_SIZE
        THEN Return([t EXCEPT !.tags = set_inuse_and_pinuse(@, v, rsize + nb)],
                    v, rsize + nb)
      ELSE Return(IF toDv THEN replace_dv(s, v + nb, rsize)
                  ELSE [s EXCEPT !.bins = insert_chunk(@, v + nb, rsize)], v, nb)

tmalloc_small(m, nb) ==
  {TakeFromTree(m, v, nb, TRUE) : v \in SmallFitInTree(m.tags, m.bins, nb)}

(* Only chunks that fit better than dv does.                               *)
tmalloc_large(m, nb) ==
  {TakeFromTree(m, v, nb, FALSE) :
     v \in {c \in LargeFit(m.tags, m.bins, nb) :
              m.tags.size[c] - nb < Wrap(m.dvsize - nb)}}

(* A slip: a remainder of just MIN_CHUNK_SIZE is not split off.            *)
FromDv_KeepsLeast(m, nb) ==
  LET rsize == m.dvsize - nb
  IN  IF rsize > MIN_CHUNK_SIZE
        THEN Return([m EXCEPT !.tags = Split(@, m.dv, nb, rsize),
                              !.dv = @ + nb, !.dvsize = rsize], m.dv, nb)
        ELSE Return([m EXCEPT !.tags = set_inuse_and_pinuse(@, m.dv, m.dvsize),
                              !.dv = 0, !.dvsize = 0], m.dv, m.dvsize)

FromDv(m, nb) ==
  LET rsize == m.dvsize - nb
  IN  IF rsize >= MIN_CHUNK_SIZE
        THEN Return([m EXCEPT !.tags = Split(@, m.dv, nb, rsize),
                              !.dv = @ + nb, !.dvsize = rsize], m.dv, nb)
        ELSE Return([m EXCEPT !.tags = set_inuse_and_pinuse(@, m.dv, m.dvsize),
                              !.dv = 0, !.dvsize = 0], m.dv, m.dvsize)

FromTop(m, nb) ==
  LET rsize == m.topsize - nb
  IN  Return([m EXCEPT !.tags = set_size_and_pinuse_of_inuse_chunk(
                                  set_top_head(@, m.top + nb, rsize), m.top, nb),
                       !.top = @ + nb, !.topsize = rsize], m.top, nb)

(* A slip: a dv of just the size is passed over.                           *)
FromDvOrTop_Less(m, nb) ==
  IF nb < m.dvsize THEN {FromDv(m, nb)}
  ELSE IF nb < m.topsize THEN {FromTop(m, nb)}
  ELSE {Null(m)}

FromDvOrTop(m, nb) ==
  IF nb <= m.dvsize THEN {FromDv(m, nb)}
  ELSE IF nb < m.topsize THEN {FromTop(m, nb)}
  ELSE {Null(m)}

MallocSmall(m, nb) ==
  IF {nb, nb + 1} \cap m.bins.smallmap # {} THEN RemainderlessFit(m, nb)
  ELSE IF nb <= m.dvsize THEN FromDvOrTop(m, nb)
  ELSE IF {j \in m.bins.smallmap : j > nb} # {} THEN NextSmallBin(m, nb)
  ELSE IF m.bins.treemap # {} THEN tmalloc_small(m, nb)
  ELSE FromDvOrTop(m, nb)

MallocLarge(m, nb) ==
  IF m.bins.treemap # {} /\ tmalloc_large(m, nb) # {}
    THEN tmalloc_large(m, nb) ELSE FromDvOrTop(m, nb)

Malloc(m, bytes) ==
  IF bytes <= MAX_SMALL_REQUEST THEN MallocSmall(m, request2size(bytes))
  ELSE IF bytes >= MAX_REQUEST THEN FromDvOrTop(m, MAX_SIZE_T)
  ELSE MallocLarge(m, pad_request(bytes))

-----------------------------------------------------------------------------
(* mspace_free.  The freed chunk has taken in a free one before it and is  *)
(* now [q, q + z); n is the chunk that followed it.                        *)
FreeToDv(m, q, z, n) ==
  [m EXCEPT !.tags = set_free_with_pinuse(@, q, z, n), !.dvsize = z]

(* A slip: top takes in dv, which is not forgotten.                        *)
FreeIntoTop_KeepsDv(m, q, z) ==
  LET tsize == m.topsize + z
      f == [m EXCEPT !.tags = set_top_head(@, q, tsize),
                     !.top = q, !.topsize = tsize]
  IN  IF should_trim(f, tsize) THEN sys_trim(f, 0) ELSE f

FreeIntoTop(m, q, z) ==
  LET tsize == m.topsize + z
      f == [m EXCEPT !.tags = set_top_head(@, q, tsize),
                     !.top = q, !.topsize = tsize,
                     !.dv = IF q = m.dv THEN 0 ELSE @,
                     !.dvsize = IF q = m.dv THEN 0 ELSE @]
  IN  IF should_trim(f, tsize) THEN sys_trim(f, 0) ELSE f

FreeIntoDv(m, q, z) ==
  [m EXCEPT !.tags = set_size_and_pinuse_of_free_chunk(@, q, m.dvsize + z),
            !.dv = q, !.dvsize = m.dvsize + z]

(* A slip: the countdown is not reset when it ends.                        *)
FreeToBin_NoReset(m, q, z) ==
  LET f == [m EXCEPT !.bins = insert_chunk(@, q, z)]
  IN  IF is_small(z) THEN f ELSE [f EXCEPT !.release_checks = @ - 1]

FreeToBin(m, q, z) ==
  LET f == [m EXCEPT !.bins = insert_chunk(@, q, z)]
  IN  IF is_small(z) THEN f
      ELSE IF m.release_checks = 1 THEN release_unused_segments(f)
      ELSE [f EXCEPT !.release_checks = @ - 1]

(* A slip: next is unlinked with the size of the merged chunk.             *)
FreeAbsorbing_MergedSize(m, q, z, n) ==
  LET nsize == m.tags.size[n]
      f == [m EXCEPT !.bins = unlink_chunk(@, n, z + nsize),
                     !.tags = set_size_and_pinuse_of_free_chunk(@, q, z + nsize)]
  IN  IF q = m.dv THEN [f EXCEPT !.dvsize = z + nsize] ELSE FreeToBin(f, q, z + nsize)

FreeAbsorbing(m, q, z, n) ==
  LET nsize == m.tags.size[n]
      f == [m EXCEPT !.bins = unlink_chunk(@, n, nsize),
                     !.tags = set_size_and_pinuse_of_free_chunk(@, q, z + nsize)]
  IN  IF q = m.dv THEN [f EXCEPT !.dvsize = z + nsize] ELSE FreeToBin(f, q, z + nsize)

(* A slip: only top and dv are consolidated forward.                       *)
FreeBefore_LeavesNext(m, q, z, n) ==
  IF n = m.top THEN FreeIntoTop(m, q, z)
  ELSE IF n = m.dv THEN FreeIntoDv(m, q, z)
  ELSE IF q = m.dv THEN FreeToDv(m, q, z, n)
  ELSE FreeToBin([m EXCEPT !.tags = set_free_with_pinuse(@, q, z, n)], q, z)

FreeBefore(m, q, z, n) ==
  IF n \in m.tags.cin
    THEN IF q = m.dv THEN FreeToDv(m, q, z, n)
         ELSE FreeToBin([m EXCEPT !.tags = set_free_with_pinuse(@, q, z, n)], q, z)
  ELSE IF n = m.top THEN FreeIntoTop(m, q, z)
  ELSE IF n = m.dv THEN FreeIntoDv(m, q, z)
  ELSE FreeAbsorbing(m, q, z, n)

Free(m, mem) ==
  LET p     == mem2chunk(mem)
      psize == m.tags.size[p]
      n     == p + psize
      prevsize == IF p \in m.tags.pin THEN 0 ELSE m.tags.foot[p]
      q     == p - prevsize
      b     == IF p \in m.tags.pin \/ q = m.dv THEN m.bins
               ELSE unlink_chunk(m.bins, q, prevsize)
  IN  IF \/ ~ok_address(p) \/ p \notin m.tags.cin
         \/ ~ok_address(q) \/ ~ok_next(q, n) \/ n \notin m.tags.pin
        THEN Aborted(m)
        ELSE [FreeBefore([m EXCEPT !.bins = b], q, prevsize + psize, n)
                EXCEPT !.exts = Wrap(@ - psize)]

-----------------------------------------------------------------------------
(* mspace_realloc of memory that is not NULL.                              *)
ShrinkInPlace(m, p, nb) ==
  LET rsize == m.tags.size[p] - nb
  IN  IF rsize < MIN_CHUNK_SIZE THEN m
      ELSE Free([m EXCEPT !.tags = set_inuse(set_inuse(@, p, nb), p + nb, rsize)],
                chunk2mem(p + nb))

(* A slip: the head of top moves, top does not.                            *)
ExpandIntoTop_TopStays(m, p, nb) ==
  LET newtopsize == m.tags.size[p] + m.topsize - nb
  IN  [m EXCEPT !.tags = set_top_head(set_inuse(@, p, nb), p + nb, newtopsize),
                !.topsize = newtopsize]

ExpandIntoTop(m, p, nb) ==
  LET newtopsize == m.tags.size[p] + m.topsize - nb
  IN  [m EXCEPT !.tags = set_top_head(set_inuse(@, p, nb), p + nb, newtopsize),
                !.top = p + nb, !.topsize = newtopsize]

(* A slip: the old block is freed before the new one is sought.            *)
internal_realloc_FreesFirst(m, oldmem, bytes) ==
  LET p       == mem2chunk(oldmem)
      oldsize == m.tags.size[p]
      nb      == request2size(bytes)
  IN  IF bytes >= MAX_REQUEST THEN {Null(m)}
      ELSE IF oldsize >= nb
        THEN {[ms |-> ShrinkInPlace(m, p, nb), mem |-> oldmem]}
      ELSE IF p + oldsize = m.top /\ oldsize + m.topsize > nb
        THEN {[ms |-> ExpandIntoTop(m, p, nb), mem |-> oldmem]}
      ELSE Malloc(Free(m, oldmem), bytes)

internal_realloc(m, oldmem, bytes) ==
  LET p       == mem2chunk(oldmem)
      oldsize == m.tags.size[p]
      next    == p + oldsize
      nb      == request2size(bytes)
  IN  IF bytes >= MAX_REQUEST THEN {Null(m)}
      ELSE IF \/ ~ok_address(p) \/ p \notin m.tags.cin
              \/ ~ok_next(p, next) \/ next \notin m.tags.pin
        THEN {Null(Aborted(m))}
      ELSE IF oldsize >= nb
        THEN {[ms |-> ShrinkInPlace(m, p, nb), mem |-> oldmem]}
      ELSE IF next = m.top /\ oldsize + m.topsize > nb
        THEN {[ms |-> ExpandIntoTop(m, p, nb), mem |-> oldmem]}
      ELSE {IF r.mem = 0 THEN r ELSE [ms |-> Free(r.ms, oldmem), mem |-> r.mem]
              : r \in Malloc(m, bytes)}
-----------------------------------------------------------------------------
(* mspace_inc_size.  The pinuse bit of top stays as it is.                 *)
SetTopSize(t, top, s) ==
  [set_top_head(t, top, s) EXCEPT !.pin = (@ \ {top}) \cup (t.pin \cap {top})]

(* A slip: the segment is not extended with top.                           *)
Grown_TopOnly(m, inc) ==
  LET new_size == m.tags.size[m.top] + inc
  IN  [m EXCEPT !.topsize = @ + inc,
                !.tags = set_trailer(SetTopSize(@, m.top, new_size), m.top + new_size)]

Grown(m, inc) ==
  LET new_size == m.tags.size[m.top] + inc
  IN  [m EXCEPT !.topsize = @ + inc, !.seg_size = @ + inc,
                !.tags = set_trailer(SetTopSize(@, m.top, new_size), m.top + new_size)]

-----------------------------------------------------------------------------
Held == {a \in Addr : held[a] # NotHeld}

Init == /\ ms = init_user_mstate
        /\ held = [a \in Addr |-> NotHeld]

mspace_malloc(bytes) ==
  \E r \in Malloc(ms, bytes) :
    /\ ms' = r.ms
    /\ held' = IF r.mem = 0 THEN held ELSE [held EXCEPT ![r.mem] = bytes]

mspace_free(mem) ==
  /\ mem \in Held
  /\ ms' = Free(ms, mem)
  /\ held' = [held EXCEPT ![mem] = NotHeld]

mspace_realloc(oldmem, bytes) ==
  /\ oldmem \in Held
  /\ \E r \in internal_realloc(ms, oldmem, bytes) :
       /\ ms' = r.ms
       /\ held' = IF r.mem = 0 THEN held
                  ELSE [held EXCEPT ![oldmem] = NotHeld, ![r.mem] = bytes]

mspace_trim(pad) == ms' = sys_trim(ms, pad) /\ UNCHANGED held

(* The caller has extended the memory that follows the segment.            *)
mspace_inc_size(inc) ==
  /\ SegBase + ms.seg_size - TOP_FOOT_SIZE + inc <= AddrMax
  /\ ms' = Grown(ms, inc)
  /\ UNCHANGED held

Next ==
  /\ ~ms.aborted
  /\ \/ \E bytes \in MallocSizes : mspace_malloc(bytes)
     \/ \E mem \in Addr : mspace_free(mem)
     \/ \E mem \in Addr, bytes \in ReallocSizes : mspace_realloc(mem, bytes)
     \/ \E pad \in TrimPads : mspace_trim(pad)
     \/ \E inc \in GrowSizes : mspace_inc_size(inc)

Spec == Init /\ [][Next]_vars
=============================================================================
