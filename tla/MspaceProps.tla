----------------------------- MODULE MspaceProps -----------------------------
(***************************************************************************)
(* What must be true of an mspace after every call, whatever the calls     *)
(* were.  Most of it is what the DEBUG checks of malloc.cpp                *)
(* (do_check_any_chunk ... do_check_malloc_state) assert of one chunk or   *)
(* one bin, stated of all of them at once.                                 *)
(***************************************************************************)
EXTENDS Mspace, Functions

SegEnd(m) == m.top + m.topsize
Heads(t) == {a \in Addr : t.size[a] # 0}
Chunks(m) == Heads(m.tags) \ {SegEnd(m)}
FreeChunks(m) == Chunks(m) \ m.tags.cin
Binned(m) == FreeChunks(m) \ {m.top, m.dv}
UserChunks(m) == (Chunks(m) \cap m.tags.cin) \ {SegBase}

(* Chunks tile the segment from the malloc_state to the trailer after top: *)
(* each begins where another ends, none is smaller than a chunk can be,    *)
(* and no head is left behind inside another chunk.                        *)
Tiles(m) ==
  LET t == m.tags IN
  /\ SegBase \in Chunks(m) /\ SegEnd(m) \in Heads(t)
  /\ \A a \in Heads(t) : SegBase <= a /\ a <= SegEnd(m)
  /\ \A a \in Chunks(m) : /\ a + t.size[a] \in Heads(t)
                          /\ Body(a, t.size[a]) \cap Heads(t) = {}
                          /\ a # m.top => t.size[a] >= MIN_CHUNK_SIZE
  /\ \A a \in Heads(t) \ {SegBase} : \E c \in Chunks(m) : c + t.size[c] = a

(* pinuse of a chunk says whether the one before it is in use, and the     *)
(* size of a free chunk stands at its end.                                 *)
TagsAgree(m) ==
  LET t == m.tags IN
  /\ SegBase \in t.pin /\ SegBase \in t.cin
  /\ \A a \in Chunks(m) : (a + t.size[a] \in t.pin) <=> (a \in t.cin)
  /\ \A a \in FreeChunks(m) \ {m.top} : t.foot[a + t.size[a]] = t.size[a]

(* No two free chunks touch.                                               *)
Coalesced(m) ==
  \A a \in FreeChunks(m) \ {m.top} :
    a \in m.tags.pin /\ a + m.tags.size[a] \in m.tags.cin

(* top is free, dv too if there is one, and the mstate has their sizes.    *)
TopIsFree(m) ==
  /\ m.topsize > 0 /\ m.top \in FreeChunks(m) /\ m.top \in m.tags.pin
  /\ m.tags.size[m.top] = m.topsize

DvIsFree(m) ==
  IF m.dvsize = 0 THEN m.dv = 0
  ELSE m.dv \in FreeChunks(m) \ {m.top} /\ m.tags.size[m.dv] = m.dvsize

HeapOK(m) ==
  /\ Tiles(m) /\ TagsAgree(m) /\ Coalesced(m) /\ TopIsFree(m) /\ DvIsFree(m)
  /\ HoldExactly(m.bins, Binned(m), m.tags.size)

-----------------------------------------------------------------------------
(* Every component of the state has its type.                              *)
TypeOK == ms \in MState /\ held \in [Addr -> Nat \cup {NotHeld}]

(* The chunks of the segment tile it (next_chunk, prev_chunk).             *)
Tiling == Tiles(ms)

(* The two halves of every boundary tag agree (do_check_inuse_chunk,       *)
(* do_check_free_chunk).                                                   *)
BoundaryTagsAgree == TagsAgree(ms)

(* Freed chunks have been merged with their free neighbours                *)
(* (do_check_free_chunk: pinuse, and next in use or top).                  *)
NoAdjacentFree == Coalesced(ms) /\ TopIsFree(ms) /\ DvIsFree(ms)

(* Every free chunk but top and dv can be found in exactly one bin, the    *)
(* bin of its size, and the bin maps tell exactly which bins are in use    *)
(* (do_check_smallbin, do_check_treebin, bin_find).                        *)
BinnedExactly == HoldExactly(ms.bins, Binned(ms), ms.tags.size)

(* The chunks in use are exactly those the caller holds: no block is lost  *)
(* and none is given twice; each has the bytes that were asked for         *)
(* (mspace_usable_size).                                                   *)
HeldIntact ==
  /\ UserChunks(ms) = {mem2chunk(a) : a \in Held}
  /\ \A a \in Held :
       ms.tags.size[mem2chunk(a)] * MALLOC_ALIGNMENT - CHUNK_OVERHEAD >= held[a]

(* No run-time check of a legal call fails: the program is not aborted by  *)
(* CORRUPTION_ERROR_ACTION or USAGE_ERROR_ACTION.                          *)
NeverAborts == ~ms.aborted

(* A block is less than MIN_CHUNK_SIZE larger than its request             *)
(* (do_check_malloced_chunk).                                              *)
WasteBounded ==
  \A a \in Held :
    ms.tags.size[mem2chunk(a)] < request2size(held[a]) + MIN_CHUNK_SIZE

(* With nothing held, the heap is again the one that was created: every    *)
(* free chunk has found its way back to top (mspace_free).                 *)
FullCoalesce ==
  Held = {} => /\ ms.top = SegBase + MSTATE_SIZE
               /\ ms.bins = init_bins /\ ms.dvsize = 0

(* mspace_malloc returns NULL only when no free chunk can serve the        *)
(* request; top serves only a request that leaves it a remainder.          *)
NullOnlyWhenFull ==
  \A bytes \in MallocSizes :
    (bytes < MAX_REQUEST /\ \E r \in Malloc(ms, bytes) : r.mem = 0) =>
      /\ \A a \in FreeChunks(ms) \ {ms.top} : ms.tags.size[a] < request2size(bytes)
      /\ ms.topsize <= request2size(bytes)

(* mspace_used counts the chunks that are in use, as the traversal that    *)
(* mspace_used once made does.                                             *)
UsedIsExact ==
  ms.exts = FoldFunctionOnSet(+, 0, ms.tags.size, UserChunks(ms))

(* The image can be cut at Allocator::used_space, where top would give its *)
(* memory: every byte of every held block lies below it.                   *)
TruncationKeepsHeld ==
  \A a \in Held :
    a * MALLOC_ALIGNMENT + held[a] <= chunk2mem(ms.top) * MALLOC_ALIGNMENT

(* Top with its foot ends where the segment ends, so that segment_holding  *)
(* finds the segment of top (mspace_inc_size, sys_trim).                   *)
SegmentEndsAfterTop == SegEnd(ms) + TOP_FOOT_SIZE = SegBase + ms.seg_size

(* An mspace is a heap: whatever call is made, a new block overlaps no     *)
(* block that is held, a held block stays where and as large as it is, and *)
(* a block that mspace_realloc moves is copied to a place of its own.      *)
Heap == INSTANCE AbstractHeap WITH Place <- Addr, Grain <- MALLOC_ALIGNMENT,
                                   block <- held, limit <- SegEnd(ms)
ImplementsHeap == Heap!Spec
=============================================================================
