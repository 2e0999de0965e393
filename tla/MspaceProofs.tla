---------------------------- MODULE MspaceProofs ----------------------------
(***************************************************************************)
(* The safety of an mspace, for a segment of any size, any number of small *)
(* bins, either word size and any requests.                                *)
(*                                                                         *)
(* The inductive invariant is IInv: the heap is well-formed, and its       *)
(* chunks in use are the malloc_state, as large as it was created, and the *)
(* blocks the caller holds.  How much larger than its request a block may  *)
(* be is a parameter of the lemmas (w).  The lemmas of RoutineProofs say   *)
(* what each routine does to a well-formed heap; here they become steps of *)
(* the specification, and each is shown to be one of the abstract heap.    *)
(***************************************************************************)
EXTENDS RoutineProofs

USE AddrMaxAssumption, SizeTAssumption, SmallBinsAssumption,
    SegmentAssumption, ParamsAssumption
USE DEF Addr

HeldBy(h) == {a \in Addr : h[a] # NotHeld}

(* The chunks in use of m are the blocks of h, each as large as it must be *)
(* and less than w larger.                                                 *)
Promised(m, h, w) ==
  /\ h \in [Addr -> Nat \cup {NotHeld}]
  /\ UserChunks(m) = {mem2chunk(a) : a \in HeldBy(h)}
  /\ \A a \in HeldBy(h) :
       /\ m.tags.size[mem2chunk(a)] >= request2size(h[a])
       /\ m.tags.size[mem2chunk(a)] < request2size(h[a]) + w

(* Top with its foot ends where the segment ends.                          *)
FootEnds(m) == SegEnd(m) + TOP_FOOT_SIZE = SegBase + m.seg_size

HeapInv(w) ==
  /\ ms \in MState /\ HeapOK(ms) /\ ~ms.aborted
  /\ Promised(ms, held, w) /\ FootEnds(ms)
  /\ ms.tags.size[SegBase] = MSTATE_SIZE

IInv == HeapInv(MIN_CHUNK_SIZE)

(* A step that the caller sees: one of the abstract heap, or none.         *)
HeapStep == [Heap!Next]_<<held, SegEnd(ms)>>

-----------------------------------------------------------------------------
(* A chunk of at least MIN_CHUNK_SIZE has its memory in the segment.       *)
LEMMA MemInSegment ==
  ASSUME NEW m \in MState, HeapOK(m), NEW p \in Chunks(m),
         m.tags.size[p] >= MIN_CHUNK_SIZE
  PROVE  chunk2mem(p) \in Addr /\ chunk2mem(p) # 0 /\ mem2chunk(chunk2mem(p)) = p
  <1>1. /\ p \in Addr /\ SegBase <= p /\ m.tags.size[p] \in Nat
        /\ p + m.tags.size[p] \in Addr
    BY HeapIsShaped, ChunkFacts
  <1>2. mem2chunk(chunk2mem(p)) = p
    BY <1>1, MemOfChunk
  <1>3. chunk2mem(p) = p + TWO_SIZE_T_SIZES
    BY DEF chunk2mem
  <1>4. TWO_SIZE_T_SIZES \in 1 .. 2 /\ TWO_SIZE_T_SIZES <= m.tags.size[p]
    BY <1>1, ChunkConstants
  <1> QED
    BY <1>1, <1>2, <1>3, <1>4

(* A chunk has one memory.                                                 *)
LEMMA MemIsUnique ==
  ASSUME NEW c \in Int, NEW d \in Int, mem2chunk(c) = mem2chunk(d)
  PROVE  c = d
  <1> DEFINE D == TWO_SIZE_T_SIZES
  <1>1. D \in Int
    BY ChunkConstants
  <1>2. c - D = d - D
    BY DEF mem2chunk
  <1> HIDE DEF D
  <1> QED
    BY <1>1, <1>2

(* The block at a is given up, if there was one, and one of the given      *)
(* bytes at b is got.                                                      *)
LEMMA PromiseMoves ==
  ASSUME NEW m, NEW m2, NEW h, NEW w \in Nat, Promised(m, h, w),
         NEW a \in Addr, NEW b \in Addr, NEW bytes \in Nat,
         UserChunks(m2) = (UserChunks(m) \ {mem2chunk(a)}) \cup {mem2chunk(b)},
         \A c \in UserChunks(m) \ {mem2chunk(a), mem2chunk(b)} :
            m2.tags.size[c] = m.tags.size[c],
         m2.tags.size[mem2chunk(b)] >= request2size(bytes),
         m2.tags.size[mem2chunk(b)] < request2size(bytes) + w
  PROVE  Promised(m2, [h EXCEPT ![a] = NotHeld, ![b] = bytes], w)
  <1> DEFINE h2 == [h EXCEPT ![a] = NotHeld, ![b] = bytes]
  <1>1. /\ h \in [Addr -> Nat \cup {NotHeld}] /\ h2 \in [Addr -> Nat \cup {NotHeld}]
        /\ h2[b] = bytes /\ (a # b => h2[a] = NotHeld)
        /\ \A c \in Addr \ {a, b} : h2[c] = h[c]
        /\ bytes # NotHeld
    <2> DEFINE k == [h EXCEPT ![a] = NotHeld]
    <2>1. h \in [Addr -> Nat \cup {NotHeld}] /\ bytes # NotHeld
      BY DEF Promised, NotHeld
    <2>2. /\ k \in [Addr -> Nat \cup {NotHeld}] /\ k[a] = NotHeld
          /\ \A c \in Addr \ {a} : k[c] = h[c]
      BY <2>1
    <2>3. h2 = [k EXCEPT ![b] = bytes]
      OBVIOUS
    <2> HIDE DEF k
    <2>4. /\ h2 \in [Addr -> Nat \cup {NotHeld}] /\ h2[b] = bytes
          /\ \A c \in Addr \ {b} : h2[c] = k[c]
      BY <2>2, <2>3
    <2> QED
      BY <2>1, <2>2, <2>4
  <1> HIDE DEF h2
  <1>2. \A c, d \in Addr : mem2chunk(c) = mem2chunk(d) => c = d
    BY MemIsUnique
  <1>3. HeldBy(h2) = (HeldBy(h) \ {a}) \cup {b}
    BY <1>1 DEF HeldBy
  <1>4. UserChunks(m) = {mem2chunk(c) : c \in HeldBy(h)}
    BY DEF Promised
  <1>5. UserChunks(m2) = {mem2chunk(c) : c \in HeldBy(h2)}
    <2>1. HeldBy(h) \subseteq Addr
      BY DEF HeldBy
    <2>2. {mem2chunk(c) : c \in HeldBy(h)} \ {mem2chunk(a)}
            = {mem2chunk(c) : c \in HeldBy(h) \ {a}}
      BY <1>2, <2>1
    <2>3. {mem2chunk(c) : c \in (HeldBy(h) \ {a}) \cup {b}}
            = {mem2chunk(c) : c \in HeldBy(h) \ {a}} \cup {mem2chunk(b)}
      OBVIOUS
    <2> QED
      BY <1>3, <1>4, <2>2, <2>3
  <1>6. ASSUME NEW c \in HeldBy(h2)
        PROVE  /\ m2.tags.size[mem2chunk(c)] >= request2size(h2[c])
               /\ m2.tags.size[mem2chunk(c)] < request2size(h2[c]) + w
    <2>1. CASE c = b
      BY <1>1, <2>1
    <2>2. CASE c # b
      <3>1. c \in HeldBy(h) /\ c # a /\ c \in Addr /\ h2[c] = h[c]
        BY <1>1, <1>3, <2>2 DEF HeldBy
      <3>2. mem2chunk(c) \in UserChunks(m) \ {mem2chunk(a), mem2chunk(b)}
        BY <1>2, <1>4, <2>2, <3>1
      <3> QED
        BY <3>1, <3>2 DEF Promised
    <2> QED
      BY <2>1, <2>2
  <1>7. Promised(m2, h2, w)
    BY <1>1, <1>5, <1>6 DEF Promised
  <1> QED
    BY <1>7 DEF h2

(* A block is given up and none is got.                                    *)
LEMMA PromiseEnds ==
  ASSUME NEW m, NEW m2, NEW h, NEW w \in Nat, Promised(m, h, w), NEW a \in Addr, h[a] # NotHeld,
         UserChunks(m2) = UserChunks(m) \ {mem2chunk(a)},
         \A c \in UserChunks(m2) : m2.tags.size[c] = m.tags.size[c]
  PROVE  Promised(m2, [h EXCEPT ![a] = NotHeld], w)
  <1> DEFINE h2 == [h EXCEPT ![a] = NotHeld]
  <1>1. /\ h2 \in [Addr -> Nat \cup {NotHeld}] /\ h2[a] = NotHeld
        /\ \A c \in Addr \ {a} : h2[c] = h[c]
    BY DEF Promised
  <1>2. \A c, d \in Addr : mem2chunk(c) = mem2chunk(d) => c = d
    BY MemIsUnique
  <1> HIDE DEF h2
  <1>3. HeldBy(h2) = HeldBy(h) \ {a}
    BY <1>1 DEF HeldBy
  <1>4. UserChunks(m2) = {mem2chunk(c) : c \in HeldBy(h2)}
    <2>1. HeldBy(h) \subseteq Addr
      BY DEF HeldBy
    <2>2. {mem2chunk(c) : c \in HeldBy(h)} \ {mem2chunk(a)}
            = {mem2chunk(c) : c \in HeldBy(h) \ {a}}
      BY <1>2, <2>1
    <2> QED
      BY <1>3, <2>2 DEF Promised
  <1>5. \A c \in HeldBy(h2) : h2[c] = h[c] /\ c \in HeldBy(h)
                              /\ mem2chunk(c) \in UserChunks(m2)
    BY <1>1, <1>3, <1>4 DEF HeldBy
  <1>6. Promised(m2, h2, w)
    BY <1>1, <1>4, <1>5 DEF Promised
  <1> QED
    BY <1>6 DEF h2

(* What is held is a chunk in use, and what is free is not held.           *)
LEMMA HeldIsUsed ==
  ASSUME NEW m \in MState, HeapOK(m), NEW h, NEW w \in Nat, Promised(m, h, w)
  PROVE  /\ \A a \in HeldBy(h) : /\ mem2chunk(a) \in UserChunks(m)
                                 /\ chunk2mem(mem2chunk(a)) = a
         /\ \A p \in FreeChunks(m) : chunk2mem(p) \in Addr => h[chunk2mem(p)] = NotHeld
  <1>1. \A a \in HeldBy(h) : mem2chunk(a) \in UserChunks(m)
    BY DEF Promised
  <1>2. \A a \in HeldBy(h) : chunk2mem(mem2chunk(a)) = a
    BY MemOfChunk DEF HeldBy
  <1>3. ASSUME NEW p \in FreeChunks(m), chunk2mem(p) \in Addr, h[chunk2mem(p)] # NotHeld
        PROVE  FALSE
    <2>1. p \in Int
      BY HeapIsShaped, ChunkFacts DEF FreeChunks
    <2>2. p \in UserChunks(m)
      BY <1>1, <1>3, <2>1, MemOfChunk DEF HeldBy
    <2> QED
      BY <2>2 DEF FreeChunks, UserChunks
  <1> QED
    BY <1>1, <1>2, <1>3

(* A block ends before the memory of the next chunk begins.                *)
LEMMA BlockInChunk ==
  ASSUME NEW m \in MState, HeapOK(m), NEW h, NEW w \in Nat, Promised(m, h, w), NEW a \in HeldBy(h),
         NEW c \in Addr, mem2chunk(a) + m.tags.size[mem2chunk(a)] <= c
  PROVE  /\ a * 8 + h[a] <= chunk2mem(c) * 8
         /\ c < SegEnd(m) => a * 8 + h[a] <= SegEnd(m) * 8
  <1> DEFINE p == mem2chunk(a)
             s == m.tags.size[p]
             nb == request2size(h[a])
             D == TWO_SIZE_T_SIZES
  <1>1. p \in Chunks(m) /\ h[a] \in Nat /\ a \in Addr
    BY HeldIsUsed DEF UserChunks, Promised, HeldBy, NotHeld
  <1>2. s \in Nat /\ p \in Addr /\ SegEnd(m) \in Addr
    BY <1>1, HeapIsShaped, ChunkFacts
  <1>3. nb \in Nat /\ nb * 8 - CHUNK_OVERHEAD >= h[a]
    BY <1>1, RequestFits, ChunkConstants
  <1>4. s >= nb
    BY DEF Promised
  <1>5. /\ D \in Nat /\ a = p + D /\ chunk2mem(c) = c + D
        /\ CHUNK_OVERHEAD \in Nat /\ D * 8 - CHUNK_OVERHEAD <= 8
    BY <1>1, ChunkConstants DEF chunk2mem, mem2chunk
  <1> HIDE DEF s, nb, D, p
  <1>6. h[a] <= s * 8 - CHUNK_OVERHEAD
    BY <1>1, <1>2, <1>3, <1>4, <1>5
  <1>7. p + s <= c
    BY DEF p, s
  <1>8. a * 8 + h[a] <= (c + D) * 8 - CHUNK_OVERHEAD
    BY <1>1, <1>2, <1>5, <1>6, <1>7
  <1>9. c < SegEnd(m) => (c + D) * 8 - CHUNK_OVERHEAD <= SegEnd(m) * 8
    BY <1>2, <1>5
  <1> QED
    BY <1>1, <1>2, <1>5, <1>8, <1>9

(* Blocks lie apart, and within the memory.                                *)
LEMMA BlocksApart ==
  ASSUME NEW m \in MState, HeapOK(m), NEW h, NEW w \in Nat, Promised(m, h, w)
  PROVE  /\ \A a \in HeldBy(h) :
              /\ a \in Addr /\ a # 0 /\ h[a] \in Nat
              /\ a * 8 + h[a] <= chunk2mem(m.top) * 8
              /\ a * 8 + h[a] <= SegEnd(m) * 8
         /\ \A a, b \in HeldBy(h) :
              a # b => a * 8 + h[a] <= b * 8 \/ b * 8 + h[b] <= a * 8
  <1>1. /\ Shaped(m) /\ m.top \in Chunks(m) /\ m.top \notin m.tags.cin
        /\ m.top \in Addr /\ m.top < SegEnd(m) /\ m.top \in Heads(m.tags)
    BY HeapIsShaped, ChunkFacts DEF Shaped, TopIsFree, FreeChunks, Chunks
  <1>2. ASSUME NEW a \in HeldBy(h)
        PROVE  /\ mem2chunk(a) \in Chunks(m) /\ mem2chunk(a) \in Addr
               /\ mem2chunk(a) \in Heads(m.tags) /\ mem2chunk(a) # m.top
               /\ chunk2mem(mem2chunk(a)) = a /\ a \in Addr /\ a # 0 /\ h[a] \in Nat
               /\ mem2chunk(a) + m.tags.size[mem2chunk(a)] <= m.top
    <2> DEFINE p == mem2chunk(a)
    <2>1. p \in UserChunks(m) /\ chunk2mem(p) = a /\ a \in Addr /\ h[a] \in Nat
      BY HeldIsUsed DEF Promised, HeldBy, NotHeld
    <2> HIDE DEF p
    <2>2. p \in Chunks(m) /\ p # m.top /\ p \in Heads(m.tags)
      BY <1>1, <2>1 DEF UserChunks, Chunks
    <2>3. p \in Addr /\ p < SegEnd(m) /\ SegBase <= p
      BY <1>1, <2>2, ChunkFacts
    <2>4. a # 0
      BY <2>1, <2>3, MemOfChunk
    <2>5. ~(m.top < p)
      <3> SUFFICES ASSUME m.top < p PROVE FALSE
        OBVIOUS
      <3>1. m.top + m.tags.size[m.top] <= p /\ m.tags.size[m.top] = m.topsize
        BY <1>1, <2>2, ChunkFacts DEF Shaped, TopIsFree
      <3> QED
        BY <2>3, <3>1, HeapIsShaped DEF SegEnd
    <2>6. p + m.tags.size[p] <= m.top
      BY <1>1, <2>2, <2>3, <2>5, ChunkFacts
    <2> QED
      BY <2>1, <2>2, <2>3, <2>4, <2>6 DEF p
  <1>3. ASSUME NEW a \in HeldBy(h), NEW b \in HeldBy(h), a # b
        PROVE  a * 8 + h[a] <= b * 8 \/ b * 8 + h[b] <= a * 8
    <2>1. mem2chunk(a) # mem2chunk(b)
      BY <1>2, <1>3
    <2>2. /\ mem2chunk(a) \in Addr /\ mem2chunk(b) \in Addr
          /\ chunk2mem(mem2chunk(a)) = a /\ chunk2mem(mem2chunk(b)) = b
          /\ mem2chunk(a) < mem2chunk(b) =>
                mem2chunk(a) + m.tags.size[mem2chunk(a)] <= mem2chunk(b)
          /\ mem2chunk(b) < mem2chunk(a) =>
                mem2chunk(b) + m.tags.size[mem2chunk(b)] <= mem2chunk(a)
      BY <1>1, <1>2, ChunkFacts
    <2>3. CASE mem2chunk(a) < mem2chunk(b)
      BY <2>2, <2>3, BlockInChunk
    <2>4. CASE mem2chunk(b) < mem2chunk(a)
      BY <2>2, <2>4, BlockInChunk
    <2> QED
      BY <2>1, <2>2, <2>3, <2>4
  <1> QED
    BY <1>1, <1>2, <1>3, BlockInChunk

-----------------------------------------------------------------------------
(* A new mspace is well-formed: the malloc_state, top and the trailer.     *)
LEMMA InitIsOK ==
  /\ init_user_mstate \in MState /\ HeapOK(init_user_mstate)
  /\ UserChunks(init_user_mstate) = {} /\ ~init_user_mstate.aborted
  /\ FootEnds(init_user_mstate)
  /\ init_user_mstate.tags.size[SegBase] = MSTATE_SIZE
  /\ SegEnd(init_user_mstate) \in Nat
  <1> DEFINE g == init_user_mstate
             u == g.tags
             T == SegBase + MSTATE_SIZE
             I == InitTopSize
             F == T + I
             t0 == set_size_and_pinuse_of_inuse_chunk(ZeroTags, SegBase, MSTATE_SIZE)
             t1 == set_top_head(t0, T, I)
  <1>1. /\ SegBase \in Addr /\ T \in Addr /\ F \in Addr /\ SegBase < T /\ T < F
        /\ MSTATE_SIZE \in Nat /\ I \in Nat \ {0} /\ MSTATE_SIZE > 0
        /\ TOP_FOOT_SIZE \in Nat \ {0} /\ SegBase \in Nat \ {0}
        /\ MSTATE_SIZE >= MIN_CHUNK_SIZE
    BY ChunkConstants
  <1>2. t0 \in Tags /\ t1 \in Tags
    <2>1. ZeroTags \in Tags
      BY DEF ZeroTags, Tags
    <2> HIDE DEF I
    <2>2. t0 \in Tags
      BY <1>1, <2>1, MacroTypes
    <2> HIDE DEF t0, T
    <2> QED
      BY <1>1, <2>2, MacroTypes
  <1> DEFINE m0 == [tags |-> t0,
                    bins |-> init_bins, top |-> 0, topsize |-> 0, dv |-> 0, dvsize |-> 0,
                    exts |-> 0, seg_size |-> MSTATE_SIZE + InitTopSize + TOP_FOOT_SIZE,
                    trim_check |-> 0, release_checks |-> MAX_RELEASE_CHECK_RATE,
                    aborted |-> FALSE]
  <1>3. g = [m0 EXCEPT !.tags = set_trailer(set_top_head(@, T, I), T + I),
                       !.top = T, !.topsize = I, !.trim_check = TRIM_THRESHOLD]
    BY DEF init_user_mstate, init_top
  <1>4. /\ g.top = T /\ g.topsize = I /\ g.dv = 0 /\ g.dvsize = 0 /\ g.bins = init_bins
        /\ ~g.aborted /\ g.seg_size = MSTATE_SIZE + I + TOP_FOOT_SIZE
        /\ u = set_trailer(t1, F) /\ g \in MState
    <2>1. set_trailer(t1, F) \in Tags
      BY <1>1, <1>2 DEF set_trailer, Tags
    <2>2. init_bins \in BinSet
      BY DEF init_bins, BinSet
    <2>3. 0 \in 0 .. MAX_SIZE_T
      BY DEF MAX_SIZE_T
    <2>4. MAX_RELEASE_CHECK_RATE \in 1 .. MAX_RELEASE_CHECK_RATE
      OBVIOUS
    <2>5. g = [tags |-> set_trailer(t1, F),
               bins |-> init_bins, top |-> T, topsize |-> I, dv |-> 0, dvsize |-> 0,
               exts |-> 0, seg_size |-> MSTATE_SIZE + InitTopSize + TOP_FOOT_SIZE,
               trim_check |-> TRIM_THRESHOLD, release_checks |-> MAX_RELEASE_CHECK_RATE,
               aborted |-> FALSE]
      BY <1>3
    <2> HIDE DEF g, t1, F, T
    <2> QED
      BY <1>1, <2>1, <2>2, <2>3, <2>4, <2>5 DEF MState
  <1> HIDE DEF g
  <1>5. SegEnd(g) = F
    BY <1>4 DEF SegEnd
  <1>6. /\ \A a \in Addr : u.size[a] = IF a = F THEN TOP_FOOT_SIZE
                                      ELSE IF a = T THEN I
                                      ELSE IF a = SegBase THEN MSTATE_SIZE ELSE 0
        /\ u.cin = {SegBase} /\ u.pin = {SegBase, T}
    <2>1. /\ t0.cin = {SegBase} /\ t0.pin = {SegBase}
          /\ \A a \in Addr : t0.size[a] = IF a = SegBase THEN MSTATE_SIZE ELSE 0
      BY DEF set_size_and_pinuse_of_inuse_chunk, ZeroTags, HeadWritten
    <2> HIDE DEF t0
    <2>2. SegBase \notin Body(T, I) /\ F \notin Body(T, I)
      BY <1>1 DEF Body
    <2>3. /\ t1.cin = {SegBase} /\ t1.pin = {SegBase, T}
          /\ \A a \in Addr : t1.size[a] = IF a = T THEN I
                                        ELSE IF a = SegBase THEN MSTATE_SIZE ELSE 0
      BY <1>1, <2>1, <2>2 DEF set_top_head, HeadWritten
    <2> HIDE DEF t1
    <2>4. t1.size \in [Addr -> Nat]
      BY <1>2 DEF Tags
    <2>5. /\ u.size = [t1.size EXCEPT ![F] = TOP_FOOT_SIZE]
          /\ u.cin = t1.cin \ {F} /\ u.pin = t1.pin \ {F}
      BY <1>4 DEF set_trailer
    <2>6. u.cin = {SegBase} /\ u.pin = {SegBase, T}
      BY <1>1, <2>3, <2>5
    <2>7. ASSUME NEW a \in Addr
          PROVE  u.size[a] = IF a = F THEN TOP_FOOT_SIZE ELSE t1.size[a]
      BY <2>4, <2>5
    <2> HIDE DEF u
    <2> QED
      BY <2>3, <2>6, <2>7
  <1> HIDE DEF u
  <1>7. Heads(u) = {SegBase, T, F}
    BY <1>1, <1>6 DEF Heads
  <1>8. Chunks(g) = {SegBase, T}
    BY <1>1, <1>5, <1>7 DEF Chunks, u
  <1>9. FreeChunks(g) = {T} /\ UserChunks(g) = {} /\ Binned(g) = {}
    BY <1>1, <1>4, <1>6, <1>8 DEF FreeChunks, UserChunks, Binned, u
  <1>10. /\ u.size[SegBase] = MSTATE_SIZE /\ u.size[T] = I
         /\ SegBase + u.size[SegBase] = T /\ T + u.size[T] = F
    BY <1>1, <1>6
  <1>11. Tiles(g)
    <2>1. \A a \in {SegBase, T} : /\ a + u.size[a] \in {SegBase, T, F}
                                  /\ Body(a, u.size[a]) \cap {SegBase, T, F} = {}
      BY <1>1, <1>10 DEF Body
    <2>2. \A a \in {SegBase, T, F} \ {SegBase} : \E c \in {SegBase, T} : c + u.size[c] = a
      BY <1>10
    <2>3. \A a \in {SegBase, T, F} : SegBase <= a /\ a <= F
      BY <1>1
    <2>4. u.size[SegBase] >= MIN_CHUNK_SIZE
      BY <1>1, <1>10
    <2> QED
      BY <1>4, <1>5, <1>7, <1>8, <2>1, <2>2, <2>3, <2>4 DEF Tiles, u
  <1>12. TagsAgree(g)
    <2>1. F \notin u.pin /\ T \in u.pin /\ SegBase \in u.cin /\ T \notin u.cin
      BY <1>1, <1>6
    <2>2. \A a \in {SegBase, T} : (a + u.size[a] \in u.pin) <=> (a \in u.cin)
      BY <1>10, <2>1
    <2> QED
      BY <1>4, <1>6, <1>8, <1>9, <2>2 DEF TagsAgree, u
  <1>13. Coalesced(g) /\ TopIsFree(g) /\ DvIsFree(g)
    BY <1>1, <1>4, <1>6, <1>9, <1>10 DEF Coalesced, TopIsFree, DvIsFree, u
  <1>14. HoldExactly(g.bins, Binned(g), u.size)
    BY <1>4, <1>9 DEF HoldExactly, init_bins
  <1>15. HeapOK(g)
    BY <1>11, <1>12, <1>13, <1>14 DEF HeapOK, u
  <1>16. FootEnds(g)
    <2>1. F + TOP_FOOT_SIZE = SegBase + (MSTATE_SIZE + I + TOP_FOOT_SIZE)
      BY <1>1
    <2> QED
      BY <1>4, <1>5, <2>1 DEF FootEnds
  <1> QED
    BY <1>1, <1>4, <1>5, <1>9, <1>10, <1>15, <1>16 DEF g, u

(* The invariant holds of a new mspace, of which nothing is held.          *)
LEMMA InitIInv ==
  ASSUME Init
  PROVE  IInv
  <1>1. held = [a \in Addr |-> NotHeld] /\ ms = init_user_mstate
    BY DEF Init
  <1>2. HeldBy(held) = {}
    BY <1>1 DEF HeldBy
  <1>3. Promised(ms, held, MIN_CHUNK_SIZE)
    BY <1>1, <1>2, InitIsOK DEF Promised
  <1> QED
    BY <1>1, <1>3, InitIsOK DEF IInv, HeapInv

-----------------------------------------------------------------------------
(* What is got lies apart from every other block, within the memory.       *)
LEMMA GotApart ==
  ASSUME NEW m2 \in MState, HeapOK(m2), NEW h \in [Addr -> Nat \cup {NotHeld}],
         NEW a \in Addr, NEW b \in Addr, NEW bytes \in Nat, NEW w \in Nat,
         Promised(m2, [h EXCEPT ![a] = NotHeld, ![b] = bytes], w)
  PROVE  /\ b # 0 /\ b * 8 + bytes <= SegEnd(m2) * 8
         /\ \A x \in HeldBy(h) \ {a, b} : b * 8 + bytes <= x * 8 \/ x * 8 + h[x] <= b * 8
  <1> DEFINE h2 == [h EXCEPT ![a] = NotHeld, ![b] = bytes]
  <1>1. /\ h2[b] = bytes /\ bytes # NotHeld
        /\ \A x \in Addr \ {a, b} : h2[x] = h[x]
    BY DEF NotHeld
  <1> HIDE DEF h2
  <1>2. b \in HeldBy(h2) /\ \A x \in HeldBy(h) \ {a, b} : x \in HeldBy(h2) /\ h2[x] = h[x]
    BY <1>1 DEF HeldBy
  <1>3. Promised(m2, h2, w)
    BY DEF h2
  <1> QED
    BY <1>1, <1>2, <1>3, BlocksApart

(* What the abstract heap calls in use is what is held.                    *)
LEMMA InUseIsHeld == Heap!InUse = HeldBy(held)
  BY DEF Heap!InUse, Heap!None, HeldBy, NotHeld

(* m2 is m but for the chunk p, which was not in use and now is, with at   *)
(* least nb granules and less than w more.                                 *)
GivenOut(m, p, nb, w, m2) ==
  /\ m2 \in MState /\ HeapOK(m2) /\ SegEnd(m2) = SegEnd(m)
  /\ m2.aborted = m.aborted /\ m2.seg_size = m.seg_size
  /\ p \notin UserChunks(m) /\ UserChunks(m2) = UserChunks(m) \cup {p}
  /\ \A a \in UsedChunks(m) : m2.tags.size[a] = m.tags.size[a]
  /\ m2.tags.size[p] >= nb /\ m2.tags.size[p] < nb + w
  /\ CountKept(m, m2)

(* When blocks that were held stay, the others have been given out, each   *)
(* where nothing else was.                                                 *)
LEMMA NewBlocksApart ==
  ASSUME NEW w \in Nat, HeapInv(w), HeapInv(w)', SegEnd(ms') = SegEnd(ms),
         \A a \in HeldBy(held) : held'[a] = held[a]
  PROVE  HeapStep
  <1> DEFINE S == {a \in Addr : held'[a] # held[a]}
  <1>1. /\ held \in [Addr -> Nat \cup {NotHeld}] /\ held' \in [Addr -> Nat \cup {NotHeld}]
        /\ ms' \in MState /\ HeapOK(ms') /\ Promised(ms', held', w)
    BY DEF HeapInv, Promised
  <1>2. /\ \A a \in HeldBy(held') :
             /\ a \in Addr /\ a # 0 /\ held'[a] \in Nat
             /\ a * 8 + held'[a] <= SegEnd(ms') * 8
        /\ \A a, b \in HeldBy(held') :
             a # b => a * 8 + held'[a] <= b * 8 \/ b * 8 + held'[b] <= a * 8
    BY <1>1, BlocksApart
  <1>3. \A a \in S : a \in HeldBy(held') /\ a \notin HeldBy(held) /\ held'[a] # Heap!None
    BY <1>1 DEF HeldBy, Heap!None, NotHeld
  <1>4. \A b \in HeldBy(held) : b \in HeldBy(held') /\ held'[b] = held[b]
    BY DEF HeldBy
  <1>5. ASSUME NEW a \in S
        PROVE  Heap!Disjoint(a, held'[a], Heap!InUse) /\ Heap!Fits(a, held'[a])
    <2>1. a \in HeldBy(held') /\ a \notin HeldBy(held)
      BY <1>3
    <2>2. \A b \in HeldBy(held) :
            a # b /\ (a * 8 + held'[a] <= b * 8 \/ b * 8 + held[b] <= a * 8)
      BY <1>2, <1>4, <2>1
    <2> HIDE DEF S
    <2>3. Heap!Disjoint(a, held'[a], Heap!InUse)
      BY <2>2, InUseIsHeld, ChunkConstants DEF Heap!Disjoint
    <2>4. Heap!Fits(a, held'[a])
      BY <1>2, <2>1, SegEnd(ms') = SegEnd(ms), ChunkConstants DEF Heap!Fits
    <2> QED
      BY <2>3, <2>4
  <1>6. held' = [a \in Addr |-> IF a \in S THEN held'[a] ELSE held[a]]
    BY <1>1
  <1>7. \A a, b \in S : a # b => \/ a * MALLOC_ALIGNMENT + held'[a] <= b * MALLOC_ALIGNMENT
                               \/ b * MALLOC_ALIGNMENT + held'[b] <= a * MALLOC_ALIGNMENT
    BY <1>2, <1>3, ChunkConstants
  <1>8. Heap!Allocate(S)
    <2> HIDE DEF S
    <2> QED
      BY <1>3, <1>5, <1>6, <1>7 DEF Heap!Allocate
  <1> QED
    BY <1>8 DEF HeapStep, Heap!Next

(* The caller holds it from now on.                                        *)
LEMMA GivenKeeps ==
  ASSUME NEW w \in Nat, HeapInv(w), NEW bytes \in Nat, NEW p,
         GivenOut(ms, p, request2size(bytes), w, ms'),
         held' = [held EXCEPT ![chunk2mem(p)] = bytes]
  PROVE  HeapInv(w)' /\ HeapStep
  <1> DEFINE nb == request2size(bytes)
             mem == chunk2mem(p)
  <1>1. /\ ms \in MState /\ HeapOK(ms) /\ ~ms.aborted /\ Promised(ms, held, w) /\ FootEnds(ms)
        /\ ms.tags.size[SegBase] = MSTATE_SIZE
    BY DEF HeapInv
  <1>2. /\ ms' \in MState /\ HeapOK(ms') /\ SegEnd(ms') = SegEnd(ms)
        /\ ms'.aborted = ms.aborted /\ ms'.seg_size = ms.seg_size
        /\ p \notin UserChunks(ms) /\ UserChunks(ms') = UserChunks(ms) \cup {p}
        /\ \A a \in UsedChunks(ms) : ms'.tags.size[a] = ms.tags.size[a]
        /\ ms'.tags.size[p] >= nb /\ ms'.tags.size[p] < nb + w
    BY DEF GivenOut
  <1>3. nb >= MIN_CHUNK_SIZE /\ nb \in Nat
    BY RequestFits
  <1>4. mem \in Addr /\ mem # 0 /\ mem2chunk(mem) = p
    <2>1. p \in Chunks(ms') /\ p \in Addr
      BY <1>2, HeapIsShaped, ChunkFacts DEF UserChunks
    <2>2. ms'.tags.size[p] \in Nat
      BY <1>2, <2>1, HeapIsShaped, ChunkFacts
    <2>3. ms'.tags.size[p] >= nb
      BY <1>2
    <2> HIDE DEF nb
    <2>4. ms'.tags.size[p] >= MIN_CHUNK_SIZE
      BY <1>3, <2>2, <2>3, ChunkConstants
    <2> QED
      BY <1>2, <2>1, <2>4, MemInSegment
  <1> HIDE DEF mem
  <1>5. held \in [Addr -> Nat \cup {NotHeld}] /\ held' = [held EXCEPT ![mem] = bytes]
    BY <1>1 DEF Promised, mem
  <1>6. held[mem] = NotHeld
    <2> SUFFICES ASSUME held[mem] # NotHeld PROVE FALSE
      OBVIOUS
    <2> QED
      BY <1>2, <1>1, <1>4, HeldIsUsed DEF HeldBy
  <1>7. held' = [held EXCEPT ![mem] = NotHeld, ![mem] = bytes]
    BY <1>4, <1>5
  <1>8. Promised(ms', held', w)
    <2>1. UserChunks(ms') = (UserChunks(ms) \ {mem2chunk(mem)}) \cup {mem2chunk(mem)}
      BY <1>2, <1>4
    <2> HIDE DEF nb
    <2>2. /\ \A c \in UserChunks(ms) \ {mem2chunk(mem), mem2chunk(mem)} :
                ms'.tags.size[c] = ms.tags.size[c]
          /\ ms'.tags.size[mem2chunk(mem)] >= request2size(bytes)
          /\ ms'.tags.size[mem2chunk(mem)] < request2size(bytes) + w
      BY <1>2, <1>4 DEF UsedChunks, nb
    <2>3. Promised(ms, held, w) /\ mem \in Addr /\ w \in Nat /\ bytes \in Nat
      BY <1>1, <1>4
    <2>4. Promised(ms', [held EXCEPT ![mem] = NotHeld, ![mem] = bytes], w)
      BY ONLY <2>1, <2>2, <2>3, PromiseMoves
    <2> QED
      BY <1>7, <2>4
  <1>9. ~ms'.aborted /\ FootEnds(ms') /\ ms'.tags.size[SegBase] = MSTATE_SIZE
    BY <1>2, <1>1 DEF FootEnds, UsedChunks
  <1>10. HeapInv(w)'
    BY <1>2, <1>8, <1>9 DEF HeapInv
  <1>11. \A a \in HeldBy(held) : held'[a] = held[a]
    BY <1>5, <1>6 DEF HeldBy
  <1> QED
    BY <1>2, <1>10, <1>11, NewBlocksApart

(* A result of a routine that allocates: NULL, and nothing has changed, or *)
(* a block of nb granules.                                                 *)
Got(m, nb, w, r) ==
  \/ r.mem = 0 /\ r.ms = m
  \/ \E p \in Addr : r.mem = chunk2mem(p) /\ GivenOut(m, p, nb, w, r.ms)

(* A call that returns it is a step of the heap.                           *)
LEMMA GotKeeps ==
  ASSUME NEW w \in Nat, HeapInv(w), NEW bytes \in Nat, NEW r,
         Got(ms, request2size(bytes), w, r), ms' = r.ms,
         held' = IF r.mem = 0 THEN held ELSE [held EXCEPT ![r.mem] = bytes]
  PROVE  HeapInv(w)' /\ HeapStep
  <1>1. CASE r.mem = 0 /\ r.ms = ms
    BY <1>1 DEF HeapInv, HeapStep
  <1>2. ASSUME NEW p \in Addr, r.mem = chunk2mem(p),
               GivenOut(ms, p, request2size(bytes), w, r.ms)
        PROVE  HeapInv(w)' /\ HeapStep
    <2>1. chunk2mem(p) # 0
      BY ChunkConstants DEF chunk2mem
    <2>2. held' = [held EXCEPT ![chunk2mem(p)] = bytes]
      BY <1>2, <2>1
    <2>3. GivenOut(ms, p, request2size(bytes), w, ms')
      BY <1>2
    <2> QED
      BY <2>2, <2>3, GivenKeeps
  <1> QED
    BY <1>1, <1>2 DEF Got

(* What mspace_malloc returns.                                             *)
LEMMA MallocGets ==
  ASSUME NEW m \in MState, HeapOK(m), NEW bytes \in Nat, NEW r \in Malloc(m, bytes),
         NEW w \in Nat, w >= MIN_CHUNK_SIZE
  PROVE  Got(m, request2size(bytes), w, r)
  <1> DEFINE nb == request2size(bytes)
  <1>1. MallocOK(m, nb, r) /\ nb \in Nat
    BY MallocIsOK, RequestFits
  <1>2. ASSUME NEW p \in FreeChunks(m), r.mem = chunk2mem(p), r.ms \in MState,
               Served(m, p, nb, r.ms), CountKept(m, r.ms),
               r.ms.aborted = m.aborted, r.ms.seg_size = m.seg_size
        PROVE  p \in Addr /\ GivenOut(m, p, nb, w, r.ms)
    <2>1. p \notin UserChunks(m) /\ p \in Addr
      BY HeapIsShaped, ChunkFacts DEF FreeChunks, UserChunks
    <2>2. r.ms.tags.size[p] \in Nat
      BY <1>2, <2>1 DEF MState, Tags
    <2> HIDE DEF nb
    <2>3. r.ms.tags.size[p] < nb + w
      BY <1>1, <1>2, <2>2, ChunkConstants DEF Served
    <2> QED
      BY <1>2, <2>1, <2>3 DEF Served, GivenOut
  <1> QED
    BY <1>1, <1>2 DEF MallocOK, Got

(* mspace_malloc gives the caller a block that was free, or changes        *)
(* nothing.                                                                *)
LEMMA MallocKeeps ==
  ASSUME NEW w \in Nat, w >= MIN_CHUNK_SIZE, HeapInv(w), NEW bytes \in Nat,
         mspace_malloc(bytes)
  PROVE  HeapInv(w)' /\ HeapStep
  <1>1. ms \in MState /\ HeapOK(ms)
    BY DEF HeapInv
  <1>2. PICK r \in Malloc(ms, bytes) :
          /\ ms' = r.ms
          /\ held' = IF r.mem = 0 THEN held ELSE [held EXCEPT ![r.mem] = bytes]
    BY DEF mspace_malloc
  <1>3. Got(ms, request2size(bytes), w, r)
    BY <1>1, MallocGets
  <1> QED
    BY <1>2, <1>3, GotKeeps

(* mspace_free takes back a block that is held.                            *)
LEMMA FreeKeeps ==
  ASSUME NEW w \in Nat, w >= MIN_CHUNK_SIZE, HeapInv(w), NEW mem \in Addr, mspace_free(mem)
  PROVE  HeapInv(w)' /\ HeapStep
  <1>1. /\ ms \in MState /\ HeapOK(ms) /\ ~ms.aborted /\ Promised(ms, held, w) /\ FootEnds(ms)
        /\ ms.tags.size[SegBase] = MSTATE_SIZE
    BY DEF HeapInv
  <1>2. /\ held[mem] # NotHeld /\ ms' = Free(ms, mem)
        /\ held' = [held EXCEPT ![mem] = NotHeld]
    BY DEF mspace_free, Held
  <1> DEFINE p == mem2chunk(mem)
  <1>3. p \in UserChunks(ms) /\ chunk2mem(p) = mem
    BY <1>1, <1>2, HeldIsUsed DEF HeldBy
  <1>4. Freed(ms, p, ms')
    <2> HIDE DEF p
    <2> QED
      BY <1>1, <1>2, <1>3, FreeOK
  <1>5. Promised(ms', held', w)
    <2>1. /\ UserChunks(ms') = UserChunks(ms) \ {p}
          /\ \A c \in UserChunks(ms') : ms'.tags.size[c] = ms.tags.size[c]
      BY <1>4 DEF Freed, UsedChunks
    <2>2. Promised(ms, held, w) /\ held[mem] # NotHeld
      BY <1>1, <1>2
    <2>3. Promised(ms', [held EXCEPT ![mem] = NotHeld], w)
      BY <2>1, <2>2, PromiseEnds
    <2> QED
      BY <1>2, <2>3
  <1>6. ms'.tags.size[SegBase] = MSTATE_SIZE /\ SegEnd(ms') = SegEnd(ms)
    BY <1>1, <1>4 DEF Freed, UsedChunks
  <1>7. Heap!Release(mem)
    BY <1>2, <1>6 DEF Heap!Release, Heap!InUse, Heap!None, NotHeld
  <1>8. HeapInv(w)'
    BY <1>1, <1>4, <1>5, <1>6 DEF Freed, HeapInv, FootEnds
  <1> QED
    BY <1>7, <1>8 DEF HeapStep, Heap!Next

(* mspace_realloc resizes a block that is held, moves it, or leaves all as *)
(* it is.                                                                  *)
LEMMA ReallocKeeps ==
  ASSUME NEW w \in Nat, w >= MIN_CHUNK_SIZE, HeapInv(w), NEW oldmem \in Addr, NEW bytes \in Nat, mspace_realloc(oldmem, bytes)
  PROVE  HeapInv(w)' /\ HeapStep
  <1>1. /\ ms \in MState /\ HeapOK(ms) /\ ~ms.aborted /\ Promised(ms, held, w) /\ FootEnds(ms)
        /\ ms.tags.size[SegBase] = MSTATE_SIZE
    BY DEF HeapInv
  <1>2. PICK r \in internal_realloc(ms, oldmem, bytes) :
          /\ held[oldmem] # NotHeld /\ ms' = r.ms
          /\ held' = IF r.mem = 0 THEN held
                     ELSE [held EXCEPT ![oldmem] = NotHeld, ![r.mem] = bytes]
    BY DEF mspace_realloc, Held
  <1> DEFINE p == mem2chunk(oldmem)
             nb == request2size(bytes)
  <1>3. p \in UserChunks(ms) /\ chunk2mem(p) = oldmem
    BY <1>1, <1>2, HeldIsUsed DEF HeldBy
  <1>4. ReallocOK(ms, p, nb, r) /\ nb >= MIN_CHUNK_SIZE /\ nb \in Nat
    <2>1. nb >= MIN_CHUNK_SIZE /\ nb \in Nat
      BY RequestFits
    <2> HIDE DEF p
    <2>2. r \in internal_realloc(ms, chunk2mem(p), bytes)
      BY <1>3
    <2> QED
      BY <1>1, <1>3, <2>1, <2>2, ReallocIsOK
  <1>5. CASE r.mem = 0 /\ r.ms = ms
    BY <1>1, <1>2, <1>5 DEF HeapInv, HeapStep
  <1>6. ASSUME NEW p2 \in FreeChunks(ms) \cup {p}, r.mem = chunk2mem(p2),
               Resized(ms, p, p2, nb, r.ms)
        PROVE  HeapInv(w)' /\ HeapStep
    <2>1. /\ HeapOK(ms') /\ SegEnd(ms') = SegEnd(ms) /\ ms' \in MState
          /\ ms'.aborted = ms.aborted /\ ms'.seg_size = ms.seg_size
          /\ UserChunks(ms') = (UserChunks(ms) \ {p}) \cup {p2}
          /\ \A a \in UserChunks(ms) \ {p} : ms'.tags.size[a] = ms.tags.size[a]
          /\ ms'.tags.size[p2] >= nb /\ ms'.tags.size[p2] < nb + w
      <3>1. p2 \in Addr
        BY <1>1, <1>3, <1>6, HeapIsShaped, ChunkFacts DEF UserChunks, FreeChunks
      <3>2. r.ms.tags.size[p2] \in Nat
        BY <1>6, <3>1 DEF Resized, MState, Tags
      <3> HIDE DEF nb
      <3>3. r.ms.tags.size[p2] < nb + w
        BY <1>4, <1>6, <3>2, ChunkConstants DEF Resized
      <3> QED
        BY <1>2, <1>6, <3>3 DEF Resized, UsedChunks
    <2>2. r.mem \in Addr /\ r.mem # 0 /\ mem2chunk(r.mem) = p2
      <3>1. p2 \in Chunks(ms')
        BY <2>1 DEF UserChunks
      <3>2. ms'.tags.size[p2] \in Nat
        BY <2>1, <3>1, HeapIsShaped, ChunkFacts
      <3>3. ms'.tags.size[p2] >= MIN_CHUNK_SIZE
        <4> HIDE DEF nb
        <4> QED
          BY <1>4, <2>1, <3>2, ChunkConstants
      <3> QED
        BY <1>6, <2>1, <3>1, <3>3, MemInSegment
    <2>4. held' = [held EXCEPT ![oldmem] = NotHeld, ![r.mem] = bytes]
      BY <1>2, <2>2
    <2>5. Promised(ms', held', w)
      <3>1. UserChunks(ms') = (UserChunks(ms) \ {mem2chunk(oldmem)}) \cup {mem2chunk(r.mem)}
        BY <2>1, <2>2
      <3> HIDE DEF nb
      <3>2. /\ \A c \in UserChunks(ms) \ {mem2chunk(oldmem), mem2chunk(r.mem)} :
                  ms'.tags.size[c] = ms.tags.size[c]
            /\ ms'.tags.size[mem2chunk(r.mem)] >= request2size(bytes)
            /\ ms'.tags.size[mem2chunk(r.mem)] < request2size(bytes) + w
        BY <2>1, <2>2 DEF nb
      <3> QED
        BY <1>1, <2>2, <2>4, <3>1, <3>2, PromiseMoves
    <2>6. ~ms'.aborted /\ FootEnds(ms')
      BY <1>1, <2>1 DEF FootEnds
    <2>7. ms'.tags.size[SegBase] = MSTATE_SIZE
      BY <1>1, <1>2, <1>3, <1>6 DEF Resized, UsedChunks, UserChunks
    <2>8. Heap!Resize(oldmem, r.mem, held'[r.mem]) /\ held'[r.mem] # Heap!None
      <3>1. held \in [Addr -> Nat \cup {NotHeld}] /\ oldmem \in HeldBy(held)
        BY <1>1, <1>2 DEF Promised, HeldBy
      <3>2. /\ held'[r.mem] = bytes /\ r.mem \in HeldBy(held')
            /\ held' = [held EXCEPT ![oldmem] = NotHeld, ![r.mem] = held'[r.mem]]
        <4>1. held'[r.mem] = bytes
          BY <2>2, <2>4, <3>1
        <4>2. bytes # NotHeld
          BY DEF NotHeld
        <4> QED
          BY <2>2, <2>4, <4>1, <4>2 DEF HeldBy
      <3>3. /\ r.mem * 8 + bytes <= SegEnd(ms') * 8
            /\ \A x \in HeldBy(held) \ {oldmem, r.mem} :
                 r.mem * 8 + bytes <= x * 8 \/ x * 8 + held[x] <= r.mem * 8
        BY <2>1, <2>2, <2>4, <2>5, <3>1, GotApart
      <3>4. r.mem # oldmem =>
              /\ r.mem \notin HeldBy(held)
              /\ r.mem * 8 + bytes <= oldmem * 8 \/ oldmem * 8 + held[oldmem] <= r.mem * 8
        <4> SUFFICES ASSUME r.mem # oldmem
                     PROVE  /\ r.mem \notin HeldBy(held)
                            /\ \/ r.mem * 8 + bytes <= oldmem * 8
                               \/ oldmem * 8 + held[oldmem] <= r.mem * 8
          OBVIOUS
        <4>1. p2 # p /\ p2 \in FreeChunks(ms)
          BY <1>3, <1>6
        <4>2. r.mem \notin HeldBy(held)
          BY <1>1, <1>6, <2>2, <4>1, HeldIsUsed DEF HeldBy
        <4>3. p \in Addr /\ p2 \in Addr
          BY <1>1, <1>3, <4>1, HeapIsShaped, ChunkFacts DEF FreeChunks, UserChunks
        <4> HIDE DEF p
        <4>4. CASE p2 + ms'.tags.size[p2] <= p
          <5>1. r.mem * 8 + held'[r.mem] <= chunk2mem(p) * 8
            BY <2>1, <2>2, <2>5, <3>2, <4>3, <4>4, BlockInChunk
          <5> QED
            BY <1>3, <3>2, <4>2, <5>1
        <4>5. CASE p + ms.tags.size[p] <= p2
          <5>1. oldmem * 8 + held[oldmem] <= chunk2mem(p2) * 8
            BY <1>1, <3>1, <4>3, <4>5, BlockInChunk DEF p
          <5> QED
            BY <1>6, <4>2, <5>1
        <4> QED
          BY <1>2, <1>6, <4>1, <4>4, <4>5 DEF Resized
      <3>5. /\ Heap!Disjoint(r.mem, bytes, IF oldmem = r.mem THEN Heap!InUse \ {oldmem}
                                           ELSE Heap!InUse)
            /\ Heap!Fits(r.mem, bytes)
        BY <2>1, <2>2, <3>3, <3>4, InUseIsHeld, ChunkConstants DEF Heap!Disjoint, Heap!Fits
      <3> QED
        BY <2>1, <3>1, <3>2, <3>5, InUseIsHeld DEF Heap!Resize, Heap!None, NotHeld
    <2> QED
      BY <2>1, <2>2, <2>5, <2>6, <2>7, <2>8 DEF HeapInv, HeapStep, Heap!Next
  <1>7. CASE r.mem = chunk2mem(p) /\ Resized(ms, p, p, nb, r.ms)
    BY <1>6, <1>7
  <1> QED
    BY <1>4, <1>5, <1>6, <1>7 DEF ReallocOK

(* mspace_trim changes no chunk.                                           *)
LEMMA TrimStepKeeps ==
  ASSUME NEW w \in Nat, w >= MIN_CHUNK_SIZE, HeapInv(w), NEW pad, mspace_trim(pad)
  PROVE  HeapInv(w)' /\ HeapStep
  <1>1. /\ ms \in MState /\ HeapOK(ms) /\ ~ms.aborted /\ Promised(ms, held, w) /\ FootEnds(ms)
        /\ ms.tags.size[SegBase] = MSTATE_SIZE
    BY DEF HeapInv
  <1>2. /\ ms' \in MState /\ Bookkeeping(ms, ms') /\ SameSegment(ms, ms')
        /\ ms'.dv = ms.dv /\ ms'.dvsize = ms.dvsize /\ ms'.bins = ms.bins
        /\ held' = held
    BY <1>1, TrimKeeps DEF mspace_trim
  <1>3. /\ HeapOK(ms') /\ UserChunks(ms') = UserChunks(ms) /\ SegEnd(ms') = SegEnd(ms)
    BY <1>1, <1>2, SameHeap DEF SameSegment
  <1>4. Promised(ms', held', w)
    BY <1>1, <1>2, <1>3 DEF Promised, SameSegment
  <1> QED
    BY <1>1, <1>2, <1>3, <1>4 DEF HeapInv, FootEnds, Bookkeeping, SameSegment, HeapStep

(* mspace_inc_size changes no block.                                       *)
LEMMA GrowKeeps ==
  ASSUME NEW w \in Nat, w >= MIN_CHUNK_SIZE, HeapInv(w), NEW inc \in Nat, mspace_inc_size(inc)
  PROVE  HeapInv(w)' /\ HeapStep
  <1>1. /\ ms \in MState /\ HeapOK(ms) /\ ~ms.aborted /\ Promised(ms, held, w) /\ FootEnds(ms)
        /\ ms.tags.size[SegBase] = MSTATE_SIZE
    BY DEF HeapInv
  <1>2. /\ SegEnd(ms) \in Nat /\ ms.seg_size \in Nat /\ TOP_FOOT_SIZE \in Nat
        /\ SegBase \in Nat
    BY <1>1, HeapIsShaped, ChunkFacts DEF MState
  <1>3. SegEnd(ms) + inc <= AddrMax /\ ms' = Grown(ms, inc) /\ held' = held
    <2>1. /\ SegBase + ms.seg_size - TOP_FOOT_SIZE + inc <= AddrMax
          /\ ms' = Grown(ms, inc) /\ held' = held
      BY DEF mspace_inc_size
    <2>2. SegEnd(ms) + TOP_FOOT_SIZE = SegBase + ms.seg_size
      BY <1>1 DEF FootEnds
    <2> QED
      BY <1>2, <2>1, <2>2
  <1>4. /\ ms' \in MState /\ HeapOK(ms')
        /\ ms'.aborted = ms.aborted /\ ms'.seg_size = ms.seg_size + inc
        /\ SegEnd(ms') = SegEnd(ms) + inc /\ UserChunks(ms') = UserChunks(ms)
        /\ \A a \in UserChunks(ms) : ms'.tags.size[a] = ms.tags.size[a]
    BY <1>1, <1>3, GrownOK DEF UsedChunks
  <1>5. Promised(ms', held', w)
    <2>1. \A a \in HeldBy(held) : mem2chunk(a) \in UserChunks(ms)
      BY <1>1, HeldIsUsed
    <2> QED
      BY <1>1, <1>3, <1>4, <2>1 DEF Promised
  <1>6. FootEnds(ms')
    BY <1>1, <1>2, <1>4 DEF FootEnds
  <1>7. ms'.tags.size[SegBase] = MSTATE_SIZE
    BY <1>1, <1>3, GrownOK DEF UsedChunks
  <1>8. HeapStep
    <2>1. CASE inc = 0
      BY <1>2, <1>3, <1>4, <2>1 DEF HeapStep
    <2>2. CASE inc # 0
      <3>1. Heap!Extend
        BY <1>2, <1>3, <1>4, <2>2 DEF Heap!Extend
      <3> QED
        BY <3>1 DEF HeapStep, Heap!Next
    <2> QED
      BY <2>1, <2>2
  <1> QED
    BY <1>1, <1>4, <1>5, <1>6, <1>7, <1>8 DEF HeapInv

(* Every call keeps the invariant and is a step of the abstract heap.      *)
LEMMA StepKeepsHeapInv ==
  ASSUME NEW w \in Nat, w >= MIN_CHUNK_SIZE, HeapInv(w), [Next]_vars
  PROVE  HeapInv(w)' /\ HeapStep
  <1>1. CASE UNCHANGED vars
    <2>1. ms' = ms /\ held' = held
      BY <1>1 DEF vars
    <2> QED
      BY <2>1 DEF HeapInv, HeapStep
  <1>2. ASSUME NEW bytes \in MallocSizes, mspace_malloc(bytes) PROVE HeapInv(w)' /\ HeapStep
    BY <1>2, RequestsAssumption, MallocKeeps
  <1>3. ASSUME NEW mem \in Addr, mspace_free(mem) PROVE HeapInv(w)' /\ HeapStep
    BY <1>3, FreeKeeps
  <1>4. ASSUME NEW mem \in Addr, NEW bytes \in ReallocSizes, mspace_realloc(mem, bytes)
        PROVE  HeapInv(w)' /\ HeapStep
    BY <1>4, RequestsAssumption, ReallocKeeps
  <1>5. ASSUME NEW pad \in TrimPads, mspace_trim(pad) PROVE HeapInv(w)' /\ HeapStep
    BY <1>5, TrimStepKeeps
  <1>6. ASSUME NEW inc \in GrowSizes, mspace_inc_size(inc) PROVE HeapInv(w)' /\ HeapStep
    BY <1>6, RequestsAssumption, GrowKeeps
  <1> QED
    BY <1>1, <1>2, <1>3, <1>4, <1>5, <1>6 DEF Next

(* No realloc extends a block that is too small into top.                  *)
NoneGrowsIntoTop ==
  \A mem \in Addr, bytes \in ReallocSizes :
    mspace_realloc(mem, bytes) =>
      ~GrowsIntoTop(ms, mem2chunk(mem), request2size(bytes))

(* Every other call keeps exts what mspace_used is to return.              *)
LEMMA GotCounts ==
  ASSUME NEW m, NEW nb, NEW w, NEW r, Got(m, nb, w, r)
  PROVE  CountKept(m, r.ms)
  BY DEF Got, GivenOut, CountKept

LEMMA StepCounts ==
  ASSUME NEW w \in Nat, w >= MIN_CHUNK_SIZE, HeapInv(w), [Next]_vars, NoneGrowsIntoTop
  PROVE  CountKept(ms, ms')
  <1>1. ms \in MState /\ HeapOK(ms) /\ Promised(ms, held, w) /\ FootEnds(ms)
    BY DEF HeapInv
  <1>2. CASE UNCHANGED vars
    BY <1>2 DEF vars, CountKept
  <1>3. ASSUME NEW bytes \in MallocSizes, mspace_malloc(bytes) PROVE CountKept(ms, ms')
    <2>1. PICK r \in Malloc(ms, bytes) : ms' = r.ms
      BY <1>3 DEF mspace_malloc
    <2> QED
      BY <1>1, <2>1, RequestsAssumption, MallocGets, GotCounts
  <1>4. ASSUME NEW mem \in Addr, mspace_free(mem) PROVE CountKept(ms, ms')
    <2>1. ms' = Free(ms, mem) /\ mem \in HeldBy(held)
      BY <1>4 DEF mspace_free, Held, HeldBy
    <2>2. mem2chunk(mem) \in UserChunks(ms) /\ chunk2mem(mem2chunk(mem)) = mem
      BY <1>1, <2>1, HeldIsUsed
    <2>3. Freed(ms, mem2chunk(mem), Free(ms, chunk2mem(mem2chunk(mem))))
      BY <1>1, <2>2, FreeOK
    <2> QED
      BY <2>1, <2>2, <2>3 DEF Freed
  <1>5. ASSUME NEW mem \in Addr, NEW bytes \in ReallocSizes, mspace_realloc(mem, bytes)
        PROVE  CountKept(ms, ms')
    <2> DEFINE p == mem2chunk(mem)
    <2>1. PICK r \in internal_realloc(ms, mem, bytes) : ms' = r.ms
      BY <1>5 DEF mspace_realloc
    <2>2. p \in UserChunks(ms) /\ chunk2mem(p) = mem
      <3>1. mem \in HeldBy(held)
        BY <1>5 DEF mspace_realloc, Held, HeldBy
      <3> QED
        BY <1>1, <3>1, HeldIsUsed
    <2>3. ~GrowsIntoTop(ms, p, request2size(bytes))
      BY <1>5 DEF NoneGrowsIntoTop
    <2> HIDE DEF p
    <2>4. bytes \in Nat /\ r \in internal_realloc(ms, chunk2mem(p), bytes)
      BY <2>1, <2>2, RequestsAssumption
    <2>5. ReallocOK(ms, p, request2size(bytes), r)
      BY <1>1, <2>2, <2>4, ReallocIsOK
    <2> QED
      BY <2>1, <2>3, <2>5 DEF ReallocOK, Resized, CountKept
  <1>6. ASSUME NEW pad \in TrimPads, mspace_trim(pad) PROVE CountKept(ms, ms')
    <2>1. /\ ms' \in MState /\ Bookkeeping(ms, ms') /\ SameSegment(ms, ms')
          /\ ms'.dv = ms.dv /\ ms'.dvsize = ms.dvsize /\ ms'.bins = ms.bins
      BY <1>1, <1>6, TrimKeeps DEF mspace_trim
    <2>2. UserChunks(ms') = UserChunks(ms)
      BY <1>1, <2>1, SameHeap DEF SameSegment
    <2> QED
      BY <2>1, <2>2 DEF CountKept, CountExact, Bookkeeping, SameSegment
  <1>7. ASSUME NEW inc \in GrowSizes, mspace_inc_size(inc) PROVE CountKept(ms, ms')
    <2>1. /\ SegEnd(ms) \in Nat /\ ms.seg_size \in Nat /\ TOP_FOOT_SIZE \in Nat
          /\ SegBase \in Nat /\ inc \in Nat
      BY <1>1, HeapIsShaped, ChunkFacts, RequestsAssumption DEF MState
    <2>2. /\ SegBase + ms.seg_size - TOP_FOOT_SIZE + inc <= AddrMax
          /\ ms' = Grown(ms, inc)
          /\ SegEnd(ms) + TOP_FOOT_SIZE = SegBase + ms.seg_size
      BY <1>1, <1>7 DEF mspace_inc_size, FootEnds
    <2>3. SegEnd(ms) + inc <= AddrMax
      BY <2>1, <2>2
    <2> QED
      BY <1>1, <2>1, <2>2, <2>3, GrownOK
  <1> QED
    BY <1>2, <1>3, <1>4, <1>5, <1>6, <1>7 DEF Next

(* A new mspace has nothing to count.                                      *)
LEMMA InitCounts == ASSUME Init PROVE CountExact(ms)
  <1>1. UserChunks(ms) = {} /\ ms.exts = 0
    BY InitIsOK DEF Init, init_user_mstate, init_top
  <1> QED
    BY <1>1, SumNone DEF CountExact

(* The invariant holds in every state of every behaviour.                  *)
THEOREM Inductive == Spec => []IInv
  <1>1. Init => IInv
    BY InitIInv
  <1>2. IInv /\ [Next]_vars => IInv'
    BY StepKeepsHeapInv, ChunkConstants DEF IInv
  <1> QED
    BY <1>1, <1>2, PTL DEF Spec

-----------------------------------------------------------------------------
(* Every component of the state keeps its type.                            *)
THEOREM TypeCorrect == Spec => []TypeOK
  <1>1. IInv => TypeOK
    BY DEF IInv, HeapInv, Promised, TypeOK
  <1> QED
    BY <1>1, Inductive, PTL

(* The chunks tile the segment, their tags agree, no two free ones touch,  *)
(* and each is in the bin of its size, after any sequence of calls: what   *)
(* the DEBUG checks of malloc.cpp assert never fails.                      *)
THEOREM WellFormed == Spec => [](Tiling /\ BoundaryTagsAgree /\ NoAdjacentFree /\ BinnedExactly)
  <1>1. IInv => Tiling /\ BoundaryTagsAgree /\ NoAdjacentFree /\ BinnedExactly
    BY DEF IInv, HeapInv, HeapOK, Tiling, BoundaryTagsAgree, NoAdjacentFree, BinnedExactly
  <1> QED
    BY <1>1, Inductive, PTL

(* The chunk before and the chunk itself never disagree on whether it is   *)
(* in use, nor on the size of a free one.                                  *)
THEOREM TagsStayTrue == Spec => []BoundaryTagsAgree
  BY WellFormed, PTL

(* A chunk that is freed never stays next to a free one.                   *)
THEOREM FreeChunksStayApart == Spec => []NoAdjacentFree
  BY WellFormed, PTL

(* A free chunk is always in the bin of its size, and no chunk of the user *)
(* ever is.                                                                *)
THEOREM FreeChunksStayBinned == Spec => []BinnedExactly
  BY WellFormed, PTL

(* The chunks of the blocks have room for them.                            *)
LEMMA HeldHasRoom ==
  ASSUME NEW w \in Nat, HeapInv(w)
  PROVE  HeldIntact
  <1>1. HeapOK(ms) /\ ms \in MState /\ Promised(ms, held, w) /\ HeldBy(held) = Held
    BY DEF HeapInv, HeldBy, Held
  <1>2. ASSUME NEW a \in Held
        PROVE  ms.tags.size[mem2chunk(a)] * MALLOC_ALIGNMENT - CHUNK_OVERHEAD >= held[a]
    <2> DEFINE s == ms.tags.size[mem2chunk(a)]
               nb == request2size(held[a])
    <2>1. held[a] \in Nat
      BY <1>1 DEF Promised, Held, NotHeld
    <2>2. /\ nb \in Nat /\ nb * MALLOC_ALIGNMENT - CHUNK_OVERHEAD >= held[a]
      BY <2>1, RequestFits
    <2>3. s >= nb /\ s \in Nat
      <3>1. mem2chunk(a) \in Chunks(ms)
        BY <1>1, HeldIsUsed DEF UserChunks
      <3>2. s \in Nat
        BY <1>1, <3>1, HeapIsShaped, ChunkFacts
      <3> QED
        BY <1>1, <3>2 DEF Promised
    <2> HIDE DEF s, nb
    <2>4. s * 8 - CHUNK_OVERHEAD >= held[a]
      BY <2>1, <2>2, <2>3, ChunkConstants
    <2> QED
      BY <2>4, ChunkConstants DEF s
  <1> QED
    BY <1>1, <1>2 DEF Promised, HeldIntact

(* Every chunk in use is a block that is held, with room for its bytes: no *)
(* block is lost, and none is given twice or overwritten by another.       *)
THEOREM BlocksIntact == Spec => []HeldIntact
  <1>1. IInv => HeldIntact
    BY HeldHasRoom, ChunkConstants DEF IInv
  <1> QED
    BY <1>1, Inductive, PTL

(* A block is less than one least chunk larger than its request.           *)
THEOREM LittleIsWasted == Spec => []WasteBounded
  <1>1. IInv => WasteBounded
    BY DEF IInv, HeapInv, Promised, WasteBounded, HeldBy, Held
  <1> QED
    BY <1>1, Inductive, PTL

(* No run-time check fails in a program that frees what it holds.          *)
THEOREM NoCheckFails == Spec => []NeverAborts
  <1>1. IInv => NeverAborts
    BY DEF IInv, HeapInv, NeverAborts
  <1> QED
    BY <1>1, Inductive, PTL

(* The segment keeps ending right after top and its foot.                  *)
THEOREM SegmentEnd == Spec => []SegmentEndsAfterTop
  <1>1. IInv => SegmentEndsAfterTop
    BY DEF IInv, HeapInv, FootEnds, SegmentEndsAfterTop
  <1> QED
    BY <1>1, Inductive, PTL

(* An image that is cut at used_space has every byte of every held block.  *)
THEOREM ImageCanBeCut == Spec => []TruncationKeepsHeld
  <1>1. IInv => TruncationKeepsHeld
    BY BlocksApart, ChunkConstants DEF IInv, HeapInv, TruncationKeepsHeld, HeldBy, Held
  <1> QED
    BY <1>1, Inductive, PTL

(* An mspace implements the abstract heap: a new block overlaps none that  *)
(* is held, a held one stays where and as large as it is whatever else is  *)
(* called, and one that mspace_realloc moves is copied to a place apart    *)
(* from itself.                                                            *)
THEOREM IsAHeap == Spec => ImplementsHeap
  <1>1. Init => Heap!Init
    BY InitIsOK DEF Init, Heap!Init, Heap!None, NotHeld
  <1>2. IInv /\ [Next]_vars => [Heap!Next]_<<held, SegEnd(ms)>>
    BY StepKeepsHeapInv, ChunkConstants DEF HeapStep, IInv
  <1> QED
    BY <1>1, <1>2, Inductive, PTL DEF Spec, ImplementsHeap, Heap!Spec

(* Bins that hold nothing are the bins of a new mspace.                    *)
LEMMA EmptyBins ==
  ASSUME NEW b \in BinSet, NEW size, HoldExactly(b, {}, size)
  PROVE  b = init_bins
  <1>1. /\ \A i \in SmallIndex : b.small[i] = {}
        /\ \A i \in TreeIndex : b.tree[i] = {}
        /\ b.smallmap = {} /\ b.treemap = {}
    BY DEF HoldExactly
  <1>2. /\ b.small = [i \in SmallIndex |-> {}] /\ b.tree = [i \in TreeIndex |-> {}]
    BY <1>1 DEF BinSet
  <1> QED
    BY <1>1, <1>2 DEF BinSet, init_bins

(* When nothing is held the heap is again the one that was created: every  *)
(* chunk that was freed has found its way back to top.                     *)
THEOREM FreedIsWhole == Spec => []FullCoalesce
  <1>1. ASSUME IInv, Held = {} PROVE /\ ms.top = SegBase + MSTATE_SIZE
                                     /\ ms.bins = init_bins /\ ms.dvsize = 0
    <2>1. /\ HeapOK(ms) /\ ms \in MState /\ UserChunks(ms) = {}
          /\ ms.tags.size[SegBase] = MSTATE_SIZE
      BY <1>1 DEF IInv, HeapInv, Promised, HeldBy, Held
    <2>2. /\ Shaped(ms) /\ SegBase \in Chunks(ms) /\ SegBase \in Addr
          /\ ms.top \in FreeChunks(ms) /\ ms.top # SegBase
          /\ HoldExactly(ms.bins, Binned(ms), ms.tags.size)
      BY <2>1, HeapIsShaped, ChunkFacts DEF HeapOK, TopIsFree
    <2>3. Chunks(ms) = FreeChunks(ms) \cup {SegBase}
      BY <2>1, <2>2 DEF UserChunks, FreeChunks
    <2>4. ASSUME NEW a \in Chunks(ms), a # ms.top
          PROVE  a + ms.tags.size[a] \in FreeChunks(ms)
      <3>1. /\ a + ms.tags.size[a] \in Chunks(ms) /\ a \in Addr /\ SegBase <= a
            /\ ms.tags.size[a] \in Nat \ {0}
        BY <2>1, <2>2, <2>4, ChunkFacts
      <3>2. a + ms.tags.size[a] # SegBase
        BY <2>2, <3>1
      <3> QED
        BY <2>3, <3>1, <3>2
    <2>5. FreeChunks(ms) = {ms.top}
      <3>1. ASSUME NEW a \in FreeChunks(ms), a # ms.top PROVE FALSE
        <4>1. a + ms.tags.size[a] \in ms.tags.cin
          BY <2>1, <3>1 DEF HeapOK, Coalesced
        <4> QED
          BY <2>4, <3>1, <4>1 DEF FreeChunks
      <3> QED
        BY <2>2, <3>1
    <2>6. ms.top = SegBase + MSTATE_SIZE
      BY <2>1, <2>2, <2>4, <2>5
    <2>7. ms.dvsize = 0
      BY <2>1, <2>5, HeapIsShaped
    <2>8. ms.bins = init_bins
      <3>1. Binned(ms) = {}
        BY <2>5 DEF Binned
      <3> QED
        BY <2>1, <2>2, <3>1, EmptyBins DEF MState
    <2> QED
      BY <2>6, <2>7, <2>8
  <1>2. IInv => FullCoalesce
    BY <1>1 DEF FullCoalesce
  <1> QED
    BY <1>2, Inductive, PTL

(* mspace_malloc returns NULL only when no free chunk, binned or dv, is as *)
(* large as the request, and top would have nothing left: what the trees   *)
(* hold is found, whichever bin a chunk of its size is kept in.            *)
THEOREM NullMeansFull == Spec => []NullOnlyWhenFull
  <1>1. IInv => NullOnlyWhenFull
    <2> SUFFICES ASSUME ms \in MState, HeapOK(ms), NEW bytes \in MallocSizes,
                        bytes < MAX_REQUEST, NEW r \in Malloc(ms, bytes), r.mem = 0
                 PROVE  Full(ms, request2size(bytes))
      BY DEF IInv, HeapInv, NullOnlyWhenFull, Full
    <2>1. bytes \in Nat
      BY RequestsAssumption
    <2> QED
      BY <2>1, NullIsFull
  <1> QED
    BY <1>1, Inductive, PTL
=============================================================================
