---------------------------- MODULE RoutineProofs ----------------------------
(***************************************************************************)
(* What the routines of an mspace do to a well-formed one, for a segment of*)
(* any size: mspace_free takes away the freed block and no other,          *)
(* mspace_malloc gives out a chunk that was free and holds the request,    *)
(* mspace_realloc resizes a block or moves it, and mspace_inc_size changes *)
(* no block.                                                               *)
(***************************************************************************)
EXTENDS TagsProofs

USE AddrMaxAssumption, SizeTAssumption, SmallBinsAssumption,
    SegmentAssumption, ParamsAssumption
USE DEF Addr

(* Bins do not notice a change of sizes of chunks they do not hold.        *)
LEMMA HoldSame ==
  ASSUME NEW b, NEW B, NEW size, NEW size2, HoldExactly(b, B, size),
         \A a \in B : size2[a] = size[a]
  PROVE  HoldExactly(b, B, size2)
  BY DEF HoldExactly

(* What is well-formed depends on nothing but tags, top, dv and the bins.  *)
LEMMA SameHeap ==
  ASSUME NEW m, NEW m2, HeapOK(m),
         m2.tags = m.tags, m2.top = m.top, m2.topsize = m.topsize,
         m2.dv = m.dv, m2.dvsize = m.dvsize, m2.bins = m.bins
  PROVE  /\ HeapOK(m2) /\ UserChunks(m2) = UserChunks(m) /\ SegEnd(m2) = SegEnd(m)
         /\ FreeChunks(m2) = FreeChunks(m)
  <1>1. SegEnd(m2) = SegEnd(m) /\ Chunks(m2) = Chunks(m)
    BY DEF SegEnd, Chunks
  <1>2. FreeChunks(m2) = FreeChunks(m) /\ UserChunks(m2) = UserChunks(m)
    BY <1>1 DEF FreeChunks, UserChunks
  <1>3. Binned(m2) = Binned(m)
    BY <1>2 DEF Binned
  <1>4. Tiles(m2)
    BY <1>1 DEF HeapOK, Tiles
  <1>5. TagsAgree(m2)
    BY <1>1, <1>2 DEF HeapOK, TagsAgree
  <1>6. Coalesced(m2)
    BY <1>2 DEF HeapOK, Coalesced
  <1>7. TopIsFree(m2) /\ DvIsFree(m2)
    BY <1>2 DEF HeapOK, TopIsFree, DvIsFree
  <1> QED
    BY <1>1, <1>2, <1>3, <1>4, <1>5, <1>6, <1>7 DEF HeapOK

(* A chunk of any size has a bin.                                          *)
LEMMA InsertType ==
  ASSUME NEW b \in BinSet, NEW p \in Addr, NEW s \in Nat
  PROVE  insert_chunk(b, p, s) \in BinSet
  <1>1. CASE is_small(s)
    <2>1. s \in SmallIndex
      BY <1>1 DEF is_small, SmallIndex
    <2> QED
      BY <1>1, <2>1 DEF insert_chunk, insert_small_chunk, small_index, BinSet
  <1>2. CASE ~is_small(s)
    <2>1. compute_tree_index(s) \in TreeIndex
      BY <1>2, TreeIndexInRange DEF is_small
    <2> QED
      BY <1>2, <2>1 DEF insert_chunk, insert_large_chunk, BinSet
  <1> QED
    BY <1>1, <1>2

(* The parts of a well-formed mspace that the proofs below read.           *)
LEMMA HeapIsShaped ==
  ASSUME NEW m \in MState, HeapOK(m)
  PROVE  /\ Shaped(m)
         /\ m.dvsize # 0 => /\ m.dv \in FreeChunks(m) /\ m.dv # m.top
                            /\ m.tags.size[m.dv] = m.dvsize
         /\ m.dvsize = 0 => m.dv = 0
         /\ m.tags \in Tags /\ m.bins \in BinSet /\ m.top \in Addr /\ m.dv \in Addr
         /\ m.topsize \in Nat /\ m.dvsize \in Nat
         /\ 0 \notin Chunks(m) /\ Binned(m) \in SUBSET Addr
  <1>1. Shaped(m)
    BY DEF HeapOK, Shaped
  <1>2. \A a \in Chunks(m) : a \in Addr /\ SegBase <= a
    BY <1>1, ChunkFacts
  <1> QED
    BY <1>1, <1>2 DEF HeapOK, DvIsFree, MState, Binned, FreeChunks

-----------------------------------------------------------------------------
(* What exts counts: the sizes of the chunks in use, as mspace_used would  *)
(* if it walked the segment.                                               *)
CountExact(m) == m.exts = SumFunctionOnSet(m.tags.size, UserChunks(m))

(* A change that keeps the count exact.                                    *)
CountKept(m, m2) == CountExact(m) => CountExact(m2)

(* The chunks in use are finitely many, and together no larger than the    *)
(* segment, which a size_t can count.                                      *)
LEMMA UsedInSegment ==
  ASSUME NEW m \in MState, HeapOK(m)
  PROVE  /\ IsFiniteSet(UserChunks(m))
         /\ \A a \in UserChunks(m) : a \in Addr /\ m.tags.size[a] \in Nat
         /\ SumFunctionOnSet(m.tags.size, UserChunks(m)) \in 0 .. AddrMax
  <1> DEFINE t == m.tags
             U == UserChunks(m)
             Below(c) == {a \in U : a < c}
             Sum(c) == SumFunctionOnSet(t.size, Below(c))
             H == Heads(t)
  <1>1. /\ Shaped(m) /\ U \subseteq Chunks(m) /\ Chunks(m) \subseteq H /\ H \subseteq Addr
        /\ \A a \in H : SegBase <= a /\ a <= SegEnd(m)
        /\ \A a \in H \ {SegBase} : \E c \in Chunks(m) : c + t.size[c] = a
        /\ SegEnd(m) \in H
    BY HeapIsShaped DEF UserChunks, Chunks, Heads, Shaped, Tiles
  <1>2. \A a \in U : a \in Addr /\ t.size[a] \in Nat
    BY <1>1, ChunkFacts
  <1>3. IsFiniteSet(U) /\ \A c : IsFiniteSet(Below(c))
    <2>1. IsFiniteSet(Addr)
      BY FS_Interval, 0 \in Int, AddrMax \in Int
    <2> QED
      BY <1>2, <2>1, FS_Subset
  <1> DEFINE B == {c \in H : ~(Sum(c) \in Nat /\ Sum(c) <= c - SegBase)}
  <1>4. B = {}
    <2> SUFFICES ASSUME B # {} PROVE FALSE
      OBVIOUS
    <2> DEFINE c == LeastIndex(B)
    <2>1. c \in B /\ \A d \in B : c <= d
      <3>1. B \in SUBSET Nat
        BY <1>1
      <3> HIDE DEF B
      <3> QED
        BY <3>1, LeastIndexIn
    <2> HIDE DEF c
    <2>2. c \in H /\ c \in Addr
      BY <1>1, <2>1
    <2>3. CASE c = SegBase
      <3>1. Below(c) = {}
        BY <1>1, <1>2, <2>3
      <3>2. Sum(c) = 0
        BY <3>1, SumNone
      <3> QED
        BY <2>1, <2>3, <3>2
    <2>4. CASE c # SegBase
      <3>1. PICK b \in Chunks(m) : b + t.size[b] = c
        BY <1>1, <2>2, <2>4
      <3>2. b \in Addr /\ SegBase <= b /\ t.size[b] \in Nat \ {0} /\ b \in H /\ b < c
        BY <1>1, <3>1, ChunkFacts
      <3>3. Sum(b) \in Nat /\ Sum(b) <= b - SegBase
        BY <2>1, <2>2, <3>2
      <3>4. \A a \in U : a < c <=> (a < b \/ a = b)
        <4>1. \A a \in U : b < a => c <= a
          BY <1>1, <3>1, ChunkFacts
        <4> QED
          BY <1>2, <2>2, <3>2, <4>1
      <3>5. CASE b \notin U
        <4>1. Below(c) = Below(b)
          BY <3>4, <3>5
        <4>2. Sum(c) = Sum(b)
          BY <4>1
        <4> HIDE DEF Sum
        <4> QED
          BY <2>1, <2>2, <3>1, <3>2, <3>3, <4>2
      <3>6. CASE b \in U
        <4>1. Below(c) = Below(b) \cup {b} /\ b \notin Below(b)
          BY <3>2, <3>4, <3>6
        <4>2. Sum(c) = Sum(b) + t.size[b]
          <5>1. \A x \in Below(b) \cup {b} : t.size[x] \in Nat
            BY <1>2, <3>6
          <5> HIDE DEF Below
          <5> QED
            BY <1>3, <4>1, <5>1, SumAdd
        <4> HIDE DEF Sum
        <4> QED
          BY <2>1, <2>2, <3>1, <3>2, <3>3, <4>2
      <3> QED
        BY <3>5, <3>6
    <2> QED
      BY <2>3, <2>4
  <1>5. Sum(SegEnd(m)) \in Nat /\ Sum(SegEnd(m)) <= SegEnd(m) - SegBase
    BY <1>1, <1>4
  <1>6. Below(SegEnd(m)) = U
    BY <1>1, ChunkFacts
  <1>7. SegEnd(m) \in Addr
    BY <1>1
  <1> QED
    <2> HIDE DEF Below, U
    <2>1. SumFunctionOnSet(t.size, U) \in 0 .. AddrMax
      BY <1>5, <1>6, <1>7
    <2> QED
      BY <1>2, <1>3, <2>1 DEF U

(* In that range no size_t wraps.                                          *)
LEMMA NoWrap == ASSUME NEW x \in 0 .. AddrMax PROVE Wrap(x) = x
  BY DEF Wrap

(* A chunk more, counted as it is given out ...                            *)
LEMMA CountGiven ==
  ASSUME NEW m \in MState, HeapOK(m), NEW m2 \in MState, HeapOK(m2),
         NEW p, p \notin UserChunks(m), UserChunks(m2) = UserChunks(m) \cup {p},
         \A a \in UserChunks(m) : m2.tags.size[a] = m.tags.size[a],
         m2.exts = Wrap(m.exts + m2.tags.size[p])
  PROVE  CountKept(m, m2)
  <1> DEFINE U == UserChunks(m)
             s == m.tags.size
             s2 == m2.tags.size
  <1>1. /\ IsFiniteSet(U) /\ \A a \in U : s[a] \in Nat /\ s2[a] = s[a]
        /\ \A a \in U \cup {p} : s2[a] \in Nat
        /\ SumFunctionOnSet(s2, U \cup {p}) \in 0 .. AddrMax
    BY UsedInSegment
  <1>2. UserChunks(m2) = U \cup {p} /\ p \notin U
    OBVIOUS
  <1> HIDE DEF U, s, s2
  <1>3. SumFunctionOnSet(s2, U \cup {p}) = SumFunctionOnSet(s2, U) + s2[p]
    <2>1. IsFiniteSet(U) /\ p \notin U /\ \A x \in U \cup {p} : s2[x] \in Nat
      BY <1>1, <1>2
    <2> QED
      BY ONLY <2>1, SumAdd
  <1>4. SumFunctionOnSet(s2, U) = SumFunctionOnSet(s, U)
    BY <1>1, SumSame
  <1> QED
    BY <1>1, <1>2, <1>3, <1>4, NoWrap DEF CountKept, CountExact, U, s, s2

(* ... a chunk less, counted off ...                                       *)
LEMMA CountTaken ==
  ASSUME NEW m \in MState, HeapOK(m), NEW m2 \in MState, HeapOK(m2),
         NEW p \in UserChunks(m), UserChunks(m2) = UserChunks(m) \ {p},
         \A a \in UserChunks(m2) : m2.tags.size[a] = m.tags.size[a],
         m2.exts = Wrap(m.exts - m.tags.size[p])
  PROVE  CountKept(m, m2)
  <1> DEFINE V == UserChunks(m2)
             s == m.tags.size
             s2 == m2.tags.size
  <1>1. /\ IsFiniteSet(V) /\ \A a \in V : s2[a] \in Nat /\ s[a] = s2[a]
        /\ \A a \in V \cup {p} : s[a] \in Nat
        /\ SumFunctionOnSet(s2, V) \in 0 .. AddrMax
    BY UsedInSegment
  <1>2. UserChunks(m) = V \cup {p} /\ p \notin V
    OBVIOUS
  <1>3. s[p] \in Nat
    BY <1>1
  <1> HIDE DEF V, s, s2
  <1>4. SumFunctionOnSet(s, V \cup {p}) = SumFunctionOnSet(s, V) + s[p]
    <2>1. IsFiniteSet(V) /\ p \notin V /\ \A x \in V \cup {p} : s[x] \in Nat
      BY <1>1, <1>2
    <2> QED
      BY ONLY <2>1, SumAdd
  <1>5. SumFunctionOnSet(s, V) = SumFunctionOnSet(s2, V)
    BY <1>1, SumSame
  <1>6. SumFunctionOnSet(s, V \cup {p}) - s[p] = SumFunctionOnSet(s2, V)
    BY <1>1, <1>3, <1>4, <1>5
  <1> QED
    BY <1>1, <1>2, <1>6, NoWrap DEF CountKept, CountExact, V, s, s2

(* ... a chunk cut in two, where nothing is counted ...                    *)
LEMMA CountCut ==
  ASSUME NEW m \in MState, HeapOK(m), NEW m2 \in MState, HeapOK(m2),
         NEW p \in UserChunks(m), NEW r, r \notin UserChunks(m),
         UserChunks(m2) = UserChunks(m) \cup {r},
         \A a \in UserChunks(m) \ {p} : m2.tags.size[a] = m.tags.size[a],
         m2.tags.size[p] + m2.tags.size[r] = m.tags.size[p], m2.exts = m.exts
  PROVE  CountKept(m, m2)
  <1> DEFINE V == UserChunks(m) \ {p}
             s == m.tags.size
             s2 == m2.tags.size
             Sum(f, S) == SumFunctionOnSet(f, S)
  <1>1. /\ IsFiniteSet(V) /\ \A a \in V : s2[a] = s[a]
        /\ \A a \in V \cup {p} : s[a] \in Nat
        /\ \A a \in (V \cup {p}) \cup {r} : s2[a] \in Nat
        /\ Sum(s2, UserChunks(m2)) \in 0 .. AddrMax
    BY UsedInSegment, FS_Subset
  <1>2. /\ UserChunks(m) = V \cup {p} /\ UserChunks(m2) = (V \cup {p}) \cup {r}
        /\ p \notin V /\ r \notin V \cup {p}
    OBVIOUS
  <1>3. s2[p] + s2[r] = s[p] /\ IsFiniteSet(V \cup {p})
    BY <1>1, FS_AddElement
  <1> HIDE DEF V, s, s2
  <1>4. /\ Sum(s, V \cup {p}) = Sum(s, V) + s[p] /\ Sum(s, V) \in Nat
        /\ Sum(s2, V \cup {p}) = Sum(s2, V) + s2[p] /\ Sum(s2, V) \in Nat
    <2>1. /\ IsFiniteSet(V) /\ p \notin V
          /\ \A x \in V \cup {p} : s[x] \in Nat
          /\ \A x \in V \cup {p} : s2[x] \in Nat
      BY <1>1, <1>2
    <2> QED
      BY ONLY <2>1, SumAdd
  <1>5. Sum(s2, (V \cup {p}) \cup {r}) = Sum(s2, V \cup {p}) + s2[r]
    <2>1. /\ IsFiniteSet(V \cup {p}) /\ r \notin V \cup {p}
          /\ \A x \in (V \cup {p}) \cup {r} : s2[x] \in Nat
      BY <1>1, <1>2, <1>3
    <2> QED
      BY ONLY <2>1, SumAdd
  <1>6. Sum(s2, V) = Sum(s, V)
    BY <1>1, SumSame
  <1>7. Sum(s2, (V \cup {p}) \cup {r}) = Sum(s, V \cup {p})
    <2>1. s[p] \in Nat /\ s2[p] \in Nat /\ s2[r] \in Nat
      BY <1>1
    <2> HIDE DEF Sum
    <2> QED
      BY <1>3, <1>4, <1>5, <1>6, <2>1
  <1> QED
    BY <1>2, <1>7 DEF CountKept, CountExact, s, s2

(* ... and a change that leaves every chunk in use as it was.              *)
LEMMA CountSame ==
  ASSUME NEW m \in MState, HeapOK(m), NEW m2, UserChunks(m2) = UserChunks(m),
         \A a \in UserChunks(m) : m2.tags.size[a] = m.tags.size[a], m2.exts = m.exts
  PROVE  CountKept(m, m2)
  BY UsedInSegment, SumSame DEF CountKept, CountExact

-----------------------------------------------------------------------------
(* A change that mspace_free can make around the block p: dv is left       *)
(* alone, becomes what was merged, or is forgotten; what is merged belongs *)
(* to top, to dv, or to a bin.                                             *)
FreeStep(m, m2, q, n, e, b) ==
  /\ HoldExactly(b, Binned(m) \ {q, n}, m.tags.size)
  /\ SegEnd(m2) = SegEnd(m)
  /\ m2.top = IF e = SegEnd(m) THEN q ELSE m.top
  /\ \/ m2.tags = set_free_with_pinuse(m.tags, q, e - q, e)
     \/ n # e /\ m2.tags = set_size_and_pinuse_of_free_chunk(m.tags, q, e - q)
     \/ n = m.top /\ m2.tags = set_top_head(m.tags, q, e - q)
  /\ \/ /\ m.dv \notin {q, n} /\ m2.dv = m.dv /\ m2.dvsize = m.dvsize
        /\ m2.bins = IF n = m.top THEN b ELSE insert_chunk(b, q, e - q)
     \/ /\ m.dv \in {q, n} /\ n # m.top /\ m2.dv = q /\ m2.dvsize = e - q
        /\ m2.bins = b
     \/ m.dv = q /\ n = m.top /\ m2.dv = 0 /\ m2.dvsize = 0 /\ m2.bins = b

(* Such a change leaves the heap well-formed without the block p.          *)
LEMMA FreeStepOK ==
  ASSUME NEW m \in MState, HeapOK(m), NEW p \in UserChunks(m), NEW m2 \in MState,
         NEW b \in BinSet,
         FreeStep(m, m2, PrevOf(m, p), NextOf(m, p), EndOf(m, p), b)
  PROVE  /\ HeapOK(m2)
         /\ UserChunks(m2) = UserChunks(m) \ {p}
         /\ \A a \in UsedChunks(m2) : m2.tags.size[a] = m.tags.size[a]
  <1> DEFINE q == PrevOf(m, p)
             n == NextOf(m, p)
             e == EndOf(m, p)
  <1>1. Shaped(m) /\ 0 \notin Chunks(m) /\ Binned(m) \in SUBSET Addr
    BY HeapIsShaped
  <1>2. /\ q \in Chunks(m) /\ q # m.top /\ q \in Addr /\ e \in Addr /\ q < e
        /\ n \in Chunks(m) /\ e - q >= MIN_CHUNK_SIZE
        /\ e = SegEnd(m) <=> n = m.top
        /\ q # p => q \in FreeChunks(m)
    BY <1>1, PrevFacts, NextFacts, RangeFacts
  <1>3. FreeStep(m, m2, q, n, e, b)
    OBVIOUS
  <1>4. /\ Shaped(m2)
        /\ FreeChunks(m2) = (FreeChunks(m) \ {n}) \cup {q}
        /\ UserChunks(m2) = UserChunks(m) \ {p}
        /\ \A a \in FreeChunks(m2) \cup UsedChunks(m2) :
             a # q => m2.tags.size[a] = m.tags.size[a]
        /\ m2.tags.size[q] = e - q
    <2>1. /\ SegEnd(m2) = SegEnd(m)
          /\ m2.top = IF e = SegEnd(m) THEN q ELSE m.top
          /\ \/ m2.tags = set_free_with_pinuse(m.tags, q, e - q, e)
             \/ n # e /\ m2.tags = set_size_and_pinuse_of_free_chunk(m.tags, q, e - q)
             \/ n = m.top /\ m2.tags = set_top_head(m.tags, q, e - q)
      BY <1>3 DEF FreeStep
    <2> QED
      BY <1>1, <2>1, FreeShape
  <1> HIDE DEF q, n, e
  <1>5. e - q \in Nat \ {0}
    BY <1>2, ChunkConstants
  <1>6. /\ m.dvsize # 0 => /\ m.dv \in FreeChunks(m) /\ m.dv # m.top
                           /\ m.tags.size[m.dv] = m.dvsize
        /\ m.dvsize = 0 => m.dv = 0
        /\ 0 \notin FreeChunks(m) /\ q # 0 /\ n # 0 /\ q \notin UsedChunks(m2)
    <2>1. q \notin UsedChunks(m2)
      BY <1>4, UsedAreNotFree
    <2> QED
      BY <1>1, <1>2, <2>1, HeapIsShaped DEF FreeChunks
  <1>7. DvIsFree(m2)
    <2>1. CASE m.dv \notin {q, n} /\ m2.dv = m.dv /\ m2.dvsize = m.dvsize
      <3>1. m2.top = q \/ m2.top = m.top
        BY <1>3 DEF FreeStep
      <3> QED
        BY <1>4, <1>6, <2>1, <3>1 DEF DvIsFree
    <2>2. CASE n # m.top /\ m2.dv = q /\ m2.dvsize = e - q
      <3>1. m2.top = m.top
        BY <1>2, <1>3, <2>2 DEF FreeStep
      <3> QED
        BY <1>2, <1>4, <1>5, <2>2, <3>1 DEF DvIsFree
    <2>3. CASE m2.dv = 0 /\ m2.dvsize = 0
      BY <2>3 DEF DvIsFree
    <2> QED
      BY <1>3, <2>1, <2>2, <2>3 DEF FreeStep
  <1>8. HoldExactly(m2.bins, Binned(m2), m2.tags.size)
    <2>1. HoldExactly(b, Binned(m) \ {q, n}, m.tags.size)
      BY <1>3 DEF FreeStep
    <2>2. \A a \in Binned(m) \ {q, n} : m2.tags.size[a] = m.tags.size[a]
      BY <1>4 DEF Binned
    <2>3. CASE m2.bins = b /\ q \in {m2.top, m2.dv}
      <3>1. Binned(m2) = Binned(m) \ {q, n}
        BY <1>2, <1>3, <1>4, <1>6, <2>3 DEF FreeStep, Binned
      <3> QED
        BY <2>1, <2>2, <2>3, <3>1, HoldSame
    <2>4. CASE m2.bins = insert_chunk(b, q, e - q) /\ q \notin {m2.top, m2.dv}
      <3>1. Binned(m2) = (Binned(m) \ {q, n}) \cup {q}
        <4>1. m2.top = m.top /\ m2.dv = m.dv
          BY <1>2, <1>3, <2>4 DEF FreeStep
        <4>2. FreeChunks(m2) = (FreeChunks(m) \ {n}) \cup {q}
          BY <1>4
        <4>3. q # m.top /\ q # m.dv
          BY <2>4, <4>1
        <4> QED
          BY <4>1, <4>2, <4>3 DEF Binned
      <3>2. /\ Binned(m) \ {q, n} \in SUBSET Addr /\ q \notin Binned(m) \ {q, n}
            /\ m2.tags.size[q] = e - q /\ e - q \in Nat
        BY <1>1, <1>4, <1>5
      <3>3. HoldExactly(insert_chunk(b, q, e - q), (Binned(m) \ {q, n}) \cup {q},
                        m2.tags.size)
        BY <1>2, <2>1, <2>2, <3>2, InsertHolds
      <3> QED
        BY <2>4, <3>1, <3>3
    <2> QED
      <3>1. CASE m.dv \notin {q, n} /\ n # m.top
        BY <1>2, <1>3, <2>4, <3>1 DEF FreeStep
      <3>2. CASE m.dv \in {q, n} \/ n = m.top
        <4>1. m2.bins = b
          BY <1>3, <3>2 DEF FreeStep
        <4>2. q \in {m2.top, m2.dv}
          BY <1>2, <1>3, <3>2 DEF FreeStep
        <4> QED
          BY <2>3, <4>1, <4>2
      <3> QED
        BY <3>1, <3>2
  <1>9. HeapOK(m2)
    BY <1>4, <1>7, <1>8 DEF HeapOK, Shaped
  <1> QED
    BY <1>4, <1>6, <1>9

-----------------------------------------------------------------------------
(* What mspace_free changes besides the tags of the merged chunk.          *)
Bookkeeping(m, m2) ==
  /\ m2.aborted = m.aborted /\ m2.exts = m.exts /\ m2.seg_size = m.seg_size

SameSegment(m, m2) ==
  /\ m2.tags = m.tags /\ m2.top = m.top /\ m2.topsize = m.topsize

(* sys_trim on an extern segment touches counters only.                    *)
LEMMA TrimKeeps ==
  ASSUME NEW m \in MState, NEW pad
  PROVE  LET m2 == sys_trim(m, pad) IN
         /\ m2 \in MState /\ Bookkeeping(m, m2) /\ SameSegment(m, m2)
         /\ m2.dv = m.dv /\ m2.dvsize = m.dvsize /\ m2.bins = m.bins
  <1>1. MAX_SIZE_T \in Nat
    BY DEF MAX_SIZE_T
  <1>2. release_unused_segments(m) \in MState
    BY DEF MState, release_unused_segments
  <1>3. CASE pad >= MAX_REQUEST
    BY <1>3 DEF sys_trim, Bookkeeping, SameSegment
  <1>4. CASE ~(pad >= MAX_REQUEST)
    <2>1. sys_trim(m, pad) \in MState
      <3> DEFINE c == IF m.topsize > m.trim_check THEN MAX_SIZE_T ELSE m.trim_check
      <3>1. c \in Nat
        BY <1>1 DEF MState
      <3>2. sys_trim(m, pad) = [release_unused_segments(m) EXCEPT !.trim_check = c]
        BY <1>4 DEF sys_trim, release_unused_segments, MState
      <3> HIDE DEF c
      <3> QED
        BY <1>2, <3>1, <3>2 DEF MState
    <2> QED
      BY <1>4, <2>1 DEF MState, sys_trim, release_unused_segments, Bookkeeping, SameSegment
  <1> QED
    BY <1>3, <1>4

(* FreeToBin adds a chunk to its bin and changes no tag.                   *)
LEMMA ToBinKeeps ==
  ASSUME NEW m \in MState, NEW q, NEW z, insert_chunk(m.bins, q, z) \in BinSet
  PROVE  LET m2 == FreeToBin(m, q, z) IN
         /\ m2 \in MState /\ Bookkeeping(m, m2) /\ SameSegment(m, m2)
         /\ m2.dv = m.dv /\ m2.dvsize = m.dvsize
         /\ m2.bins = insert_chunk(m.bins, q, z)
  <1> DEFINE f == [m EXCEPT !.bins = insert_chunk(@, q, z)]
  <1>1. /\ f \in MState /\ Bookkeeping(m, f) /\ SameSegment(m, f)
        /\ f.dv = m.dv /\ f.dvsize = m.dvsize
        /\ f.bins = insert_chunk(m.bins, q, z) /\ f.release_checks = m.release_checks
    BY DEF MState, Bookkeeping, SameSegment
  <1> HIDE DEF f
  <1>2. CASE is_small(z)
    BY <1>1, <1>2 DEF FreeToBin, f
  <1>3. CASE ~is_small(z) /\ m.release_checks = 1
    <2>1. FreeToBin(m, q, z) = release_unused_segments(f)
      BY <1>3 DEF FreeToBin, f
    <2>2. release_unused_segments(f) \in MState
      BY <1>1 DEF MState, release_unused_segments
    <2> QED
      BY <1>1, <2>1, <2>2 DEF release_unused_segments, Bookkeeping, SameSegment, MState
  <1>4. CASE ~is_small(z) /\ m.release_checks # 1
    <2>1. FreeToBin(m, q, z) = [f EXCEPT !.release_checks = @ - 1]
      BY <1>4 DEF FreeToBin, f
    <2>2. [f EXCEPT !.release_checks = @ - 1] \in MState
      BY <1>1, <1>4 DEF MState
    <2> QED
      BY <1>1, <2>1, <2>2 DEF Bookkeeping, SameSegment, MState
  <1> QED
    BY <1>2, <1>3, <1>4

(* The tags that mspace_free writes are within the segment.                *)
LEMMA FreeTagsType ==
  ASSUME NEW m \in MState, NEW q \in Addr, NEW e \in Addr, q < e
  PROVE  /\ set_free_with_pinuse(m.tags, q, e - q, e) \in Tags
         /\ set_size_and_pinuse_of_free_chunk(m.tags, q, e - q) \in Tags
         /\ set_top_head(m.tags, q, e - q) \in Tags
  <1> DEFINE z == e - q
  <1>1. z \in Nat /\ q + z \in Addr /\ m.tags \in Tags
    BY DEF MState
  <1> HIDE DEF z
  <1>2. /\ set_free_with_pinuse(m.tags, q, z, e) \in Tags
        /\ set_size_and_pinuse_of_free_chunk(m.tags, q, z) \in Tags
        /\ set_top_head(m.tags, q, z) \in Tags
    BY <1>1, MacroTypes
  <1> QED
    BY <1>2 DEF z

(* The last part of mspace_free takes one of the steps above.              *)
LEMMA FreeBeforeSteps ==
  ASSUME NEW m \in MState, HeapOK(m), NEW p \in UserChunks(m),
         NEW b \in BinSet,
         NEW q, q = PrevOf(m, p), NEW n, n = NextOf(m, p), NEW e, e = EndOf(m, p),
         HoldExactly(b, Binned(m) \ {q}, m.tags.size)
  PROVE  LET m2 == FreeBefore([m EXCEPT !.bins = b], q, n - q, n)
         IN  /\ m2 \in MState /\ Bookkeeping(m, m2)
             /\ \E c \in BinSet : FreeStep(m, m2, q, n, e, c)
  <1> DEFINE m1 == [m EXCEPT !.bins = b]
             m2 == FreeBefore(m1, q, n - q, n)
             t == m.tags
  <1>1. /\ Shaped(m) /\ t \in Tags /\ m.top \in Addr /\ m.topsize \in Nat
        /\ m.dvsize \in Nat /\ Binned(m) \in SUBSET Addr
        /\ m.dvsize # 0 => m.dv \in FreeChunks(m) /\ t.size[m.dv] = m.dvsize
        /\ m.dvsize = 0 => m.dv = 0
        /\ 0 \notin Chunks(m)
    BY HeapIsShaped
  <1>2. /\ q \in Chunks(m) /\ q # m.top /\ q \in Addr /\ q < e /\ q <= p
        /\ e - q >= MIN_CHUNK_SIZE
    BY <1>1, PrevFacts, RangeFacts
  <1>3. /\ n \in Chunks(m) /\ n \in Addr /\ p < n /\ e \in Addr
        /\ n # e => n + t.size[n] = e
        /\ e = SegEnd(m) <=> n = m.top
        /\ n \in t.cin <=> n = e
    BY <1>1, NextFacts
  <1>4. /\ m1 \in MState /\ Bookkeeping(m, m1) /\ SameSegment(m, m1) /\ m1.bins = b
        /\ m1.dv = m.dv /\ m1.dvsize = m.dvsize
    BY DEF MState, Bookkeeping, SameSegment
  <1>5. p \in Addr /\ e - q \in Nat /\ e - q > 0 /\ n - q \in Nat /\ q # n
    <2>1. p \in Addr
      BY <1>1, ChunkFacts DEF UserChunks
    <2> QED
      BY <1>2, <1>3, <2>1
  <1>6. /\ set_free_with_pinuse(t, q, e - q, e) \in Tags
        /\ set_size_and_pinuse_of_free_chunk(t, q, e - q) \in Tags
        /\ set_top_head(t, q, e - q) \in Tags
    BY <1>2, <1>3, FreeTagsType
  <1>7. q = m.dv => m.dvsize # 0
    BY <1>1, <1>2
  <1> HIDE DEF m1
  <1>8. CASE n \in t.cin
    <2>1. e = n /\ n # m.top /\ n \notin Binned(m) /\ n # m.dv
      <3>1. m.top \in FreeChunks(m)
        BY DEF HeapOK, TopIsFree
      <3> QED
        BY <1>1, <1>3, <1>8, <3>1 DEF FreeChunks, Binned
    <2>2. Binned(m) \ {q} = Binned(m) \ {q, n}
      BY <2>1
    <2>3. SegEnd(m) # e
      BY <1>3, <2>1
    <2>4. CASE q = m.dv
      <3>1. m2 = [m1 EXCEPT !.tags = set_free_with_pinuse(t, q, e - q, e), !.dvsize = e - q]
        BY <1>4, <1>8, <2>1, <2>4 DEF FreeBefore, FreeToDv, SameSegment
      <3> HIDE DEF m2
      <3>2. m2 \in MState /\ Bookkeeping(m, m2)
        BY <1>4, <1>5, <1>6, <3>1 DEF MState, Bookkeeping
      <3>3. FreeStep(m, m2, q, n, e, b)
        BY <1>4, <2>1, <2>2, <2>3, <2>4, <3>1
           DEF FreeStep, SegEnd, SameSegment, MState
      <3> QED
        BY <3>2, <3>3 DEF m2, m1
    <2>5. CASE q # m.dv
      <3> DEFINE f == [m1 EXCEPT !.tags = set_free_with_pinuse(t, q, e - q, e)]
      <3>1. m2 = FreeToBin(f, q, e - q)
        BY <1>4, <1>8, <2>1, <2>5 DEF FreeBefore, SameSegment
      <3> HIDE DEF m2
      <3>2. /\ f \in MState /\ Bookkeeping(m, f) /\ f.bins = b
            /\ f.tags = set_free_with_pinuse(t, q, e - q, e)
            /\ f.top = m.top /\ f.topsize = m.topsize
            /\ f.dv = m.dv /\ f.dvsize = m.dvsize
        BY <1>4, <1>6 DEF MState, Bookkeeping, SameSegment
      <3> HIDE DEF f
      <3>3. insert_chunk(b, q, e - q) \in BinSet
        BY <1>2, <1>5, InsertType
      <3>4. /\ m2 \in MState /\ Bookkeeping(f, m2) /\ SameSegment(f, m2)
            /\ m2.dv = f.dv /\ m2.dvsize = f.dvsize /\ m2.bins = insert_chunk(b, q, e - q)
        BY <3>1, <3>2, <3>3, ToBinKeeps
      <3>5. Bookkeeping(m, m2)
        BY <3>2, <3>4 DEF Bookkeeping
      <3>6. FreeStep(m, m2, q, n, e, b)
        BY <2>1, <2>2, <2>3, <2>5, <3>2, <3>4 DEF FreeStep, SegEnd, SameSegment
      <3> QED
        BY <3>4, <3>5, <3>6 DEF m2, m1
    <2> QED
      BY <2>4, <2>5
  <1>9. CASE n \notin t.cin /\ n = m.top
    <2> DEFINE d == IF q = m.dv THEN 0 ELSE m.dv
               ds == IF q = m.dv THEN 0 ELSE m.dvsize
               f == [m1 EXCEPT !.tags = set_top_head(t, q, e - q),
                               !.top = q, !.topsize = e - q, !.dv = d, !.dvsize = ds]
    <2>1. m.topsize + (n - q) = e - q /\ e = SegEnd(m) /\ n + m.topsize = e
      <3>1. n + m.topsize = e /\ e = SegEnd(m)
        BY <1>3, <1>9 DEF SegEnd
      <3> QED
        BY <1>1, <1>2, <1>3, <3>1
    <2>2. m2 = f \/ m2 = sys_trim(f, 0)
      BY <1>4, <1>9, <2>1 DEF FreeBefore, FreeIntoTop, SameSegment
    <2> HIDE DEF m2
    <2>3. /\ f \in MState /\ Bookkeeping(m, f) /\ f.bins = b
          /\ f.tags = set_top_head(t, q, e - q) /\ f.top = q /\ f.topsize = e - q
          /\ f.dv = d /\ f.dvsize = ds
      <3>1. d \in Addr /\ ds \in Nat
        BY HeapIsShaped
      <3> HIDE DEF d, ds
      <3> QED
        BY <1>2, <1>4, <1>5, <1>6, <3>1 DEF MState, Bookkeeping, SameSegment
    <2> HIDE DEF f
    <2>4. /\ m2 \in MState /\ Bookkeeping(f, m2) /\ SameSegment(f, m2)
          /\ m2.dv = f.dv /\ m2.dvsize = f.dvsize /\ m2.bins = f.bins
      <3>1. CASE m2 = f
        BY <2>3, <3>1 DEF Bookkeeping, SameSegment
      <3>2. CASE m2 = sys_trim(f, 0)
        BY <2>3, <3>2, TrimKeeps
      <3> QED
        BY <2>2, <3>1, <3>2
    <2>5. Bookkeeping(m, m2)
      BY <2>3, <2>4 DEF Bookkeeping
    <2>6. Binned(m) \ {q} = Binned(m) \ {q, n} /\ m.dv # n
      <3>1. m.dvsize # 0 => m.dv # m.top
        BY HeapIsShaped
      <3>2. n # 0
        BY <1>1, <1>3
      <3> QED
        BY <1>1, <1>9, <3>1, <3>2 DEF Binned
    <2>7. SegEnd(m2) = SegEnd(m)
      <3>1. q + (e - q) = e
        BY <1>2, <1>3
      <3> QED
        BY <2>1, <2>3, <2>4, <3>1 DEF SegEnd, SameSegment
    <2>8. FreeStep(m, m2, q, n, e, b)
      BY <1>9, <2>1, <2>3, <2>4, <2>6, <2>7 DEF FreeStep, SameSegment
    <2> QED
      BY <2>4, <2>5, <2>8 DEF m2, m1
  <1>10. CASE n \notin t.cin /\ n # m.top /\ n = m.dv
    <2> DEFINE f == [m1 EXCEPT !.tags = set_size_and_pinuse_of_free_chunk(t, q, e - q),
                               !.dv = q, !.dvsize = e - q]
    <2>1. m.dvsize + (n - q) = e - q /\ n # e /\ SegEnd(m) # e
      <3>1. n + m.dvsize = e /\ n # e /\ SegEnd(m) # e
        BY <1>1, <1>3, <1>10
      <3> QED
        BY <1>1, <1>2, <1>3, <3>1
    <2>2. m2 = f
      BY <1>4, <1>10, <2>1 DEF FreeBefore, FreeIntoDv, SameSegment
    <2> HIDE DEF m2
    <2>3. /\ m2 \in MState /\ Bookkeeping(m, m2) /\ m2.bins = b
          /\ m2.tags = set_size_and_pinuse_of_free_chunk(t, q, e - q)
          /\ m2.top = m.top /\ m2.topsize = m.topsize
          /\ m2.dv = q /\ m2.dvsize = e - q
      BY <1>2, <1>4, <1>5, <1>6, <2>2 DEF MState, Bookkeeping, SameSegment
    <2>4. Binned(m) \ {q} = Binned(m) \ {q, n}
      BY <1>10 DEF Binned
    <2>5. FreeStep(m, m2, q, n, e, b)
      BY <1>10, <2>1, <2>3, <2>4 DEF FreeStep, SegEnd
    <2> QED
      BY <2>3, <2>5 DEF m2, m1
  <1>11. CASE n \notin t.cin /\ n # m.top /\ n # m.dv
    <2> DEFINE c == unlink_chunk(b, n, t.size[n])
               f == [m1 EXCEPT !.bins = c,
                               !.tags = set_size_and_pinuse_of_free_chunk(t, q, e - q)]
    <2>1. t.size[n] + (n - q) = e - q /\ (n - q) + t.size[n] = e - q /\ n # e /\ SegEnd(m) # e
      <3>1. n + t.size[n] = e /\ n # e /\ SegEnd(m) # e /\ t.size[n] \in Nat
        BY <1>1, <1>3, <1>11 DEF Tags
      <3> QED
        BY <1>2, <1>3, <3>1
    <2>2. /\ c \in BinSet /\ HoldExactly(c, (Binned(m) \ {q}) \ {n}, t.size)
      <3>1. n \in Binned(m) \ {q} /\ Binned(m) \ {q} \in SUBSET Addr /\ t.size[n] \in Nat
        BY <1>1, <1>3, <1>5, <1>11 DEF Binned, FreeChunks, Tags
      <3> QED
        BY <3>1, UnlinkHolds
    <2>3. HoldExactly(c, Binned(m) \ {q, n}, t.size)
      <3>1. (Binned(m) \ {q}) \ {n} = Binned(m) \ {q, n}
        OBVIOUS
      <3> QED
        BY <2>2, <3>1
    <2>4. m2 = IF q = m.dv THEN [f EXCEPT !.dvsize = e - q] ELSE FreeToBin(f, q, e - q)
      BY <1>4, <1>11, <2>1 DEF FreeBefore, FreeAbsorbing, SameSegment
    <2> HIDE DEF m2, c
    <2>5. /\ f \in MState /\ Bookkeeping(m, f) /\ f.bins = c
          /\ f.tags = set_size_and_pinuse_of_free_chunk(t, q, e - q)
          /\ f.top = m.top /\ f.topsize = m.topsize
          /\ f.dv = m.dv /\ f.dvsize = m.dvsize
      BY <1>4, <1>6, <2>2 DEF MState, Bookkeeping, SameSegment
    <2> HIDE DEF f
    <2>6. CASE q = m.dv
      <3>1. m2 \in MState /\ Bookkeeping(m, m2)
        BY <1>5, <2>4, <2>5, <2>6 DEF MState, Bookkeeping
      <3>2. FreeStep(m, m2, q, n, e, c)
        BY <1>11, <2>1, <2>3, <2>4, <2>5, <2>6 DEF FreeStep, SegEnd, MState
      <3> QED
        BY <2>2, <3>1, <3>2 DEF m2, m1
    <2>7. CASE q # m.dv
      <3>1. insert_chunk(c, q, e - q) \in BinSet
        BY <1>2, <1>5, <2>2, InsertType
      <3>2. /\ m2 \in MState /\ Bookkeeping(f, m2) /\ SameSegment(f, m2)
            /\ m2.dv = f.dv /\ m2.dvsize = f.dvsize /\ m2.bins = insert_chunk(c, q, e - q)
        BY <2>4, <2>5, <2>7, <3>1, ToBinKeeps
      <3>3. Bookkeeping(m, m2)
        BY <2>5, <3>2 DEF Bookkeeping
      <3>4. FreeStep(m, m2, q, n, e, c)
        BY <1>11, <2>1, <2>3, <2>5, <2>7, <3>2 DEF FreeStep, SegEnd, SameSegment
      <3> QED
        BY <2>2, <3>2, <3>3, <3>4 DEF m2, m1
    <2> QED
      BY <2>6, <2>7
  <1> QED
    BY <1>8, <1>9, <1>10, <1>11

(* Memory and chunk are a fixed distance apart.                            *)
LEMMA MemOfChunk ==
  ASSUME NEW p \in Int
  PROVE  /\ mem2chunk(chunk2mem(p)) = p /\ chunk2mem(mem2chunk(p)) = p
         /\ chunk2mem(p) \in Int /\ mem2chunk(p) \in Int
         /\ chunk2mem(p) > p
  BY ChunkConstants DEF mem2chunk, chunk2mem

(* A size_t sum of operands in range is a size_t.                          *)
LEMMA WrapType ==
  ASSUME NEW x \in Int, x > - SIZE_T_MOD, x < 2 * SIZE_T_MOD
  PROVE  Wrap(x) \in 0 .. MAX_SIZE_T
  BY DEF Wrap, MAX_SIZE_T

(* The block at p is gone, and nothing else has changed for the caller.    *)
Freed(m, p, m2) ==
  /\ m2 \in MState /\ HeapOK(m2)
  /\ m2.aborted = m.aborted /\ m2.seg_size = m.seg_size
  /\ UserChunks(m2) = UserChunks(m) \ {p}
  /\ \A a \in UsedChunks(m2) : m2.tags.size[a] = m.tags.size[a]
  /\ SegEnd(m2) = SegEnd(m) /\ CountKept(m, m2)

(* mspace_free takes the block p, and only it, out of use.                 *)
LEMMA FreeOK ==
  ASSUME NEW m \in MState, HeapOK(m), NEW p \in UserChunks(m)
  PROVE  Freed(m, p, Free(m, chunk2mem(p)))
  <1> DEFINE t == m.tags
             q == PrevOf(m, p)
             n == NextOf(m, p)
             e == EndOf(m, p)
             prevsize == IF p \in t.pin THEN 0 ELSE t.foot[p]
             psize == t.size[p]
             b == IF p \in t.pin \/ q = m.dv THEN m.bins
                  ELSE unlink_chunk(m.bins, q, prevsize)
             f == FreeBefore([m EXCEPT !.bins = b], q, n - q, n)
  <1>1. /\ Shaped(m) /\ t \in Tags /\ m.bins \in BinSet /\ Binned(m) \in SUBSET Addr
        /\ HoldExactly(m.bins, Binned(m), t.size)
        /\ 0 \notin Chunks(m) /\ (m.dvsize = 0 => m.dv = 0)
    BY HeapIsShaped DEF HeapOK
  <1>2. /\ p \in Chunks(m) /\ p \in t.cin /\ p \in Addr /\ SegBase <= p /\ psize \in Nat
        /\ psize < AddrMax
    BY <1>1, ChunkFacts DEF UserChunks
  <1>3. /\ q \in Chunks(m) /\ q <= p /\ q # m.top
        /\ p \in t.pin => q = p
        /\ p \notin t.pin => /\ q \in FreeChunks(m) /\ t.foot[p] = t.size[q]
                             /\ q + t.size[q] = p
    BY <1>1, PrevFacts
  <1>4. q \in Addr /\ SegBase <= q /\ t.size[q] \in Nat
    BY <1>1, <1>3, ChunkFacts
  <1>5. n \in Addr /\ p < n /\ n \in t.pin
    BY <1>1, NextFacts
  <1>6. prevsize \in Nat /\ q = p - prevsize /\ n = p + psize /\ prevsize + psize = n - q
    <2>1. prevsize \in Nat
      BY <1>2, <1>1 DEF Tags
    <2>2. q = p - prevsize /\ n = p + psize
      BY DEF PrevOf, NextOf
    <2> HIDE DEF q, n, prevsize, psize
    <2> QED
      BY <1>2, <2>1, <2>2
  <1>7. b \in BinSet /\ HoldExactly(b, Binned(m) \ {q}, t.size)
    <2>1. CASE p \in t.pin
      <3>1. q \notin Binned(m)
        BY <1>2, <1>3, <2>1 DEF Binned, FreeChunks
      <3>2. Binned(m) \ {q} = Binned(m)
        BY <3>1
      <3> QED
        BY <1>1, <2>1, <3>2
    <2>2. CASE p \notin t.pin /\ q = m.dv
      <3>1. Binned(m) \ {q} = Binned(m)
        BY <2>2 DEF Binned
      <3> QED
        BY <1>1, <2>2, <3>1
    <2>3. CASE p \notin t.pin /\ q # m.dv
      <3>1. q \in Binned(m)
        BY <1>3, <2>3 DEF Binned
      <3>2. b = unlink_chunk(m.bins, q, t.size[q])
        BY <1>3, <2>3
      <3> HIDE DEF b
      <3> QED
        BY <1>1, <1>4, <3>1, <3>2, UnlinkHolds
    <2> QED
      BY <2>1, <2>2, <2>3
  <1> HIDE DEF b
  <1>8. /\ f \in MState /\ Bookkeeping(m, f)
        /\ \E c \in BinSet : FreeStep(m, f, q, n, e, c)
    BY <1>7, FreeBeforeSteps
  <1>9. /\ HeapOK(f) /\ UserChunks(f) = UserChunks(m) \ {p}
        /\ \A a \in UsedChunks(f) : f.tags.size[a] = t.size[a]
    <2>1. PICK c \in BinSet : FreeStep(m, f, q, n, e, c)
      BY <1>8
    <2> HIDE DEF f
    <2>2. f \in MState /\ FreeStep(m, f, PrevOf(m, p), NextOf(m, p), EndOf(m, p), c)
      BY <1>8, <2>1
    <2> QED
      BY <2>2, FreeStepOK
  <1>10. SegEnd(f) = SegEnd(m)
    BY <1>8 DEF FreeStep
  <1> DEFINE m2 == [f EXCEPT !.exts = Wrap(@ - psize)]
  <1>11. Free(m, chunk2mem(p)) = m2
    <2>1. mem2chunk(chunk2mem(p)) = p
      BY <1>2, MemOfChunk
    <2>2. /\ ok_address(p) /\ p \in t.cin /\ ok_address(q) /\ ok_next(q, n) /\ n \in t.pin
      BY <1>2, <1>3, <1>4, <1>5 DEF ok_address, ok_next
    <2>3. /\ q = p - (IF p \in t.pin THEN 0 ELSE t.foot[p]) /\ n = p + t.size[p]
          /\ n - q = (IF p \in t.pin THEN 0 ELSE t.foot[p]) + t.size[p]
      BY <1>6
    <2>4. b = IF p \in t.pin \/ q = m.dv THEN m.bins
              ELSE unlink_chunk(m.bins, q, IF p \in t.pin THEN 0 ELSE t.foot[p])
      BY DEF b
    <2> HIDE DEF q, n, b
    <2> QED
      BY <2>1, <2>2, <2>3, <2>4 DEF Free
  <1> HIDE DEF f
  <1>12. Wrap(f.exts - psize) \in 0 .. MAX_SIZE_T
    <2>1. /\ f.exts - psize \in Int /\ f.exts - psize > - SIZE_T_MOD
          /\ f.exts - psize < 2 * SIZE_T_MOD
      BY <1>2, <1>8 DEF MState, MAX_SIZE_T
    <2> QED
      BY <2>1, WrapType
  <1>13. /\ m2 \in MState /\ m2.aborted = m.aborted /\ m2.seg_size = m.seg_size
         /\ m2.exts = Wrap(m.exts - psize) /\ m2.tags = f.tags /\ m2.top = f.top /\ m2.topsize = f.topsize
         /\ m2.dv = f.dv /\ m2.dvsize = f.dvsize /\ m2.bins = f.bins
    BY <1>8, <1>12 DEF MState, Bookkeeping
  <1> HIDE DEF m2
  <1>14. HeapOK(m2) /\ UserChunks(m2) = UserChunks(f) /\ SegEnd(m2) = SegEnd(f)
    BY <1>9, <1>13, SameHeap
  <1>15. CountKept(m, m2)
    BY <1>9, <1>13, <1>14, CountTaken DEF UsedChunks
  <1> QED
    BY <1>9, <1>10, <1>11, <1>13, <1>14, <1>15 DEF Freed, UsedChunks

-----------------------------------------------------------------------------
(* Chunks that are neither free nor the malloc_state are the caller's.     *)
LEMMA UsersAreTheRest ==
  ASSUME NEW m
  PROVE  UserChunks(m) = (Chunks(m) \ FreeChunks(m)) \ {SegBase}
  BY DEF UserChunks, FreeChunks

(* The chunk p, of at least nb granules, is now the caller's.              *)
Served(m, p, nb, m2) ==
  /\ HeapOK(m2) /\ SegEnd(m2) = SegEnd(m)
  /\ p \in FreeChunks(m) /\ UserChunks(m2) = UserChunks(m) \cup {p}
  /\ \A a \in UsedChunks(m) : m2.tags.size[a] = m.tags.size[a]
  /\ m2.tags.size[p] >= nb /\ m2.tags.size[p] < nb + MIN_CHUNK_SIZE

(* dv, or a chunk of a bin, is given out whole.                            *)
WholeTaken(m, p, m2) ==
  /\ m2.tags = set_inuse_and_pinuse(m.tags, p, m.tags.size[p])
  /\ m2.top = m.top /\ m2.topsize = m.topsize
  /\ \/ /\ p # m.dv /\ m2.dv = m.dv /\ m2.dvsize = m.dvsize
        /\ m2.bins = unlink_chunk(m.bins, p, m.tags.size[p])
     \/ p = m.dv /\ m2.dv = 0 /\ m2.dvsize = 0 /\ m2.bins = m.bins

(* A free chunk that is given out whole serves the request.                *)
LEMMA WholeTakenServes ==
  ASSUME NEW m \in MState, HeapOK(m), NEW m2 \in MState, NEW nb \in Nat,
         NEW p \in FreeChunks(m), p # m.top, WholeTaken(m, p, m2),
         m.tags.size[p] >= nb, m.tags.size[p] < nb + MIN_CHUNK_SIZE
  PROVE  Served(m, p, nb, m2)
  <1>1. /\ Shaped(m) /\ m.bins \in BinSet /\ Binned(m) \in SUBSET Addr
        /\ HoldExactly(m.bins, Binned(m), m.tags.size)
        /\ 0 \notin FreeChunks(m) /\ (m.dvsize = 0 => m.dv = 0)
        /\ m.dvsize # 0 => /\ m.dv \in FreeChunks(m) /\ m.dv # m.top
                           /\ m.tags.size[m.dv] = m.dvsize
    BY HeapIsShaped DEF HeapOK, FreeChunks
  <1>2. /\ Shaped(m2) /\ m2.tags.size = m.tags.size /\ Chunks(m2) = Chunks(m)
        /\ FreeChunks(m2) = FreeChunks(m) \ {p}
    BY <1>1, TakeWhole DEF WholeTaken
  <1>3. m2.top = m.top /\ SegEnd(m2) = SegEnd(m)
    BY DEF WholeTaken, SegEnd
  <1>4. UserChunks(m2) = UserChunks(m) \cup {p}
    <2>1. p # SegBase /\ p \in Chunks(m)
      BY <1>1 DEF FreeChunks, Shaped, TagsAgree
    <2> QED
      BY <1>2, <2>1, UsersAreTheRest
  <1>5. DvIsFree(m2) /\ HoldExactly(m2.bins, Binned(m2), m2.tags.size)
    <2>1. CASE p # m.dv /\ m2.dv = m.dv /\ m2.dvsize = m.dvsize
               /\ m2.bins = unlink_chunk(m.bins, p, m.tags.size[p])
      <3>1. DvIsFree(m2)
        BY <1>1, <1>2, <1>3, <2>1 DEF DvIsFree
      <3>2. Binned(m2) = Binned(m) \ {p} /\ p \in Binned(m)
        BY <1>2, <1>3, <2>1 DEF Binned
      <3>3. m.tags.size[p] \in Nat
        BY <1>1, ChunkFacts DEF FreeChunks
      <3> QED
        <4>1. HoldExactly(unlink_chunk(m.bins, p, m.tags.size[p]), Binned(m) \ {p},
                          m.tags.size)
          BY <1>1, <3>2, <3>3, UnlinkHolds
        <4> QED
          BY <1>2, <2>1, <3>1, <3>2, <4>1
    <2>2. CASE p = m.dv /\ m2.dv = 0 /\ m2.dvsize = 0 /\ m2.bins = m.bins
      <3>1. Binned(m2) = Binned(m)
        BY <1>1, <1>2, <1>3, <2>2 DEF Binned
      <3> QED
        BY <1>1, <1>2, <2>2, <3>1 DEF DvIsFree
    <2> QED
      BY <2>1, <2>2 DEF WholeTaken
  <1>6. HeapOK(m2)
    BY <1>2, <1>5 DEF HeapOK, Shaped
  <1> QED
    BY <1>2, <1>3, <1>4, <1>6 DEF Served

(* dv, or a chunk of a bin, is split: the rest becomes dv or goes to a bin *)
(* or is still dv.                                                         *)
WithoutDv(m, b) == IF m.dvsize # 0 THEN insert_chunk(b, m.dv, m.dvsize) ELSE b

SplitTaken(m, p, nb, m2) ==
  LET rsize == m.tags.size[p] - nb
      b     == unlink_chunk(m.bins, p, m.tags.size[p])
  IN  /\ m2.tags = Split(m.tags, p, nb, rsize)
      /\ m2.top = m.top /\ m2.topsize = m.topsize
      /\ \/ /\ p # m.dv /\ m2.dv = p + nb /\ m2.dvsize = rsize
            /\ m2.bins = WithoutDv(m, b)
         \/ /\ p # m.dv /\ m2.dv = m.dv /\ m2.dvsize = m.dvsize
            /\ m2.bins = insert_chunk(b, p + nb, rsize)
         \/ p = m.dv /\ m2.dv = p + nb /\ m2.dvsize = rsize /\ m2.bins = m.bins

(* A free chunk of which the rest stays free serves the request.           *)
LEMMA SplitTakenServes ==
  ASSUME NEW m \in MState, HeapOK(m), NEW m2 \in MState, NEW nb \in Nat,
         NEW p \in FreeChunks(m), p # m.top, SplitTaken(m, p, nb, m2),
         nb >= MIN_CHUNK_SIZE, m.tags.size[p] - nb >= MIN_CHUNK_SIZE
  PROVE  Served(m, p, nb, m2)
  <1> DEFINE r == p + nb
             rsize == m.tags.size[p] - nb
             b == unlink_chunk(m.bins, p, m.tags.size[p])
  <1>1. /\ Shaped(m) /\ m.bins \in BinSet /\ Binned(m) \in SUBSET Addr
        /\ HoldExactly(m.bins, Binned(m), m.tags.size)
        /\ 0 \notin FreeChunks(m) /\ (m.dvsize = 0 => m.dv = 0)
        /\ m.dvsize # 0 => /\ m.dv \in FreeChunks(m) /\ m.dv # m.top
                           /\ m.tags.size[m.dv] = m.dvsize
        /\ m.dv \in Addr /\ m.dvsize \in Nat
    BY HeapIsShaped DEF HeapOK, FreeChunks
  <1>2. /\ Shaped(m2)
        /\ Chunks(m2) = Chunks(m) \cup {r}
        /\ FreeChunks(m2) = (FreeChunks(m) \ {p}) \cup {r}
        /\ \A a \in Chunks(m) \ {p} : m2.tags.size[a] = m.tags.size[a]
        /\ m2.tags.size[p] = nb /\ m2.tags.size[r] = rsize
        /\ r \notin Chunks(m)
    BY <1>1, SplitFree DEF SplitTaken
  <1>3. m2.top = m.top /\ SegEnd(m2) = SegEnd(m)
    BY DEF SplitTaken, SegEnd
  <1>4. /\ p # SegBase /\ p \in Chunks(m) /\ p \in Addr /\ m.tags.size[p] \in Nat
        /\ SegBase \in Chunks(m) /\ m.top \in Chunks(m)
    <2>1. p \in Chunks(m) /\ p # SegBase
      BY <1>1 DEF FreeChunks, Shaped, TagsAgree
    <2> QED
      BY <1>1, <2>1, ChunkFacts
  <1>5. rsize \in Nat \ {0} /\ r \in Addr /\ r # 0
    <2>1. rsize \in Nat \ {0}
      BY <1>4, ChunkConstants
    <2>2. r \in Chunks(m2)
      BY <1>2
    <2>3. r # 0
      BY <1>4, ChunkConstants
    <2>4. r \in Addr
      BY <1>2, <2>2, ChunkFacts
    <2> QED
      BY <2>1, <2>3, <2>4
  <1> DEFINE t == m.tags
             u == m2.tags
  <1> HIDE DEF r, rsize
  <1>6. UserChunks(m2) = UserChunks(m) \cup {p}
    BY <1>2, <1>4, UsersAreTheRest DEF FreeChunks
  <1>7. DvIsFree(m2) /\ HoldExactly(m2.bins, Binned(m2), u.size)
    <2>1. CASE p = m.dv /\ m2.dv = r /\ m2.dvsize = rsize /\ m2.bins = m.bins
      <3>1. DvIsFree(m2)
        BY <1>2, <1>3, <1>4, <1>5, <2>1 DEF DvIsFree
      <3>2. Binned(m2) = Binned(m)
        BY <1>2, <1>3, <2>1 DEF Binned, FreeChunks
      <3>3. \A a \in Binned(m) : u.size[a] = t.size[a]
        BY <1>2, <2>1 DEF Binned, FreeChunks
      <3> QED
        BY <1>1, <2>1, <3>1, <3>2, <3>3, HoldSame
    <2>2. CASE p # m.dv
      <3>1. p \in Binned(m)
        BY <2>2 DEF Binned
      <3>2. b \in BinSet /\ HoldExactly(b, Binned(m) \ {p}, t.size)
        BY <1>1, <1>4, <3>1, UnlinkHolds
      <3>3. \A a \in (Binned(m) \ {p}) \cup ({m.dv} \cap FreeChunks(m)) :
              u.size[a] = t.size[a]
        BY <1>2, <2>2 DEF Binned, FreeChunks
      <3> DEFINE B == Binned(m) \ {p}
      <3>4. B \in SUBSET Addr /\ \A a \in B : u.size[a] = t.size[a]
        BY <1>1, <3>3
      <3>4a. HoldExactly(b, B, t.size)
        BY <3>2
      <3> HIDE DEF b, B
      <3>5. CASE m2.dv = m.dv /\ m2.dvsize = m.dvsize /\ m2.bins = insert_chunk(b, r, rsize)
        <4>1. m.dv # r
          <5>1. m.dvsize # 0 => m.dv \in Chunks(m)
            BY <1>1 DEF FreeChunks
          <5> QED
            BY <1>1, <1>2, <1>5, <5>1
        <4>2. DvIsFree(m2)
          BY <1>1, <1>2, <1>3, <2>2, <3>3, <3>5, <4>1 DEF DvIsFree
        <4>3. Binned(m2) = (Binned(m) \ {p}) \cup {r}
          BY <1>2, <1>3, <1>4, <3>5, <4>1 DEF Binned
        <4>4. r \notin B
          BY <1>2 DEF Binned, FreeChunks, B
        <4>5. HoldExactly(insert_chunk(b, r, rsize), B \cup {r}, u.size)
          BY <1>2, <1>5, <3>2, <3>4, <3>4a, <4>4, InsertHolds
        <4> QED
          BY <3>5, <4>2, <4>3, <4>5 DEF B
      <3>6. CASE m2.dv = r /\ m2.dvsize = rsize /\ m2.bins = WithoutDv(m, b)
        <4>1. DvIsFree(m2)
          BY <1>2, <1>3, <1>4, <1>5, <3>6 DEF DvIsFree
        <4>2. CASE m.dvsize = 0
          <5>1. Binned(m2) = Binned(m) \ {p}
            <6>1. m.dv \notin FreeChunks(m)
              BY <1>1, <4>2
            <6> QED
              BY <1>2, <1>3, <3>6, <6>1 DEF Binned, FreeChunks
          <5>2. m2.bins = b
            BY <3>6, <4>2 DEF WithoutDv
          <5> QED
            BY <3>2, <3>3, <4>1, <5>1, <5>2, HoldSame
        <4>3. CASE m.dvsize # 0
          <5>1. Binned(m2) = (Binned(m) \ {p}) \cup {m.dv}
            <6>1. m.dv \in FreeChunks(m) /\ m.dv # m.top
              BY <1>1, <4>3
            <6> QED
              BY <1>2, <1>3, <2>2, <3>6, <6>1 DEF Binned, FreeChunks
          <5>2. m2.bins = insert_chunk(b, m.dv, m.dvsize)
            BY <3>6, <4>3 DEF WithoutDv
          <5>3. m.dv \notin B
            BY DEF Binned, B
          <5>4. u.size[m.dv] = m.dvsize
            BY <1>1, <3>3, <4>3
          <5>5. HoldExactly(insert_chunk(b, m.dv, m.dvsize), B \cup {m.dv}, u.size)
            BY <1>1, <3>2, <3>4, <3>4a, <5>3, <5>4, InsertHolds
          <5> QED
            BY <4>1, <5>1, <5>2, <5>5 DEF B
        <4> QED
          BY <4>2, <4>3
      <3> QED
        BY <2>2, <3>5, <3>6 DEF SplitTaken, r, rsize, b
    <2> QED
      BY <2>1, <2>2 DEF SplitTaken, r, rsize
  <1>8. HeapOK(m2)
    BY <1>2, <1>7 DEF HeapOK, Shaped
  <1>9. \A a \in UsedChunks(m) : u.size[a] = t.size[a]
    BY <1>1, <1>2, UsedAreNotFree
  <1>10. u.size[p] >= nb /\ u.size[p] < nb + MIN_CHUNK_SIZE
    BY <1>2, ChunkConstants
  <1> QED
    BY <1>3, <1>6, <1>8, <1>9, <1>10 DEF Served

-----------------------------------------------------------------------------
(* A result of mspace_malloc for a chunk of nb granules: NULL, and nothing *)
(* has changed, or the memory of a chunk that was free.                    *)
MallocOK(m, nb, r) ==
  \/ r.mem = 0 /\ r.ms = m
  \/ \E p \in FreeChunks(m) :
       /\ r.mem = chunk2mem(p) /\ r.ms \in MState /\ Served(m, p, nb, r.ms)
       /\ r.ms.aborted = m.aborted /\ r.ms.seg_size = m.seg_size
       /\ CountKept(m, r.ms)

(* Counting the chunk in exts changes nothing of the heap.                 *)
LEMMA ReturnOK ==
  ASSUME NEW m \in MState, NEW f \in MState, NEW nb, NEW p, NEW s \in Addr,
         HeapOK(m), Served(m, p, nb, f),
         f.aborted = m.aborted, f.seg_size = m.seg_size,
         f.exts = m.exts, f.tags.size[p] = s
  PROVE  MallocOK(m, nb, Return(f, p, s))
  <1> DEFINE g == [f EXCEPT !.exts = Wrap(@ + s)]
  <1>1. Wrap(f.exts + s) \in 0 .. MAX_SIZE_T
    <2>1. f.exts + s \in Int /\ f.exts + s > - SIZE_T_MOD /\ f.exts + s < 2 * SIZE_T_MOD
      BY DEF MState, MAX_SIZE_T
    <2> QED
      BY <2>1, WrapType
  <1>2. /\ g \in MState /\ g.aborted = m.aborted /\ g.seg_size = m.seg_size
        /\ g.exts = Wrap(m.exts + s) /\ g.tags = f.tags /\ g.top = f.top /\ g.topsize = f.topsize
        /\ g.dv = f.dv /\ g.dvsize = f.dvsize /\ g.bins = f.bins
    BY <1>1 DEF MState
  <1>3. Return(f, p, s) = [ms |-> g, mem |-> chunk2mem(p)]
    BY DEF Return
  <1> HIDE DEF g
  <1>4. HeapOK(g) /\ UserChunks(g) = UserChunks(f) /\ SegEnd(g) = SegEnd(f)
    BY <1>2, SameHeap DEF Served
  <1>5. Served(m, p, nb, g)
    BY <1>2, <1>4 DEF Served
  <1>6. p \in FreeChunks(m) /\ p \notin UserChunks(m)
    BY DEF Served, FreeChunks, UserChunks
  <1>7. CountKept(m, g)
    <2>1. UserChunks(g) = UserChunks(m) \cup {p} /\ HeapOK(g)
          /\ \A a \in UserChunks(m) : g.tags.size[a] = m.tags.size[a]
      BY <1>2, <1>5 DEF Served, UsedChunks
    <2>2. g.exts = Wrap(m.exts + g.tags.size[p])
      BY <1>2
    <2> QED
      BY <1>2, <1>6, <2>1, <2>2, CountGiven
  <1> QED
    BY <1>2, <1>3, <1>5, <1>6, <1>7 DEF MallocOK

(* What malloc writes is within the segment.                               *)
LEMMA TakeTypes ==
  ASSUME NEW m \in MState, Shaped(m), NEW p \in Chunks(m), NEW nb \in Nat,
         nb < m.tags.size[p]
  PROVE  /\ p \in Addr /\ p + nb \in Addr /\ m.tags.size[p] \in Addr
         /\ set_inuse_and_pinuse(m.tags, p, m.tags.size[p]) \in Tags
         /\ Split(m.tags, p, nb, m.tags.size[p] - nb) \in Tags
         /\ set_size_and_pinuse_of_inuse_chunk(
              set_top_head(m.tags, p + nb, m.tags.size[p] - nb), p, nb) \in Tags
         /\ set_inuse(set_inuse(m.tags, p, nb), p + nb, m.tags.size[p] - nb) \in Tags
  <1> DEFINE s == m.tags.size[p]
             r == p + nb
             z == s - nb
  <1>1. p \in Addr /\ s \in Nat \ {0} /\ p + s \in Addr /\ m.tags \in Tags
    BY ChunkFacts DEF MState
  <1>2. r \in Addr /\ z \in Nat /\ r + z \in Addr /\ s \in Addr
    <2>1. r + z = p + s
      BY <1>1
    <2> QED
      BY <1>1, <2>1
  <1>3. set_inuse_and_pinuse(m.tags, p, s) \in Tags
    BY <1>1, MacroTypes
  <1> HIDE DEF z
  <1>4. Split(m.tags, p, nb, z) \in Tags
    <2>1. set_size_and_pinuse_of_inuse_chunk(m.tags, p, nb) \in Tags
      BY <1>1, <1>2, MacroTypes
    <2> QED
      BY <1>2, <2>1, MacroTypes DEF Split
  <1>5. set_size_and_pinuse_of_inuse_chunk(set_top_head(m.tags, r, z), p, nb) \in Tags
    <2>1. set_top_head(m.tags, r, z) \in Tags
      BY <1>1, <1>2, MacroTypes
    <2> QED
      BY <1>1, <1>2, <2>1, MacroTypes
  <1>6. set_inuse(set_inuse(m.tags, p, nb), r, z) \in Tags
    <2>1. set_inuse(m.tags, p, nb) \in Tags
      BY <1>1, <1>2, MacroTypes
    <2> QED
      BY <1>2, <2>1, MacroTypes
  <1> QED
    BY <1>1, <1>2, <1>3, <1>4, <1>5, <1>6 DEF z

(* The head of what is given out has its size.                             *)
LEMMA SizeGiven ==
  ASSUME NEW t, NEW p \in Addr, NEW s
  PROVE  /\ set_inuse_and_pinuse(t, p, s).size[p] = s
         /\ \A nb \in Nat \ {0} : Split(t, p, nb, s).size[p] = nb
  BY DEF set_inuse_and_pinuse, Split, set_size_and_pinuse_of_free_chunk,
         set_size_and_pinuse_of_inuse_chunk, HeadWritten, Body

(* What is in a bin is a free chunk of the size of the bin.                *)
LEMMA InSmallBin ==
  ASSUME NEW m \in MState, HeapOK(m), NEW i \in SmallIndex, NEW p \in m.bins.small[i]
  PROVE  /\ p \in FreeChunks(m) /\ p # m.top /\ p # m.dv /\ m.tags.size[p] = i
         /\ unlink_small_chunk(m.bins, p, i) = unlink_chunk(m.bins, p, m.tags.size[p])
  <1>1. /\ p \in Binned(m) /\ is_small(m.tags.size[p]) /\ m.tags.size[p] = i
    BY DEF HeapOK, HoldExactly, small_index
  <1> QED
    BY <1>1 DEF Binned, unlink_chunk

(* A chunk of a tree bin is free and of a size for that bin.               *)
LEMMA InTreeBin ==
  ASSUME NEW m \in MState, HeapOK(m), NEW i \in TreeIndex, NEW p \in m.bins.tree[i]
  PROVE  /\ p \in FreeChunks(m) /\ p # m.top /\ p # m.dv
         /\ unlink_large_chunk(m.bins, p) = unlink_chunk(m.bins, p, m.tags.size[p])
  <1>1. /\ p \in Binned(m) /\ ~is_small(m.tags.size[p])
    BY DEF HeapOK, HoldExactly
  <1> QED
    BY <1>1 DEF Binned, unlink_chunk

-----------------------------------------------------------------------------
(* A chunk that leaves its bin leaves bins behind.                         *)
LEMMA UnlinkType ==
  ASSUME NEW m \in MState, HeapOK(m), NEW p \in FreeChunks(m), p # m.top, p # m.dv
  PROVE  unlink_chunk(m.bins, p, m.tags.size[p]) \in BinSet
  <1>1. /\ m.bins \in BinSet /\ Binned(m) \in SUBSET Addr /\ p \in Binned(m)
        /\ HoldExactly(m.bins, Binned(m), m.tags.size)
    BY HeapIsShaped DEF HeapOK, Binned
  <1>2. m.tags.size[p] \in Nat
    BY HeapIsShaped, ChunkFacts DEF FreeChunks
  <1> QED
    BY <1>1, <1>2, UnlinkHolds

(* A chunk of a bin is given out whole ...                                 *)
LEMMA WholeReturned ==
  ASSUME NEW m \in MState, HeapOK(m), NEW nb \in Nat, nb > 0,
         NEW p \in FreeChunks(m), p # m.top, p # m.dv,
         NEW s, s = m.tags.size[p], s >= nb, s < nb + MIN_CHUNK_SIZE
  PROVE  MallocOK(m, nb, Return([m EXCEPT !.bins = unlink_chunk(@, p, s),
                                          !.tags = set_inuse_and_pinuse(@, p, s)], p, s))
  <1> DEFINE f == [m EXCEPT !.bins = unlink_chunk(@, p, s),
                            !.tags = set_inuse_and_pinuse(@, p, s)]
  <1>1. /\ set_inuse_and_pinuse(m.tags, p, s) \in Tags /\ s \in Addr
    <2>1. Shaped(m) /\ p \in Chunks(m)
      BY HeapIsShaped DEF FreeChunks
    <2>2. 0 < m.tags.size[p]
      BY <2>1, ChunkFacts
    <2> QED
      BY <2>1, <2>2, TakeTypes
  <1>2. unlink_chunk(m.bins, p, s) \in BinSet
    BY UnlinkType
  <1>3. /\ f \in MState /\ f.aborted = m.aborted /\ f.seg_size = m.seg_size
        /\ f.exts = m.exts /\ WholeTaken(m, p, f)
    BY <1>1, <1>2 DEF MState, WholeTaken
  <1>6. f.tags.size[p] = s
    <2>1. f.tags = set_inuse_and_pinuse(m.tags, p, s) /\ p \in Addr
      BY HeapIsShaped, ChunkFacts DEF MState, FreeChunks
    <2> HIDE DEF f
    <2>2. set_inuse_and_pinuse(m.tags, p, s).size[p] = s
      BY <2>1, SizeGiven
    <2> QED
      BY ONLY <2>1, <2>2
  <1> HIDE DEF f
  <1>4. Served(m, p, nb, f)
    BY <1>3, WholeTakenServes
  <1>5. MallocOK(m, nb, Return(f, p, s))
    BY <1>1, <1>3, <1>4, <1>6, ReturnOK
  <1> QED
    BY <1>5 DEF f

(* ... or split; what is left becomes dv, whose old chunk is small ...     *)
LEMMA SplitToDvReturned ==
  ASSUME NEW m \in MState, HeapOK(m), NEW nb \in Nat, nb >= MIN_CHUNK_SIZE,
         NEW p \in FreeChunks(m), p # m.top, p # m.dv, is_small(m.dvsize),
         NEW rsize, rsize = m.tags.size[p] - nb, rsize >= MIN_CHUNK_SIZE
  PROVE  MallocOK(m, nb,
           Return(replace_dv([m EXCEPT !.bins = unlink_chunk(@, p, m.tags.size[p]),
                                       !.tags = Split(@, p, nb, rsize)],
                             p + nb, rsize), p, nb))
  <1> DEFINE b == unlink_chunk(m.bins, p, m.tags.size[p])
             g == [m EXCEPT !.bins = b, !.tags = Split(@, p, nb, rsize)]
             f == replace_dv(g, p + nb, rsize)
  <1>1. /\ Split(m.tags, p, nb, rsize) \in Tags /\ nb \in Addr /\ p + nb \in Addr
        /\ rsize \in Nat
    <2>1. Shaped(m) /\ p \in Chunks(m)
      BY HeapIsShaped DEF FreeChunks
    <2>2. nb < m.tags.size[p] /\ rsize \in Nat
      BY <2>1, ChunkFacts, ChunkConstants
    <2>3. m.tags.size[p] \in Addr
      BY <2>1, <2>2, TakeTypes
    <2> QED
      BY <2>1, <2>2, <2>3, TakeTypes
  <1>2. b \in BinSet /\ WithoutDv(m, b) \in BinSet
    <2>1. b \in BinSet
      BY UnlinkType
    <2> HIDE DEF b
    <2> QED
      BY <2>1, InsertType, HeapIsShaped DEF WithoutDv
  <1> HIDE DEF b
  <1>3. f = [g EXCEPT !.bins = WithoutDv(m, b), !.dv = p + nb, !.dvsize = rsize]
    <2>1. /\ g.bins = b /\ g.dv = m.dv /\ g.dvsize = m.dvsize
      BY DEF MState
    <2> HIDE DEF g
    <2> QED
      BY <2>1 DEF replace_dv, WithoutDv, insert_chunk
  <1>4. /\ f \in MState /\ f.aborted = m.aborted /\ f.seg_size = m.seg_size
        /\ f.exts = m.exts /\ SplitTaken(m, p, nb, f)
    <2> HIDE DEF f
    <2> QED
      BY <1>1, <1>2, <1>3 DEF MState, SplitTaken, b
  <1> HIDE DEF f
  <1>5. Served(m, p, nb, f)
    BY <1>4, SplitTakenServes
  <1>6. MallocOK(m, nb, Return(f, p, nb))
    <2>1. f.tags.size[p] = nb
      BY <1>1, <1>4, SizeGiven, ChunkConstants, HeapIsShaped, ChunkFacts
         DEF SplitTaken, FreeChunks
    <2> QED
      BY <1>1, <1>4, <1>5, <2>1, ReturnOK
  <1> QED
    BY <1>6 DEF f, b

(* ... or goes to the bin of its size.                                     *)
LEMMA SplitToBinReturned ==
  ASSUME NEW m \in MState, HeapOK(m), NEW nb \in Nat, nb >= MIN_CHUNK_SIZE,
         NEW p \in FreeChunks(m), p # m.top, p # m.dv,
         NEW rsize, rsize = m.tags.size[p] - nb, rsize >= MIN_CHUNK_SIZE
  PROVE  MallocOK(m, nb,
           Return([[[m EXCEPT !.bins = unlink_chunk(@, p, m.tags.size[p])]
                      EXCEPT !.tags = Split(@, p, nb, rsize)]
                     EXCEPT !.bins = insert_chunk(@, p + nb, rsize)], p, nb))
  <1> DEFINE b == unlink_chunk(m.bins, p, m.tags.size[p])
             g == [[m EXCEPT !.bins = b] EXCEPT !.tags = Split(@, p, nb, rsize)]
             f == [g EXCEPT !.bins = insert_chunk(@, p + nb, rsize)]
  <1>1. /\ Split(m.tags, p, nb, rsize) \in Tags /\ nb \in Addr /\ p + nb \in Addr
        /\ rsize \in Nat
    <2>1. Shaped(m) /\ p \in Chunks(m)
      BY HeapIsShaped DEF FreeChunks
    <2>2. nb < m.tags.size[p] /\ rsize \in Nat
      BY <2>1, ChunkFacts, ChunkConstants
    <2>3. m.tags.size[p] \in Addr
      BY <2>1, <2>2, TakeTypes
    <2> QED
      BY <2>1, <2>2, <2>3, TakeTypes
  <1>2. b \in BinSet /\ insert_chunk(b, p + nb, rsize) \in BinSet
    <2>1. b \in BinSet
      BY UnlinkType
    <2> HIDE DEF b
    <2> QED
      BY <1>1, <2>1, InsertType
  <1> HIDE DEF b
  <1>3. /\ f \in MState /\ f.aborted = m.aborted /\ f.seg_size = m.seg_size
        /\ f.exts = m.exts /\ f.bins = insert_chunk(b, p + nb, rsize) /\ f.tags = Split(m.tags, p, nb, rsize)
        /\ f.dv = m.dv /\ f.dvsize = m.dvsize /\ f.top = m.top /\ f.topsize = m.topsize
    BY <1>1, <1>2 DEF MState
  <1> HIDE DEF f
  <1>4. SplitTaken(m, p, nb, f)
    BY <1>3 DEF SplitTaken, b
  <1>5. Served(m, p, nb, f)
    BY <1>3, <1>4, SplitTakenServes
  <1>6. MallocOK(m, nb, Return(f, p, nb))
    <2>1. f.tags.size[p] = nb
      BY <1>1, <1>3, SizeGiven, ChunkConstants, HeapIsShaped, ChunkFacts DEF FreeChunks
    <2> QED
      BY <1>1, <1>3, <1>5, <2>1, ReturnOK
  <1> QED
    BY <1>6 DEF f, b

-----------------------------------------------------------------------------
(* Each way that malloc finds a chunk.                                     *)
LEMMA RemainderlessFitOK ==
  ASSUME NEW m \in MState, HeapOK(m), NEW nb \in Nat, nb >= MIN_CHUNK_SIZE,
         {nb, nb + 1} \cap m.bins.smallmap # {}, NEW r \in RemainderlessFit(m, nb)
  PROVE  MallocOK(m, nb, r)
  <1> DEFINE i == IF nb \in m.bins.smallmap THEN nb ELSE nb + 1
  <1>1. i \in SmallIndex /\ i \in nb .. nb + 1
    <2>1. m.bins.smallmap \subseteq SmallIndex
      BY HeapIsShaped DEF BinSet
    <2> QED
      BY <2>1
  <1>2. PICK p \in m.bins.small[i] :
          r = Return([m EXCEPT !.bins = unlink_small_chunk(@, p, i),
                               !.tags = set_inuse_and_pinuse(@, p, i)], p, m.tags.size[p])
    BY DEF RemainderlessFit
  <1> HIDE DEF i
  <1>3. /\ p \in FreeChunks(m) /\ p # m.top /\ p # m.dv /\ m.tags.size[p] = i
        /\ unlink_small_chunk(m.bins, p, i) = unlink_chunk(m.bins, p, i)
    BY <1>1, InSmallBin
  <1>4. i >= nb /\ i < nb + MIN_CHUNK_SIZE /\ nb > 0
    BY <1>1, ChunkConstants
  <1>5. MallocOK(m, nb, Return([m EXCEPT !.bins = unlink_chunk(@, p, i),
                                         !.tags = set_inuse_and_pinuse(@, p, i)], p, i))
    BY <1>3, <1>4, WholeReturned
  <1> QED
    BY <1>2, <1>3, <1>5

(* A chunk of the next small bin serves, split or whole.                   *)
LEMMA NextSmallBinOK ==
  ASSUME NEW m \in MState, HeapOK(m), NEW nb \in Nat, nb >= MIN_CHUNK_SIZE,
         {nb, nb + 1} \cap m.bins.smallmap = {}, is_small(m.dvsize),
         {j \in m.bins.smallmap : j > nb} # {}, NEW r \in NextSmallBin(m, nb)
  PROVE  MallocOK(m, nb, r)
  <1> DEFINE i == LeastIndex({j \in m.bins.smallmap : j > nb})
             rsize == i - nb
  <1>1. i \in SmallIndex /\ i \in Nat /\ i >= nb + 2
    <2>1. m.bins.smallmap \subseteq SmallIndex /\ SmallIndex \subseteq Nat
      BY HeapIsShaped DEF BinSet, SmallIndex
    <2>2. i \in {j \in m.bins.smallmap : j > nb}
      <3>1. {j \in m.bins.smallmap : j > nb} \in SUBSET Nat
        BY <2>1
      <3> QED
        BY <3>1, LeastIndexIn
    <2> HIDE DEF i
    <2>3. i \in m.bins.smallmap /\ i > nb /\ nb + 1 \notin m.bins.smallmap
      BY <2>2
    <2>4. i \in SmallIndex /\ i \in Nat
      BY <2>1, <2>3
    <2> QED
      BY <2>3, <2>4
  <1>2. PICK p \in m.bins.small[i] :
          r = IF SIZE_T_SIZE # 4 /\ rsize < MIN_CHUNK_SIZE
              THEN Return([[m EXCEPT !.bins = unlink_small_chunk(@, p, i)]
                             EXCEPT !.tags = set_inuse_and_pinuse(@, p, i)], p, i)
              ELSE Return(replace_dv([[m EXCEPT !.bins = unlink_small_chunk(@, p, i)]
                                        EXCEPT !.tags = Split(@, p, nb, rsize)],
                                     p + nb, rsize), p, nb)
    BY DEF NextSmallBin
  <1> HIDE DEF i
  <1>3. /\ p \in FreeChunks(m) /\ p # m.top /\ p # m.dv /\ m.tags.size[p] = i
        /\ unlink_small_chunk(m.bins, p, i) = unlink_chunk(m.bins, p, i)
    BY <1>1, InSmallBin
  <1>4. CASE SIZE_T_SIZE # 4 /\ rsize < MIN_CHUNK_SIZE
    <2>1. i >= nb /\ i < nb + MIN_CHUNK_SIZE /\ nb > 0
      BY <1>1, <1>4, ChunkConstants
    <2>2. MallocOK(m, nb, Return([m EXCEPT !.bins = unlink_chunk(@, p, i),
                                           !.tags = set_inuse_and_pinuse(@, p, i)], p, i))
      BY <1>3, <2>1, WholeReturned
    <2> QED
      BY <1>2, <1>3, <1>4, <2>2
  <1>5. CASE ~(SIZE_T_SIZE # 4 /\ rsize < MIN_CHUNK_SIZE)
    <2>1. rsize >= MIN_CHUNK_SIZE
      BY <1>1, <1>5, ChunkConstants
    <2>2. MallocOK(m, nb,
            Return(replace_dv([m EXCEPT !.bins = unlink_chunk(@, p, m.tags.size[p]),
                                        !.tags = Split(@, p, nb, rsize)],
                              p + nb, rsize), p, nb))
      BY <1>3, <2>1, SplitToDvReturned
    <2> QED
      BY <1>2, <1>3, <1>5, <2>2
  <1> QED
    BY <1>4, <1>5

(* A tree gives out a chunk that is large enough.                          *)
LEMMA TakeFromTreeOK ==
  ASSUME NEW m \in MState, HeapOK(m), NEW nb \in Nat, nb >= MIN_CHUNK_SIZE,
         NEW i \in TreeIndex, NEW v \in m.bins.tree[i], m.tags.size[v] >= nb,
         NEW toDv \in BOOLEAN, toDv => is_small(m.dvsize)
  PROVE  MallocOK(m, nb, TakeFromTree(m, v, nb, toDv))
  <1> DEFINE rsize == m.tags.size[v] - nb
             b == unlink_chunk(m.bins, v, m.tags.size[v])
             t == [m EXCEPT !.bins = unlink_large_chunk(@, v)]
             s == [t EXCEPT !.tags = Split(@, v, nb, rsize)]
  <1>1. /\ v \in FreeChunks(m) /\ v # m.top /\ v # m.dv
        /\ unlink_large_chunk(m.bins, v) = b
    BY InTreeBin
  <1>2. v \in Addr /\ SegBase <= v /\ m.tags.size[v] \in Nat
    BY <1>1, HeapIsShaped, ChunkFacts DEF FreeChunks
  <1>3. ok_address(v) /\ ok_next(v, v + nb) /\ nb > 0
    BY <1>2, ChunkConstants DEF ok_address, ok_next
  <1>4. rsize + nb = m.tags.size[v]
    BY <1>2
  <1>5. TakeFromTree(m, v, nb, toDv) =
          IF rsize < MIN_CHUNK_SIZE
            THEN Return([t EXCEPT !.tags = set_inuse_and_pinuse(@, v, rsize + nb)],
                        v, rsize + nb)
          ELSE Return(IF toDv THEN replace_dv(s, v + nb, rsize)
                      ELSE [s EXCEPT !.bins = insert_chunk(@, v + nb, rsize)], v, nb)
    BY <1>3 DEF TakeFromTree
  <1> HIDE DEF b
  <1>6. CASE rsize < MIN_CHUNK_SIZE
    <2>1. m.tags.size[v] < nb + MIN_CHUNK_SIZE
      BY <1>2, <1>6, ChunkConstants
    <2>2. MallocOK(m, nb, Return([m EXCEPT !.bins = b,
                                           !.tags = set_inuse_and_pinuse(@, v, rsize + nb)],
                                 v, rsize + nb))
      BY <1>1, <1>3, <1>4, <2>1, WholeReturned DEF b
    <2> QED
      BY <1>1, <1>5, <1>6, <2>2
  <1>7. CASE ~(rsize < MIN_CHUNK_SIZE) /\ toDv
    <2>1. rsize >= MIN_CHUNK_SIZE
      BY <1>2, <1>7, ChunkConstants
    <2>2. MallocOK(m, nb, Return(replace_dv([m EXCEPT !.bins = b,
                                                      !.tags = Split(@, v, nb, rsize)],
                                            v + nb, rsize), v, nb))
      BY <1>1, <1>7, <2>1, SplitToDvReturned DEF b
    <2> QED
      BY <1>1, <1>5, <1>7, <2>2
  <1>8. CASE ~(rsize < MIN_CHUNK_SIZE) /\ ~toDv
    <2>1. rsize >= MIN_CHUNK_SIZE
      BY <1>2, <1>8, ChunkConstants
    <2>2. MallocOK(m, nb,
            Return([[[m EXCEPT !.bins = b] EXCEPT !.tags = Split(@, v, nb, rsize)]
                      EXCEPT !.bins = insert_chunk(@, v + nb, rsize)], v, nb))
      BY <1>1, <2>1, SplitToBinReturned DEF b
    <2> QED
      BY <1>1, <1>5, <1>8, <2>2
  <1> QED
    BY <1>6, <1>7, <1>8

(* A change at top leaves dv and the bins as they are.                     *)
LEMMA TopStepOK ==
  ASSUME NEW m \in MState, HeapOK(m), NEW m2 \in MState, NEW r,
         NEW p \in Chunks(m), p # SegBase, Shaped(m2),
         Chunks(m2) = (Chunks(m) \ {m.top}) \cup {p, r},
         FreeChunks(m2) = (FreeChunks(m) \ {m.top}) \cup {r},
         \A a \in Chunks(m) \ {m.top, p} : m2.tags.size[a] = m.tags.size[a],
         m2.top = r, r \notin Chunks(m) \ {m.top}, p \notin FreeChunks(m) \ {m.top},
         p # r, m2.dv = m.dv, m2.dvsize = m.dvsize, m2.bins = m.bins
  PROVE  /\ HeapOK(m2) /\ UserChunks(m2) = UserChunks(m) \cup {p}
         /\ \A a \in UsedChunks(m) \ {p} : m2.tags.size[a] = m.tags.size[a]
  <1>1. /\ Shaped(m) /\ HoldExactly(m.bins, Binned(m), m.tags.size)
        /\ m.dvsize # 0 => /\ m.dv \in FreeChunks(m) /\ m.dv # m.top
                           /\ m.tags.size[m.dv] = m.dvsize
        /\ (m.dvsize = 0 => m.dv = 0)
        /\ m.top \in FreeChunks(m)
    BY HeapIsShaped DEF HeapOK, TopIsFree
  <1>2. Binned(m2) = Binned(m)
    <2>1. r \notin FreeChunks(m) \ {m.top}
      BY DEF FreeChunks
    <2> QED
      BY <2>1 DEF Binned
  <1>3. \A a \in FreeChunks(m) \ {m.top} : m2.tags.size[a] = m.tags.size[a]
    BY DEF FreeChunks
  <1>4. DvIsFree(m2)
    <2>1. m.dvsize # 0 => m.dv # r
      BY <1>1 DEF FreeChunks
    <2> QED
      BY <1>1, <1>3, <2>1 DEF DvIsFree
  <1>5. HoldExactly(m2.bins, Binned(m2), m2.tags.size)
    <2>1. \A a \in Binned(m) : m2.tags.size[a] = m.tags.size[a]
      BY <1>3 DEF Binned
    <2> QED
      BY <1>1, <1>2, <2>1, HoldSame
  <1>6. UserChunks(m2) = UserChunks(m) \cup {p}
    BY <1>1, UsersAreTheRest DEF FreeChunks
  <1>7. \A a \in UsedChunks(m) \ {p} : m2.tags.size[a] = m.tags.size[a]
    BY <1>1, UsedAreNotFree
  <1> QED
    BY <1>4, <1>5, <1>6, <1>7 DEF HeapOK, Shaped

(* The start of top serves the request.                                    *)
LEMMA FromTopOK ==
  ASSUME NEW m \in MState, HeapOK(m), NEW nb \in Nat, nb >= MIN_CHUNK_SIZE,
         nb < m.topsize
  PROVE  MallocOK(m, nb, FromTop(m, nb))
  <1> DEFINE p == m.top
             z == m.topsize - nb
             f == [m EXCEPT !.tags = set_size_and_pinuse_of_inuse_chunk(
                                       set_top_head(@, p + nb, z), p, nb),
                            !.top = p + nb, !.topsize = z]
  <1>1. /\ Shaped(m) /\ p \in Chunks(m) /\ m.tags.size[p] = m.topsize /\ p \in m.tags.pin
        /\ p \in FreeChunks(m) /\ m.topsize \in Nat
    BY HeapIsShaped DEF Shaped, TopIsFree, FreeChunks
  <1>2. /\ set_size_and_pinuse_of_inuse_chunk(set_top_head(m.tags, p + nb, z), p, nb) \in Tags
        /\ p + nb \in Addr /\ m.topsize \in Addr /\ p \in Addr
    BY <1>1, TakeTypes
  <1>3. z \in Nat /\ z > 0 /\ p + nb + z = SegEnd(m) /\ p + nb < SegEnd(m) /\ p # SegBase
    <2>1. p # SegBase
      BY <1>1 DEF Shaped, TagsAgree, FreeChunks
    <2> QED
      BY <1>1, <1>2, <2>1 DEF SegEnd
  <1>4. /\ f \in MState /\ f.aborted = m.aborted /\ f.seg_size = m.seg_size
        /\ f.exts = m.exts
        /\ f.tags = set_size_and_pinuse_of_inuse_chunk(
                      set_top_head(m.tags, p + nb, z), p, nb)
        /\ f.top = p + nb /\ f.topsize = z
        /\ f.dv = m.dv /\ f.dvsize = m.dvsize /\ f.bins = m.bins
    BY <1>2, <1>3 DEF MState
  <1>5. FromTop(m, nb) = Return(f, p, nb)
    <2>1. FromTop(m, nb) =
            Return([m EXCEPT !.tags = set_size_and_pinuse_of_inuse_chunk(
                                        set_top_head(@, m.top + nb, m.topsize - nb), m.top, nb),
                             !.top = @ + nb, !.topsize = m.topsize - nb], m.top, nb)
      BY DEF FromTop
    <2> QED
      BY <2>1
  <1> HIDE DEF f, z
  <1>6. Recut(m, f, p, nb, SegEnd(m)) /\ TopCut(m, f, p, p + nb)
    BY <1>1, <1>3, <1>4, CutTopMacros
  <1>7. /\ Shaped(f)
        /\ Chunks(f) = (Chunks(m) \ {m.top}) \cup {p, p + nb}
        /\ FreeChunks(f) = (FreeChunks(m) \ {m.top}) \cup {p + nb}
        /\ \A a \in Chunks(m) \ {m.top, p} : f.tags.size[a] = m.tags.size[a]
        /\ f.tags.size[p] = nb /\ p + nb \notin Chunks(m) \ {m.top}
    BY <1>1, <1>2, <1>3, <1>4, <1>6, CutTop
  <1>8. p # p + nb
    BY <1>2, ChunkConstants
  <1>9. /\ HeapOK(f) /\ UserChunks(f) = UserChunks(m) \cup {p}
        /\ \A a \in UsedChunks(m) \ {p} : f.tags.size[a] = m.tags.size[a]
    BY <1>1, <1>3, <1>4, <1>7, <1>8, TopStepOK
  <1>10. SegEnd(f) = SegEnd(m)
    BY <1>6 DEF Recut
  <1>11. f.tags.size[p] >= nb /\ f.tags.size[p] < nb + MIN_CHUNK_SIZE
    BY <1>7, ChunkConstants
  <1>12. p \notin UsedChunks(m)
    BY <1>1, UsedAreNotFree
  <1>13. Served(m, p, nb, f)
    BY <1>1, <1>9, <1>10, <1>11, <1>12 DEF Served
  <1>14. nb \in Addr
    BY <1>1, <1>2
  <1> QED
    BY <1>4, <1>5, <1>7, <1>13, <1>14, ReturnOK

(* dv serves the request, split or whole.                                  *)
LEMMA FromDvOK ==
  ASSUME NEW m \in MState, HeapOK(m), NEW nb \in Nat, nb >= MIN_CHUNK_SIZE,
         nb <= m.dvsize
  PROVE  MallocOK(m, nb, FromDv(m, nb))
  <1> DEFINE p == m.dv
             s == m.dvsize
             z == s - nb
  <1>1. /\ Shaped(m) /\ p \in FreeChunks(m) /\ p # m.top /\ p \in Chunks(m)
        /\ m.tags.size[p] = s /\ s \in Nat /\ nb > 0 /\ s > 0
    BY HeapIsShaped, ChunkConstants DEF FreeChunks
  <1>2. /\ s \in Addr /\ p \in Addr /\ 0 \in Addr
        /\ set_inuse_and_pinuse(m.tags, p, s) \in Tags
    BY <1>1, TakeTypes
  <1>3. CASE z >= MIN_CHUNK_SIZE
    <2> DEFINE f == [m EXCEPT !.tags = Split(@, p, nb, z), !.dv = p + nb, !.dvsize = z]
    <2>1. nb < m.tags.size[p] /\ z \in Nat
      BY <1>1, <1>3, ChunkConstants
    <2>2. /\ Split(m.tags, p, nb, z) \in Tags /\ p + nb \in Addr /\ nb \in Addr
      BY <1>1, <1>2, <2>1, TakeTypes
    <2>3. /\ f \in MState /\ f.aborted = m.aborted /\ f.seg_size = m.seg_size
          /\ f.exts = m.exts /\ SplitTaken(m, p, nb, f)
      BY <1>1, <2>1, <2>2 DEF MState, SplitTaken
    <2>4. FromDv(m, nb) = Return(f, p, nb)
      BY <1>3 DEF FromDv
    <2> HIDE DEF f
    <2>5. Served(m, p, nb, f)
      BY <1>1, <1>3, <2>3, SplitTakenServes
    <2>6. f.tags.size[p] = nb
      BY <1>1, <1>2, <2>3, SizeGiven DEF SplitTaken
    <2> QED
      BY <2>2, <2>3, <2>4, <2>5, <2>6, ReturnOK
  <1>4. CASE ~(z >= MIN_CHUNK_SIZE)
    <2> DEFINE f == [m EXCEPT !.tags = set_inuse_and_pinuse(@, p, s), !.dv = 0, !.dvsize = 0]
    <2>1. /\ f \in MState /\ f.aborted = m.aborted /\ f.seg_size = m.seg_size
          /\ f.exts = m.exts /\ WholeTaken(m, p, f)
      BY <1>1, <1>2 DEF MState, WholeTaken
    <2>2. FromDv(m, nb) = Return(f, p, s)
      BY <1>4 DEF FromDv
    <2> HIDE DEF f
    <2>3. m.tags.size[p] >= nb /\ m.tags.size[p] < nb + MIN_CHUNK_SIZE
      BY <1>1, <1>4, ChunkConstants
    <2>4. Served(m, p, nb, f)
      BY <1>1, <2>1, <2>3, WholeTakenServes
    <2>5. f.tags.size[p] = s
      BY <1>1, <1>2, <2>1, SizeGiven DEF WholeTaken
    <2> QED
      BY <1>2, <2>1, <2>2, <2>4, <2>5, ReturnOK
  <1> QED
    BY <1>3, <1>4

(* dv serves, or top, or NULL is returned and nothing has changed.         *)
LEMMA FromDvOrTopOK ==
  ASSUME NEW m \in MState, HeapOK(m), NEW nb \in Nat, nb >= MIN_CHUNK_SIZE,
         NEW r \in FromDvOrTop(m, nb)
  PROVE  MallocOK(m, nb, r)
  <1>1. CASE nb <= m.dvsize
    BY <1>1, FromDvOK DEF FromDvOrTop
  <1>2. CASE ~(nb <= m.dvsize) /\ nb < m.topsize
    BY <1>2, FromTopOK DEF FromDvOrTop
  <1>3. CASE ~(nb <= m.dvsize) /\ ~(nb < m.topsize)
    BY <1>3 DEF FromDvOrTop, Null, MallocOK
  <1> QED
    BY <1>1, <1>2, <1>3

(* What a search of the trees finds is in a tree and large enough, for a   *)
(* small request ...                                                       *)
LEMMA SmallFitIsBinned ==
  ASSUME NEW m \in MState, HeapOK(m), NEW nb \in Nat, m.bins.treemap # {},
         NEW v \in SmallFitInTree(m.tags, m.bins, nb)
  PROVE  \E k \in TreeIndex : v \in m.bins.tree[k] /\ m.tags.size[v] >= nb
  <1> DEFINE i == LeastIndex(m.bins.treemap)
  <1>1. i \in TreeIndex
    <2>1. m.bins.treemap \subseteq TreeIndex
      BY HeapIsShaped DEF BinSet
    <2>2. m.bins.treemap \in SUBSET Nat
      BY <2>1 DEF TreeIndex
    <2>3. i \in m.bins.treemap
      BY <2>2, LeastIndexIn
    <2> QED
      BY <2>1, <2>3
  <1> QED
    BY <1>1 DEF SmallFitInTree, Tightest

(* ... and for a large one.                                                *)
LEMMA LargeFitIsBinned ==
  ASSUME NEW m \in MState, HeapOK(m), NEW nb \in Nat, nb >= NSMALLBINS,
         NEW v \in LargeFit(m.tags, m.bins, nb)
  PROVE  \E k \in TreeIndex : v \in m.bins.tree[k] /\ m.tags.size[v] >= nb
  <1> DEFINE i == compute_tree_index(nb)
             above == {j \in m.bins.treemap : j > i}
  <1>1. i \in TreeIndex
    BY TreeIndexInRange
  <1>2. \/ v \in Tightest(m.tags, m.bins.tree[i], nb)
        \/ /\ above # {}
           /\ v \in Tightest(m.tags, m.bins.tree[LeastIndex(above)], nb)
    BY DEF LargeFit
  <1> HIDE DEF i
  <1>3. CASE v \in Tightest(m.tags, m.bins.tree[i], nb)
    BY <1>1, <1>3 DEF Tightest
  <1>4. CASE above # {} /\ v \in Tightest(m.tags, m.bins.tree[LeastIndex(above)], nb)
    <2>1. above \subseteq TreeIndex
      BY HeapIsShaped DEF BinSet
    <2> HIDE DEF above
    <2>2. above \in SUBSET Nat
      BY <2>1 DEF TreeIndex
    <2>3. LeastIndex(above) \in TreeIndex
      BY <1>4, <2>1, <2>2, LeastIndexIn
    <2> QED
      BY <1>4, <2>3 DEF Tightest
  <1> QED
    BY <1>2, <1>3, <1>4

(* The least chunk of the first tree serves a small request.               *)
LEMMA tmalloc_smallOK ==
  ASSUME NEW m \in MState, HeapOK(m), NEW nb \in Nat, nb >= MIN_CHUNK_SIZE,
         m.bins.treemap # {}, is_small(m.dvsize), NEW r \in tmalloc_small(m, nb)
  PROVE  MallocOK(m, nb, r)
  <1>1. PICK v \in SmallFitInTree(m.tags, m.bins, nb) : r = TakeFromTree(m, v, nb, TRUE)
    BY DEF tmalloc_small
  <1>2. \E k \in TreeIndex : v \in m.bins.tree[k] /\ m.tags.size[v] >= nb
    BY SmallFitIsBinned
  <1> QED
    BY <1>1, <1>2, TakeFromTreeOK

(* The best fit of the trees serves a large request.                       *)
LEMMA tmalloc_largeOK ==
  ASSUME NEW m \in MState, HeapOK(m), NEW nb \in Nat, nb >= MIN_CHUNK_SIZE,
         nb >= NSMALLBINS, NEW r \in tmalloc_large(m, nb)
  PROVE  MallocOK(m, nb, r)
  <1>1. PICK v \in LargeFit(m.tags, m.bins, nb) : r = TakeFromTree(m, v, nb, FALSE)
    BY DEF tmalloc_large
  <1>2. \E k \in TreeIndex : v \in m.bins.tree[k] /\ m.tags.size[v] >= nb
    BY LargeFitIsBinned
  <1> QED
    BY <1>1, <1>2, TakeFromTreeOK

-----------------------------------------------------------------------------
(* mspace_malloc as a whole.                                               *)
LEMMA MallocIsOK ==
  ASSUME NEW m \in MState, HeapOK(m), NEW bytes \in Nat, NEW r \in Malloc(m, bytes)
  PROVE  MallocOK(m, request2size(bytes), r)
  <1> DEFINE nb == request2size(bytes)
  <1>1. nb \in Nat /\ nb >= MIN_CHUNK_SIZE
    BY RequestFits
  <1>2. CASE bytes <= MAX_SMALL_REQUEST
    <2>1. nb < NSMALLBINS
      BY <1>2, SmallRequest
    <2>2. r \in MallocSmall(m, nb)
      BY <1>2 DEF Malloc
    <2> HIDE DEF nb
    <2>3. CASE {nb, nb + 1} \cap m.bins.smallmap # {}
      BY <1>1, <2>2, <2>3, RemainderlessFitOK DEF MallocSmall, nb
    <2>4. CASE {nb, nb + 1} \cap m.bins.smallmap = {} /\ nb <= m.dvsize
      BY <1>1, <2>2, <2>4, FromDvOrTopOK DEF MallocSmall, nb
    <2>5. CASE {nb, nb + 1} \cap m.bins.smallmap = {} /\ ~(nb <= m.dvsize)
      <3>1. is_small(m.dvsize)
        BY <1>1, <2>1, <2>5, HeapIsShaped DEF is_small
      <3>2. CASE {j \in m.bins.smallmap : j > nb} # {}
        <4>1. r \in NextSmallBin(m, nb)
          BY <2>2, <2>5, <3>2 DEF MallocSmall
        <4>2. MallocOK(m, nb, r)
          BY <1>1, <2>5, <3>1, <3>2, <4>1, NextSmallBinOK
        <4> QED
          BY <4>2 DEF nb
      <3>3. CASE {j \in m.bins.smallmap : j > nb} = {} /\ m.bins.treemap # {}
        <4>1. r \in tmalloc_small(m, nb)
          BY <2>2, <2>5, <3>3 DEF MallocSmall
        <4>2. MallocOK(m, nb, r)
          BY <1>1, <3>1, <3>3, <4>1, tmalloc_smallOK
        <4> QED
          BY <4>2 DEF nb
      <3>4. CASE {j \in m.bins.smallmap : j > nb} = {} /\ m.bins.treemap = {}
        <4>1. r \in FromDvOrTop(m, nb)
          BY <2>2, <2>5, <3>4 DEF MallocSmall
        <4>2. MallocOK(m, nb, r)
          BY <1>1, <4>1, FromDvOrTopOK
        <4> QED
          BY <4>2 DEF nb
      <3> QED
        BY <3>2, <3>3, <3>4
    <2> QED
      BY <2>3, <2>4, <2>5
  <1>3. CASE ~(bytes <= MAX_SMALL_REQUEST) /\ bytes >= MAX_REQUEST
    <2>1. r \in FromDvOrTop(m, MAX_SIZE_T)
      BY <1>3 DEF Malloc
    <2>2. ~(MAX_SIZE_T <= m.dvsize) /\ ~(MAX_SIZE_T < m.topsize)
      <3>1. /\ Shaped(m) /\ m.dvsize \in Nat
            /\ m.dvsize # 0 => m.dv \in FreeChunks(m) /\ m.tags.size[m.dv] = m.dvsize
        BY HeapIsShaped
      <3>2. m.topsize \in Nat /\ m.topsize <= AddrMax
        BY <3>1, ChunkFacts DEF SegEnd, MState
      <3>3. m.dvsize <= AddrMax
        <4>1. CASE m.dvsize = 0
          BY <4>1
        <4>2. CASE m.dvsize # 0
          <5>1. m.dv \in Addr /\ m.dv + m.dvsize \in Addr
            BY <3>1, <4>2, ChunkFacts DEF FreeChunks
          <5> QED
            BY <3>1, <5>1
        <4> QED
          BY <4>1, <4>2
      <3> QED
        BY <3>1, <3>2, <3>3 DEF MAX_SIZE_T
    <2>3. r = Null(m)
      BY <2>1, <2>2 DEF FromDvOrTop
    <2> QED
      BY <2>3 DEF Null, MallocOK
  <1>4. CASE ~(bytes <= MAX_SMALL_REQUEST) /\ ~(bytes >= MAX_REQUEST)
    <2>1. /\ nb >= NSMALLBINS /\ nb = pad_request(bytes)
      BY <1>4, SmallRequest, ChunkConstants DEF MAX_SMALL_REQUEST
    <2>2. r \in MallocLarge(m, nb)
      BY <1>4, <2>1 DEF Malloc
    <2> HIDE DEF nb
    <2>3. r \in tmalloc_large(m, nb) \/ r \in FromDvOrTop(m, nb)
      BY <2>2 DEF MallocLarge
    <2>4. MallocOK(m, nb, r)
      BY <1>1, <2>1, <2>3, tmalloc_largeOK, FromDvOrTopOK
    <2> QED
      BY <2>4 DEF nb
  <1> QED
    BY <1>2, <1>3, <1>4

-----------------------------------------------------------------------------
(* When mspace_malloc gives nothing.                                       *)

(* No free chunk can serve nb; top would have to leave a remainder.        *)
Full(m, nb) ==
  /\ \A a \in FreeChunks(m) \ {m.top} : m.tags.size[a] < nb
  /\ m.topsize <= nb

(* What returns a chunk does not return NULL.                              *)
LEMMA ReturnsMemory ==
  ASSUME NEW f, NEW p \in Addr, NEW s
  PROVE  Return(f, p, s).mem # 0
  <1>1. chunk2mem(p) # 0
    BY ChunkConstants DEF chunk2mem
  <1> QED
    BY <1>1 DEF Return

(* A small bin that is not empty serves.                                   *)
LEMMA SmallBinServes ==
  ASSUME NEW m \in MState, HeapOK(m), NEW nb \in Nat,
         NEW r, \/ {nb, nb + 1} \cap m.bins.smallmap # {} /\ r \in RemainderlessFit(m, nb)
                \/ {j \in m.bins.smallmap : j > nb} # {} /\ r \in NextSmallBin(m, nb)
  PROVE  r.mem # 0
  <1>1. /\ m.bins.smallmap \subseteq SmallIndex /\ SmallIndex \subseteq Nat
        /\ \A k \in SmallIndex : m.bins.small[k] \in SUBSET Addr
    BY HeapIsShaped DEF BinSet, SmallIndex
  <1>2. CASE {nb, nb + 1} \cap m.bins.smallmap # {} /\ r \in RemainderlessFit(m, nb)
    <2> DEFINE i == IF nb \in m.bins.smallmap THEN nb ELSE nb + 1
    <2>1. i \in SmallIndex
      BY <1>1, <1>2
    <2>2. PICK p \in m.bins.small[i] :
            r = Return([m EXCEPT !.bins = unlink_small_chunk(@, p, i),
                                 !.tags = set_inuse_and_pinuse(@, p, i)], p, m.tags.size[p])
      BY <1>2 DEF RemainderlessFit
    <2> HIDE DEF i
    <2>3. p \in Addr
      BY <1>1, <2>1
    <2> QED
      BY <2>2, <2>3, ReturnsMemory
  <1>3. CASE {j \in m.bins.smallmap : j > nb} # {} /\ r \in NextSmallBin(m, nb)
    <2> DEFINE above == {j \in m.bins.smallmap : j > nb}
               i == LeastIndex(above)
               rsize == i - nb
    <2>1. i \in SmallIndex
      <3>1. above \in SUBSET Nat /\ above \subseteq SmallIndex /\ above # {}
        BY <1>1, <1>3
      <3> HIDE DEF above
      <3> QED
        BY <3>1, LeastIndexIn
    <2>2. PICK p \in m.bins.small[i] :
            r = IF SIZE_T_SIZE # 4 /\ rsize < MIN_CHUNK_SIZE
                THEN Return([[m EXCEPT !.bins = unlink_small_chunk(@, p, i)]
                               EXCEPT !.tags = set_inuse_and_pinuse(@, p, i)], p, i)
                ELSE Return(replace_dv([[m EXCEPT !.bins = unlink_small_chunk(@, p, i)]
                                          EXCEPT !.tags = Split(@, p, nb, rsize)],
                                       p + nb, rsize), p, nb)
      BY <1>3 DEF NextSmallBin
    <2> HIDE DEF i
    <2>3. p \in Addr
      BY <1>1, <2>1
    <2> QED
      BY <2>2, <2>3, ReturnsMemory
  <1> QED
    BY <1>2, <1>3

(* So does a chunk of a tree.                                              *)
LEMMA TreeServes ==
  ASSUME NEW m \in MState, HeapOK(m), NEW nb \in Nat, nb >= MIN_CHUNK_SIZE,
         NEW i \in TreeIndex, NEW v \in m.bins.tree[i], NEW toDv
  PROVE  TakeFromTree(m, v, nb, toDv).mem # 0
  <1>1. v \in Addr /\ SegBase <= v
    <2>1. v \in FreeChunks(m)
      BY InTreeBin
    <2> QED
      BY <2>1, HeapIsShaped, ChunkFacts DEF FreeChunks
  <1>2. ok_address(v) /\ ok_next(v, v + nb)
    BY <1>1, ChunkConstants DEF ok_address, ok_next
  <1> QED
    BY <1>1, <1>2, ReturnsMemory DEF TakeFromTree

(* And dv or top, unless neither is large enough.                          *)
LEMMA NeitherServes ==
  ASSUME NEW m \in MState, HeapOK(m), NEW nb \in Nat,
         NEW r \in FromDvOrTop(m, nb), r.mem = 0
  PROVE  m.dvsize < nb /\ m.topsize <= nb
  <1>1. /\ m.top \in Addr /\ m.dv \in Addr /\ m.topsize \in Nat /\ m.dvsize \in Nat
    BY HeapIsShaped
  <1>2. ~(nb <= m.dvsize)
    <2> SUFFICES ASSUME nb <= m.dvsize PROVE FALSE
      OBVIOUS
    <2>1. r = FromDv(m, nb)
      BY DEF FromDvOrTop
    <2> QED
      BY <1>1, <2>1, ReturnsMemory DEF FromDv
  <1>3. ~(nb < m.topsize)
    <2> SUFFICES ASSUME nb < m.topsize PROVE FALSE
      OBVIOUS
    <2>1. r = FromTop(m, nb)
      BY <1>2 DEF FromDvOrTop
    <2> QED
      BY <1>1, <2>1, ReturnsMemory DEF FromTop
  <1> QED
    BY <1>1, <1>2, <1>3

(* When neither of them is, and no chunk that is binned, nothing is.       *)
LEMMA NothingIsLarge ==
  ASSUME NEW m \in MState, HeapOK(m), NEW nb \in Nat,
         m.dvsize < nb, m.topsize <= nb,
         \A j \in m.bins.smallmap : j < nb,
         \A a \in Binned(m) : ~is_small(m.tags.size[a]) => m.tags.size[a] < nb
  PROVE  Full(m, nb)
  <1> SUFFICES ASSUME NEW a \in FreeChunks(m), a # m.top
               PROVE  m.tags.size[a] < nb
    BY DEF Full
  <1>1. CASE a = m.dv
    BY <1>1, HeapIsShaped DEF FreeChunks
  <1>2. CASE a # m.dv
    <2>1. a \in Binned(m) /\ a \in Addr
      BY <1>2, HeapIsShaped DEF Binned
    <2>2. CASE is_small(m.tags.size[a])
      <3>1. m.tags.size[a] \in SmallIndex
        BY <2>1, <2>2, HeapIsShaped DEF is_small, SmallIndex, Tags
      <3>2. m.tags.size[a] \in m.bins.smallmap
        BY <2>1, <2>2, <3>1 DEF HeapOK, HoldExactly, small_index
      <3> QED
        BY <3>2
    <2> QED
      BY <2>1, <2>2
  <1> QED
    BY <1>1, <1>2

(* A small request gets nothing only after all larger bins were looked at. *)
LEMMA SmallNullIsFull ==
  ASSUME NEW m \in MState, HeapOK(m), NEW nb \in Nat, nb >= MIN_CHUNK_SIZE,
         NEW r \in MallocSmall(m, nb), r.mem = 0
  PROVE  Full(m, nb)
  <1>1. {nb, nb + 1} \cap m.bins.smallmap = {}
    BY SmallBinServes DEF MallocSmall
  <1>2. ~(nb <= m.dvsize)
    BY <1>1, NeitherServes, HeapIsShaped DEF MallocSmall
  <1>3. {j \in m.bins.smallmap : j > nb} = {}
    BY <1>1, <1>2, SmallBinServes DEF MallocSmall
  <1>4. m.bins.treemap = {}
    <2> SUFFICES ASSUME m.bins.treemap # {} PROVE FALSE
      OBVIOUS
    <2>1. PICK v \in SmallFitInTree(m.tags, m.bins, nb) :
            r = TakeFromTree(m, v, nb, TRUE)
      BY <1>1, <1>2, <1>3 DEF MallocSmall, tmalloc_small
    <2>2. \E k \in TreeIndex : v \in m.bins.tree[k]
      BY SmallFitIsBinned
    <2> QED
      BY <2>1, <2>2, TreeServes
  <1>5. r \in FromDvOrTop(m, nb)
    BY <1>1, <1>2, <1>3, <1>4 DEF MallocSmall
  <1>6. m.dvsize < nb /\ m.topsize <= nb
    BY <1>5, NeitherServes
  <1>7. \A j \in m.bins.smallmap : j < nb
    <2>1. m.bins.smallmap \subseteq Nat
      BY HeapIsShaped DEF BinSet, SmallIndex
    <2> QED
      BY <1>1, <1>3, <2>1
  <1>8. \A a \in Binned(m) : is_small(m.tags.size[a])
    <2> SUFFICES ASSUME NEW a \in Binned(m), ~is_small(m.tags.size[a]) PROVE FALSE
      OBVIOUS
    <2> DEFINE j == compute_tree_index(m.tags.size[a])
    <2>1. m.tags.size[a] \in Nat /\ m.tags.size[a] >= NSMALLBINS
      BY HeapIsShaped DEF Tags, is_small
    <2>2. j \in TreeIndex
      BY <2>1, TreeIndexInRange
    <2>3. j \in m.bins.treemap
      BY <2>2 DEF HeapOK, HoldExactly
    <2> QED
      BY <1>4, <2>3
  <1> QED
    BY <1>6, <1>7, <1>8, NothingIsLarge

(* A large one only when neither its tree nor a later one has any: a chunk *)
(* that is found is then better than dv, as dvsize - nb has wrapped.       *)
LEMMA LargeNullIsFull ==
  ASSUME NEW m \in MState, HeapOK(m), NEW nb \in Nat, nb >= MIN_CHUNK_SIZE,
         nb >= NSMALLBINS, NEW r \in MallocLarge(m, nb), r.mem = 0
  PROVE  Full(m, nb)
  <1>1. m.bins.treemap = {} \/ tmalloc_large(m, nb) = {}
    <2> SUFFICES ASSUME m.bins.treemap # {}, tmalloc_large(m, nb) # {} PROVE FALSE
      OBVIOUS
    <2>1. PICK v \in LargeFit(m.tags, m.bins, nb) :
            r = TakeFromTree(m, v, nb, FALSE)
      BY DEF MallocLarge, tmalloc_large
    <2>2. \E k \in TreeIndex : v \in m.bins.tree[k]
      BY LargeFitIsBinned
    <2> QED
      BY <2>1, <2>2, TreeServes
  <1>2. m.dvsize < nb /\ m.topsize <= nb
    BY <1>1, NeitherServes DEF MallocLarge
  <1>3. m.bins.treemap = {} \/ LargeFit(m.tags, m.bins, nb) = {}
    <2> SUFFICES ASSUME tmalloc_large(m, nb) = {},
                        NEW v \in LargeFit(m.tags, m.bins, nb)
                 PROVE  FALSE
      BY <1>1
    <2>1. ~(m.tags.size[v] - nb < Wrap(m.dvsize - nb))
      BY DEF tmalloc_large
    <2>2. m.tags.size[v] \in Nat /\ m.tags.size[v] <= AddrMax
      <3>1. v \in Chunks(m)
        BY LargeFitIsBinned, InTreeBin DEF FreeChunks
      <3> QED
        BY <3>1, HeapIsShaped, ChunkFacts
    <2>3. Wrap(m.dvsize - nb) = m.dvsize - nb + SIZE_T_MOD /\ m.dvsize \in Nat
      BY <1>2, HeapIsShaped DEF Wrap
    <2> QED
      BY <2>1, <2>2, <2>3
  <1>4. \A a \in Binned(m) : ~is_small(m.tags.size[a]) => m.tags.size[a] < nb
    BY <1>3, HeapIsShaped, NothingLargeFits DEF HeapOK
  <1>5. \A j \in m.bins.smallmap : j < nb
    BY HeapIsShaped DEF BinSet, SmallIndex
  <1> QED
    BY <1>2, <1>4, <1>5, NothingIsLarge

(* mspace_malloc returns NULL only when nothing can serve the request.     *)
LEMMA NullIsFull ==
  ASSUME NEW m \in MState, HeapOK(m), NEW bytes \in Nat, bytes < MAX_REQUEST,
         NEW r \in Malloc(m, bytes), r.mem = 0
  PROVE  Full(m, request2size(bytes))
  <1>1. request2size(bytes) \in Nat /\ request2size(bytes) >= MIN_CHUNK_SIZE
    BY RequestFits
  <1>2. CASE bytes <= MAX_SMALL_REQUEST
    BY <1>1, <1>2, SmallNullIsFull DEF Malloc
  <1>3. CASE ~(bytes <= MAX_SMALL_REQUEST)
    <2>1. request2size(bytes) >= NSMALLBINS /\ request2size(bytes) = pad_request(bytes)
      BY <1>3, SmallRequest, ChunkConstants DEF MAX_SMALL_REQUEST
    <2>2. ~(bytes >= MAX_REQUEST)
      BY ChunkConstants DEF MAX_REQUEST
    <2> QED
      BY <1>1, <1>3, <2>1, <2>2, LargeNullIsFull DEF Malloc
  <1> QED
    BY <1>2, <1>3

-----------------------------------------------------------------------------
(* The block at p is too small, and top, which follows it, has the rest.   *)
GrowsIntoTop(m, p, nb) ==
  /\ m.tags.size[p] < nb
  /\ p + m.tags.size[p] = m.top /\ m.tags.size[p] + m.topsize > nb

(* The block at p has become one of at least nb granules, at p2; one that  *)
(* has moved shares nothing with what it was.  What is taken from top is   *)
(* not counted.                                                            *)
Resized(m, p, p2, nb, m2) ==
  /\ ~GrowsIntoTop(m, p, nb) => CountKept(m, m2)
  /\ m2 \in MState /\ HeapOK(m2) /\ SegEnd(m2) = SegEnd(m)
  /\ m2.aborted = m.aborted /\ m2.seg_size = m.seg_size
  /\ UserChunks(m2) = (UserChunks(m) \ {p}) \cup {p2}
  /\ \A a \in UsedChunks(m) \ {p} : m2.tags.size[a] = m.tags.size[a]
  /\ m2.tags.size[p2] >= nb /\ m2.tags.size[p2] < nb + MIN_CHUNK_SIZE
  /\ p2 # p => \/ p2 + m2.tags.size[p2] <= p
               \/ p + m.tags.size[p] <= p2

ReallocOK(m, p, nb, r) ==
  \/ r.mem = 0 /\ r.ms = m
  \/ r.mem = chunk2mem(p) /\ Resized(m, p, p, nb, r.ms)
  \/ \E p2 \in FreeChunks(m) : r.mem = chunk2mem(p2) /\ Resized(m, p, p2, nb, r.ms)

(* The block at p has become two, of nb granules and of what is left.      *)
CutInTwo(m, p, nb, m2) ==
  /\ m2 \in MState /\ HeapOK(m2) /\ SegEnd(m2) = SegEnd(m)
  /\ m2.aborted = m.aborted /\ m2.seg_size = m.seg_size
  /\ p + nb \notin UsedChunks(m) /\ UserChunks(m2) = UserChunks(m) \cup {p + nb}
  /\ \A a \in UsedChunks(m) \ {p} : m2.tags.size[a] = m.tags.size[a]
  /\ m2.tags.size[p] = nb /\ m2.tags.size[p + nb] = m.tags.size[p] - nb
  /\ CountKept(m, m2)

(* Two set_inuse cut a block in two.                                       *)
LEMMA CutInTwoOK ==
  ASSUME NEW m \in MState, HeapOK(m), NEW p \in UserChunks(m), NEW nb \in Nat,
         nb >= MIN_CHUNK_SIZE, m.tags.size[p] - nb >= MIN_CHUNK_SIZE
  PROVE  CutInTwo(m, p, nb,
                  [m EXCEPT !.tags = set_inuse(set_inuse(@, p, nb),
                                               p + nb, m.tags.size[p] - nb)])
  <1> DEFINE s == m.tags.size[p]
             z == s - nb
             r == p + nb
             f == [m EXCEPT !.tags = set_inuse(set_inuse(@, p, nb), r, z)]
  <1>1. /\ Shaped(m) /\ p \in Chunks(m) /\ p \in m.tags.cin /\ p # SegBase
        /\ HoldExactly(m.bins, Binned(m), m.tags.size) /\ DvIsFree(m)
        /\ m.top \in FreeChunks(m)
    BY HeapIsShaped DEF UserChunks, HeapOK, TopIsFree
  <1>2. p \in Addr /\ s \in Nat /\ z >= MIN_CHUNK_SIZE /\ nb < s
    BY <1>1, ChunkFacts, ChunkConstants
  <1>3. set_inuse(set_inuse(m.tags, p, nb), r, z) \in Tags /\ r \in Addr
    BY <1>1, <1>2, TakeTypes
  <1>4. /\ f \in MState /\ f.aborted = m.aborted /\ f.seg_size = m.seg_size
        /\ f.exts = m.exts /\ f.tags = set_inuse(set_inuse(m.tags, p, nb), r, z)
        /\ f.top = m.top /\ f.topsize = m.topsize
        /\ f.dv = m.dv /\ f.dvsize = m.dvsize /\ f.bins = m.bins
    BY <1>3 DEF MState
  <1> HIDE DEF f
  <1>5. /\ Shaped(f)
        /\ Chunks(f) = Chunks(m) \cup {r}
        /\ FreeChunks(f) = FreeChunks(m)
        /\ \A a \in Chunks(m) \ {p} : f.tags.size[a] = m.tags.size[a]
        /\ f.tags.size[p] = nb /\ f.tags.size[r] = z
        /\ r \notin Chunks(m) /\ r \in f.tags.cin
    BY <1>1, <1>2, <1>4, CutInuse
  <1>6. SegEnd(f) = SegEnd(m)
    BY <1>4 DEF SegEnd
  <1>7. UserChunks(f) = UserChunks(m) \cup {r} /\ r \notin UsedChunks(m)
    <2>1. r # SegBase
      BY <1>1, <1>5, ChunkFacts
    <2>2. r \notin FreeChunks(m) /\ r \notin UserChunks(m)
      BY <1>5 DEF FreeChunks, UserChunks
    <2> QED
      BY <1>5, <2>1, <2>2, UsersAreTheRest DEF UsedChunks
  <1>8. \A a \in FreeChunks(m) : f.tags.size[a] = m.tags.size[a]
    BY <1>1, <1>5 DEF FreeChunks
  <1>9. DvIsFree(f)
    BY <1>1, <1>4, <1>5, <1>8 DEF DvIsFree
  <1>10. HoldExactly(f.bins, Binned(f), f.tags.size)
    <2>1. Binned(f) = Binned(m) /\ \A a \in Binned(m) : f.tags.size[a] = m.tags.size[a]
      BY <1>4, <1>5, <1>8 DEF Binned
    <2> QED
      BY <1>1, <1>4, <2>1, HoldSame
  <1>11. HeapOK(f)
    BY <1>5, <1>9, <1>10 DEF HeapOK, Shaped
  <1>12. \A a \in UsedChunks(m) \ {p} : f.tags.size[a] = m.tags.size[a]
    BY <1>1, <1>5, ChunkFacts DEF UsedChunks, UserChunks
  <1>13. CountKept(m, f)
    <2>1. f.tags.size[p] + f.tags.size[r] = m.tags.size[p]
      BY <1>2, <1>5
    <2> HIDE DEF r
    <2> QED
      BY <1>4, <1>7, <1>11, <1>12, <2>1, CountCut DEF UsedChunks
  <1> QED
    BY <1>4, <1>5, <1>6, <1>7, <1>11, <1>12, <1>13 DEF CutInTwo, f

(* A block that is large enough stays, its end freed if it is a chunk.     *)
LEMMA ShrinkInPlaceOK ==
  ASSUME NEW m \in MState, HeapOK(m), NEW p \in UserChunks(m),
         NEW nb \in Nat, nb >= MIN_CHUNK_SIZE, m.tags.size[p] >= nb
  PROVE  Resized(m, p, p, nb, ShrinkInPlace(m, p, nb))
  <1> DEFINE s == m.tags.size[p]
             z == s - nb
  <1>1. s \in Nat
    BY HeapIsShaped, ChunkFacts DEF UserChunks
  <1>2. CASE z < MIN_CHUNK_SIZE
    <2>1. ShrinkInPlace(m, p, nb) = m
      BY <1>2 DEF ShrinkInPlace
    <2>2. s < nb + MIN_CHUNK_SIZE
      BY <1>1, <1>2, ChunkConstants
    <2> QED
      BY <2>1, <2>2 DEF Resized, CountKept
  <1>3. CASE ~(z < MIN_CHUNK_SIZE)
    <2> DEFINE r == p + nb
               f == [m EXCEPT !.tags = set_inuse(set_inuse(@, p, nb), r, z)]
    <2>1. z >= MIN_CHUNK_SIZE
      BY <1>1, <1>3, ChunkConstants
    <2>2. CutInTwo(m, p, nb, f)
      BY <2>1, CutInTwoOK
    <2>3. ShrinkInPlace(m, p, nb) = Free(f, chunk2mem(r))
      BY <1>3 DEF ShrinkInPlace
    <2> HIDE DEF f
    <2>4. Freed(f, r, Free(f, chunk2mem(r)))
      BY <2>2, FreeOK DEF CutInTwo
    <2> DEFINE g == Free(f, chunk2mem(r))
    <2> HIDE DEF g
    <2>5. /\ g \in MState /\ HeapOK(g) /\ g.aborted = f.aborted /\ g.seg_size = f.seg_size
          /\ UserChunks(g) = UserChunks(f) \ {r} /\ SegEnd(g) = SegEnd(f)
          /\ \A a \in UsedChunks(g) : g.tags.size[a] = f.tags.size[a]
          /\ CountKept(m, g)
      BY <2>2, <2>4 DEF Freed, g, CutInTwo, CountKept
    <2>6. UserChunks(g) = UserChunks(m)
      BY <2>2, <2>5 DEF CutInTwo, UsedChunks
    <2>7. \A a \in UsedChunks(m) \ {p} : g.tags.size[a] = m.tags.size[a]
      BY <2>2, <2>5, <2>6 DEF UsedChunks, CutInTwo
    <2>8. g.tags.size[p] = nb
      BY <2>2, <2>5, <2>6 DEF UsedChunks, CutInTwo
    <2>9. nb < nb + MIN_CHUNK_SIZE /\ nb >= nb
      BY ChunkConstants
    <2>10. Resized(m, p, p, nb, g)
      BY <2>2, <2>5, <2>6, <2>7, <2>8, <2>9 DEF Resized, CutInTwo
    <2> QED
      BY <2>3, <2>10 DEF g
  <1> QED
    BY <1>2, <1>3

(* A block before top grows into top.                                      *)
LEMMA ExpandIntoTopOK ==
  ASSUME NEW m \in MState, HeapOK(m), NEW p \in UserChunks(m),
         NEW nb \in Nat, nb >= MIN_CHUNK_SIZE, m.tags.size[p] < nb,
         p + m.tags.size[p] = m.top, m.tags.size[p] + m.topsize > nb
  PROVE  Resized(m, p, p, nb, ExpandIntoTop(m, p, nb))
  <1> DEFINE z == m.tags.size[p] + m.topsize - nb
             r == p + nb
             f == [m EXCEPT !.tags = set_top_head(set_inuse(@, p, nb), r, z),
                            !.top = r, !.topsize = z]
  <1>1. /\ Shaped(m) /\ p \in Chunks(m) /\ p \in m.tags.cin /\ p # SegBase
        /\ m.tags \in Tags /\ m.topsize \in Nat
    BY HeapIsShaped DEF UserChunks
  <1>2. /\ p \in Addr /\ m.tags.size[p] \in Nat \ {0} /\ SegEnd(m) \in Addr /\ m.top \in Addr
    BY <1>1, ChunkFacts
  <1>3. z \in Nat /\ z > 0 /\ r + z = SegEnd(m) /\ r < SegEnd(m) /\ r \in Addr /\ p <= m.top
    BY <1>1, <1>2 DEF SegEnd
  <1>4. set_top_head(set_inuse(m.tags, p, nb), r, z) \in Tags
    <2>1. set_inuse(m.tags, p, nb) \in Tags
      BY <1>1, <1>2, <1>3, MacroTypes
    <2>2. r + z \in Addr
      BY <1>2, <1>3
    <2> HIDE DEF r, z
    <2> QED
      BY <1>3, <2>1, <2>2, MacroTypes
  <1>5. /\ f \in MState /\ f.aborted = m.aborted /\ f.seg_size = m.seg_size
        /\ f.tags = set_top_head(set_inuse(m.tags, p, nb), p + nb, z)
        /\ f.top = p + nb /\ f.topsize = z
        /\ f.dv = m.dv /\ f.dvsize = m.dvsize /\ f.bins = m.bins
    BY <1>3, <1>4 DEF MState
  <1>6. ExpandIntoTop(m, p, nb) = f
    BY DEF ExpandIntoTop
  <1> HIDE DEF f, z
  <1>7. Recut(m, f, p, nb, SegEnd(m)) /\ TopCut(m, f, p, p + nb)
    BY <1>1, <1>3, <1>5, CutTopMacros
  <1>8. /\ Shaped(f)
        /\ Chunks(f) = (Chunks(m) \ {m.top}) \cup {p, p + nb}
        /\ FreeChunks(f) = (FreeChunks(m) \ {m.top}) \cup {p + nb}
        /\ \A a \in Chunks(m) \ {m.top, p} : f.tags.size[a] = m.tags.size[a]
        /\ f.tags.size[p] = nb /\ p + nb \notin Chunks(m) \ {m.top}
    BY <1>1, <1>3, <1>5, <1>7, CutTop
  <1>9. p # p + nb /\ p \notin FreeChunks(m)
    BY <1>1, <1>2, ChunkConstants DEF FreeChunks
  <1>10. /\ HeapOK(f) /\ UserChunks(f) = UserChunks(m) \cup {p}
         /\ \A a \in UsedChunks(m) \ {p} : f.tags.size[a] = m.tags.size[a]
    BY <1>1, <1>5, <1>8, <1>9, TopStepOK
  <1>11. SegEnd(f) = SegEnd(m)
    BY <1>7 DEF Recut
  <1>12. f.tags.size[p] >= nb /\ f.tags.size[p] < nb + MIN_CHUNK_SIZE
    BY <1>8, ChunkConstants
  <1>13. UserChunks(f) = (UserChunks(m) \ {p}) \cup {p}
    BY <1>10
  <1>14. GrowsIntoTop(m, p, nb)
    BY DEF GrowsIntoTop
  <1> QED
    BY <1>5, <1>6, <1>10, <1>11, <1>12, <1>13, <1>14 DEF Resized

(* mspace_realloc resizes the block, moves it, or changes nothing.         *)
LEMMA ReallocIsOK ==
  ASSUME NEW m \in MState, HeapOK(m), NEW p \in UserChunks(m), NEW bytes \in Nat,
         NEW r \in internal_realloc(m, chunk2mem(p), bytes)
  PROVE  ReallocOK(m, p, request2size(bytes), r)
  <1> DEFINE oldmem == chunk2mem(p)
             nb == request2size(bytes)
             n == p + m.tags.size[p]
  <1>1. /\ Shaped(m) /\ p \in Chunks(m) /\ p \in m.tags.cin
        /\ p \in Addr /\ SegBase <= p /\ m.tags.size[p] \in Nat \ {0}
        /\ n \in m.tags.pin
    BY HeapIsShaped, ChunkFacts DEF UserChunks, Shaped, TagsAgree
  <1>2. nb \in Nat /\ nb >= MIN_CHUNK_SIZE
    BY RequestFits
  <1>3. mem2chunk(oldmem) = p
    BY <1>1, MemOfChunk
  <1>4. ~(\/ ~ok_address(p) \/ p \notin m.tags.cin \/ ~ok_next(p, n) \/ n \notin m.tags.pin)
    BY <1>1 DEF ok_address, ok_next
  <1>5. CASE bytes >= MAX_REQUEST
    BY <1>5 DEF internal_realloc, Null, ReallocOK
  <1>6. CASE ~(bytes >= MAX_REQUEST) /\ m.tags.size[p] >= nb
    <2>1. r = [ms |-> ShrinkInPlace(m, p, nb), mem |-> oldmem]
      BY <1>3, <1>4, <1>6 DEF internal_realloc
    <2> HIDE DEF nb
    <2>2. Resized(m, p, p, nb, ShrinkInPlace(m, p, nb))
      BY <1>2, <1>6, ShrinkInPlaceOK
    <2> QED
      BY <2>1, <2>2 DEF ReallocOK, nb
  <1>7. CASE /\ ~(bytes >= MAX_REQUEST) /\ ~(m.tags.size[p] >= nb)
             /\ n = m.top /\ m.tags.size[p] + m.topsize > nb
    <2>1. r = [ms |-> ExpandIntoTop(m, p, nb), mem |-> oldmem]
      BY <1>3, <1>4, <1>7 DEF internal_realloc
    <2> HIDE DEF nb
    <2>2. Resized(m, p, p, nb, ExpandIntoTop(m, p, nb))
      BY <1>1, <1>2, <1>7, ExpandIntoTopOK
    <2> QED
      BY <2>1, <2>2 DEF ReallocOK, nb
  <1>8. CASE /\ ~(bytes >= MAX_REQUEST) /\ ~(m.tags.size[p] >= nb)
             /\ ~(n = m.top /\ m.tags.size[p] + m.topsize > nb)
    <2>1. PICK k \in Malloc(m, bytes) :
            r = IF k.mem = 0 THEN k ELSE [ms |-> Free(k.ms, oldmem), mem |-> k.mem]
      BY <1>3, <1>4, <1>8 DEF internal_realloc
    <2>2. MallocOK(m, nb, k)
      BY MallocIsOK
    <2> HIDE DEF nb, n
    <2>3. CASE k.mem = 0 /\ k.ms = m
      BY <2>1, <2>3 DEF ReallocOK
    <2>4. ASSUME NEW p2 \in FreeChunks(m), k.mem = chunk2mem(p2), k.ms \in MState,
                 Served(m, p2, nb, k.ms), CountKept(m, k.ms),
                 k.ms.aborted = m.aborted, k.ms.seg_size = m.seg_size
          PROVE  ReallocOK(m, p, nb, r)
      <3>1. p2 # p /\ p2 \notin UserChunks(m)
        BY <1>1 DEF FreeChunks, UserChunks
      <3>2. k.mem # 0
        <4>1. p2 \in Addr /\ SegBase <= p2
          BY <1>1, <2>4, ChunkFacts DEF FreeChunks
        <4>2. chunk2mem(p2) > p2 /\ chunk2mem(p2) \in Int
          BY <4>1, MemOfChunk
        <4> QED
          BY <2>4, <4>1, <4>2
      <3>3. /\ HeapOK(k.ms) /\ SegEnd(k.ms) = SegEnd(m)
            /\ UserChunks(k.ms) = UserChunks(m) \cup {p2}
            /\ \A a \in UsedChunks(m) : k.ms.tags.size[a] = m.tags.size[a]
            /\ k.ms.tags.size[p2] >= nb /\ k.ms.tags.size[p2] < nb + MIN_CHUNK_SIZE
        BY <2>4 DEF Served
      <3> DEFINE g == Free(k.ms, oldmem)
      <3>4. Freed(k.ms, p, g)
        BY <2>4, <3>3, FreeOK
      <3> HIDE DEF g
      <3>5. Resized(m, p, p2, nb, g)
        <4>1. UserChunks(g) = (UserChunks(m) \ {p}) \cup {p2}
          BY <3>1, <3>3, <3>4 DEF Freed
        <4>2. \A a \in UsedChunks(m) \ {p} : g.tags.size[a] = m.tags.size[a]
          BY <3>3, <3>4, <4>1 DEF Freed, UsedChunks
        <4>3. g.tags.size[p2] = k.ms.tags.size[p2]
          BY <3>4, <4>1 DEF Freed, UsedChunks
        <4>4. \/ p2 + g.tags.size[p2] <= p
              \/ p + m.tags.size[p] <= p2
          <5>1. Shaped(k.ms) /\ p \in Chunks(k.ms) /\ p2 \in Chunks(k.ms)
            BY <2>4, <3>3, HeapIsShaped DEF UserChunks
          <5>2. p \in Heads(k.ms.tags) /\ p2 \in Heads(k.ms.tags)
                /\ p \in Addr /\ p2 \in Addr /\ p2 # p
            BY <2>4, <3>1, <5>1, ChunkFacts DEF Chunks
          <5>3. /\ p2 < p => p2 + k.ms.tags.size[p2] <= p
                /\ p < p2 => p + k.ms.tags.size[p] <= p2
            BY <2>4, <5>1, <5>2, ChunkFacts
          <5>4. k.ms.tags.size[p] = m.tags.size[p]
            BY <3>3 DEF UsedChunks
          <5> QED
            BY <4>3, <5>2, <5>3, <5>4
        <4>5. CountKept(m, g)
          BY <2>4, <3>4 DEF Freed, CountKept
        <4> QED
          BY <2>4, <3>3, <3>4, <4>1, <4>2, <4>3, <4>4, <4>5 DEF Freed, Resized
      <3>6. r = [ms |-> g, mem |-> chunk2mem(p2)]
        BY <2>1, <2>4, <3>2 DEF g
      <3> QED
        BY <3>5, <3>6 DEF ReallocOK
    <2> QED
      BY <2>2, <2>3, <2>4 DEF MallocOK, nb
  <1> QED
    BY <1>5, <1>6, <1>7, <1>8

-----------------------------------------------------------------------------
(* mspace_inc_size moves the trailer away from top and nothing else.       *)
LEMMA GrownOK ==
  ASSUME NEW m \in MState, HeapOK(m), NEW inc \in Nat, SegEnd(m) + inc <= AddrMax
  PROVE  LET g == Grown(m, inc) IN
         /\ g \in MState /\ HeapOK(g)
         /\ g.aborted = m.aborted /\ g.seg_size = m.seg_size + inc
         /\ SegEnd(g) = SegEnd(m) + inc /\ UserChunks(g) = UserChunks(m)
         /\ \A a \in UsedChunks(m) : g.tags.size[a] = m.tags.size[a]
         /\ CountKept(m, g)
  <1> DEFINE g == Grown(m, inc)
             t == m.tags
             u == g.tags
             T == m.top
             E == SegEnd(m)
             F == E + inc
             s == t.size[T] + inc
  <1>1. /\ Shaped(m) /\ t \in Tags /\ T \in Addr /\ m.topsize \in Nat
        /\ t.size[T] = m.topsize /\ T \in t.pin /\ T \notin t.cin /\ T \in Chunks(m)
    BY HeapIsShaped DEF HeapOK, TopIsFree, FreeChunks
  <1>2. /\ E \in Addr /\ E = T + m.topsize /\ m.topsize > 0 /\ T < E /\ SegBase < T
    BY <1>1, ChunkFacts DEF SegEnd
  <1>3. /\ F \in Addr /\ E <= F /\ s \in Nat /\ s > 0 /\ T + s = F /\ T < F
        /\ s = m.topsize + inc
    BY <1>1, <1>2
  <1>4. /\ SetTopSize(t, T, s) \in Tags
        /\ set_trailer(SetTopSize(t, T, s), T + s) \in Tags
    <2>1. set_top_head(t, T, s) \in Tags
      BY <1>1, <1>3, MacroTypes
    <2>2. SetTopSize(t, T, s) \in Tags
      BY <2>1, <1>1 DEF SetTopSize, Tags
    <2> QED
      BY <2>2 DEF set_trailer, Tags
  <1>5. /\ g \in MState /\ g.aborted = m.aborted /\ g.seg_size = m.seg_size + inc
        /\ g.exts = m.exts
        /\ g.top = T /\ g.topsize = s /\ u = set_trailer(SetTopSize(t, T, s), F)
        /\ g.dv = m.dv /\ g.dvsize = m.dvsize /\ g.bins = m.bins
    <2>1. g = [m EXCEPT !.topsize = @ + inc, !.seg_size = @ + inc,
                        !.tags = set_trailer(SetTopSize(@, T, s), T + s)]
      BY DEF Grown
    <2> DEFINE w == set_trailer(SetTopSize(t, T, s), F)
    <2>2. w \in Tags /\ m.topsize + inc \in Nat /\ m.seg_size + inc \in Nat
      BY <1>1, <1>3, <1>4 DEF MState
    <2>3. g = [m EXCEPT !.topsize = m.topsize + inc, !.seg_size = m.seg_size + inc,
                        !.tags = w]
      BY <1>3, <2>1 DEF MState
    <2> HIDE DEF g, w, s
    <2>4. /\ g \in MState /\ g.aborted = m.aborted /\ g.seg_size = m.seg_size + inc
          /\ g.exts = m.exts /\ g.top = T /\ g.topsize = m.topsize + inc /\ g.tags = w
          /\ g.dv = m.dv /\ g.dvsize = m.dvsize /\ g.bins = m.bins
      BY <2>2, <2>3 DEF MState
    <2> QED
      BY <1>3, <2>4 DEF w
  <1> HIDE DEF g
  <1>6. SegEnd(g) = F
    BY <1>3, <1>5 DEF SegEnd
  <1>7. /\ \A a \in Addr : u.size[a] = IF a = F THEN TOP_FOOT_SIZE
                                      ELSE IF a = T THEN s
                                      ELSE IF T < a /\ a < F THEN 0 ELSE t.size[a]
        /\ u.cin = (t.cin \ (Body(T, s) \cup {T})) \ {F}
        /\ u.pin = ((t.pin \ Body(T, s)) \cup {T}) \ {F}
        /\ \A a \in Addr : a \notin Body(T, s) => u.foot[a] = t.foot[a]
    <2>1. SetTopSize(t, T, s) =
            [size |-> HeadWritten(t, T, s), cin |-> t.cin \ (Body(T, s) \cup {T}),
             pin |-> (t.pin \ Body(T, s)) \cup {T},
             foot |-> [a \in Addr |-> IF a \in Body(T, s) THEN 0 ELSE t.foot[a]]]
      <3>1. (((t.pin \ Body(T, s)) \cup {T}) \ {T}) \cup (t.pin \cap {T})
               = (t.pin \ Body(T, s)) \cup {T}
        BY <1>1
      <3> HIDE DEF s
      <3>2. set_top_head(t, T, s).pin = (t.pin \ Body(T, s)) \cup {T}
        BY DEF set_top_head
      <3>3. SetTopSize(t, T, s) =
              [set_top_head(t, T, s) EXCEPT !.pin = (t.pin \ Body(T, s)) \cup {T}]
        BY <3>1, <3>2 DEF SetTopSize, set_top_head
      <3> QED
        BY <3>3 DEF set_top_head
    <2> HIDE DEF s, F
    <2>2. /\ u.size = [HeadWritten(t, T, s) EXCEPT ![F] = TOP_FOOT_SIZE]
          /\ u.cin = (t.cin \ (Body(T, s) \cup {T})) \ {F}
          /\ u.pin = ((t.pin \ Body(T, s)) \cup {T}) \ {F}
          /\ u.foot = [a \in Addr |-> IF a \in Body(T, s) THEN 0 ELSE t.foot[a]]
      BY <1>5, <2>1 DEF set_trailer
    <2>3. \A a \in Addr : a \in Body(T, s) <=> T < a /\ a < F
      BY <1>3 DEF Body
    <2> QED
      BY <1>3, <2>2, <2>3 DEF HeadWritten
  <1> DEFINE InTop(a) == T < a /\ a < F
  <1>8. /\ \A a \in Addr : a \in Body(T, s) <=> InTop(a)
        /\ \A a \in Chunks(m) : a \in Addr /\ SegBase <= a /\ a <= T
        /\ \A a \in Heads(t) : a \in Addr /\ (a \in Chunks(m) \/ a = E)
    <2>1. \A a \in Chunks(m) : a \in Addr /\ SegBase <= a /\ a <= T
      <3> SUFFICES ASSUME NEW a \in Chunks(m), T < a PROVE FALSE
        BY <1>1, <1>2, ChunkFacts
      <3>1. a \in Heads(t) /\ a \in Addr /\ a < E
        BY <1>1, ChunkFacts DEF Chunks
      <3>2. T + t.size[T] <= a
        BY <1>1, <3>1, ChunkFacts
      <3> QED
        BY <1>1, <1>2, <3>1, <3>2
    <2> QED
      BY <1>3, <2>1 DEF Body, Chunks, Heads
  <1> HIDE DEF s, F, u
  <1>9. Heads(u) = Chunks(m) \cup {F}
    <2>1. ASSUME NEW a \in Addr, a \in Chunks(m) PROVE u.size[a] # 0
      BY <1>1, <1>3, <1>7, <1>8, <2>1 DEF Chunks, Heads
    <2>2. ASSUME NEW a \in Addr, u.size[a] # 0, a # F PROVE a \in Chunks(m)
      <3>1. a = T \/ t.size[a] # 0
        BY <1>3, <1>7, <2>2
      <3>2. ~InTop(a)
        BY <1>1, <1>3, <1>7, <2>2
      <3>3. a = T \/ a \in Chunks(m) \/ (a = E /\ F = E)
        BY <1>2, <1>3, <1>8, <3>1, <3>2 DEF Heads
      <3> QED
        BY <1>1, <2>2, <3>3
    <2>3. u.size[F] # 0
      BY <1>3, <1>7
    <2> QED
      BY <1>3, <1>8, <2>1, <2>2, <2>3 DEF Heads
  <1>10. Chunks(g) = Chunks(m) /\ F \notin Chunks(m)
    BY <1>1, <1>3, <1>6, <1>8, <1>9 DEF Chunks, u
  <1>11. /\ \A a \in Chunks(m) : /\ a # T => u.size[a] = t.size[a]
                                 /\ a \in u.cin <=> a \in t.cin
                                 /\ a \in u.pin <=> a \in t.pin
         /\ u.size[T] = s
    BY <1>1, <1>3, <1>7, <1>8
  <1>12. FreeChunks(g) = FreeChunks(m) /\ UserChunks(g) = UserChunks(m)
    BY <1>10, <1>11 DEF FreeChunks, UserChunks, u
  <1>13. \A a \in Chunks(m) \ {T} : a + u.size[a] = a + t.size[a] /\ a + t.size[a] \in Chunks(m)
    BY <1>1, <1>11, ChunkFacts
  <1>14. T + u.size[T] = F /\ F \notin u.pin /\ T \notin u.cin
    <2>1. T + u.size[T] = F
      BY <1>3, <1>11
    <2> QED
      BY <1>7, <2>1
  <1>15. Tiles(g)
    <2>1. SegBase \in Chunks(g) /\ SegEnd(g) \in Heads(u)
      BY <1>1, <1>6, <1>9, <1>10, ChunkFacts
    <2>2. \A a \in Heads(u) : SegBase <= a /\ a <= SegEnd(g)
      BY <1>1, <1>2, <1>3, <1>6, <1>8, <1>9
    <2>3. \A a \in Chunks(g) : a + u.size[a] \in Heads(u)
      BY <1>9, <1>10, <1>13, <1>14
    <2>4. ASSUME NEW a \in Chunks(g) PROVE Body(a, u.size[a]) \cap Heads(u) = {}
      <3>1. CASE a = T
        BY <1>1, <1>8, <1>9, <1>11, <1>3, <3>1 DEF Body
      <3>2. CASE a # T
        <4>1. /\ Body(a, t.size[a]) \cap Heads(t) = {} /\ a + t.size[a] <= T
              /\ a \in Addr /\ t.size[a] \in Nat
          BY <1>1, <1>8, <1>10, <1>13, <3>2, ChunkFacts DEF Shaped, Tiles
        <4>2. F \notin Body(a, t.size[a])
          BY <1>1, <1>3, <4>1 DEF Body
        <4> QED
          BY <1>9, <1>10, <1>11, <3>2, <4>1, <4>2 DEF Chunks
      <3> QED
        BY <3>1, <3>2
    <2>5. \A a \in Chunks(g) : a # g.top => u.size[a] >= MIN_CHUNK_SIZE
      BY <1>1, <1>5, <1>10, <1>11 DEF Shaped, Tiles
    <2>6. \A a \in Heads(u) \ {SegBase} : \E c \in Chunks(g) : c + u.size[c] = a
      <3> SUFFICES ASSUME NEW a \in Heads(u), a # SegBase
                   PROVE  \E c \in Chunks(m) : c + u.size[c] = a
        BY <1>10
      <3>1. CASE a = F
        BY <1>1, <1>14, <3>1
      <3>2. CASE a # F
        <4>1. a \in Chunks(m)
          BY <1>9, <3>2
        <4>2. PICK c \in Chunks(m) : c + t.size[c] = a
          BY <1>1, <4>1 DEF Shaped, Tiles, Chunks
        <4>3. c # T
          BY <1>1, <1>2, <1>8, <4>1, <4>2
        <4> QED
          BY <1>13, <4>2, <4>3
      <3> QED
        BY <3>1, <3>2
    <2> QED
      BY <2>1, <2>2, <2>3, <2>4, <2>5, <2>6 DEF Tiles, u
  <1>16. TagsAgree(g)
    <2>1. SegBase \in u.pin /\ SegBase \in u.cin
      BY <1>1, <1>11, ChunkFacts DEF Shaped, TagsAgree
    <2>2. \A a \in Chunks(g) : (a + u.size[a] \in u.pin) <=> (a \in u.cin)
      BY <1>1, <1>10, <1>11, <1>13, <1>14 DEF Shaped, TagsAgree
    <2>3. \A a \in FreeChunks(g) \ {g.top} : u.foot[a + u.size[a]] = u.size[a]
      <3> SUFFICES ASSUME NEW a \in FreeChunks(m), a # T
                   PROVE  u.foot[a + u.size[a]] = u.size[a]
        BY <1>5, <1>12
      <3>1. a \in Chunks(m) /\ a + u.size[a] = a + t.size[a] /\ u.size[a] = t.size[a]
        BY <1>11, <1>13 DEF FreeChunks
      <3>2. a + t.size[a] \in Addr /\ a + t.size[a] \notin Body(T, s)
        BY <1>1, <1>8, <1>13, <3>1
      <3>3. t.foot[a + t.size[a]] = t.size[a]
        BY <1>1 DEF Shaped, TagsAgree
      <3> QED
        BY <1>7, <3>1, <3>2, <3>3
    <2> QED
      BY <2>1, <2>2, <2>3 DEF TagsAgree, u
  <1>17. Coalesced(g)
    <2> SUFFICES ASSUME NEW a \in FreeChunks(m), a # T
                 PROVE  a \in u.pin /\ a + u.size[a] \in u.cin
      BY <1>5, <1>12 DEF Coalesced, u
    <2>1. a \in t.pin /\ a + t.size[a] \in t.cin /\ a \in Chunks(m)
      BY <1>1 DEF Shaped, Coalesced, FreeChunks
    <2> QED
      BY <1>11, <1>13, <2>1
  <1>18. TopIsFree(g)
    BY <1>1, <1>3, <1>5, <1>11, <1>12 DEF Shaped, TopIsFree, u
  <1>19. DvIsFree(g) /\ HoldExactly(g.bins, Binned(g), u.size)
    <2>1. \A a \in FreeChunks(m) \ {T} : u.size[a] = t.size[a]
      BY <1>11 DEF FreeChunks
    <2>2. DvIsFree(g)
      BY <1>5, <1>12, <2>1 DEF HeapOK, DvIsFree, u
    <2>3. Binned(g) = Binned(m) /\ \A a \in Binned(m) : u.size[a] = t.size[a]
      BY <1>5, <1>12, <2>1 DEF Binned
    <2> QED
      BY <1>5, <2>2, <2>3, HoldSame DEF HeapOK
  <1>20. HeapOK(g)
    BY <1>15, <1>16, <1>17, <1>18, <1>19 DEF HeapOK, u
  <1>21. \A a \in UsedChunks(m) : u.size[a] = t.size[a]
    BY <1>1, <1>11, UsedAreNotFree DEF Shaped, TopIsFree
  <1>22. CountKept(m, g)
    BY <1>5, <1>12, <1>21, CountSame DEF UsedChunks, u
  <1> QED
    BY <1>5, <1>6, <1>12, <1>20, <1>21, <1>22 DEF u, g, F
=============================================================================
