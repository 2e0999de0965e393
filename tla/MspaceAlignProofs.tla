------------------------- MODULE MspaceAlignProofs -------------------------
(***************************************************************************)
(* The safety of mspace_memalign, mspace_calloc and the independent_ calls *)
(* among the others, for a segment of any size, any alignments, requests   *)
(* and elements.                                                           *)
(*                                                                         *)
(* The inductive invariant is that of MspaceProofs, with one granule more  *)
(* of waste: the block that is cut out at an aligned place keeps a rest of *)
(* exactly MIN_CHUNK_SIZE.  What ialloc cuts is a fold over the writes: it *)
(* is shown to come to marking every piece (CutIs), and the pieces to      *)
(* divide the chunk they are cut from (PiecesDivide).                      *)
(***************************************************************************)
EXTENDS MspaceProofs, MspaceAlign, SequenceTheorems

USE AddrMaxAssumption, SizeTAssumption, SmallBinsAssumption,
    SegmentAssumption, ParamsAssumption
USE DEF Addr

-----------------------------------------------------------------------------
(* Cutting a chunk in two comes to the same whichever half is tagged first. *)
LEMMA CutsCommute ==
  ASSUME NEW t \in Tags, NEW p \in Addr, NEW k \in Nat \ {0}, NEW s \in Nat, k < s
  PROVE  set_inuse(set_inuse(t, p + k, s - k), p, k)
           = set_inuse(set_inuse(t, p, k), p + k, s - k)
  <1> DEFINE r == p + k
             n == r + (s - k)
             B == Body(p, k)
             C == Body(r, s - k)
             L == set_inuse(set_inuse(t, r, s - k), p, k)
             R == set_inuse(set_inuse(t, p, k), r, s - k)
  <1>1. /\ r \notin B /\ p \notin C /\ r \notin C /\ n \notin B /\ n \notin C
        /\ p # r /\ B \cap C = {}
    BY DEF Body
  <1>2. L.cin = R.cin
    <2>1. L.cin = (((t.cin \ C) \cup {r}) \ B) \cup {p}
      BY DEF set_inuse
    <2>2. R.cin = (((t.cin \ B) \cup {p}) \ C) \cup {r}
      BY DEF set_inuse
    <2> HIDE DEF L, R, B, C, r
    <2> QED
      BY <1>1, <2>1, <2>2
  <1>3. L.pin = R.pin
    <2>1. L.pin = (((t.pin \ C) \cup {n}) \ B) \cup {r}
      BY DEF set_inuse
    <2>2. R.pin = (((t.pin \ B) \cup {r}) \ C) \cup {n}
      BY DEF set_inuse
    <2> HIDE DEF L, R, B, C, r, n
    <2> QED
      BY <1>1, <2>1, <2>2
  <1>4. L.size = R.size
    <2>1. L.size = [a \in Addr |-> IF a = p THEN k ELSE IF a \in B THEN 0
                     ELSE IF a = r THEN s - k ELSE IF a \in C THEN 0 ELSE t.size[a]]
      BY DEF set_inuse, HeadWritten
    <2>2. R.size = [a \in Addr |-> IF a = r THEN s - k ELSE IF a \in C THEN 0
                     ELSE IF a = p THEN k ELSE IF a \in B THEN 0 ELSE t.size[a]]
      BY DEF set_inuse, HeadWritten
    <2> HIDE DEF L, R, B, C, r, n
    <2> QED
      BY <1>1, <2>1, <2>2
  <1>5. L.foot = R.foot
    <2>1. L.foot = [a \in Addr |-> IF a \in B \/ a = r THEN 0
                     ELSE IF a \in C \/ a = n THEN 0 ELSE t.foot[a]]
      BY DEF set_inuse, FeetOfInuse
    <2>2. R.foot = [a \in Addr |-> IF a \in C \/ a = n THEN 0
                     ELSE IF a \in B \/ a = r THEN 0 ELSE t.foot[a]]
      BY DEF set_inuse, FeetOfInuse
    <2> HIDE DEF L, R, B, C, r, n
    <2> QED
      BY <2>1, <2>2
  <1>6. /\ L = [size |-> L.size, cin |-> L.cin, pin |-> L.pin, foot |-> L.foot]
        /\ R = [size |-> R.size, cin |-> R.cin, pin |-> R.pin, foot |-> R.foot]
    BY DEF set_inuse
  <1> HIDE DEF L, R
  <1>7. L = R
    BY <1>2, <1>3, <1>4, <1>5, <1>6
  <1> QED
    BY <1>7 DEF L, R

(* The block at p has become one at pos, within it.                        *)
Carved(m, p, pos, nb, m2) ==
  /\ m2 \in MState /\ HeapOK(m2) /\ SegEnd(m2) = SegEnd(m)
  /\ m2.aborted = m.aborted /\ m2.seg_size = m.seg_size
  /\ pos \notin UsedChunks(m) \ {p}
  /\ UserChunks(m2) = (UserChunks(m) \ {p}) \cup {pos}
  /\ \A a \in UsedChunks(m) \ {p} : m2.tags.size[a] = m.tags.size[a]
  /\ m2.tags.size[pos] \in nb .. nb + MIN_CHUNK_SIZE
  /\ CountKept(m, m2)

(* Where the leader begins, where the end.                                 *)
Led(m, p, pos) ==
  [m EXCEPT !.tags = set_inuse(set_inuse(@, pos, m.tags.size[p] - (pos - p)), p, pos - p)]
CutAfter(m, pos, nb, size) ==
  [m EXCEPT !.tags = set_inuse(set_inuse(@, pos, nb), pos + nb, size - nb)]

(* The leader is cut off.                                                  *)
LEMMA TagLeader ==
  ASSUME NEW m \in MState, HeapOK(m), NEW p \in UserChunks(m), NEW pos \in Nat,
         pos - p >= MIN_CHUNK_SIZE, m.tags.size[p] - (pos - p) >= MIN_CHUNK_SIZE
  PROVE  CutInTwo(m, p, pos - p, Led(m, p, pos))
  <1> DEFINE k == pos - p
             s == m.tags.size[p]
  <1>1. p \in Addr /\ s \in Nat /\ m.tags \in Tags
    BY HeapIsShaped, ChunkFacts DEF UserChunks
  <1>2. k \in Nat \ {0} /\ k < s /\ p + k = pos /\ k >= MIN_CHUNK_SIZE
    BY <1>1, ChunkConstants
  <1>3. CutInTwo(m, p, k, [m EXCEPT !.tags = set_inuse(set_inuse(@, p, k), p + k, s - k)])
    <2> HIDE DEF k
    <2> QED
      BY <1>2, CutInTwoOK DEF k
  <1>4. set_inuse(set_inuse(m.tags, pos, s - k), p, k)
          = set_inuse(set_inuse(m.tags, p, k), p + k, s - k)
    <2> HIDE DEF k, s
    <2> QED
      BY <1>1, <1>2, CutsCommute
  <1>5. Led(m, p, pos) = [m EXCEPT !.tags = set_inuse(set_inuse(@, p, k), p + k, s - k)]
    <2>1. Led(m, p, pos) = [m EXCEPT !.tags = set_inuse(set_inuse(m.tags, pos, s - k), p, k)]
      BY DEF Led
    <2> HIDE DEF k, s
    <2> QED
      BY <1>4, <2>1
  <1> QED
    BY <1>3, <1>5

(* Of the block at p the blocks of V may be left, and those are all.       *)
Kept(m, p, m2, V) ==
  /\ m2 \in MState /\ HeapOK(m2) /\ SegEnd(m2) = SegEnd(m)
  /\ m2.aborted = m.aborted /\ m2.seg_size = m.seg_size
  /\ UserChunks(m2) = V /\ UserChunks(m) \ {p} \subseteq V
  /\ \A a \in UsedChunks(m) \ {p} : m2.tags.size[a] = m.tags.size[a]
  /\ CountKept(m, m2)

(* One of them is cut in two.                                              *)
LEMMA KeptCut ==
  ASSUME NEW m, NEW p, NEW m1, NEW V, Kept(m, p, m1, V), NEW q, NEW k, NEW m2,
         q \notin UsedChunks(m) \ {p}, CutInTwo(m1, q, k, m2)
  PROVE  /\ Kept(m, p, m2, V \cup {q + k}) /\ q + k \notin V
         /\ q + k \notin UsedChunks(m) \ {p}
  BY DEF Kept, CutInTwo, UsedChunks, CountKept

(* One of them is freed.                                                   *)
LEMMA KeptFreed ==
  ASSUME NEW m, NEW p, NEW m1, NEW V, Kept(m, p, m1, V), NEW q \in V,
         q \notin UsedChunks(m) \ {p}
  PROVE  /\ Kept(m, p, Free(m1, chunk2mem(q)), V \ {q})
         /\ \A a \in V \ {q} : Free(m1, chunk2mem(q)).tags.size[a] = m1.tags.size[a]
  <1> DEFINE m2 == Free(m1, chunk2mem(q))
  <1>1. Freed(m1, q, m2)
    BY FreeOK DEF Kept
  <1> HIDE DEF m2
  <1>2. /\ m2 \in MState /\ HeapOK(m2) /\ m2.aborted = m1.aborted
        /\ m2.seg_size = m1.seg_size /\ UserChunks(m2) = V \ {q} /\ SegEnd(m2) = SegEnd(m1)
        /\ \A a \in (V \ {q}) \cup {SegBase} : m2.tags.size[a] = m1.tags.size[a]
        /\ CountKept(m1, m2)
    BY <1>1 DEF Freed, UsedChunks, Kept
  <1>3. UserChunks(m) \ {p} \subseteq V \ {q}
    BY DEF Kept, UsedChunks
  <1>4. Kept(m, p, m2, V \ {q})
    BY <1>2, <1>3 DEF Kept, UsedChunks, CountKept
  <1> QED
    BY <1>2, <1>4 DEF m2

(* Whatever the room before and behind, what is left of the block is the   *)
(* aligned one.                                                            *)
LEMMA CarveOK ==
  ASSUME NEW m \in MState, HeapOK(m), NEW p \in UserChunks(m), NEW pos \in Nat,
         NEW nb \in Nat, nb >= MIN_CHUNK_SIZE,
         pos = p \/ pos - p >= MIN_CHUNK_SIZE, m.tags.size[p] - (pos - p) >= nb
  PROVE  Carved(m, p, pos, nb, Carve(m, p, pos, nb))
  <1> DEFINE s == m.tags.size[p]
             size == s - (pos - p)
             led == IF pos = p THEN m ELSE Led(m, p, pos)
             spare == size > nb + MIN_CHUNK_SIZE
             cut == IF spare THEN CutAfter(led, pos, nb, size) ELSE led
             unled == IF pos = p THEN cut ELSE Free(cut, chunk2mem(p))
             fin == IF spare THEN Free(unled, chunk2mem(pos + nb)) ELSE unled
             R == UserChunks(m) \ {p}
             With(V) == IF pos = p THEN V ELSE V \cup {p}
  <1>1. Carve(m, p, pos, nb) = fin
    BY DEF Carve, Led, CutAfter
  <1>2. p \in Addr /\ s \in Nat /\ size \in Int /\ MIN_CHUNK_SIZE \in Nat \ {0}
    BY HeapIsShaped, ChunkFacts, ChunkConstants DEF UserChunks
  <1>3. /\ Kept(m, p, led, With(R \cup {pos})) /\ led.tags.size[pos] = size
        /\ pos \notin UsedChunks(m) \ {p}
    <2>1. CASE pos = p
      BY <1>2, <2>1 DEF Kept, CountKept
    <2>2. CASE pos # p
      <3>1. CutInTwo(m, p, pos - p, Led(m, p, pos)) /\ p + (pos - p) = pos
        BY <1>2, <2>2, TagLeader
      <3>2. UserChunks(m) \cup {pos} = With(R \cup {pos})
        BY <2>2
      <3> HIDE DEF With, R
      <3> QED
        BY <2>2, <3>1, <3>2 DEF Kept, CutInTwo, UsedChunks
    <2> QED
      BY <2>1, <2>2
  <1>4. CASE ~spare
    <2> DEFINE W == R \cup {pos}
    <2>1. /\ Kept(m, p, unled, W)
          /\ \A a \in W : unled.tags.size[a] = led.tags.size[a]
      <3>1. CASE pos = p
        BY <1>3, <1>4, <3>1
      <3>2. CASE pos # p
        <4>1. /\ Kept(m, p, led, W \cup {p}) /\ (W \cup {p}) \ {p} = W
              /\ unled = Free(led, chunk2mem(p))
              /\ p \in W \cup {p} /\ p \notin UsedChunks(m) \ {p}
          BY <1>3, <1>4, <3>2
        <4> HIDE DEF unled, led, W
        <4> QED
          BY ONLY <4>1, KeptFreed
      <3> QED
        BY <3>1, <3>2
    <2>2. fin = unled /\ size \in nb .. nb + MIN_CHUNK_SIZE
      BY <1>2, <1>4
    <2> HIDE DEF fin, unled, led
    <2> QED
      BY <1>1, <1>3, <2>1, <2>2 DEF Kept, Carved
  <1>5. CASE spare
    <2> DEFINE e == pos + nb
    <2>1. size - nb >= MIN_CHUNK_SIZE /\ pos \in With(R \cup {pos})
      BY <1>2, <1>5
    <2>2. CutInTwo(led, pos, nb, cut)
      <3>1. cut = CutAfter(led, pos, nb, size)
        BY <1>5
      <3> HIDE DEF led, cut, With, size
      <3> QED
        BY <1>3, <2>1, <3>1, CutInTwoOK DEF CutAfter, Kept
    <2>3. /\ Kept(m, p, cut, With(R \cup {pos}) \cup {e})
          /\ e \notin With(R \cup {pos}) /\ e \notin UsedChunks(m) \ {p}
      <3> HIDE DEF led, cut, With, R
      <3> QED
        BY ONLY <1>3, <2>2, KeptCut
    <2> DEFINE V == (R \cup {pos}) \cup {e}
    <2>4. /\ Kept(m, p, unled, V)
          /\ \A a \in V : unled.tags.size[a] = cut.tags.size[a]
      <3>1. CASE pos = p
        BY <2>3, <3>1
      <3>2. CASE pos # p
        <4>1. With(R \cup {pos}) \cup {e} = V \cup {p}
          BY <3>2
        <4>2. /\ Kept(m, p, cut, V \cup {p}) /\ (V \cup {p}) \ {p} = V
              /\ unled = Free(cut, chunk2mem(p))
              /\ p \in V \cup {p} /\ p \notin UsedChunks(m) \ {p}
          BY <2>3, <3>2, <4>1
        <4> HIDE DEF unled, cut, V
        <4> QED
          BY ONLY <4>2, KeptFreed
      <3> QED
        BY <3>1, <3>2
    <2>5. e \in V /\ V \ {e} = R \cup {pos}
      BY <2>3
    <2>6. /\ Kept(m, p, Free(unled, chunk2mem(e)), V \ {e})
          /\ \A a \in V \ {e} :
               Free(unled, chunk2mem(e)).tags.size[a] = unled.tags.size[a]
      <3> HIDE DEF unled, V, e
      <3> QED
        BY <2>3, <2>4, <2>5, KeptFreed
    <2>7. fin = Free(unled, chunk2mem(e))
      BY <1>5
    <2>8. pos \in V \ {e} /\ pos \in V
      BY <2>5
    <2>9. cut.tags.size[pos] = nb /\ nb \in nb .. nb + MIN_CHUNK_SIZE
      BY <1>2, <2>2 DEF CutInTwo
    <2> HIDE DEF fin, unled, cut, V, e
    <2>10. Kept(m, p, fin, R \cup {pos}) /\ fin.tags.size[pos] = nb
      BY <2>4, <2>5, <2>6, <2>7, <2>8, <2>9
    <2> QED
      BY <1>1, <1>3, <2>9, <2>10 DEF Kept, Carved
  <1> QED
    BY <1>4, <1>5

-----------------------------------------------------------------------------
(* What a number divides is a multiple of it.                              *)
LEMMA ModZero ==
  ASSUME NEW x \in Nat, NEW v \in Nat \ {0}, x % v = 0
  PROVE  \E q \in Nat : x = q * v
  <1>1. x = (x \div v) * v /\ x \div v \in Nat
    OBVIOUS
  <1> QED
    BY <1>1

(* Of two powers of two the smaller divides the larger.                    *)
LEMMA PowersDivide ==
  ASSUME NEW j, NEW k, NEW v, NEW w, IsPower(j, v), IsPower(k, w), v <= w
  PROVE  v \in Nat \ {0} /\ \E c \in Nat : w = c * v
  <1>1. v \in Nat \ {0} /\ w \in Nat
    BY DEF IsPower
  <1>2. w % v = 0
    BY DEF IsPower
  <1> QED
    BY <1>1, <1>2, ModZero

(* Multiples are what they say.                                            *)
LEMMA MultipleMod ==
  ASSUME NEW x \in Nat, NEW v \in Nat \ {0}
  PROVE  (x * v) % v = 0
  OBVIOUS

(* The alignment is made a power of two of at least a chunk.               *)
LEMMA EnsuredIs ==
  ASSUME NEW al \in Nat, al <= 2^15
  PROVE  /\ \E k \in 0 .. 15 : IsPower(k, Ensured(al))
         /\ Ensured(al) \in Nat /\ Ensured(al) >= al
         /\ Ensured(al) % 8 = 0 /\ Ensured(al) \div 8 >= MIN_CHUNK_SIZE
  <1> DEFINE S == {a \in PowersOf2 : a >= al /\ a >= MIN_CHUNK_SIZE * MALLOC_ALIGNMENT}
             E == Ensured(al)
  <1>1. \A k \in 0 .. 15 : IsPower(k, 2^k)
    <2>1. \A k \in 0 .. 15 : IsPower(k, Pow(k))
      BY Powers
    <2> QED
      BY ONLY <2>1 DEF Pow
  <1>2. \A a \in PowersOf2 : a \in Nat /\ \E k \in 0 .. 15 : IsPower(k, a)
    BY <1>1 DEF PowersOf2, IsPower
  <1>3. 2^15 \in S
    <2> DEFINE W == 2^15
    <2>1. IsPower(15, W) /\ W \in PowersOf2
      BY <1>1 DEF PowersOf2
    <2>2. al <= W
      OBVIOUS
    <2> HIDE DEF W
    <2>3. W >= MIN_CHUNK_SIZE * MALLOC_ALIGNMENT
      BY <2>1 DEF IsPower, MIN_CHUNK_SIZE, MALLOC_ALIGNMENT
    <2>4. W \in S
      BY <1>2, <2>1, <2>2, <2>3
    <2> QED
      BY <2>4 DEF W
  <1>4. S \in SUBSET Nat /\ S # {}
    BY <1>2, <1>3
  <1>5. LeastIndex(S) \in S /\ \A j \in S : LeastIndex(S) <= j
    <2> HIDE DEF S
    <2> QED
      BY <1>4, LeastIndexIn
  <1>6. E \in S
    <2>1. E = Min(S)
      BY DEF Ensured
    <2> HIDE DEF S
    <2> QED
      BY <1>5, <2>1 DEF Min
  <1>7. E \in PowersOf2 /\ E >= al /\ E >= MIN_CHUNK_SIZE * MALLOC_ALIGNMENT
    BY <1>6
  <1> HIDE DEF E
  <1>8. PICK k \in 0 .. 15 : IsPower(k, E)
    BY <1>2, <1>7
  <1>9. E \in Nat /\ E >= 16
    BY <1>2, <1>7 DEF MIN_CHUNK_SIZE, MALLOC_ALIGNMENT
  <1>10. E % 8 = 0
    BY <1>8, <1>9 DEF IsPower
  <1>11. E \div 8 >= MIN_CHUNK_SIZE
    BY <1>7, <1>9, ChunkConstants
  <1> QED
    BY <1>7, <1>8, <1>9, <1>10, <1>11 DEF E

(* The aligned place is where the chunk begins, or a chunk behind.         *)
LEMMA SpotIs ==
  ASSUME NEW p \in Nat, NEW g \in Nat, g >= MIN_CHUNK_SIZE
  PROVE  /\ AlignedSpot(p, g) \in Nat /\ chunk2mem(AlignedSpot(p, g)) % g = 0
         /\ AlignedSpot(p, g) = p \/ AlignedSpot(p, g) - p >= MIN_CHUNK_SIZE
         /\ AlignedSpot(p, g) - p < MIN_CHUNK_SIZE + g
  <1> DEFINE mem == chunk2mem(p)
             q == (mem + g - 1) \div g
             X == q * g
             br == mem2chunk(X)
             pos == AlignedSpot(p, g)
             D == TWO_SIZE_T_SIZES
  <1>1. /\ mem \in Nat /\ D \in Nat /\ mem = p + D /\ MIN_CHUNK_SIZE \in Nat \ {0}
        /\ g \in Nat \ {0}
    BY ChunkConstants DEF chunk2mem
  <1>2. CASE mem % g = 0
    BY <1>1, <1>2 DEF AlignedSpot
  <1>3. CASE mem % g # 0
    <2>1. /\ q \in Nat /\ X \in Nat /\ X <= mem + g - 1 /\ mem + g - 1 < X + g
      <3> DEFINE Y == mem + g - 1
      <3>1. Y \in Nat
        BY <1>1
      <3> HIDE DEF Y
      <3>2. Y \div g \in Nat /\ (Y \div g) * g <= Y /\ Y < (Y \div g + 1) * g
        BY <1>1, <3>1
      <3>3. (Y \div g) * g \in Nat /\ (Y \div g + 1) * g = (Y \div g) * g + g
        BY <1>1, <3>2
      <3> QED
        BY <3>2, <3>3 DEF Y
    <2>2. X % g = 0 /\ (X + g) % g = 0
      <3>1. (q + 1) * g = X + g
        BY <1>1, <2>1
      <3> HIDE DEF q
      <3> QED
        BY <1>1, <2>1, <3>1, MultipleMod
    <2>3. X # mem
      BY <1>3, <2>2
    <2> HIDE DEF X, mem
    <2>4. br = X - D /\ br - p = X - mem /\ br - p > 0 /\ br - p < g
      BY <1>1, <2>1, <2>3 DEF mem2chunk
    <2>5. chunk2mem(br) = X /\ chunk2mem(br + g) = X + g
      BY <1>1, <2>1, <2>4 DEF chunk2mem
    <2>6. pos = IF br - p >= MIN_CHUNK_SIZE THEN br ELSE br + g
      BY <1>3 DEF AlignedSpot, X, mem
    <2>7. br \in Int
      BY <1>1, <2>1, <2>4
    <2> HIDE DEF pos, br
    <2>8. /\ pos \in Nat /\ pos - p >= MIN_CHUNK_SIZE /\ pos - p < MIN_CHUNK_SIZE + g
      BY <1>1, <2>4, <2>6, <2>7
    <2>9. chunk2mem(pos) % g = 0
      BY <2>2, <2>5, <2>6
    <2> QED
      BY <2>8, <2>9 DEF pos
  <1> QED
    BY <1>2, <1>3

(* The chunk that is asked of malloc has room for any lead.                *)
LEMMA RoomToAlign ==
  ASSUME NEW nb \in Nat, NEW a \in Nat, a % 8 = 0,
         NEW req, req = (nb + MIN_CHUNK_SIZE) * MALLOC_ALIGNMENT + a - CHUNK_OVERHEAD
  PROVE  req \in Nat /\ request2size(req) = nb + MIN_CHUNK_SIZE + a \div 8
  <1>1. PICK g \in Nat : a = g * 8
    BY ModZero
  <1>2. a \div 8 = g
    BY <1>1
  <1>3. req = 8 * (nb + MIN_CHUNK_SIZE + g) - CHUNK_OVERHEAD
    BY <1>1, ChunkConstants
  <1>4. req \in Nat /\ ~(req < MIN_REQUEST)
    BY <1>3, ChunkConstants DEF MIN_REQUEST
  <1>5. pad_request(req) = nb + MIN_CHUNK_SIZE + g
    BY <1>3, ChunkConstants DEF pad_request
  <1> QED
    BY <1>2, <1>4, <1>5 DEF request2size

(* What internal_memalign returns: a block of the size that was asked for, *)
(* at a place that is aligned.                                             *)
LEMMA MemalignGets ==
  ASSUME NEW m \in MState, HeapOK(m), NEW al \in Nat, al <= 2^15, NEW bytes \in Nat,
         NEW r \in internal_memalign(m, al, bytes)
  PROVE  /\ Got(m, request2size(bytes), MIN_CHUNK_SIZE + 1, r)
         /\ r.mem # 0 /\ al > 8 => r.mem % (Ensured(al) \div 8) = 0
  <1> DEFINE e == Ensured(al)
             g == e \div 8
             nb == request2size(bytes)
             req == (nb + MIN_CHUNK_SIZE) * MALLOC_ALIGNMENT + e - CHUNK_OVERHEAD
             w == MIN_CHUNK_SIZE + 1
  <1>1. /\ nb \in Nat /\ nb >= MIN_CHUNK_SIZE /\ e \in Nat /\ e % 8 = 0
        /\ g \in Nat /\ g >= MIN_CHUNK_SIZE /\ MALLOC_ALIGNMENT = 8
        /\ w \in Nat /\ w >= MIN_CHUNK_SIZE /\ MIN_CHUNK_SIZE \in Nat
    BY RequestFits, EnsuredIs, ChunkConstants
  <1>2. CASE al <= MALLOC_ALIGNMENT
    <2>1. r \in Malloc(m, bytes)
      BY <1>2 DEF internal_memalign
    <2> QED
      BY <1>1, <1>2, <2>1, MallocGets
  <1>3. CASE r = Null(m)
    BY <1>3 DEF Null, Got
  <1>4. CASE /\ ~(al <= MALLOC_ALIGNMENT)
             /\ ~(bytes >= MAX_REQUEST - Ensured(al))
    <2> DEFINE Spot(x) == AlignedSpot(mem2chunk(x.mem), g)
    <2>1. PICK x \in Malloc(m, req) :
            r = IF x.mem = 0 THEN x
                ELSE [ms  |-> Carve(x.ms, mem2chunk(x.mem), Spot(x), nb),
                      mem |-> chunk2mem(Spot(x))]
      BY <1>1, <1>4 DEF internal_memalign
    <2>2. req \in Nat /\ request2size(req) = nb + MIN_CHUNK_SIZE + g
      <3> HIDE DEF nb, e
      <3> QED
        BY <1>1, RoomToAlign
    <2>3. Got(m, nb + MIN_CHUNK_SIZE + g, MIN_CHUNK_SIZE, x)
      <3> HIDE DEF nb, g, req
      <3> QED
        BY <1>1, <2>2, MallocGets
    <2>4. CASE x.mem = 0 /\ x.ms = m
      BY <2>1, <2>4 DEF Got
    <2>5. ASSUME NEW p \in Addr, x.mem = chunk2mem(p),
                 GivenOut(m, p, nb + MIN_CHUNK_SIZE + g, MIN_CHUNK_SIZE, x.ms)
          PROVE  /\ Got(m, nb, w, r) /\ r.mem % g = 0
      <3> DEFINE pos == AlignedSpot(p, g)
                 m2 == Carve(x.ms, p, pos, nb)
      <3>1. mem2chunk(x.mem) = p /\ x.mem # 0
        BY <2>5, MemOfChunk
      <3>2. r = [ms |-> m2, mem |-> chunk2mem(pos)]
        BY <2>1, <3>1
      <3>3. /\ pos \in Nat /\ chunk2mem(pos) % g = 0
            /\ pos = p \/ pos - p >= MIN_CHUNK_SIZE
            /\ pos - p < MIN_CHUNK_SIZE + g
        <4>1. p \in Nat
          OBVIOUS
        <4> HIDE DEF g
        <4> QED
          BY <1>1, <4>1, SpotIs
      <3>4. /\ x.ms \in MState /\ HeapOK(x.ms) /\ SegEnd(x.ms) = SegEnd(m)
            /\ x.ms.aborted = m.aborted /\ x.ms.seg_size = m.seg_size
            /\ p \notin UserChunks(m) /\ UserChunks(x.ms) = UserChunks(m) \cup {p}
            /\ \A a \in UsedChunks(m) : x.ms.tags.size[a] = m.tags.size[a]
            /\ x.ms.tags.size[p] >= nb + MIN_CHUNK_SIZE + g /\ CountKept(m, x.ms)
        BY <2>5 DEF GivenOut
      <3>5. x.ms.tags.size[p] \in Nat
        BY <3>4 DEF MState, Tags
      <3>6. x.ms.tags.size[p] - (pos - p) >= nb
        <4> HIDE DEF pos, nb, g
        <4> QED
          BY <1>1, <3>3, <3>4, <3>5
      <3> HIDE DEF pos, nb, g
      <3>7. Carved(x.ms, p, pos, nb, m2)
        BY <1>1, <3>3, <3>4, <3>6, CarveOK
      <3> HIDE DEF m2
      <3>8. UserChunks(x.ms) \ {p} = UserChunks(m)
        BY <3>4
      <3>9. UsedChunks(x.ms) \ {p} = UsedChunks(m)
        <4>1. p # SegBase
          BY <3>4 DEF UserChunks
        <4> QED
          BY <3>8, <4>1 DEF UsedChunks
      <3>10. pos \in Addr
        <4>1. pos \in Chunks(m2)
          BY <3>7 DEF Carved, UserChunks
        <4> QED
          BY <3>7, <4>1, HeapIsShaped, ChunkFacts DEF Carved
      <3>11. m2.tags.size[pos] >= nb /\ m2.tags.size[pos] < nb + w
        BY <1>1, <3>7 DEF Carved
      <3>12. GivenOut(m, pos, nb, w, m2)
        <4> HIDE DEF w
        <4> QED
          BY <3>4, <3>7, <3>8, <3>9, <3>11 DEF Carved, GivenOut, UsedChunks, CountKept
      <3>13. r.mem = chunk2mem(pos) /\ r.ms = m2
        BY <3>2
      <3> QED
        BY <3>3, <3>10, <3>12, <3>13 DEF Got
    <2> QED
      BY <2>3, <2>4, <2>5 DEF Got
  <1> QED
    BY <1>2, <1>3, <1>4 DEF internal_memalign

(* The memory is aligned to whatever power of two was asked for.           *)
LEMMA MemalignAligns ==
  ASSUME NEW m \in MState, HeapOK(m), NEW al \in PowersOf2, NEW bytes \in Nat,
         NEW r \in internal_memalign(m, al, bytes), r.mem # 0
  PROVE  (r.mem * MALLOC_ALIGNMENT) % al = 0
  <1> DEFINE e == Ensured(al)
             g == e \div 8
  <1>1. PICK j \in 0 .. 15 : al = Pow(j)
    BY DEF PowersOf2, Pow
  <1>2. IsPower(j, al) /\ al <= 2^15 /\ al \in Nat \ {0}
    <2>1. IsPower(j, Pow(j)) /\ IsPower(15, Pow(15))
      BY Powers
    <2>2. Pow(j) <= Pow(15) /\ Pow(j) \in Nat \ {0}
      BY <2>1, PowersOrdered
    <2> QED
      BY <1>1, <2>1, <2>2 DEF Pow
  <1>3. r.mem \in Nat
    <2>1. PICK p \in Addr : r.mem = chunk2mem(p)
      BY <1>2, MemalignGets DEF Got
    <2> QED
      BY <2>1, ChunkConstants DEF chunk2mem
  <1>4. CASE al <= 8
    <2>1. al \in {1, 2, 4, 8}
      BY <1>2, <1>4 DEF IsPower
    <2> QED
      BY <1>3, <2>1 DEF MALLOC_ALIGNMENT
  <1>5. CASE al > 8
    <2>1. r.mem % g = 0 /\ g \in Nat \ {0} /\ e = g * 8
      <3>1. /\ e \in Nat /\ e % 8 = 0 /\ g >= MIN_CHUNK_SIZE /\ g \in Nat
        BY <1>2, EnsuredIs
      <3>2. e = (e \div 8) * 8
        BY <3>1
      <3> QED
        BY <1>2, <1>5, <3>1, <3>2, MemalignGets, ChunkConstants
    <2>2. PICK q \in Nat : r.mem = q * g
      <3> HIDE DEF g
      <3> QED
        BY <1>3, <2>1, ModZero
    <2>3. PICK c \in Nat : e = c * al
      <3>1. PICK k \in 0 .. 15 : IsPower(k, e) /\ e >= al
        BY <1>2, EnsuredIs
      <3> QED
        BY <1>2, <3>1, PowersDivide
    <2> HIDE DEF e, g
    <2>4. r.mem * 8 = q * e
      BY <2>1, <2>2
    <2>5. q * e = (q * c) * al /\ q * c \in Nat
      BY <1>2, <2>3
    <2> QED
      BY <1>2, <2>4, <2>5, MultipleMod DEF MALLOC_ALIGNMENT
  <1> QED
    BY <1>2, <1>4, <1>5

-----------------------------------------------------------------------------
(* What mspace_calloc asks for is the product, or more than there can be:  *)
(* a product that has overflowed is found out.                             *)
LEMMA CallocBytesAre ==
  ASSUME NEW n \in Nat, NEW size \in Nat
  PROVE  /\ BYTES_MOD \in Nat \ {0} /\ n * size \in Nat
         /\ CallocBytes(n, size) \in {n * size, BYTES_MOD - 1}
  <1> DEFINE M == BYTES_MOD
             x == n * size
             req == x % M
             H == CALLOC_HALF
  <1>1. M \in Nat \ {0} /\ H \in Nat /\ H * H <= M
    BY CallocAssumption DEF BYTES_MOD, MALLOC_ALIGNMENT
  <1>2. x \in Nat
    OBVIOUS
  <1>3. req \in 0 .. M - 1 /\ (x < M => req = x)
    <2> HIDE DEF x, M
    <2> QED
      BY <1>1, <1>2
  <1>4. CASE n = 0
    <2>1. x = 0
      BY <1>4
    <2> HIDE DEF x, M
    <2>2. req = x
      BY <1>1, <1>3, <2>1
    <2> QED
      BY <1>1, <1>2, <1>4, <2>2 DEF CallocBytes, x, M
  <1>5. CASE n # 0 /\ n < H /\ size < H
    <2>1. x < M
      <3> HIDE DEF M, H
      <3>1. n * size <= n * H /\ n * H < H * H
        <4>1. \A a, b, c \in Nat : a < b /\ c # 0 => c * a < c * b
          OBVIOUS
        <4>2. n * size < n * H
          BY <1>1, <1>5, <4>1
        <4>3. H * n < H * H
          BY <1>1, <1>5, <4>1
        <4> QED
          BY <1>1, <4>2, <4>3
      <3> QED
        BY <1>1, <3>1
    <2> QED
      BY <1>1, <1>2, <1>3, <1>5, <2>1 DEF CallocBytes
  <1>6. CASE n # 0 /\ (n >= H \/ size >= H)
    <2>1. CASE req \div n # size
      BY <1>1, <1>2, <1>6, <2>1 DEF CallocBytes
    <2>2. CASE req \div n = size
      <3>1. (req \div n) * n <= req
        <4>1. req \in Nat
          BY <1>1, <1>3
        <4> HIDE DEF req
        <4> QED
          BY <1>6, <4>1
      <3>2. x <= req
        BY <2>2, <3>1
      <3>3. x < M
        <4> HIDE DEF x, req, M
        <4> QED
          BY <1>1, <1>2, <1>3, <3>2
      <3> QED
        BY <1>1, <1>2, <1>3, <2>2, <3>3 DEF CallocBytes
    <2> QED
      BY <2>1, <2>2
  <1> QED
    BY <1>1, <1>4, <1>5, <1>6

(* No block is that large.                                                 *)
LEMMA NoneIsSoLarge ==
  ASSUME NEW m \in MState, HeapOK(m), NEW w,
         NEW r, Got(m, request2size(BYTES_MOD - 1), w, r)
  PROVE  r.mem = 0 /\ r.ms = m
  <1>1. BYTES_MOD - 1 \in Nat /\ BYTES_MOD = SIZE_T_MOD * 8
    BY DEF BYTES_MOD, MALLOC_ALIGNMENT
  <1> DEFINE big == request2size(BYTES_MOD - 1)
  <1>2. big \in Nat /\ big * 8 - CHUNK_OVERHEAD >= BYTES_MOD - 1
    BY <1>1, RequestFits, ChunkConstants
  <1> HIDE DEF big
  <1>3. big > AddrMax
    BY <1>1, <1>2, ChunkConstants
  <1>4. ASSUME NEW p \in Addr, GivenOut(m, p, big, w, r.ms) PROVE FALSE
    <2>1. r.ms \in MState /\ HeapOK(r.ms) /\ p \in Chunks(r.ms) /\ r.ms.tags.size[p] >= big
      BY <1>4 DEF GivenOut, UserChunks
    <2>2. p + r.ms.tags.size[p] \in Addr /\ r.ms.tags.size[p] \in Nat
      BY <2>1, HeapIsShaped, ChunkFacts
    <2> QED
      BY <1>2, <1>3, <2>1, <2>2
  <1> QED
    BY <1>4 DEF Got, big

(* What is asked of mspace_memalign.                                       *)
LEMMA AlignmentsFit ==
  /\ \A al \in Alignments : al \in Nat /\ al <= 2^15
  /\ \A bytes \in AlignSizes : bytes \in Nat
  <1> DEFINE W == 2^15
  <1>1. W \in Nat
    OBVIOUS
  <1>2. \A al \in Alignments : al \in 0 .. W
    BY AlignAssumption
  <1> HIDE DEF W
  <1>3. \A al \in Alignments : al \in Nat /\ al <= W
    BY <1>1, <1>2
  <1> QED
    BY <1>3, AlignAssumption DEF W

(* mspace_memalign gives the caller a block, or changes nothing.           *)
LEMMA MemalignKeeps ==
  ASSUME HeapInv(MIN_CHUNK_SIZE + 1), NEW al \in Nat, al <= 2^15, NEW bytes \in Nat,
         mspace_memalign(al, bytes)
  PROVE  HeapInv(MIN_CHUNK_SIZE + 1)' /\ HeapStep
  <1>1. ms \in MState /\ HeapOK(ms) /\ MIN_CHUNK_SIZE + 1 \in Nat
    BY ChunkConstants DEF HeapInv
  <1>2. PICK r \in internal_memalign(ms, al, bytes) :
          /\ ms' = r.ms
          /\ held' = IF r.mem = 0 THEN held ELSE [held EXCEPT ![r.mem] = bytes]
    BY DEF mspace_memalign
  <1>3. Got(ms, request2size(bytes), MIN_CHUNK_SIZE + 1, r)
    BY <1>1, MemalignGets
  <1> QED
    BY <1>1, <1>2, <1>3, GotKeeps

(* So does mspace_calloc: one with room for the whole product.             *)
LEMMA CallocKeeps ==
  ASSUME NEW w \in Nat, w >= MIN_CHUNK_SIZE, HeapInv(w), NEW n \in Nat, NEW size \in Nat,
         mspace_calloc(n, size)
  PROVE  HeapInv(w)' /\ HeapStep
  <1> DEFINE x == n * size
             y == CallocBytes(n, size)
  <1>1. ms \in MState /\ HeapOK(ms)
    BY DEF HeapInv
  <1>2. PICK r \in Malloc(ms, y) :
          /\ ms' = r.ms
          /\ held' = IF r.mem = 0 THEN held ELSE [held EXCEPT ![r.mem] = x]
    BY DEF mspace_calloc
  <1>3. x \in Nat /\ y \in {x, BYTES_MOD - 1} /\ y \in Nat
    BY CallocBytesAre
  <1> HIDE DEF x, y
  <1>4. Got(ms, request2size(y), w, r)
    BY <1>1, <1>3, MallocGets
  <1>5. Got(ms, request2size(x), w, r)
    <2>1. CASE y = x
      BY <1>4, <2>1
    <2>2. CASE y = BYTES_MOD - 1
      <3>1. Got(ms, request2size(BYTES_MOD - 1), w, r)
        BY <1>4, <2>2
      <3>2. r.mem = 0 /\ r.ms = ms
        BY ONLY <1>1, <3>1, NoneIsSoLarge
      <3> QED
        BY <3>2 DEF Got
    <2> QED
      BY <1>3, <2>1, <2>2
  <1> QED
    BY <1>2, <1>3, <1>5, GotKeeps

(* Every call that gives out one block keeps the invariant, and is a step  *)
(* of the abstract heap.                                                   *)
LEMMA OneKeeps ==
  ASSUME HeapInv(MIN_CHUNK_SIZE + 1), [NextOne]_vars
  PROVE  HeapInv(MIN_CHUNK_SIZE + 1)' /\ HeapStep
  <1>1. MIN_CHUNK_SIZE + 1 \in Nat /\ MIN_CHUNK_SIZE + 1 >= MIN_CHUNK_SIZE
    BY ChunkConstants
  <1>2. CASE [Next]_vars
    BY <1>1, <1>2, StepKeepsHeapInv
  <1>3. ASSUME NEW al \in Alignments, NEW bytes \in AlignSizes, mspace_memalign(al, bytes)
        PROVE  HeapInv(MIN_CHUNK_SIZE + 1)' /\ HeapStep
    <2>1. al \in Nat /\ al <= 2^15 /\ bytes \in Nat
      BY AlignmentsFit
    <2> QED
      BY <1>3, <2>1, MemalignKeeps
  <1>4. ASSUME NEW c \in CallocRequests, mspace_calloc(c[1], c[2])
        PROVE  HeapInv(MIN_CHUNK_SIZE + 1)' /\ HeapStep
    <2>1. c[1] \in Nat /\ c[2] \in Nat
      BY CallocAssumption
    <2> QED
      BY <1>1, <1>4, <2>1, CallocKeeps
  <1> QED
    BY <1>2, <1>3, <1>4 DEF NextOne

(* Such a call counts the block, unless it is a realloc that extends one   *)
(* into top.                                                               *)
LEMMA OneCounts ==
  ASSUME HeapInv(MIN_CHUNK_SIZE + 1), [NextOne]_vars, NoneGrowsIntoTop
  PROVE  CountKept(ms, ms')
  <1>1. /\ MIN_CHUNK_SIZE + 1 \in Nat /\ MIN_CHUNK_SIZE + 1 >= MIN_CHUNK_SIZE
        /\ ms \in MState /\ HeapOK(ms)
    BY ChunkConstants DEF HeapInv
  <1>2. CASE [Next]_vars
    BY <1>1, <1>2, StepCounts
  <1>3. ASSUME NEW al \in Alignments, NEW bytes \in AlignSizes, mspace_memalign(al, bytes)
        PROVE  CountKept(ms, ms')
    <2>1. PICK r \in internal_memalign(ms, al, bytes) : ms' = r.ms
      BY <1>3 DEF mspace_memalign
    <2>2. al \in Nat /\ al <= 2^15 /\ bytes \in Nat
      BY AlignmentsFit
    <2> QED
      BY <1>1, <2>1, <2>2, MemalignGets, GotCounts
  <1>4. ASSUME NEW c \in CallocRequests, mspace_calloc(c[1], c[2])
        PROVE  CountKept(ms, ms')
    <2> DEFINE y == CallocBytes(c[1], c[2])
    <2>1. c[1] \in Nat /\ c[2] \in Nat
      BY CallocAssumption
    <2>2. y \in Nat
      BY <2>1, CallocBytesAre
    <2>3. PICK r \in Malloc(ms, y) : ms' = r.ms
      BY <1>4 DEF mspace_calloc
    <2> HIDE DEF y
    <2> QED
      BY <1>1, <2>2, <2>3, MallocGets, GotCounts
  <1> QED
    BY <1>2, <1>3, <1>4 DEF NextOne

-----------------------------------------------------------------------------
(* The pieces numbered by I: where they begin and end, what is inside.     *)
Starts(pieces, I) == {pieces[i].at : i \in I}
Ends(pieces, I) == {pieces[i].at + pieces[i].size : i \in I}
Insides(pieces, I) == UNION {Body(pieces[i].at, pieces[i].size) : i \in I}
SizeAt(pieces, a) ==
  pieces[CHOOSE i \in DOMAIN pieces : pieces[i].at = a].size

(* Pieces of the segment, of which no two overlap.                         *)
Apart(pieces) ==
  /\ \E n \in Nat : DOMAIN pieces = 1 .. n
  /\ \A i \in DOMAIN pieces :
       /\ pieces[i].at \in Addr /\ pieces[i].size \in Nat \ {0}
       /\ pieces[i].at + pieces[i].size \in Addr
  /\ \A i, j \in DOMAIN pieces :
       i # j => \/ pieces[i].at + pieces[i].size <= pieces[j].at
                \/ pieces[j].at + pieces[j].size <= pieces[i].at

(* The tags once those pieces have been marked in use.                     *)
Marked(t, pieces, I) ==
  [size |-> [a \in Addr |-> IF a \in Starts(pieces, I) THEN SizeAt(pieces, a)
                            ELSE IF a \in Insides(pieces, I) THEN 0 ELSE t.size[a]],
   cin  |-> (t.cin \ Insides(pieces, I)) \cup Starts(pieces, I),
   pin  |-> (t.pin \ Insides(pieces, I)) \cup Starts(pieces, I),
   foot |-> [a \in Addr |-> IF a \in Insides(pieces, I) \cup Ends(pieces, I)
                              THEN 0 ELSE t.foot[a]]]

(* None begins where another does, or inside one.                          *)
LEMMA ApartFacts ==
  ASSUME NEW pieces, Apart(pieces)
  PROVE  /\ \A i \in DOMAIN pieces : SizeAt(pieces, pieces[i].at) = pieces[i].size
         /\ \A i, j \in DOMAIN pieces :
              /\ i # j => pieces[i].at # pieces[j].at
              /\ pieces[i].at \notin Body(pieces[j].at, pieces[j].size)
  <1> DEFINE D == DOMAIN pieces
  <1>1. ASSUME NEW i \in D, NEW j \in D
        PROVE  /\ i # j => pieces[i].at # pieces[j].at
               /\ pieces[i].at \notin Body(pieces[j].at, pieces[j].size)
    <2>1. /\ pieces[i].at \in Addr /\ pieces[i].size \in Nat \ {0}
          /\ pieces[j].at \in Addr /\ pieces[j].size \in Nat \ {0}
      BY DEF Apart
    <2>2. i # j => \/ pieces[i].at + pieces[i].size <= pieces[j].at
                   \/ pieces[j].at + pieces[j].size <= pieces[i].at
      BY DEF Apart
    <2> QED
      BY <2>1, <2>2 DEF Body
  <1>2. ASSUME NEW i \in D PROVE SizeAt(pieces, pieces[i].at) = pieces[i].size
    <2> DEFINE j == CHOOSE k \in D : pieces[k].at = pieces[i].at
    <2>1. j \in D /\ pieces[j].at = pieces[i].at
      OBVIOUS
    <2>2. j = i
      BY <1>1, <2>1
    <2> QED
      BY <2>2 DEF SizeAt
  <1> QED
    BY <1>1, <1>2

(* Before any is marked nothing has changed ...                            *)
LEMMA MarkedNone ==
  ASSUME NEW t \in Tags, NEW pieces
  PROVE  Marked(t, pieces, {}) = t
  <1>1. Starts(pieces, {}) = {} /\ Insides(pieces, {}) = {} /\ Ends(pieces, {}) = {}
    BY DEF Starts, Insides, Ends
  <1>2. /\ t = [size |-> t.size, cin |-> t.cin, pin |-> t.pin, foot |-> t.foot]
        /\ t.size = [a \in Addr |-> t.size[a]] /\ t.foot = [a \in Addr |-> t.foot[a]]
    BY DEF Tags
  <1>3. Marked(t, pieces, {})
          = [size |-> [a \in Addr |-> t.size[a]], cin |-> t.cin, pin |-> t.pin,
             foot |-> [a \in Addr |-> t.foot[a]]]
    BY <1>1 DEF Marked
  <1> QED
    BY <1>2, <1>3, Zenon

(* ... and each of them may be the last.                                   *)
LEMMA MarkedLast ==
  ASSUME NEW t \in Tags, NEW pieces, Apart(pieces), NEW I \in SUBSET DOMAIN pieces,
         NEW x \in I
  PROVE  Marked(t, pieces, I)
           = set_size_and_pinuse_of_inuse_chunk(Marked(t, pieces, I \ {x}),
                                                pieces[x].at, pieces[x].size)
  <1> DEFINE J == I \ {x}
             a0 == pieces[x].at
             s0 == pieces[x].size
             B == Body(a0, s0)
             L == Marked(t, pieces, I)
             K == Marked(t, pieces, J)
             R == set_size_and_pinuse_of_inuse_chunk(K, a0, s0)
             SI == Starts(pieces, I)
             SJ == Starts(pieces, J)
             NI == Insides(pieces, I)
             NJ == Insides(pieces, J)
  <1>1. SI = SJ \cup {a0} /\ NI = NJ \cup B
        /\ Ends(pieces, I) = Ends(pieces, J) \cup {a0 + s0}
    BY DEF Starts, Insides, Ends
  <1>2. a0 \notin NI /\ a0 \notin B /\ SI \cap B = {} /\ SizeAt(pieces, a0) = s0
        /\ a0 \notin NJ
    BY ApartFacts DEF Starts, Insides
  <1>3. L.cin = R.cin /\ L.pin = R.pin
    <2>1. /\ L.cin = (t.cin \ NI) \cup SI /\ L.pin = (t.pin \ NI) \cup SI
          /\ R.cin = (((t.cin \ NJ) \cup SJ) \ B) \cup {a0}
          /\ R.pin = (((t.pin \ NJ) \cup SJ) \ B) \cup {a0}
      BY DEF Marked, set_size_and_pinuse_of_inuse_chunk
    <2> HIDE DEF L, R, SI, SJ, NI, NJ, B, a0
    <2> QED
      BY <1>1, <1>2, <2>1
  <1>4. L.size = R.size
    <2>1. L.size = [a \in Addr |-> IF a \in SI THEN SizeAt(pieces, a)
                                   ELSE IF a \in NI THEN 0 ELSE t.size[a]]
      BY DEF Marked
    <2>2. R.size = [a \in Addr |-> IF a = a0 THEN s0 ELSE IF a \in B THEN 0
                                   ELSE K.size[a]]
      BY DEF set_size_and_pinuse_of_inuse_chunk, HeadWritten
    <2>3. \A a \in Addr : K.size[a] = IF a \in SJ THEN SizeAt(pieces, a)
                                      ELSE IF a \in NJ THEN 0 ELSE t.size[a]
      BY DEF Marked
    <2> HIDE DEF L, R, K, SI, SJ, NI, NJ, B, a0, s0
    <2>4. \A a \in Addr : (IF a \in SI THEN SizeAt(pieces, a)
                           ELSE IF a \in NI THEN 0 ELSE t.size[a])
                          = (IF a = a0 THEN s0 ELSE IF a \in B THEN 0 ELSE K.size[a])
      BY <1>1, <1>2, <2>3
    <2> QED
      BY <2>1, <2>2, <2>4
  <1>5. L.foot = R.foot
    <2>1. L.foot = [a \in Addr |-> IF a \in NI \cup Ends(pieces, I) THEN 0 ELSE t.foot[a]]
      BY DEF Marked
    <2>2. R.foot = [a \in Addr |-> IF a \in B \/ a = a0 + s0 THEN 0 ELSE K.foot[a]]
      BY DEF set_size_and_pinuse_of_inuse_chunk, FeetOfInuse
    <2>3. \A a \in Addr :
            K.foot[a] = IF a \in NJ \cup Ends(pieces, J) THEN 0 ELSE t.foot[a]
      BY DEF Marked
    <2> HIDE DEF L, R, K, SI, SJ, NI, NJ, B, a0, s0
    <2>4. \A a \in Addr : (IF a \in NI \cup Ends(pieces, I) THEN 0 ELSE t.foot[a])
                          = (IF a \in B \/ a = a0 + s0 THEN 0 ELSE K.foot[a])
      BY <1>1, <2>3
    <2> QED
      BY <2>1, <2>2, <2>4
  <1>6. /\ L = [size |-> L.size, cin |-> L.cin, pin |-> L.pin, foot |-> L.foot]
        /\ R = [size |-> R.size, cin |-> R.cin, pin |-> R.pin, foot |-> R.foot]
    BY DEF set_size_and_pinuse_of_inuse_chunk, Marked
  <1> HIDE DEF L, R
  <1>7. L = R
    BY <1>3, <1>4, <1>5, <1>6
  <1> QED
    BY <1>7 DEF L, R

(* Numbers up to a bound have a largest.                                   *)
LEMMA HasMax ==
  ASSUME NEW n \in Nat, NEW S \in SUBSET (1 .. n), S # {}
  PROVE  Max(S) \in S
  <1> DEFINE R == {n - i : i \in S}
             k == LeastIndex(R)
  <1>1. k \in R /\ \A j \in R : k <= j
    <2>1. R \in SUBSET Nat /\ R # {}
      <3>1. \A i \in S : i \in Nat /\ n - i \in Nat
        OBVIOUS
      <3>2. PICK i \in S : TRUE
        OBVIOUS
      <3> QED
        BY <3>1, <3>2
    <2> HIDE DEF R
    <2> QED
      BY <2>1, LeastIndexIn
  <1> HIDE DEF k
  <1>2. PICK x \in S : k = n - x
    BY <1>1
  <1>3. \A y \in S : x >= y
    BY <1>1, <1>2
  <1> QED
    BY <1>3 DEF Max

(* ialloc marks them all: what the fold over the writes comes to.          *)
LEMMA CutIs ==
  ASSUME NEW t \in Tags, NEW pieces, Apart(pieces)
  PROVE  Cut(t, pieces) = Marked(t, pieces, DOMAIN pieces)
  <1> DEFINE D == DOMAIN pieces
             op(u, i) == set_size_and_pinuse_of_inuse_chunk(u, pieces[i].at, pieces[i].size)
             Eq(g) == g = [s \in SUBSET D |->
                             IF s = {} THEN t ELSE op(g[s \ {Max(s)}], Max(s))]
             it == CHOOSE g : Eq(g)
             F == [s \in SUBSET D |-> Marked(t, pieces, s)]
             H(s) == IF s = {} THEN t ELSE op(F[s \ {Max(s)}], Max(s))
  <1>1. PICK n \in Nat : D = 1 .. n
    BY DEF Apart
  <1>2. \A s \in SUBSET D : s # {} => Max(s) \in s
    BY <1>1, HasMax
  <1>3. \A s \in SUBSET D : F[s] = H(s)
    <2>1. ASSUME NEW s \in SUBSET D, s = {} PROVE F[s] = H(s)
      BY <2>1, MarkedNone
    <2>2. ASSUME NEW s \in SUBSET D, s # {} PROVE F[s] = H(s)
      <3> DEFINE x == Max(s)
      <3>1. x \in s
        BY <1>2, <2>2
      <3> HIDE DEF x
      <3>2. Marked(t, pieces, s) = op(Marked(t, pieces, s \ {x}), x)
        BY <3>1, MarkedLast
      <3>3. s \ {x} \in SUBSET D
        OBVIOUS
      <3>4. F[s] = Marked(t, pieces, s) /\ F[s \ {x}] = Marked(t, pieces, s \ {x})
        BY <3>3
      <3> HIDE DEF F
      <3>5. F[s] = op(F[s \ {x}], x)
        BY <3>2, <3>4
      <3> QED
        BY <2>2, <3>5 DEF x
    <2> QED
      BY <2>1, <2>2
  <1>4. Eq(F)
    <2>1. F = [s \in SUBSET D |-> F[s]]
      OBVIOUS
    <2>2. F = [s \in SUBSET D |-> H(s)]
      <3> HIDE DEF H, F
      <3> QED
        BY <1>3, <2>1
    <2> HIDE DEF F
    <2> QED
      BY <2>2
  <1>5. Eq(it)
    <2> HIDE DEF Eq
    <2> QED
      BY <1>4
  <1>6. Cut(t, pieces) = it[D]
    BY DEF Cut, FoldLeft, MapThenFoldSet
  <1> HIDE DEF it, F
  <1> DEFINE C == {T \in SUBSET D : it[T] # F[T]}
  <1>7. C = {}
    <2> SUFFICES ASSUME C # {} PROVE FALSE
      OBVIOUS
    <2>1. PICK T \in C : \A x \in T : T \ {x} \notin C
      <3>1. \A T \in C : IsFiniteSet(T)
        BY <1>1, FS_Interval, FS_Subset
      <3> HIDE DEF C
      <3> QED
        BY <3>1, HasMinimal
    <2>2. T # {}
      BY <1>4, <1>5
    <2>3. Max(T) \in T
      BY <1>2, <2>2
    <2>4. it[T \ {Max(T)}] = F[T \ {Max(T)}]
      BY <2>1, <2>3
    <2>5. /\ it[T] = op(it[T \ {Max(T)}], Max(T))
          /\ F[T] = op(F[T \ {Max(T)}], Max(T))
      <3> HIDE DEF op
      <3> QED
        BY <1>4, <1>5, <2>2
    <2> QED
      BY <2>4, <2>5
  <1> QED
    BY <1>6, <1>7 DEF F

-----------------------------------------------------------------------------
(* The pieces are chunks that divide the chunk of s granules at p.         *)
AllStarts(pieces) == Starts(pieces, DOMAIN pieces)

Divides(pieces, p, s) ==
  /\ Apart(pieces) /\ p \in AllStarts(pieces)
  /\ \A i \in DOMAIN pieces :
       /\ p <= pieces[i].at /\ pieces[i].size >= MIN_CHUNK_SIZE
       /\ pieces[i].at + pieces[i].size <= p + s
       /\ pieces[i].at + pieces[i].size \in AllStarts(pieces) \cup {p + s}
       /\ pieces[i].at # p =>
            \E j \in DOMAIN pieces : pieces[j].at + pieces[j].size = pieces[i].at

(* What their tags u are once they have been marked.                       *)
PiecesTagged(m, p, pieces, u) ==
  LET A == AllStarts(pieces)
      B == Body(p, m.tags.size[p])
      n == p + m.tags.size[p]
  IN  /\ u \in Tags /\ A \subseteq B \cup {p} /\ p \in A
      /\ \A i \in DOMAIN pieces : u.size[pieces[i].at] = pieces[i].size
      /\ \A a \in Addr \ A : u.size[a] = m.tags.size[a]
      /\ A \subseteq u.cin /\ A \subseteq u.pin
      /\ \A a \in Addr \ (B \cup {p}) : /\ a \in u.cin <=> a \in m.tags.cin
                                        /\ a \in u.pin <=> a \in m.tags.pin
      /\ \A a \in Addr \ (B \cup {p, n}) : u.foot[a] = m.tags.foot[a]

(* Marking them makes the tags of the chunk so.                           *)
LEMMA DividedTags ==
  ASSUME NEW m \in MState, Shaped(m), NEW p \in UserChunks(m), NEW pieces,
         Divides(pieces, p, m.tags.size[p]), NEW u, u = Cut(m.tags, pieces)
  PROVE  PiecesTagged(m, p, pieces, u)
  <1> DEFINE A == AllStarts(pieces)
             D == DOMAIN pieces
             t == m.tags
             s == t.size[p]
             n == p + s
             B == Body(p, s)
             N == Insides(pieces, D)
             E == Ends(pieces, D)
  <1>1. u = Marked(t, pieces, D) /\ t \in Tags /\ Apart(pieces)
    BY CutIs DEF MState, Divides
  <1>2. /\ p \in Addr /\ s \in Nat \ {0} /\ n \in Addr /\ B \cap Heads(t) = {}
    BY ChunkFacts DEF UserChunks, Shaped, Tiles
  <1>3. ASSUME NEW i \in D
        PROVE  /\ pieces[i].at \in Addr /\ pieces[i].size \in Nat \ {0}
               /\ p <= pieces[i].at /\ pieces[i].at + pieces[i].size <= n
    BY DEF Apart, Divides
  <1>4. A \subseteq B \cup {p} /\ p \in A
    <2>1. \A i \in D : pieces[i].at \in B \cup {p}
      BY <1>2, <1>3 DEF Body
    <2> QED
      BY <2>1 DEF AllStarts, Starts, Divides
  <1>5. N \subseteq B /\ N \cap A = {}
    <2>1. \A i \in D : Body(pieces[i].at, pieces[i].size) \subseteq B
      BY <1>2, <1>3 DEF Body
    <2> QED
      BY <1>1, <2>1, ApartFacts DEF Insides, AllStarts, Starts
  <1>6. E \subseteq B \cup {n}
    BY <1>2, <1>3 DEF Ends, Body
  <1>7. \A i \in D : SizeAt(pieces, pieces[i].at) = pieces[i].size
    BY <1>1, ApartFacts
  <1>8. /\ u.cin = (t.cin \ N) \cup A /\ u.pin = (t.pin \ N) \cup A
        /\ u.size = [a \in Addr |-> IF a \in A THEN SizeAt(pieces, a)
                                    ELSE IF a \in N THEN 0 ELSE t.size[a]]
        /\ u.foot = [a \in Addr |-> IF a \in N \cup E THEN 0 ELSE t.foot[a]]
        /\ u = [size |-> u.size, cin |-> u.cin, pin |-> u.pin, foot |-> u.foot]
    BY <1>1 DEF Marked, AllStarts
  <1>9. \A i \in D : pieces[i].at \in A /\ pieces[i].at \in Addr
    BY <1>3 DEF AllStarts, Starts
  <1>10. \A a \in A : a \in Addr /\ SizeAt(pieces, a) \in Nat
    BY <1>3, <1>7 DEF AllStarts, Starts
  <1>11. t.size \in [Addr -> Nat] /\ t.foot \in [Addr -> Nat]
         /\ t.cin \subseteq Addr /\ t.pin \subseteq Addr
    BY <1>1 DEF Tags
  <1> HIDE DEF A, N, E, B, D
  <1>12. u \in Tags
    <2>1. u.size \in [Addr -> Nat] /\ u.foot \in [Addr -> Nat]
      <3>1. \A a \in Addr : /\ (IF a \in A THEN SizeAt(pieces, a)
                               ELSE IF a \in N THEN 0 ELSE t.size[a]) \in Nat
                            /\ (IF a \in N \cup E THEN 0 ELSE t.foot[a]) \in Nat
        BY <1>10, <1>11
      <3> HIDE DEF t
      <3> QED
        BY <1>8, <3>1
    <2>2. u.cin \subseteq Addr /\ u.pin \subseteq Addr
      BY <1>8, <1>10, <1>11
    <2> QED
      BY <1>8, <2>1, <2>2 DEF Tags
  <1>13. \A i \in D : u.size[pieces[i].at] = pieces[i].size
    BY <1>7, <1>8, <1>9
  <1>14. \A a \in Addr \ A : u.size[a] = t.size[a]
    <2>1. \A a \in N : a \in Addr => t.size[a] = 0
      BY <1>2, <1>5 DEF Heads
    <2> QED
      BY <1>8, <2>1
  <1>15. \A a \in Addr \ (B \cup {p}) : /\ a \in u.cin <=> a \in t.cin
                                        /\ a \in u.pin <=> a \in t.pin
    BY <1>4, <1>5, <1>8
  <1>16. \A a \in Addr \ (B \cup {p, n}) : u.foot[a] = t.foot[a]
    BY <1>5, <1>6, <1>8
  <1>17. A \subseteq u.cin /\ A \subseteq u.pin
    BY <1>8
  <1> QED
    BY ONLY <1>4, <1>12, <1>13, <1>14, <1>15, <1>16, <1>17 DEF A, B, D, PiecesTagged

(* The pieces of a chunk in use are chunks in use, and the heap is well-   *)
(* formed.                                                                 *)
LEMMA DividedShape ==
  ASSUME NEW m \in MState, Shaped(m), NEW p \in UserChunks(m), p \in m.tags.pin,
         NEW pieces, Divides(pieces, p, m.tags.size[p]),
         NEW m2 \in MState, m2.tags = Cut(m.tags, pieces),
         m2.top = m.top, m2.topsize = m.topsize
  PROVE  /\ Shaped(m2) /\ Chunks(m2) = Chunks(m) \cup AllStarts(pieces)
         /\ FreeChunks(m2) = FreeChunks(m)
         /\ \A a \in Chunks(m) \ {p} : m2.tags.size[a] = m.tags.size[a]
         /\ \A i \in DOMAIN pieces : m2.tags.size[pieces[i].at] = pieces[i].size
         /\ Chunks(m) \cap AllStarts(pieces) = {p} /\ AllStarts(pieces) \subseteq m2.tags.cin
  <1> DEFINE A == AllStarts(pieces)
             D == DOMAIN pieces
             t == m.tags
             u == m2.tags
             s == t.size[p]
             n == p + s
             B == Body(p, s)
  <1>1. /\ p \in Chunks(m) /\ p \in t.cin /\ p # SegBase
        /\ p \in Addr /\ s \in Nat \ {0} /\ n \in Addr /\ n \in Chunks(m)
        /\ SegBase <= p /\ n \in t.pin /\ p # m.top /\ B \cap Heads(t) = {}
        /\ t \in Tags /\ MIN_CHUNK_SIZE \in Nat \ {0} /\ SegEnd(m) \in Addr
        /\ p < SegEnd(m) /\ n <= SegEnd(m)
    BY ChunkFacts, ChunkConstants
       DEF UserChunks, FreeChunks, Shaped, TagsAgree, TopIsFree, Tiles, MState
  <1>2. /\ A \subseteq B \cup {p} /\ p \in A
        /\ \A i \in D : u.size[pieces[i].at] = pieces[i].size
        /\ \A a \in Addr \ A : u.size[a] = t.size[a]
        /\ A \subseteq u.cin /\ A \subseteq u.pin
        /\ \A a \in Addr \ (B \cup {p}) : /\ a \in u.cin <=> a \in t.cin
                                          /\ a \in u.pin <=> a \in t.pin
        /\ \A a \in Addr \ (B \cup {p, n}) : u.foot[a] = t.foot[a]
    <2>1. PiecesTagged(m, p, pieces, m2.tags)
      BY DividedTags
    <2> QED
      BY <2>1 DEF PiecesTagged
  <1>3. /\ \A a \in A : /\ a \in Addr /\ u.size[a] \in Nat /\ u.size[a] >= MIN_CHUNK_SIZE
                        /\ p <= a /\ a + u.size[a] <= n
                        /\ a + u.size[a] \in A \cup {n}
                        /\ Body(a, u.size[a]) \cap A = {}
                        /\ a # p => \E c \in A : c + u.size[c] = a
    <2>1. \A i \in D :
            /\ pieces[i].at \in Addr /\ pieces[i].size \in Nat
            /\ p <= pieces[i].at /\ pieces[i].size >= MIN_CHUNK_SIZE
            /\ pieces[i].at + pieces[i].size <= n
            /\ pieces[i].at + pieces[i].size \in A \cup {n}
            /\ Body(pieces[i].at, pieces[i].size) \cap A = {}
            /\ pieces[i].at # p =>
                 \E j \in D : pieces[j].at + pieces[j].size = pieces[i].at
      <3>1. Apart(pieces)
        BY DEF Divides
      <3>2. \A i \in D : Body(pieces[i].at, pieces[i].size) \cap A = {}
        BY <3>1, ApartFacts DEF AllStarts, Starts
      <3>3. \A i \in D : pieces[i].at \in Addr /\ pieces[i].size \in Nat
        BY <3>1 DEF Apart
      <3> QED
        BY <3>2, <3>3 DEF Divides
    <2>2. \A a \in A : \E i \in D : a = pieces[i].at
      BY DEF AllStarts, Starts
    <2>3. \A i \in D : pieces[i].at \in A
      BY DEF AllStarts, Starts
    <2> HIDE DEF A, u, n, D
    <2> QED
      BY <1>2, <2>1, <2>2, <2>3
  <1> HIDE DEF A, D
  <1>4. \A a \in A : a < n /\ SegBase <= a /\ a < SegEnd(m)
    <2> HIDE DEF u, n, s, t
    <2> QED
      BY <1>1, <1>3
  <1>5. A \cap Heads(t) = {p} /\ A \cap Chunks(m) = {p}
    <2>1. p \in Heads(t) /\ Chunks(m) \subseteq Heads(t)
      BY <1>1 DEF Chunks
    <2>2. A \subseteq B \cup {p} /\ p \in A /\ B \cap Heads(t) = {} /\ p \in Chunks(m)
      BY <1>1, <1>2
    <2> QED
      BY ONLY <2>1, <2>2
  <1>6. Heads(u) = Heads(t) \cup A
    <2>1. \A a \in Addr : u.size[a] # 0 <=> (t.size[a] # 0 \/ a \in A)
      BY <1>1, <1>2, <1>3, <1>5 DEF Heads
    <2> QED
      BY <1>3, <2>1 DEF Heads
  <1>7. SegEnd(m2) = SegEnd(m)
    BY DEF SegEnd
  <1>8. Chunks(m2) = Chunks(m) \cup A
    BY <1>1, <1>4, <1>6, <1>7 DEF Chunks
  <1>9. \A a \in Chunks(m) \ {p} : a \notin A /\ a \in Addr /\ u.size[a] = t.size[a]
    BY <1>2, <1>5, ChunkFacts
  <1>10. \A a \in Heads(t) \ {p} : /\ a \in u.cin <=> a \in t.cin
                                   /\ a \in u.pin <=> a \in t.pin
    BY <1>1, <1>2 DEF Heads
  <1>11. /\ \A a \in Chunks(m) : /\ a \in u.cin <=> a \in t.cin
                                 /\ a \in u.pin <=> a \in t.pin
    <2>1. p \in u.cin /\ p \in u.pin /\ p \in t.cin /\ p \in t.pin
      BY <1>1, <1>2
    <2>2. Chunks(m) \subseteq Heads(t)
      BY DEF Chunks
    <2>3. ASSUME NEW a \in Chunks(m)
          PROVE  (a \in u.cin <=> a \in t.cin) /\ (a \in u.pin <=> a \in t.pin)
      <3>1. CASE a = p
        BY ONLY <2>1, <3>1
      <3>2. CASE a # p
        BY ONLY <1>10, <2>2, <2>3, <3>2
      <3> QED
        BY ONLY <3>1, <3>2
    <2> QED
      BY <2>3
  <1>12. ASSUME NEW a \in Chunks(m) \ {p}
         PROVE  /\ a + t.size[a] \in Heads(t) /\ a + t.size[a] # p + s
                /\ Body(a, t.size[a]) \cap (Heads(t) \cup A) = {}
                /\ a # m.top => t.size[a] >= MIN_CHUNK_SIZE
    <2>1. /\ a + t.size[a] \in Heads(t) /\ Body(a, t.size[a]) \cap Heads(t) = {}
          /\ a # m.top => t.size[a] >= MIN_CHUNK_SIZE
      BY DEF Shaped, Tiles
    <2>2. a + t.size[a] # p + s
      BY <1>1, UniqueNext
    <2>3. /\ a \in Addr /\ t.size[a] \in Nat
          /\ a < p => a + t.size[a] <= p
          /\ p < a => n <= a
      BY <1>1, ChunkFacts DEF Chunks
    <2>4. Body(a, t.size[a]) \cap A = {}
      <3>1. \A c \in A : c \notin Body(a, t.size[a])
        <4>1. \A c \in A : c \in Addr /\ p <= c /\ c < n
          BY <1>3, <1>4
        <4>2. p \in Addr /\ n \in Addr /\ (a < p \/ p < a)
          BY <1>1, <2>3
        <4> HIDE DEF n
        <4> QED
          BY <2>3, <4>1, <4>2 DEF Body
      <3> QED
        BY <3>1
    <2> QED
      BY <2>1, <2>2, <2>4
  <1>13. Tiles(m2)
    <2>1. SegBase \in Chunks(m2) /\ SegEnd(m2) \in Heads(u)
      BY <1>6, <1>7, <1>8 DEF Shaped, Tiles
    <2>2. \A a \in Heads(u) : SegBase <= a /\ a <= SegEnd(m2)
      <3>1. \A a \in A : SegBase <= a /\ a <= SegEnd(m)
        BY <1>1, <1>3, <1>4
      <3>2. \A a \in Heads(t) : SegBase <= a /\ a <= SegEnd(m)
        BY DEF Shaped, Tiles
      <3> HIDE DEF u, t
      <3> QED
        BY <1>6, <1>7, <3>1, <3>2
    <2>3. ASSUME NEW a \in Chunks(m2)
          PROVE  /\ a + u.size[a] \in Heads(u) /\ Body(a, u.size[a]) \cap Heads(u) = {}
                 /\ a # m2.top => u.size[a] >= MIN_CHUNK_SIZE
      <3>1. CASE a \in A
        <4>1. Body(a, u.size[a]) \subseteq B
          BY <1>1, <1>3, <3>1 DEF Body
        <4>2. n \in Heads(t)
          BY <1>1 DEF Chunks
        <4> QED
          BY <1>1, <1>3, <1>6, <3>1, <4>1, <4>2
      <3>2. CASE a \notin A
        <4>1. a \in Chunks(m) \ {p} /\ u.size[a] = t.size[a]
          BY <1>2, <1>8, <1>9, <3>2
        <4> QED
          BY <1>6, <1>12, <4>1
      <3> QED
        BY <3>1, <3>2
    <2>4. ASSUME NEW a \in Heads(u) \ {SegBase} PROVE \E c \in Chunks(m2) : c + u.size[c] = a
      <3>1. CASE a \in A /\ a # p
        BY <1>3, <1>8, <3>1
      <3>2. CASE a \in Heads(t)
        <4>1. PICK c \in Chunks(m) : c + t.size[c] = a
          BY <3>2 DEF Shaped, Tiles
        <4>2. CASE c # p
          BY <1>8, <1>9, <4>1, <4>2
        <4>3. CASE c = p
          <5>1. \E x \in A : x + u.size[x] = n
            <6> SUFFICES ASSUME \A x \in A : x + u.size[x] # n PROVE FALSE
              OBVIOUS
            <6> DEFINE R == {n - x : x \in A}
                       k == LeastIndex(R)
            <6>1. k \in R /\ \A j \in R : k <= j
              <7>1. \A x \in A : n - x \in Nat
                BY <1>1, <1>3, <1>4
              <7>2. R \in SUBSET Nat /\ R # {}
                BY <1>2, <7>1
              <7> HIDE DEF R
              <7> QED
                BY <7>2, LeastIndexIn
            <6> HIDE DEF k
            <6>2. PICK x \in A : k = n - x
              BY <6>1
            <6>3. x + u.size[x] \in A /\ x \in Addr /\ u.size[x] \in Nat /\ u.size[x] > 0
              BY <1>1, <1>3
            <6>4. k <= n - (x + u.size[x])
              BY <6>1, <6>3
            <6> QED
              BY <1>1, <6>2, <6>3, <6>4
          <5> QED
            BY <1>8, <4>1, <4>3, <5>1
        <4> QED
          BY <4>2, <4>3
      <3>3. p \in Heads(t)
        BY <1>1 DEF Chunks
      <3> QED
        BY <1>6, <3>1, <3>2, <3>3
    <2> QED
      BY <2>1, <2>2, <2>3, <2>4 DEF Tiles
  <1>14. FreeChunks(m2) = FreeChunks(m)
    <2>1. A \subseteq u.cin /\ p \in t.cin
      BY <1>1, <1>2
    <2> QED
      BY <1>5, <1>8, <1>11, <2>1 DEF FreeChunks
  <1>15. \A a \in FreeChunks(m) : a \in Chunks(m) /\ a # p /\ u.size[a] = t.size[a]
    BY <1>1, <1>9 DEF FreeChunks
  <1>16. TagsAgree(m2)
    <2>1. SegBase \in u.pin /\ SegBase \in u.cin
      BY <1>11, ChunkFacts DEF Shaped, TagsAgree
    <2>2. ASSUME NEW a \in Chunks(m2) PROVE (a + u.size[a] \in u.pin) <=> (a \in u.cin)
      <3>1. CASE a \in A
        BY <1>1, <1>2, <1>3, <1>11, <3>1
      <3>2. CASE a \notin A
        <4>1. a \in Chunks(m) \ {p} /\ u.size[a] = t.size[a]
          BY <1>2, <1>8, <1>9, <3>2
        <4>2. a + t.size[a] \in Heads(t) /\ (a + t.size[a] \in t.pin <=> a \in t.cin)
          BY <1>12, <4>1 DEF Shaped, TagsAgree
        <4>3. a + t.size[a] \in t.pin <=> a + t.size[a] \in u.pin
          <5>1. CASE a + t.size[a] = p
            <6>1. p \in t.pin /\ p \in u.pin
              BY <1>2
            <6> QED
              BY <5>1, <6>1
          <5>2. CASE a + t.size[a] # p
            <6> DEFINE x == a + t.size[a]
            <6>1. x \in Heads(t) \ {p}
              BY <4>2, <5>2
            <6> HIDE DEF x
            <6>2. x \in u.pin <=> x \in t.pin
              BY <1>10, <6>1
            <6> QED
              BY <6>2 DEF x
          <5> QED
            BY <5>1, <5>2
        <4> QED
          BY <1>11, <4>1, <4>2, <4>3
      <3> QED
        BY <3>1, <3>2
    <2>3. ASSUME NEW a \in FreeChunks(m2) \ {m2.top} PROVE u.foot[a + u.size[a]] = u.size[a]
      <3>1. a \in FreeChunks(m) /\ a # m.top /\ a \in Chunks(m) \ {p} /\ u.size[a] = t.size[a]
        BY <1>14, <1>15
      <3>2. a + t.size[a] \in Heads(t) /\ a + t.size[a] # n /\ a + t.size[a] \in t.cin
        BY <1>12, <3>1 DEF Shaped, Coalesced
      <3>3. a + t.size[a] # p
        <4>1. a + t.size[a] \notin t.pin
          BY <3>1 DEF Shaped, TagsAgree, FreeChunks
        <4> QED
          BY <4>1
      <3>4. a + t.size[a] \in Addr \ (B \cup {p, n})
        BY <1>1, <3>2, <3>3 DEF Heads
      <3>5. u.foot[a + t.size[a]] = t.foot[a + t.size[a]]
        BY <1>2, <3>4
      <3> QED
        BY <3>1, <3>5 DEF Shaped, TagsAgree
    <2> QED
      BY <2>1, <2>2, <2>3 DEF TagsAgree
  <1>17. Coalesced(m2)
    <2>1. ASSUME NEW a \in FreeChunks(m2) \ {m2.top}
          PROVE  a \in u.pin /\ a + u.size[a] \in u.cin
      <3>1. a \in FreeChunks(m) /\ a # m.top /\ a \in Chunks(m) /\ u.size[a] = t.size[a]
        BY <1>14, <1>15
      <3>2. a + t.size[a] \in Chunks(m)
        BY <3>1, ChunkFacts
      <3> QED
        BY <1>11, <3>1, <3>2 DEF Shaped, Coalesced
    <2> QED
      BY <2>1 DEF Coalesced
  <1>18. TopIsFree(m2)
    BY <1>1, <1>11, <1>14, <1>15, ChunkFacts DEF Shaped, TopIsFree
  <1>19. Shaped(m2)
    BY <1>13, <1>16, <1>17, <1>18 DEF Shaped
  <1> QED
    BY <1>2, <1>5, <1>8, <1>9, <1>14, <1>19 DEF A, D

-----------------------------------------------------------------------------
(* The pieces add up to the chunk they divide.                             *)
LEMMA PiecesAddUp ==
  ASSUME NEW m \in MState, Shaped(m), NEW p \in UserChunks(m), NEW A, p \in A,
         NEW m2 \in MState, Shaped(m2), Chunks(m2) = Chunks(m) \cup A,
         Chunks(m) \cap A = {p}, NEW n \in Addr, n = p + m.tags.size[p],
         \A a \in Chunks(m) \ {p} : m2.tags.size[a] = m.tags.size[a],
         \A a \in A : p <= a /\ a < n
  PROVE  SumFunctionOnSet(m2.tags.size, A) = m.tags.size[p]
  <1> DEFINE u == m2.tags
             Below(c) == {a \in A : a < c}
             Sum(c) == SumFunctionOnSet(u.size, Below(c))
             B == {c \in A \cup {n} : Sum(c) # c - p}
  <1>1. /\ p \in Chunks(m) /\ p \in Addr /\ m.tags.size[p] \in Nat \ {0} /\ n \in Chunks(m)
        /\ p # SegBase /\ SegBase <= p
    BY ChunkFacts DEF UserChunks, FreeChunks, Shaped, TagsAgree, TopIsFree
  <1>2. \A a \in A : a \in Addr /\ u.size[a] \in Nat \ {0}
    BY ChunkFacts
  <1>3. IsFiniteSet(A) /\ \A c : IsFiniteSet(Below(c))
    <2>1. IsFiniteSet(Addr)
      BY FS_Interval, 0 \in Int, AddrMax \in Int
    <2> QED
      BY <1>2, <2>1, FS_Subset
  <1>4. ASSUME NEW c \in (A \cup {n}) \ {p}
        PROVE  \E b \in A : b + u.size[b] = c
    <2>1. c \in Chunks(m2) /\ c \in Addr /\ p < c /\ c <= n /\ c # SegBase
      BY <1>1, <1>2
    <2>2. PICK b \in Chunks(m2) : b + u.size[b] = c
      BY <2>1 DEF Shaped, Tiles, Chunks
    <2>3. CASE b \notin A
      <3>1. b \in Chunks(m) \ {p} /\ u.size[b] = m.tags.size[b]
        BY <2>3
      <3>2. /\ b \in Addr /\ m.tags.size[b] \in Nat \ {0}
            /\ b < p => b + m.tags.size[b] <= p
            /\ p < b => n <= b
        <4>1. b \in Heads(m.tags) /\ p \in Heads(m.tags)
          BY <1>1, <3>1 DEF Chunks
        <4> QED
          BY <1>1, <3>1, <4>1, ChunkFacts
      <3> HIDE DEF u
      <3> QED
        BY <1>1, <2>1, <2>2, <3>1, <3>2
    <2> QED
      BY <2>2, <2>3
  <1>5. B = {}
    <2> SUFFICES ASSUME B # {} PROVE FALSE
      OBVIOUS
    <2> DEFINE c == LeastIndex(B)
    <2>1. c \in B /\ \A d \in B : c <= d
      <3>1. B \in SUBSET Nat
        <4>1. B \subseteq A \cup {n}
          OBVIOUS
        <4>2. \A a \in A \cup {n} : a \in Nat
          BY <1>2
        <4> HIDE DEF B
        <4> QED
          BY <4>1, <4>2
      <3> HIDE DEF B
      <3> QED
        BY <3>1, LeastIndexIn
    <2> HIDE DEF c
    <2>2. c \in A \cup {n} /\ c \in Addr /\ Sum(c) # c - p
      BY <1>2, <2>1
    <2>3. CASE c = p
      <3>1. Below(c) = {}
        BY <1>1, <1>2, <2>3
      <3>2. Sum(c) = 0
        BY <3>1, SumNone
      <3> QED
        BY <1>1, <2>2, <2>3, <3>2
    <2>4. CASE c # p
      <3>1. PICK b \in A : b + u.size[b] = c
        BY <1>4, <2>2, <2>4
      <3>2. b \in Addr /\ u.size[b] \in Nat \ {0} /\ b < c /\ p <= b /\ b \in Chunks(m2)
        BY <1>2, <3>1
      <3>3. Sum(b) = b - p
        BY <2>1, <2>2, <3>2
      <3>4. \A a \in A : a < c <=> (a < b \/ a = b)
        <4>1. \A a \in A : b < a => c <= a
          <5>1. \A a \in A : a \in Heads(u)
            BY DEF Chunks
          <5> QED
            BY <3>1, <3>2, <5>1, ChunkFacts
        <4> HIDE DEF u
        <4> QED
          BY <1>2, <2>2, <3>2, <4>1
      <3>5. Below(c) = Below(b) \cup {b} /\ b \notin Below(b)
        <4>1. ~(b < b)
          BY <3>2
        <4> HIDE DEF u
        <4> QED
          BY <3>1, <3>4, <4>1
      <3>6. Sum(c) = Sum(b) + u.size[b]
        <4>1. \A x \in Below(b) \cup {b} : u.size[x] \in Nat
          BY <1>2
        <4>2. IsFiniteSet(Below(b))
          BY <1>3
        <4> DEFINE T == Below(b)
                   g == u.size
        <4>3. Sum(b) = SumFunctionOnSet(g, T) /\ Sum(c) = SumFunctionOnSet(g, T \cup {b})
          BY <3>5
        <4>4. IsFiniteSet(T) /\ b \notin T /\ \A x \in T \cup {b} : g[x] \in Nat
          BY <3>5, <4>1, <4>2
        <4> HIDE DEF T, g
        <4>5. SumFunctionOnSet(g, T \cup {b}) = SumFunctionOnSet(g, T) + g[b]
          BY ONLY <4>4, SumAdd
        <4> QED
          BY <4>3, <4>5 DEF g
      <3> HIDE DEF Sum, u
      <3> QED
        BY <1>1, <2>2, <3>1, <3>2, <3>3, <3>6
    <2> QED
      BY <2>3, <2>4
  <1>6. Sum(n) = n - p
    BY <1>5
  <1>7. Below(n) = A
    OBVIOUS
  <1> HIDE DEF Below
  <1> QED
    BY <1>1, <1>6, <1>7

(* The chunk at p is divided into the pieces.                              *)
Divided(m, p, pieces, m2) ==
  /\ m2 \in MState /\ HeapOK(m2) /\ SegEnd(m2) = SegEnd(m)
  /\ m2.aborted = m.aborted /\ m2.seg_size = m.seg_size
  /\ UserChunks(m2) = UserChunks(m) \cup AllStarts(pieces)
  /\ UsedChunks(m) \cap AllStarts(pieces) = {p}
  /\ \A a \in UsedChunks(m) \ {p} : m2.tags.size[a] = m.tags.size[a]
  /\ \A i \in DOMAIN pieces : m2.tags.size[pieces[i].at] = pieces[i].size
  /\ CountKept(m, m2)

(* What ialloc does to the chunk that it cuts up.                          *)
LEMMA DividedOK ==
  ASSUME NEW m \in MState, HeapOK(m), NEW p \in UserChunks(m), p \in m.tags.pin,
         NEW pieces, Divides(pieces, p, m.tags.size[p])
  PROVE  Divided(m, p, pieces, [m EXCEPT !.tags = Cut(@, pieces)])
  <1> DEFINE f == [m EXCEPT !.tags = Cut(@, pieces)]
             A == AllStarts(pieces)
             n == p + m.tags.size[p]
  <1>1. /\ Shaped(m) /\ p \in Chunks(m) /\ p \in m.tags.cin /\ p # SegBase
        /\ HoldExactly(m.bins, Binned(m), m.tags.size) /\ DvIsFree(m)
        /\ m.top \in FreeChunks(m)
    BY HeapIsShaped DEF UserChunks, HeapOK, TopIsFree
  <1>2. PiecesTagged(m, p, pieces, Cut(m.tags, pieces))
    BY <1>1, DividedTags
  <1>3. Cut(m.tags, pieces) \in Tags /\ A \subseteq Body(p, m.tags.size[p]) \cup {p} /\ p \in A
    BY <1>2 DEF PiecesTagged
  <1>4. /\ f \in MState /\ f.aborted = m.aborted /\ f.seg_size = m.seg_size
        /\ f.exts = m.exts /\ f.tags = Cut(m.tags, pieces)
        /\ f.top = m.top /\ f.topsize = m.topsize
        /\ f.dv = m.dv /\ f.dvsize = m.dvsize /\ f.bins = m.bins
    BY <1>3 DEF MState
  <1> HIDE DEF f, A
  <1>5. /\ Shaped(f) /\ Chunks(f) = Chunks(m) \cup A
        /\ FreeChunks(f) = FreeChunks(m)
        /\ \A a \in Chunks(m) \ {p} : f.tags.size[a] = m.tags.size[a]
        /\ \A i \in DOMAIN pieces : f.tags.size[pieces[i].at] = pieces[i].size
        /\ Chunks(m) \cap A = {p} /\ A \subseteq f.tags.cin
    BY <1>1, <1>4, DividedShape DEF A
  <1>6. SegEnd(f) = SegEnd(m)
    BY <1>4 DEF SegEnd
  <1>7. p \in UsedChunks(m) /\ p \notin FreeChunks(m)
    BY <1>1 DEF UsedChunks, FreeChunks
  <1>8. UserChunks(f) = UserChunks(m) \cup A /\ UsedChunks(m) \cap A = {p}
    <2>1. SegBase \notin A
      BY <1>1, <1>5, ChunkFacts
    <2>2. FreeChunks(m) \cap A = {}
      BY <1>5, <1>7 DEF FreeChunks
    <2>3. UsedChunks(m) \subseteq Chunks(m)
      BY <1>1, ChunkFacts DEF UsedChunks, UserChunks
    <2>4. /\ UserChunks(f) = Chunks(f) \ (FreeChunks(f) \cup {SegBase})
          /\ UserChunks(m) = Chunks(m) \ (FreeChunks(m) \cup {SegBase})
      BY <1>1, <1>5, UsersAreTheRest
    <2> QED
      BY <1>5, <1>7, <2>1, <2>2, <2>3, <2>4
  <1>9. \A a \in FreeChunks(m) : f.tags.size[a] = m.tags.size[a]
    BY <1>5, <1>7 DEF FreeChunks
  <1>10. DvIsFree(f)
    BY <1>1, <1>4, <1>5, <1>9 DEF DvIsFree
  <1>11. HoldExactly(f.bins, Binned(f), f.tags.size)
    <2>1. Binned(f) = Binned(m) /\ \A a \in Binned(m) : f.tags.size[a] = m.tags.size[a]
      BY <1>4, <1>5, <1>9 DEF Binned
    <2> QED
      BY <1>1, <1>4, <2>1, HoldSame
  <1>12. HeapOK(f)
    BY <1>5, <1>10, <1>11 DEF HeapOK, Shaped
  <1>13. \A a \in UsedChunks(m) \ {p} : f.tags.size[a] = m.tags.size[a]
    BY <1>1, <1>5, ChunkFacts DEF UsedChunks, UserChunks
  <1>14. CountKept(m, f)
    <2> DEFINE U == UserChunks(m)
               R == U \ {p}
               s == m.tags.size
               s2 == f.tags.size
    <2>1. /\ IsFiniteSet(U) /\ \A a \in U : a \in Addr /\ s[a] \in Nat
          /\ IsFiniteSet(U \cup A) /\ \A a \in U \cup A : s2[a] \in Nat
      BY <1>4, <1>8, <1>12, UsedInSegment
    <2>2. SumFunctionOnSet(s2, A) = s[p]
      <3>1. n \in Addr /\ p \in Addr /\ s[p] \in Nat \ {0}
        BY <1>1, ChunkFacts
      <3>2. \A a \in A : p <= a /\ a < n
        <4>1. \A a \in Body(p, s[p]) : p <= a /\ a < n
          BY <3>1 DEF Body
        <4>2. p < n /\ p <= p
          BY <3>1
        <4>3. \A a \in A : a \in Body(p, s[p]) \/ a = p
          BY <1>3
        <4> HIDE DEF n, s
        <4> QED
          BY ONLY <4>1, <4>2, <4>3
      <3> HIDE DEF n
      <3>3. n = p + m.tags.size[p]
        BY DEF n
      <3> QED
        BY <1>1, <1>3, <1>4, <1>5, <3>1, <3>2, <3>3, PiecesAddUp
    <2>3. UserChunks(f) = R \cup A /\ R \cap A = {} /\ U = R \cup {p} /\ p \notin R
      <3>1. UsedChunks(m) = U \cup {SegBase}
        BY DEF UsedChunks
      <3> QED
        BY <1>3, <1>8, <3>1
    <2>4. \A a \in R : s2[a] = s[a]
      BY <1>13 DEF UsedChunks
    <2>5. IsFiniteSet(R) /\ IsFiniteSet(A)
      BY <2>1, FS_Subset
    <2> HIDE DEF s, s2, U, R
    <2>6. \A x \in R \cup A : s2[x] \in Nat
      BY <2>1, <2>3
    <2>7. SumFunctionOnSet(s2, R \cup A) = SumFunctionOnSet(s2, R) + SumFunctionOnSet(s2, A)
      BY ONLY <2>3, <2>5, <2>6, SumUnion
    <2>8. \A x \in R \cup {p} : s[x] \in Nat
      BY <2>1, <2>3
    <2>9. SumFunctionOnSet(s, R \cup {p}) = SumFunctionOnSet(s, R) + s[p]
      BY ONLY <2>3, <2>5, <2>8, SumAdd
    <2>10. SumFunctionOnSet(s2, R) = SumFunctionOnSet(s, R)
      <3>1. \A x \in R : s[x] \in Nat /\ s2[x] = s[x]
        BY <2>4, <2>8
      <3> QED
        BY ONLY <2>5, <3>1, SumSame
    <2>11. SumFunctionOnSet(s2, UserChunks(f)) = SumFunctionOnSet(s, UserChunks(m))
      BY <2>2, <2>3, <2>7, <2>9, <2>10 DEF U
    <2> QED
      BY <1>4, <2>11 DEF CountKept, CountExact, s, s2
  <1> QED
    BY <1>4, <1>5, <1>6, <1>8, <1>12, <1>13, <1>14 DEF Divided, f, A

-----------------------------------------------------------------------------
(* The chunks of the first elements are summed up one by one.              *)
LEMMA Totals ==
  ASSUME NEW sizes \in Seq(Nat)
  PROVE  /\ Total(sizes, 0) = 0
         /\ \A k \in 0 .. Len(sizes) : Total(sizes, k) \in Nat
         /\ \A k \in 0 .. Len(sizes) - 1 :
              Total(sizes, k + 1) = Total(sizes, k) + request2size(sizes[k + 1])
  <1> DEFINE f == [i \in DOMAIN sizes |-> request2size(sizes[i])]
             n == Len(sizes)
  <1>1. n \in Nat /\ DOMAIN sizes = 1 .. n /\ \A i \in 1 .. n : sizes[i] \in Nat
    OBVIOUS
  <1>2. \A i \in 1 .. n : f[i] = request2size(sizes[i]) /\ f[i] \in Nat
    BY <1>1, RequestFits
  <1>3. \A k : Total(sizes, k) = SumFunctionOnSet(f, 1 .. k)
    BY DEF Total, SumFunctionOnSet
  <1> HIDE DEF f, n
  <1>4. Total(sizes, 0) = 0
    <2>1. 1 .. 0 = {}
      OBVIOUS
    <2> QED
      BY <1>3, <2>1, SumNone
  <1>5. ASSUME NEW k \in 0 .. n PROVE Total(sizes, k) \in Nat
    <2> DEFINE S == 1 .. k
    <2>0. k \in Int /\ S \subseteq 1 .. n
      BY <1>1
    <2>1. IsFiniteSet(S) /\ \A x \in S : f[x] \in Nat /\ f[x] = f[x]
      <3>1. IsFiniteSet(S)
        BY <2>0, FS_Interval, 1 \in Int
      <3> QED
        BY <1>2, <2>0, <3>1
    <2> HIDE DEF S
    <2>2. SumFunctionOnSet(f, S) \in Nat
      BY ONLY <2>1, SumSame
    <2> QED
      BY <1>3, <2>2 DEF S
  <1>6. ASSUME NEW k \in 0 .. n - 1
        PROVE  Total(sizes, k + 1) = Total(sizes, k) + request2size(sizes[k + 1])
    <2> DEFINE S == 1 .. k
               y == k + 1
    <2>1. /\ IsFiniteSet(S) /\ y \notin S /\ S \cup {y} = 1 .. k + 1
          /\ y \in 1 .. n /\ \A x \in S \cup {y} : f[x] \in Nat
      <3>1. k \in Int /\ y \notin S /\ S \cup {y} = 1 .. k + 1 /\ y \in 1 .. n
            /\ S \cup {y} \subseteq 1 .. n
        BY <1>1
      <3>2. IsFiniteSet(S)
        BY <3>1, FS_Interval, 1 \in Int
      <3> QED
        BY <1>2, <3>1, <3>2
    <2>2. Total(sizes, y) = SumFunctionOnSet(f, S \cup {y}) /\ Total(sizes, k) = SumFunctionOnSet(f, S)
      BY <1>3, <2>1
    <2> HIDE DEF S, y
    <2>3. SumFunctionOnSet(f, S \cup {y}) = SumFunctionOnSet(f, S) + f[y]
      BY ONLY <2>1, SumAdd
    <2>4. f[y] = request2size(sizes[y])
      BY <1>2, <2>1
    <2> QED
      BY <2>2, <2>3, <2>4 DEF y
  <1> QED
    BY <1>4, <1>5, <1>6 DEF n

(* Pieces that lie one behind the other, each a chunk: the k-th, in memory *)
(* order, from off[k] on, and it is the piece of some number.              *)
InARow(pieces, p, N, off, pi) ==
  /\ N \in Nat \ {0} /\ DOMAIN pieces = 1 .. N
  /\ off \in [0 .. N -> Nat] /\ off[0] = 0
  /\ \A k \in 0 .. N - 1 : off[k] + MIN_CHUNK_SIZE <= off[k + 1]
  /\ pi \in [1 .. N -> 0 .. N - 1]
  /\ \A k \in 0 .. N - 1 : \E i \in 1 .. N : pi[i] = k
  /\ \A i, j \in 1 .. N : i # j => pi[i] # pi[j]
  /\ \A i \in 1 .. N : /\ pieces[i].at = p + off[pi[i]]
                       /\ pieces[i].size = off[pi[i] + 1] - off[pi[i]]

(* Such pieces divide a chunk.                                             *)
LEMMA RowDivides ==
  ASSUME NEW p \in Addr, NEW pieces, NEW N, NEW off, NEW pi,
         InARow(pieces, p, N, off, pi), p + off[N] \in Addr
  PROVE  Divides(pieces, p, off[N])
  <1> DEFINE D == 1 .. N
             M == MIN_CHUNK_SIZE
             Bad == {k \in 0 .. N : \E j \in 0 .. N : j < k /\ ~(off[j] + M <= off[k])}
  <1>1. /\ N \in Nat \ {0} /\ DOMAIN pieces = D /\ off[0] = 0
        /\ \A k \in 0 .. N : off[k] \in Nat
        /\ \A k \in 0 .. N - 1 : off[k] + M <= off[k + 1]
        /\ M \in Nat /\ M >= 2 /\ p \in Nat
    <2>1. p \in Nat
      OBVIOUS
    <2> QED
      BY <2>1, ChunkConstants DEF InARow
  <1>2. N \in Nat \ {0} /\ M \in Nat \ {0} /\ p \in Nat
    BY <1>1
  <1> HIDE DEF M
  <1>3. Bad = {}
    <2> SUFFICES ASSUME Bad # {} PROVE FALSE
      OBVIOUS
    <2> DEFINE k == LeastIndex(Bad)
    <2>1. k \in Bad /\ \A j \in Bad : k <= j
      <3>1. Bad \in SUBSET Nat
        BY <1>1
      <3> HIDE DEF Bad
      <3> QED
        BY <3>1, LeastIndexIn
    <2> HIDE DEF k
    <2>2. PICK j \in 0 .. N : k \in 0 .. N /\ j < k /\ ~(off[j] + M <= off[k])
      BY <2>1
    <2> DEFINE i == k - 1
    <2>3. i \in 0 .. N - 1 /\ i \in 0 .. N /\ i + 1 = k /\ i < k /\ (j = i \/ j < i)
      BY <1>1, <2>2
    <2>4. i \notin Bad
      <3> HIDE DEF Bad, i
      <3> QED
        BY <2>1, <2>2, <2>3
    <2> HIDE DEF i
    <2>5. off[i] + M <= off[k]
      BY <1>1, <2>3
    <2>6. j = i \/ off[j] + M <= off[i]
      BY <2>3, <2>4
    <2>7. off[i] \in Nat /\ off[j] \in Nat /\ off[k] \in Nat
      BY <1>1, <2>2, <2>3
    <2>8. ~(off[j] + M <= off[k])
      BY <2>2
    <2> QED
      BY ONLY <1>2, <2>5, <2>6, <2>7, <2>8
  <1>4. \A j, k \in 0 .. N : j < k => off[j] + M <= off[k]
    BY <1>3
  <1>5. /\ pi \in [D -> 0 .. N - 1] /\ \A k \in 0 .. N - 1 : \E i \in D : pi[i] = k
        /\ \A i, j \in D : i # j => pi[i] # pi[j]
        /\ \A i \in D : /\ pieces[i].at = p + off[pi[i]]
                        /\ pieces[i].size = off[pi[i] + 1] - off[pi[i]]
    BY DEF InARow
  <1>6. pi \in [D -> 0 .. N - 1]
    BY <1>5
  <1>7. \A k \in 0 .. N - 1 : \E i \in D : pi[i] = k
    BY <1>5
  <1>8. ASSUME NEW i \in D
        PROVE  /\ pi[i] \in 0 .. N - 1 /\ pi[i] \in 0 .. N /\ pi[i] + 1 \in 0 .. N
               /\ off[pi[i]] \in Nat /\ off[pi[i] + 1] \in Nat
               /\ off[pi[i]] + M <= off[pi[i] + 1] /\ off[pi[i] + 1] <= off[N]
    <2>1. pi[i] \in 0 .. N - 1
      <3>1. i \in D
        OBVIOUS
      <3> HIDE DEF D
      <3> QED
        BY ONLY <1>6, <3>1
    <2>2. pi[i] \in 0 .. N /\ pi[i] + 1 \in 0 .. N /\ N \in 0 .. N
      BY ONLY <1>2, <2>1
    <2> DEFINE a == pi[i]
    <2> HIDE DEF a
    <2>3. off[a + 1] <= off[N] /\ off[a] \in Nat /\ off[a + 1] \in Nat /\ off[a] + M <= off[a + 1]
      <3>1. a \in 0 .. N - 1 /\ a \in 0 .. N /\ a + 1 \in 0 .. N /\ N \in 0 .. N
        BY <2>1, <2>2 DEF a
      <3>2. off[a] \in Nat /\ off[a + 1] \in Nat /\ off[N] \in Nat /\ off[a] + M <= off[a + 1]
        BY <1>1, <3>1
      <3>3. a + 1 = N \/ a + 1 < N
        BY <1>1, <3>1
      <3>4. a + 1 < N => off[a + 1] + M <= off[N]
        BY <1>4, <3>1
      <3> QED
        BY <1>1, <3>2, <3>3, <3>4
    <2> QED
      BY <2>1, <2>2, <2>3 DEF a
  <1>9. off[N] \in Nat /\ p + off[N] \in Addr
    BY <1>1
  <1>10. ASSUME NEW i \in D
        PROVE  /\ pieces[i].at \in Addr /\ pieces[i].size \in Nat \ {0}
               /\ pieces[i].at + pieces[i].size \in Addr
               /\ pieces[i].at + pieces[i].size = p + off[pi[i] + 1]
               /\ p <= pieces[i].at /\ pieces[i].size >= M
               /\ pieces[i].at + pieces[i].size <= p + off[N]
    <2>1. pieces[i].at = p + off[pi[i]] /\ pieces[i].size = off[pi[i] + 1] - off[pi[i]]
      BY <1>5
    <2> DEFINE a == off[pi[i]]
               b == off[pi[i] + 1]
               at == pieces[i].at
               z == pieces[i].size
    <2>2. a \in Nat /\ b \in Nat /\ a + M <= b /\ b <= off[N] /\ at = p + a /\ z = b - a
      BY <1>8, <2>1
    <2> HIDE DEF a, b, at, z
    <2>3. /\ at \in Addr /\ z \in Nat \ {0} /\ at + z \in Addr /\ at + z = p + b
          /\ p <= at /\ z >= M /\ at + z <= p + off[N]
      BY <1>1, <1>9, <2>2
    <2> QED
      BY <2>3 DEF a, b, at, z
  <1>11. ASSUME NEW i \in D, NEW j \in D, i # j
        PROVE  \/ pieces[i].at + pieces[i].size <= pieces[j].at
               \/ pieces[j].at + pieces[j].size <= pieces[i].at
    <2>1. /\ pi[i] # pi[j] /\ pieces[i].at = p + off[pi[i]] /\ pieces[j].at = p + off[pi[j]]
          /\ pieces[i].at + pieces[i].size = p + off[pi[i] + 1]
          /\ pieces[j].at + pieces[j].size = p + off[pi[j] + 1]
      BY <1>5, <1>10, <1>11
    <2>2. \A a, b \in 0 .. N : a <= b => off[a] <= off[b]
      <3> SUFFICES ASSUME NEW a \in 0 .. N, NEW b \in 0 .. N, a <= b
                   PROVE  off[a] <= off[b]
        OBVIOUS
      <3>1. off[a] \in Nat /\ off[b] \in Nat /\ (a = b \/ a < b)
        BY <1>1
      <3>2. a < b => off[a] + M <= off[b]
        BY <1>4
      <3> QED
        BY ONLY <1>2, <3>1, <3>2
    <2>3. off[pi[i] + 1] <= off[pi[j]] \/ off[pi[j] + 1] <= off[pi[i]]
      <3> DEFINE a == pi[i]
                 b == pi[j]
      <3>1. a \in 0 .. N - 1 /\ b \in 0 .. N - 1 /\ a # b
        BY <1>8, <2>1
      <3> HIDE DEF a, b
      <3>2. a + 1 <= b \/ b + 1 <= a
        BY <1>1, <3>1
      <3>3. off[a + 1] <= off[b] \/ off[b + 1] <= off[a]
        BY <1>1, <2>2, <3>1, <3>2
      <3> QED
        BY <3>3 DEF a, b
    <2> QED
      BY <1>8, <2>1, <2>3
  <1>12. Apart(pieces)
    BY <1>1, <1>10, <1>11 DEF Apart
  <1>13. \A i \in D : pieces[i].at \in AllStarts(pieces)
    BY <1>1 DEF AllStarts, Starts
  <1>14. p \in AllStarts(pieces)
    <2>1. PICK i \in D : pi[i] = 0
      BY <1>1, <1>5
    <2>2. pieces[i].at = p
      <3>1. pieces[i].at = p + off[pi[i]]
        BY <1>5
      <3>2. p + 0 = p
        BY <1>1
      <3> QED
        BY <1>1, <2>1, <3>1, <3>2
    <2> QED
      BY <1>13, <2>2
  <1>15. ASSUME NEW i \in D
         PROVE  /\ pieces[i].at + pieces[i].size \in AllStarts(pieces) \cup {p + off[N]}
                /\ pieces[i].at # p => \E j \in D : pieces[j].at + pieces[j].size = pieces[i].at
    <2>1. ASSUME pi[i] + 1 = N
          PROVE  pieces[i].at + pieces[i].size = p + off[N]
      BY <1>10, <2>1
    <2>2. ASSUME pi[i] + 1 # N
          PROVE  pieces[i].at + pieces[i].size \in AllStarts(pieces)
      <3>1. pi[i] + 1 \in 0 .. N - 1
        BY <1>1, <1>8, <2>2
      <3>2. PICK j \in D : pi[j] = pi[i] + 1
        BY <1>5, <3>1
      <3>3. pieces[j].at = p + off[pi[i] + 1]
        BY <1>5, <3>2
      <3> QED
        BY <1>10, <1>13, <3>3
    <2>3. ASSUME pieces[i].at # p
          PROVE  \E j \in D : pieces[j].at + pieces[j].size = pieces[i].at
      <3>1. pi[i] # 0
        <4>1. pieces[i].at = p + off[pi[i]]
          BY <1>5
        <4>2. p + 0 = p /\ off[0] = 0
          BY <1>1
        <4> QED
          BY ONLY <2>3, <4>1, <4>2
      <3>2. pi[i] - 1 \in 0 .. N - 1
        <4>1. pi[i] \in 0 .. N - 1
          BY <1>8
        <4> QED
          BY ONLY <1>2, <3>1, <4>1
      <3>3. PICK j \in D : pi[j] = pi[i] - 1
        <4> HIDE DEF D
        <4> QED
          BY ONLY <1>7, <3>2
      <3>4. pi[j] + 1 = pi[i]
        BY <1>8, <3>3
      <3>5. pieces[j].at + pieces[j].size = pieces[i].at
        <4>1. pieces[j].at + pieces[j].size = p + off[pi[j] + 1]
          BY <1>10
        <4>2. pieces[i].at = p + off[pi[i]]
          BY <1>5
        <4> QED
          BY ONLY <3>4, <4>1, <4>2
      <3> QED
        BY <3>5
    <2> QED
      BY <1>10, <2>1, <2>2, <2>3
  <1> QED
    BY <1>1, <1>10, <1>12, <1>14, <1>15 DEF Divides, M

(* What comes after one element, or after none.                            *)
LEMMA AfterOne ==
  ASSUME NEW S, NEW x \in S, NEW s \in Seq(S)
  PROVE  /\ <<>> \o s = s
         /\ <<x>> \o s \in Seq(S) /\ Len(<<x>> \o s) = Len(s) + 1
         /\ (<<x>> \o s)[1] = x
         /\ \A i \in 2 .. Len(s) + 1 : (<<x>> \o s)[i] = s[i - 1]
  <1>1. <<x>> \in Seq(S) /\ Len(<<x>>) = 1 /\ <<x>>[1] = x
    OBVIOUS
  <1> DEFINE o == <<x>>
  <1> HIDE DEF o
  <1>2. o \in Seq(S) /\ Len(o) = 1 /\ o[1] = x /\ Len(s) \in Nat
    BY <1>1 DEF o
  <1>3. /\ o \o s \in Seq(S) /\ Len(o \o s) = 1 + Len(s)
        /\ \A i \in 1 .. 1 + Len(s) : (o \o s)[i] = IF i <= 1 THEN o[i] ELSE s[i - 1]
    <2>1. /\ o \o s \in Seq(S) /\ Len(o \o s) = Len(o) + Len(s)
          /\ \A i \in 1 .. Len(o) + Len(s) :
               (o \o s)[i] = IF i <= Len(o) THEN o[i] ELSE s[i - Len(o)]
      <3>1. o \in Seq(S) /\ s \in Seq(S)
        BY <1>2
      <3> QED
        BY ONLY <3>1, ConcatProperties
    <2> QED
      BY <1>2, <2>1
  <1>4. /\ o \o s \in Seq(S) /\ Len(o \o s) = Len(s) + 1 /\ (o \o s)[1] = x
        /\ \A i \in 2 .. Len(s) + 1 : (o \o s)[i] = s[i - 1]
    BY <1>2, <1>3
  <1>5. <<>> \o s = s
    BY ConcatEmptySeq
  <1> QED
    BY <1>4, <1>5 DEF o

-----------------------------------------------------------------------------
(* A function on the first n numbers is a sequence.                        *)
LEMMA FunctionIsSeq ==
  ASSUME NEW n \in Nat, NEW S, NEW f \in [1 .. n -> S]
  PROVE  f \in Seq(S) /\ Len(f) = n
  <1>1. f = [i \in 1 .. n |-> f[i]]
    OBVIOUS
  <1> QED
    BY <1>1

(* Each piece has room for its bytes, and less than a chunk more.          *)
Measured(pieces, given) ==
  /\ DOMAIN pieces = DOMAIN given
  /\ \A i \in DOMAIN given :
       /\ given[i] \in Nat /\ pieces[i].size >= request2size(given[i])
       /\ pieces[i].size < request2size(given[i]) + MIN_CHUNK_SIZE

(* What ialloc asks malloc for, in granules.                               *)
Contents(sizes, array) ==
  Total(sizes, Len(sizes)) + (IF array THEN ArraySize(sizes) ELSE 0)

(* The elements alone: the last of them gets what is left over.            *)
LEMMA ElementsDivide ==
  ASSUME NEW sizes \in Seq(Nat), sizes # <<>>, NEW p \in Addr, NEW S \in Nat, p + S \in Addr,
         Contents(sizes, FALSE) <= S, S < Contents(sizes, FALSE) + MIN_CHUNK_SIZE
  PROVE  /\ Divides(Pieces(p, sizes, S, FALSE), p, S)
         /\ Measured(Pieces(p, sizes, S, FALSE), Given(sizes, FALSE))
  <1> DEFINE n == Len(sizes)
             tot(k) == Total(sizes, k)
             rs(k) == request2size(sizes[k])
             f == [i \in 1 .. n |-> Piece(p + tot(i - 1),
                                          IF i < n THEN rs(i) ELSE S - tot(n - 1))]
             off == [k \in 0 .. n |-> IF k = n THEN S ELSE tot(k)]
             pi == [i \in 1 .. n |-> i - 1]
             M == MIN_CHUNK_SIZE
  <1>1. /\ n \in Nat \ {0} /\ DOMAIN sizes = 1 .. n /\ M \in Nat /\ M >= 2 /\ p \in Nat
        /\ \A i \in 1 .. n : sizes[i] \in Nat
    <2>1. p \in Nat
      OBVIOUS
    <2> QED
      BY <2>1, ChunkConstants
  <1>2. \A i \in 1 .. n : rs(i) \in Nat /\ rs(i) >= M
    BY <1>1, RequestFits
  <1>3. /\ tot(0) = 0 /\ \A k \in 0 .. n : tot(k) \in Nat
        /\ \A k \in 0 .. n - 1 : tot(k + 1) = tot(k) + rs(k + 1)
    BY Totals
  <1>4. tot(n) <= S /\ S < tot(n) + M
    BY <1>1, <1>3 DEF Contents
  <1>5. Pieces(p, sizes, S, FALSE) = <<>> \o f
    BY DEF Pieces
  <1> HIDE DEF tot, rs, M
  <1>6. Pieces(p, sizes, S, FALSE) = f
    <2> DEFINE T == {f[i] : i \in 1 .. n}
    <2>1. f \in [1 .. n -> T]
      OBVIOUS
    <2> HIDE DEF f, T
    <2>2. f \in Seq(T)
      BY <1>1, <2>1, FunctionIsSeq
    <2> QED
      BY <1>5, <2>2, ConcatEmptySeq
  <1>7. Given(sizes, FALSE) = sizes
    BY ConcatEmptySeq DEF Given
  <1>8. /\ DOMAIN f = 1 .. n
        /\ \A i \in 1 .. n : /\ f[i].at = p + tot(i - 1)
                             /\ f[i].size = IF i < n THEN rs(i) ELSE S - tot(n - 1)
    BY DEF Piece
  <1> HIDE DEF f, n
  <1>9. tot(n) = tot(n - 1) + rs(n) /\ tot(n - 1) \in Nat /\ rs(n) \in Nat /\ rs(n) >= M
    <2>1. n - 1 \in 0 .. n - 1 /\ n - 1 \in 0 .. n /\ n \in 1 .. n /\ (n - 1) + 1 = n
      BY <1>1
    <2> QED
      BY <1>2, <1>3, <2>1
  <1>10. /\ off \in [0 .. n -> Nat] /\ off[0] = 0 /\ off[n] = S
         /\ \A k \in 0 .. n - 1 : off[k] = tot(k) /\ off[k] + M <= off[k + 1]
    <2>1. \A k \in 0 .. n : off[k] = IF k = n THEN S ELSE tot(k)
      OBVIOUS
    <2>2. off \in [0 .. n -> Nat]
      BY <1>3
    <2> HIDE DEF off
    <2>3. off[n] = S /\ off[0] = 0 /\ \A k \in 0 .. n - 1 : off[k] = tot(k)
      BY <1>1, <1>3, <2>1
    <2>4. ASSUME NEW k \in 0 .. n - 1 PROVE off[k] + M <= off[k + 1]
      <3>1. CASE k = n - 1
        <4>1. k + 1 = n
          BY <1>1, <3>1
        <4>2. off[k] = tot(n - 1) /\ off[k + 1] = S
          BY <2>3, <3>1, <4>1
        <4> QED
          BY <1>1, <1>3, <1>4, <1>9, <4>2
      <3>2. CASE k # n - 1
        <4>1. k + 1 \in 0 .. n - 1 /\ k + 1 \in 1 .. n /\ k \in 0 .. n
          BY <1>1, <3>2
        <4>2. /\ off[k] = tot(k) /\ off[k + 1] = tot(k + 1) /\ tot(k + 1) = tot(k) + rs(k + 1)
              /\ tot(k) \in Nat /\ rs(k + 1) \in Nat /\ rs(k + 1) >= M
          BY <1>2, <1>3, <2>3, <4>1
        <4> QED
          BY <1>1, <4>2
      <3> QED
        BY <3>1, <3>2
    <2> QED
      BY <2>2, <2>3, <2>4
  <1>11. \A i \in 1 .. n : pi[i] = i - 1 /\ pi[i] \in 0 .. n - 1
    BY <1>1
  <1>12. pi \in [1 .. n -> 0 .. n - 1]
    BY <1>1
  <1> HIDE DEF off, pi
  <1>13. ASSUME NEW i \in 1 .. n
         PROVE  /\ f[i].at = p + off[pi[i]]
                /\ f[i].size = off[pi[i] + 1] - off[pi[i]]
                /\ f[i].size >= rs(i) /\ f[i].size < rs(i) + M
    <2>1. i - 1 \in 0 .. n - 1 /\ i - 1 \in 0 .. n /\ (i - 1) + 1 = i /\ pi[i] = i - 1
      BY <1>1, <1>11
    <2>2. off[pi[i]] = tot(i - 1) /\ f[i].at = p + tot(i - 1) /\ off[pi[i] + 1] = off[i]
      BY <1>8, <1>10, <2>1
    <2>3. CASE i = n
      <3>1. f[i].size = S - tot(n - 1) /\ off[i] = S /\ tot(i - 1) = tot(n - 1) /\ rs(i) = rs(n)
        BY <1>1, <1>8, <1>10, <2>3
      <3>2. S - tot(n - 1) >= rs(n) /\ S - tot(n - 1) < rs(n) + M
        BY <1>1, <1>4, <1>9
      <3> QED
        BY <2>2, <3>1, <3>2
    <2>4. CASE i # n
      <3>1. i < n /\ i \in 0 .. n - 1
        BY <1>1, <2>4
      <3>2. off[i] = tot(i) /\ f[i].size = rs(i) /\ tot(i) = tot(i - 1) + rs(i)
        BY <1>3, <1>8, <1>10, <2>1, <3>1
      <3>3. tot(i - 1) \in Nat /\ rs(i) \in Nat
        BY <1>2, <1>3, <2>1
      <3>4. f[i].size = off[i] - tot(i - 1) /\ f[i].size >= rs(i) /\ f[i].size < rs(i) + M
        <4>1. M \in Nat \ {0}
          BY <1>1
        <4> QED
          BY ONLY <3>2, <3>3, <4>1
      <3> QED
        BY <2>2, <3>4
    <2> QED
      BY <2>3, <2>4
  <1>14. InARow(f, p, n, off, pi)
    <2>1. \A k \in 0 .. n - 1 : \E i \in 1 .. n : pi[i] = k
      <3> SUFFICES ASSUME NEW k \in 0 .. n - 1 PROVE \E i \in 1 .. n : pi[i] = k
        OBVIOUS
      <3>1. k + 1 \in 1 .. n /\ (k + 1) - 1 = k
        BY <1>1
      <3> QED
        BY <1>11, <3>1
    <2>2. \A i, j \in 1 .. n : i # j => pi[i] # pi[j]
      BY <1>1, <1>11
    <2> QED
      BY <1>1, <1>8, <1>10, <1>12, <1>13, <2>1, <2>2 DEF InARow, M
  <1>15. Divides(f, p, S)
    <2>1. p + off[n] \in Addr
      BY <1>10
    <2>2. Divides(f, p, off[n])
      BY <1>14, <2>1, RowDivides
    <2> QED
      BY <1>10, <2>2
  <1>16. Measured(f, sizes)
    BY <1>1, <1>8, <1>13 DEF Measured, M, rs
  <1> QED
    BY <1>6, <1>7, <1>15, <1>16

(* The array of pointers, behind the elements: it gets what is left over.  *)
LEMMA ArrayDivides ==
  ASSUME NEW sizes \in Seq(Nat), sizes # <<>>, NEW p \in Addr, NEW S \in Nat, p + S \in Addr,
         Contents(sizes, TRUE) <= S, S < Contents(sizes, TRUE) + MIN_CHUNK_SIZE
  PROVE  /\ Divides(Pieces(p, sizes, S, TRUE), p, S)
         /\ Measured(Pieces(p, sizes, S, TRUE), Given(sizes, TRUE))
  <1> DEFINE n == Len(sizes)
             N == n + 1
             b == n * SIZE_T_SIZE
             tot(k) == Total(sizes, k)
             rs(k) == request2size(sizes[k])
             f == [i \in 1 .. n |-> Piece(p + tot(i - 1),
                                          IF i < n THEN rs(i) ELSE tot(n) - tot(n - 1))]
             x == Piece(p + tot(n), S - tot(n))
             g == Pieces(p, sizes, S, TRUE)
             h == Given(sizes, TRUE)
             off == [k \in 0 .. N |-> IF k = N THEN S ELSE tot(k)]
             pi == [i \in 1 .. N |-> IF i = 1 THEN n ELSE i - 2]
             M == MIN_CHUNK_SIZE
  <1>1. /\ n \in Nat \ {0} /\ DOMAIN sizes = 1 .. n /\ M \in Nat /\ M >= 2 /\ p \in Nat
        /\ \A i \in 1 .. n : sizes[i] \in Nat
    <2>1. p \in Nat
      OBVIOUS
    <2> QED
      BY <2>1, ChunkConstants
  <1>2. \A i \in 1 .. n : rs(i) \in Nat /\ rs(i) >= M
    BY <1>1, RequestFits
  <1>3. b \in Nat
    BY <1>1
  <1>4. request2size(b) \in Nat /\ request2size(b) >= M /\ ArraySize(sizes) = request2size(b)
    BY <1>3, RequestFits DEF ArraySize
  <1>5. /\ tot(0) = 0 /\ \A k \in 0 .. n : tot(k) \in Nat
        /\ \A k \in 0 .. n - 1 : tot(k + 1) = tot(k) + rs(k + 1)
    BY Totals
  <1>6. tot(n) + request2size(b) <= S /\ S < tot(n) + request2size(b) + M
    BY <1>4 DEF Contents
  <1>7. g = <<x>> \o f /\ h = <<b>> \o sizes
    BY DEF Pieces, Given
  <1>8. N \in Nat \ {0} /\ n + 1 = N /\ N - 1 = n
    BY <1>1
  <1> HIDE DEF tot, rs, M, b, N
  <1>9. /\ DOMAIN f = 1 .. n
        /\ \A i \in 1 .. n : /\ f[i].at = p + tot(i - 1)
                             /\ f[i].size = IF i < n THEN rs(i) ELSE tot(n) - tot(n - 1)
        /\ x.at = p + tot(n) /\ x.size = S - tot(n)
    BY DEF Piece
  <1>10. DOMAIN g = 1 .. N /\ g[1] = x /\ \A i \in 2 .. N : g[i] = f[i - 1]
    <2> DEFINE T == {f[i] : i \in 1 .. n} \cup {x}
    <2>1. f \in [1 .. n -> T] /\ x \in T
      OBVIOUS
    <2> HIDE DEF f, T, x, g
    <2>2. f \in Seq(T) /\ Len(f) = n
      BY <1>1, <2>1, FunctionIsSeq
    <2>3. /\ <<x>> \o f \in Seq(T) /\ Len(<<x>> \o f) = Len(f) + 1 /\ (<<x>> \o f)[1] = x
          /\ \A i \in 2 .. Len(f) + 1 : (<<x>> \o f)[i] = f[i - 1]
      BY <2>1, <2>2, AfterOne
    <2>4. g \in Seq(T) /\ Len(g) = N /\ g[1] = x /\ \A i \in 2 .. N : g[i] = f[i - 1]
      BY <1>7, <1>8, <2>2, <2>3
    <2> QED
      BY <2>4
  <1>11. DOMAIN h = 1 .. N /\ h[1] = b /\ \A i \in 2 .. N : h[i] = sizes[i - 1]
    <2> HIDE DEF h
    <2>1. /\ <<b>> \o sizes \in Seq(Nat) /\ Len(<<b>> \o sizes) = Len(sizes) + 1
          /\ (<<b>> \o sizes)[1] = b
          /\ \A i \in 2 .. Len(sizes) + 1 : (<<b>> \o sizes)[i] = sizes[i - 1]
      BY <1>3, AfterOne
    <2>2. h \in Seq(Nat) /\ Len(h) = N /\ h[1] = b /\ \A i \in 2 .. N : h[i] = sizes[i - 1]
      BY <1>7, <1>8, <2>1
    <2> QED
      BY <2>2
  <1> HIDE DEF f, g, h, x, n
  <1>12. \A i \in 2 .. N : i - 1 \in 1 .. n /\ i - 2 \in 0 .. n - 1 /\ (i - 1) - 1 = i - 2
                           /\ (i - 2) + 1 = i - 1
    BY <1>1, <1>8
  <1>13. \A i \in 2 .. N : /\ g[i].at = p + tot(i - 2) /\ g[i].size = rs(i - 1)
                           /\ tot(i - 1) = tot(i - 2) + rs(i - 1)
    <2> SUFFICES ASSUME NEW i \in 2 .. N
                 PROVE  /\ g[i].at = p + tot(i - 2) /\ g[i].size = rs(i - 1)
                        /\ tot(i - 1) = tot(i - 2) + rs(i - 1)
      OBVIOUS
    <2> DEFINE j == i - 1
               k == i - 2
    <2>1. j \in 1 .. n /\ k \in 0 .. n - 1 /\ j - 1 = k /\ k + 1 = j
      BY <1>12
    <2>2. g[i] = f[j]
      BY <1>10
    <2> HIDE DEF j, k
    <2>3. /\ f[j].at = p + tot(k) /\ f[j].size = IF j < n THEN rs(j) ELSE tot(n) - tot(n - 1)
          /\ tot(j) = tot(k) + rs(j)
      BY <1>5, <1>9, <2>1
    <2>4. tot(k) \in Nat /\ rs(j) \in Nat
      <3>1. k \in 0 .. n
        BY <1>1, <2>1
      <3> QED
        BY <1>2, <1>5, <2>1, <3>1
    <2>5. f[j].size = rs(j)
      <3>1. CASE j < n
        BY <2>3, <3>1
      <3>2. CASE ~(j < n)
        <4>1. j = n /\ k = n - 1
          BY <1>1, <2>1, <3>2
        <4> QED
          BY <2>3, <2>4, <3>2, <4>1
      <3> QED
        BY <3>1, <3>2
    <2> QED
      BY <2>2, <2>3, <2>5 DEF j, k
  <1>14. g[1].at = p + tot(n) /\ g[1].size = S - tot(n)
    BY <1>9, <1>10
  <1>15. /\ off \in [0 .. N -> Nat] /\ off[0] = 0 /\ off[N] = S
         /\ \A k \in 0 .. n : off[k] = tot(k)
    <2>1. \A k \in 0 .. N : off[k] = IF k = N THEN S ELSE tot(k)
      OBVIOUS
    <2>2. off \in [0 .. N -> Nat]
      <3>1. \A k \in 0 .. N : k # N => tot(k) \in Nat
        BY <1>1, <1>5, <1>8
      <3> QED
        BY <3>1
    <2> HIDE DEF off
    <2>3. \A k \in 0 .. n : k \in 0 .. N /\ k # N
      BY <1>1, <1>8
    <2> QED
      BY <1>1, <1>5, <1>8, <2>1, <2>2, <2>3
  <1>16. /\ pi \in [1 .. N -> 0 .. n] /\ pi[1] = n /\ \A i \in 2 .. N : pi[i] = i - 2
    <2>1. \A i \in 1 .. N : pi[i] = IF i = 1 THEN n ELSE i - 2
      OBVIOUS
    <2>2. pi \in [1 .. N -> 0 .. n]
      BY <1>1, <1>8
    <2> HIDE DEF pi
    <2> QED
      BY <1>1, <1>8, <2>1, <2>2
  <1> HIDE DEF off, pi
  <1>17. \A k \in 0 .. n : off[k] + M <= off[k + 1]
    <2> SUFFICES ASSUME NEW k \in 0 .. n PROVE off[k] + M <= off[k + 1]
      OBVIOUS
    <2>1. CASE k = n
      <3>1. off[k] = tot(n) /\ off[k + 1] = S /\ tot(n) \in Nat
        BY <1>1, <1>5, <1>8, <1>15, <2>1
      <3> QED
        BY <1>1, <1>4, <1>6, <3>1
    <2>2. CASE k # n
      <3>1. k \in 0 .. n - 1 /\ k + 1 \in 0 .. n /\ k + 1 \in 1 .. n
        BY <1>1, <2>2
      <3>2. /\ off[k] = tot(k) /\ off[k + 1] = tot(k + 1) /\ tot(k + 1) = tot(k) + rs(k + 1)
            /\ tot(k) \in Nat /\ rs(k + 1) \in Nat /\ rs(k + 1) >= M
        BY <1>2, <1>5, <1>15, <3>1
      <3> QED
        BY <1>1, <3>2
    <2> QED
      BY <2>1, <2>2
  <1>18. ASSUME NEW i \in 1 .. N
         PROVE  /\ g[i].at = p + off[pi[i]]
                /\ g[i].size = off[pi[i] + 1] - off[pi[i]]
                /\ h[i] \in Nat
                /\ g[i].size >= request2size(h[i]) /\ g[i].size < request2size(h[i]) + M
    <2>1. CASE i = 1
      <3>1. off[pi[i]] = tot(n) /\ off[pi[i] + 1] = S /\ tot(n) \in Nat
        BY <1>1, <1>5, <1>8, <1>15, <1>16, <2>1
      <3>2. h[i] = b /\ g[i].at = p + tot(n) /\ g[i].size = S - tot(n)
        BY <1>11, <1>14, <2>1
      <3> QED
        BY <1>1, <1>3, <1>4, <1>6, <3>1, <3>2
    <2>2. CASE i # 1
      <3>1. i \in 2 .. N
        BY <1>8, <2>2
      <3> DEFINE j == i - 1
                 k == i - 2
      <3>2. /\ j \in 1 .. n /\ k \in 0 .. n - 1 /\ j - 1 = k /\ k + 1 = j
            /\ g[i].at = p + tot(k) /\ g[i].size = rs(j) /\ tot(j) = tot(k) + rs(j)
            /\ h[i] = sizes[j] /\ pi[i] = k
        BY <1>11, <1>12, <1>13, <1>16, <3>1
      <3> HIDE DEF j, k
      <3>3. k \in 0 .. n /\ j \in 0 .. n
        BY <1>1, <3>2
      <3>4. off[k] = tot(k) /\ off[j] = tot(j) /\ tot(k) \in Nat /\ rs(j) \in Nat
            /\ sizes[j] \in Nat
        BY <1>1, <1>2, <1>5, <1>15, <3>2, <3>3
      <3>5. request2size(h[i]) = rs(j)
        BY <3>2 DEF rs
      <3>6. pi[i] + 1 = j /\ rs(j) = off[j] - off[k]
        BY ONLY <3>2, <3>4
      <3>7. M \in Nat \ {0}
        BY <1>1
      <3>8. rs(j) >= rs(j) /\ rs(j) < rs(j) + M
        BY ONLY <3>4, <3>7
      <3> QED
        BY ONLY <3>2, <3>4, <3>5, <3>6, <3>8
    <2> QED
      BY <2>1, <2>2
  <1>19. InARow(g, p, N, off, pi)
    <2>1. \A k \in 0 .. N - 1 : \E i \in 1 .. N : pi[i] = k
      <3> SUFFICES ASSUME NEW k \in 0 .. N - 1 PROVE \E i \in 1 .. N : pi[i] = k
        OBVIOUS
      <3>1. CASE k = n
        BY <1>8, <1>16, <3>1
      <3>2. CASE k # n
        <4>1. k + 2 \in 2 .. N /\ k + 2 \in 1 .. N /\ (k + 2) - 2 = k
          BY <1>1, <1>8, <3>2
        <4> QED
          BY <1>16, <4>1
      <3> QED
        BY <3>1, <3>2
    <2>2. \A i, j \in 1 .. N : i # j => pi[i] # pi[j]
      <3>1. \A i \in 1 .. N : i = 1 \/ i \in 2 .. N
        BY <1>8
      <3>2. \A i \in 2 .. N : pi[i] = i - 2 /\ i - 2 # n
        BY <1>1, <1>8, <1>16
      <3> QED
        BY <1>16, <3>1, <3>2
    <2>3. 0 .. N - 1 = 0 .. n
      BY <1>8
    <2> QED
      BY <1>8, <1>10, <1>15, <1>16, <1>17, <1>18, <2>1, <2>2, <2>3 DEF InARow, M
  <1>20. Divides(g, p, S)
    <2>1. p + off[N] \in Addr
      BY <1>15
    <2>2. Divides(g, p, off[N])
      BY <1>19, <2>1, RowDivides
    <2> QED
      BY <1>15, <2>2
  <1>21. Measured(g, h)
    BY <1>10, <1>11, <1>18 DEF Measured, M
  <1> QED
    BY <1>20, <1>21 DEF g, h

(* What ialloc cuts up divides the chunk, and each piece is as large as it *)
(* must be and less than a chunk larger.                                   *)
LEMMA PiecesDivide ==
  ASSUME NEW sizes \in Seq(Nat), sizes # <<>>, NEW array \in BOOLEAN,
         NEW p \in Addr, NEW S \in Nat, p + S \in Addr,
         Contents(sizes, array) <= S, S < Contents(sizes, array) + MIN_CHUNK_SIZE
  PROVE  /\ Divides(Pieces(p, sizes, S, array), p, S)
         /\ Measured(Pieces(p, sizes, S, array), Given(sizes, array))
  <1>1. CASE array = TRUE
    BY <1>1, ArrayDivides
  <1>2. CASE array = FALSE
    BY <1>2, ElementsDivide
  <1> QED
    BY <1>1, <1>2

-----------------------------------------------------------------------------
(* Before a chunk that malloc gives out there is one in use.               *)
LEMMA UsedBefore ==
  ASSUME NEW m \in MState, HeapOK(m), NEW p, NEW nb, NEW m2 \in MState, Served(m, p, nb, m2)
  PROVE  p \in m2.tags.pin
  <1> DEFINE s == m.tags.size
  <1>1. Shaped(m) /\ Shaped(m2) /\ p \in FreeChunks(m) /\ p \in Chunks(m)
    BY HeapIsShaped DEF Served, FreeChunks
  <1>2. p \in m.tags.pin
    BY <1>1 DEF Shaped, Coalesced, TopIsFree
  <1>3. p \in Heads(m.tags) \ {SegBase}
    BY <1>1 DEF Chunks, FreeChunks, Shaped, TagsAgree
  <1>4. PICK c \in Chunks(m) : c + s[c] = p
    BY <1>1, <1>3 DEF Shaped, Tiles
  <1>5. c \in m.tags.cin
    BY <1>1, <1>2, <1>4 DEF Shaped, TagsAgree
  <1>6. c \in UsedChunks(m)
    BY <1>4, <1>5 DEF UsedChunks, UserChunks
  <1>7. m2.tags.size[c] = s[c] /\ c \in UsedChunks(m2)
    BY <1>6 DEF Served, UsedChunks
  <1>8. c \in Chunks(m2) /\ c \in m2.tags.cin
    BY <1>1, <1>7, ChunkFacts DEF UsedChunks, UserChunks, Shaped, TagsAgree
  <1> QED
    BY <1>1, <1>4, <1>7, <1>8 DEF Shaped, TagsAgree

(* A request that is a chunk but for the overhead gets that chunk.         *)
LEMMA WholeChunkAsked ==
  ASSUME NEW g \in Nat, g >= MIN_CHUNK_SIZE,
         NEW req, req = g * MALLOC_ALIGNMENT - CHUNK_OVERHEAD
  PROVE  req \in Nat /\ request2size(req) = g
  <1>1. req = 8 * g - CHUNK_OVERHEAD
    BY ChunkConstants
  <1>2. req \in Nat /\ pad_request(req) = g
    BY <1>1, ChunkConstants DEF pad_request
  <1>3. req < MIN_REQUEST => g = MIN_CHUNK_SIZE
    BY <1>1, ChunkConstants DEF MIN_REQUEST
  <1> QED
    BY <1>2, <1>3 DEF request2size

(* What ialloc asks for is at least a chunk.                               *)
LEMMA ContentsFit ==
  ASSUME NEW sizes \in Seq(Nat), sizes # <<>>, NEW array \in BOOLEAN
  PROVE  Contents(sizes, array) \in Nat /\ Contents(sizes, array) >= MIN_CHUNK_SIZE
  <1> DEFINE n == Len(sizes)
             a == ArraySize(sizes)
  <1>1. n \in Nat \ {0} /\ \A i \in 1 .. n : sizes[i] \in Nat
    OBVIOUS
  <1>2. a \in Nat
    <2>1. n * SIZE_T_SIZE \in Nat
      BY <1>1
    <2> QED
      BY <2>1, RequestFits DEF ArraySize
  <1>3. /\ \A k \in 0 .. n : Total(sizes, k) \in Nat
        /\ \A k \in 0 .. n - 1 :
             Total(sizes, k + 1) = Total(sizes, k) + request2size(sizes[k + 1])
    BY Totals
  <1>4. Contents(sizes, array) = Total(sizes, n) + (IF array THEN a ELSE 0)
    BY DEF Contents
  <1> HIDE DEF n, a
  <1>5. n - 1 \in 0 .. n - 1 /\ n - 1 \in 0 .. n /\ n \in 0 .. n /\ n \in 1 .. n
        /\ (n - 1) + 1 = n
    BY <1>1
  <1>6. Total(sizes, n) = Total(sizes, n - 1) + request2size(sizes[n])
        /\ Total(sizes, n) \in Nat /\ Total(sizes, n - 1) \in Nat
    BY <1>3, <1>5
  <1>7. request2size(sizes[n]) \in Nat /\ request2size(sizes[n]) >= MIN_CHUNK_SIZE
    BY <1>1, <1>5, RequestFits
  <1> QED
    BY <1>2, <1>4, <1>6, <1>7, ChunkConstants

(* m2 is m but for the pieces, which were not in use and now are, each     *)
(* with the bytes given.                                                   *)
GivenMany(m, pieces, given, m2) ==
  /\ m2 \in MState /\ HeapOK(m2) /\ SegEnd(m2) = SegEnd(m)
  /\ m2.aborted = m.aborted /\ m2.seg_size = m.seg_size
  /\ Apart(pieces) /\ Measured(pieces, given)
  /\ UsedChunks(m) \cap AllStarts(pieces) = {}
  /\ UserChunks(m2) = UserChunks(m) \cup AllStarts(pieces)
  /\ \A a \in UsedChunks(m) : m2.tags.size[a] = m.tags.size[a]
  /\ \A i \in DOMAIN pieces : m2.tags.size[pieces[i].at] = pieces[i].size
  /\ CountKept(m, m2)

(* ialloc returns NULL, and nothing has changed, or the pieces.            *)
GotMany(m, given, r) ==
  \/ r.pieces = <<>> /\ r.ms = m
  \/ GivenMany(m, r.pieces, given, r.ms)

(* That is what it returns, for any elements and either kind of array.     *)
LEMMA IallocGets ==
  ASSUME NEW m \in MState, HeapOK(m), NEW sizes \in Seq(Nat), sizes # <<>>,
         NEW array \in BOOLEAN, NEW r \in ialloc(m, sizes, array)
  PROVE  GotMany(m, Given(sizes, array), r)
  <1> DEFINE size == Contents(sizes, array)
             req == size * MALLOC_ALIGNMENT - CHUNK_OVERHEAD
  <1>1. size \in Nat /\ size >= MIN_CHUNK_SIZE
    BY ContentsFit
  <1>2. PICK x \in Malloc(m, req) :
          r = IF x.mem = 0 THEN [ms |-> x.ms, pieces |-> <<>>]
              ELSE [ms |-> [x.ms EXCEPT !.tags =
                              Cut(@, Pieces(mem2chunk(x.mem), sizes,
                                            x.ms.tags.size[mem2chunk(x.mem)], array))],
                    pieces |-> Pieces(mem2chunk(x.mem), sizes,
                                      x.ms.tags.size[mem2chunk(x.mem)], array)]
    BY DEF ialloc, Contents
  <1> HIDE DEF size
  <1>3. req \in Nat /\ request2size(req) = size
    BY <1>1, WholeChunkAsked
  <1>4. MallocOK(m, size, x)
    <2> HIDE DEF req
    <2> QED
      BY <1>3, MallocIsOK
  <1>5. CASE x.mem = 0 /\ x.ms = m
    BY <1>2, <1>5 DEF GotMany
  <1>6. ASSUME NEW p \in FreeChunks(m), x.mem = chunk2mem(p), x.ms \in MState,
               Served(m, p, size, x.ms), CountKept(m, x.ms),
               x.ms.aborted = m.aborted, x.ms.seg_size = m.seg_size
        PROVE  GotMany(m, Given(sizes, array), r)
    <2> DEFINE S == x.ms.tags.size[p]
               pieces == Pieces(p, sizes, S, array)
               A == AllStarts(pieces)
               m2 == [x.ms EXCEPT !.tags = Cut(@, pieces)]
    <2>1. p \in Addr /\ p \in Chunks(m) /\ mem2chunk(x.mem) = p /\ x.mem # 0
      <3>1. p \in Addr /\ p \in Chunks(m)
        BY HeapIsShaped, ChunkFacts DEF FreeChunks
      <3> QED
        BY <1>6, <3>1, MemOfChunk, ChunkConstants DEF chunk2mem
    <2>2. r = [ms |-> m2, pieces |-> pieces]
      BY <1>2, <2>1
    <2>3. /\ HeapOK(x.ms) /\ SegEnd(x.ms) = SegEnd(m)
          /\ UserChunks(x.ms) = UserChunks(m) \cup {p}
          /\ \A a \in UsedChunks(m) : x.ms.tags.size[a] = m.tags.size[a]
          /\ S >= size /\ S < size + MIN_CHUNK_SIZE
      BY <1>6 DEF Served
    <2>4. p \in UserChunks(x.ms) /\ p \in x.ms.tags.pin
      BY <1>6, <2>3, UsedBefore
    <2>5. S \in Nat /\ p + S \in Addr
      BY <1>6, <2>3, <2>4, HeapIsShaped, ChunkFacts DEF UserChunks
    <2>6. p \notin UsedChunks(m)
      BY HeapIsShaped DEF UsedChunks, UserChunks, FreeChunks, Shaped, TagsAgree
    <2> HIDE DEF S
    <2>7. Divides(pieces, p, S) /\ Measured(pieces, Given(sizes, array))
      <3>1. Contents(sizes, array) <= S /\ S < Contents(sizes, array) + MIN_CHUNK_SIZE
        BY <1>1, <2>3, <2>5, ChunkConstants DEF size
      <3> QED
        BY <2>1, <2>5, <3>1, PiecesDivide
    <2> HIDE DEF pieces
    <2>8. Divided(x.ms, p, pieces, m2)
      BY <1>6, <2>3, <2>4, <2>7, DividedOK DEF S
    <2> HIDE DEF m2
    <2>9. /\ m2 \in MState /\ HeapOK(m2) /\ SegEnd(m2) = SegEnd(m)
          /\ m2.aborted = m.aborted /\ m2.seg_size = m.seg_size
          /\ UserChunks(m2) = UserChunks(x.ms) \cup A
          /\ UsedChunks(x.ms) \cap A = {p}
          /\ \A a \in UsedChunks(x.ms) \ {p} : m2.tags.size[a] = x.ms.tags.size[a]
          /\ \A i \in DOMAIN pieces : m2.tags.size[pieces[i].at] = pieces[i].size
          /\ CountKept(x.ms, m2)
      BY <1>6, <2>3, <2>8 DEF Divided
    <2> HIDE DEF A
    <2>10. UsedChunks(m) = UsedChunks(x.ms) \ {p}
      BY <2>3, <2>6 DEF UsedChunks
    <2>11. UsedChunks(m) \cap A = {} /\ UserChunks(m2) = UserChunks(m) \cup A
      BY <2>3, <2>9, <2>10
    <2>12. \A a \in UsedChunks(m) : m2.tags.size[a] = m.tags.size[a]
      BY <2>3, <2>9, <2>10
    <2>13. CountKept(m, m2)
      BY <1>6, <2>9 DEF CountKept
    <2>14. GivenMany(m, pieces, Given(sizes, array), m2)
      BY <2>7, <2>9, <2>11, <2>12, <2>13 DEF GivenMany, Divides, A
    <2> QED
      BY <2>2, <2>14 DEF GotMany
  <1> QED
    BY <1>4, <1>5, <1>6 DEF MallocOK

(* The caller holds each of them from now on.                              *)
LEMMA GivenManyKeeps ==
  ASSUME NEW w \in Nat, w >= MIN_CHUNK_SIZE, HeapInv(w), NEW pieces, NEW given,
         GivenMany(ms, pieces, given, ms'),
         held' = [a \in Addr |->
                    IF \E i \in DOMAIN pieces : chunk2mem(pieces[i].at) = a
                      THEN given[CHOOSE i \in DOMAIN pieces : chunk2mem(pieces[i].at) = a]
                      ELSE held[a]]
  PROVE  HeapInv(w)' /\ HeapStep
  <1> DEFINE D == DOMAIN pieces
             A == AllStarts(pieces)
             mem(i) == chunk2mem(pieces[i].at)
             N == {mem(i) : i \in D}
  <1>1. /\ ms \in MState /\ HeapOK(ms) /\ ~ms.aborted /\ Promised(ms, held, w) /\ FootEnds(ms)
        /\ ms.tags.size[SegBase] = MSTATE_SIZE
    BY DEF HeapInv
  <1>2. /\ ms' \in MState /\ HeapOK(ms') /\ SegEnd(ms') = SegEnd(ms)
        /\ ms'.aborted = ms.aborted /\ ms'.seg_size = ms.seg_size
        /\ Apart(pieces) /\ Measured(pieces, given)
        /\ UsedChunks(ms) \cap A = {}
        /\ UserChunks(ms') = UserChunks(ms) \cup A
        /\ \A a \in UsedChunks(ms) : ms'.tags.size[a] = ms.tags.size[a]
        /\ \A i \in D : ms'.tags.size[pieces[i].at] = pieces[i].size
    BY DEF GivenMany
  <1>3. ASSUME NEW i \in D
        PROVE  /\ mem(i) \in Addr /\ mem2chunk(mem(i)) = pieces[i].at
               /\ pieces[i].at \in A /\ given[i] \in Nat
               /\ ms'.tags.size[mem2chunk(mem(i))] >= request2size(given[i])
               /\ ms'.tags.size[mem2chunk(mem(i))] < request2size(given[i]) + w
    <2> DEFINE a == pieces[i].at
               z == pieces[i].size
               rs == request2size(given[i])
    <2>1. a \in A
      BY DEF AllStarts, Starts
    <2>2. a \in Chunks(ms')
      BY <1>2, <2>1 DEF UserChunks
    <2>3. given[i] \in Nat /\ z >= rs /\ z < rs + MIN_CHUNK_SIZE
      BY <1>2 DEF Measured
    <2>4. rs \in Nat /\ rs >= MIN_CHUNK_SIZE
      BY <2>3, RequestFits
    <2>5. ms'.tags.size[a] = z /\ z \in Nat
      BY <1>2 DEF Apart
    <2> HIDE DEF a, z, rs
    <2>6. z >= MIN_CHUNK_SIZE /\ z < rs + w
      BY <2>3, <2>4, <2>5, ChunkConstants
    <2>7. chunk2mem(a) \in Addr /\ mem2chunk(chunk2mem(a)) = a
      BY <1>2, <2>2, <2>5, <2>6, MemInSegment
    <2> QED
      BY <2>1, <2>3, <2>5, <2>6, <2>7 DEF a, z, rs
  <1>4. \A i, j \in D : mem(i) = mem(j) => i = j
    <2>1. \A i, j \in D : i # j => pieces[i].at # pieces[j].at
      BY <1>2, ApartFacts
    <2> QED
      BY <1>3, <2>1
  <1>5. held \in [Addr -> Nat \cup {NotHeld}]
    BY <1>1 DEF Promised
  <1> HIDE DEF mem
  <1>6. \A i \in D : held'[mem(i)] = given[i]
    <2> SUFFICES ASSUME NEW i \in D PROVE held'[mem(i)] = given[i]
      OBVIOUS
    <2> DEFINE j == CHOOSE k \in D : mem(k) = mem(i)
    <2>1. j \in D /\ mem(j) = mem(i)
      OBVIOUS
    <2>2. j = i
      BY <1>4, <2>1
    <2>3. held'[mem(i)] = given[j]
      BY <1>3 DEF mem
    <2> QED
      BY <2>2, <2>3
  <1>7. \A a \in Addr : a \notin N => held'[a] = held[a]
    BY DEF mem
  <1>8. N \subseteq Addr
    BY <1>3
  <1>9. held' \in [Addr -> Nat \cup {NotHeld}]
    <2>1. \E f : held' = [a \in Addr |-> f[a]]
      <3> DEFINE h == [a \in Addr |->
                    IF \E i \in DOMAIN pieces : chunk2mem(pieces[i].at) = a
                      THEN given[CHOOSE i \in DOMAIN pieces : chunk2mem(pieces[i].at) = a]
                      ELSE held[a]]
      <3>1. h = [a \in Addr |-> h[a]]
        OBVIOUS
      <3>2. held' = h
        OBVIOUS
      <3> HIDE DEF h
      <3>3. held' = [a \in Addr |-> h[a]]
        BY ONLY <3>1, <3>2
      <3> QED
        BY ONLY <3>3
    <2>2. \A a \in Addr : held'[a] \in Nat \cup {NotHeld}
      <3>1. \A i \in D : held'[mem(i)] \in Nat
        <4>1. \A i \in D : given[i] \in Nat
          BY <1>3
        <4> QED
          BY ONLY <1>6, <4>1
      <3>2. \A a \in N : held'[a] \in Nat
        BY ONLY <3>1
      <3> HIDE DEF N
      <3> QED
        BY ONLY <1>5, <1>7, <3>2
    <2> QED
      BY <2>1, <2>2
  <1>10. HeldBy(held') = HeldBy(held) \cup N
    <2>1. \A a \in N : held'[a] # NotHeld
      <3> SUFFICES ASSUME NEW i \in D PROVE held'[mem(i)] # NotHeld
        OBVIOUS
      <3>1. given[i] \in Nat /\ held'[mem(i)] = given[i]
        BY <1>3, <1>6
      <3> QED
        BY <3>1 DEF NotHeld
    <2> HIDE DEF N
    <2> QED
      BY <1>7, <1>8, <2>1 DEF HeldBy
  <1>11. {mem2chunk(a) : a \in N} = A
    <2>1. A = {pieces[i].at : i \in D}
      BY DEF AllStarts, Starts
    <2>2. \A i \in D : mem2chunk(mem(i)) = pieces[i].at
      BY <1>3
    <2> HIDE DEF A
    <2> QED
      BY <2>1, <2>2
  <1>12. UserChunks(ms) = {mem2chunk(a) : a \in HeldBy(held)}
    BY <1>1 DEF Promised
  <1> HIDE DEF N, A
  <1>13. UserChunks(ms') = {mem2chunk(a) : a \in HeldBy(held')}
    <2>1. {mem2chunk(a) : a \in HeldBy(held) \cup N}
            = {mem2chunk(a) : a \in HeldBy(held)} \cup {mem2chunk(a) : a \in N}
      OBVIOUS
    <2> QED
      BY <1>2, <1>10, <1>11, <1>12, <2>1
  <1>14. ASSUME NEW a \in HeldBy(held')
         PROVE  /\ ms'.tags.size[mem2chunk(a)] >= request2size(held'[a])
                /\ ms'.tags.size[mem2chunk(a)] < request2size(held'[a]) + w
    <2>1. CASE a \in N
      <3>1. PICK i \in D : a = mem(i)
        BY <2>1 DEF N
      <3> QED
        BY <1>3, <1>6, <3>1
    <2>2. CASE a \notin N
      <3>1. a \in HeldBy(held) /\ held'[a] = held[a]
        BY <1>7, <1>10, <2>2 DEF HeldBy
      <3>2. mem2chunk(a) \in UsedChunks(ms)
        BY <1>12, <3>1 DEF UsedChunks
      <3> QED
        BY <1>1, <1>2, <3>1, <3>2 DEF Promised
    <2> QED
      BY <2>1, <2>2
  <1>15. Promised(ms', held', w)
    BY <1>9, <1>13, <1>14 DEF Promised
  <1>16. ~ms'.aborted /\ FootEnds(ms') /\ ms'.tags.size[SegBase] = MSTATE_SIZE
    BY <1>1, <1>2 DEF FootEnds, UsedChunks
  <1>17. HeapInv(w)'
    BY <1>2, <1>15, <1>16 DEF HeapInv
  <1>18. \A a \in HeldBy(held) : held'[a] = held[a]
    <2>1. \A a \in N : mem2chunk(a) \notin UserChunks(ms)
      BY <1>2, <1>11 DEF UsedChunks
    <2> SUFFICES ASSUME NEW a \in HeldBy(held) PROVE held'[a] = held[a]
      OBVIOUS
    <2>2. a \in Addr
      BY DEF HeldBy
    <2>3. mem2chunk(a) \in UserChunks(ms)
      BY ONLY <1>12, a \in HeldBy(held)
    <2>4. a \notin N
      BY ONLY <2>1, <2>3
    <2> QED
      BY ONLY <1>7, <2>2, <2>4
  <1> QED
    BY <1>2, <1>17, <1>18, NewBlocksApart

(* The independent_ calls keep the invariant, are steps of the abstract    *)
(* heap, and count what they give.                                         *)
LEMMA ComallocKeeps ==
  ASSUME NEW w \in Nat, w >= MIN_CHUNK_SIZE, HeapInv(w),
         NEW sizes \in Seq(Nat), NEW array \in BOOLEAN,
         mspace_independent_comalloc(sizes, array)
  PROVE  HeapInv(w)' /\ HeapStep /\ CountKept(ms, ms')
  <1>1. ms \in MState /\ HeapOK(ms)
    BY DEF HeapInv
  <1>2. CASE sizes = <<>> /\ array
    <2>1. mspace_malloc(0)
      BY <1>2 DEF mspace_independent_comalloc
    <2>2. PICK r \in Malloc(ms, 0) : ms' = r.ms
      BY <2>1 DEF mspace_malloc
    <2>3. Got(ms, request2size(0), w, r)
      BY <1>1, MallocGets
    <2> QED
      BY <1>1, <2>1, <2>2, <2>3, MallocKeeps, GotCounts
  <1>3. CASE sizes = <<>> /\ ~array
    BY <1>3 DEF mspace_independent_comalloc, vars, HeapInv, CountKept, HeapStep
  <1>4. CASE sizes # <<>>
    <2>1. PICK r \in ialloc(ms, sizes, array) :
            /\ ms' = r.ms
            /\ held' = [a \in Addr |->
                  IF \E i \in DOMAIN r.pieces : chunk2mem(r.pieces[i].at) = a
                    THEN Given(sizes, array)[CHOOSE i \in DOMAIN r.pieces :
                                               chunk2mem(r.pieces[i].at) = a]
                    ELSE held[a]]
      BY <1>4 DEF mspace_independent_comalloc
    <2> DEFINE given == Given(sizes, array)
               pieces == r.pieces
    <2>2. GotMany(ms, given, r)
      BY <1>1, <1>4, IallocGets
    <2>3. CASE r.pieces = <<>> /\ r.ms = ms
      <3>1. DOMAIN r.pieces = {}
        BY <2>3
      <3>2. held \in [Addr -> Nat \cup {NotHeld}]
        BY DEF HeapInv, Promised
      <3>3. held' = [a \in Addr |-> held[a]]
        BY <2>1, <3>1
      <3>4. held' = held /\ ms' = ms
        BY <2>1, <2>3, <3>2, <3>3
      <3> QED
        BY <3>4 DEF HeapInv, CountKept, HeapStep
    <2>4. CASE GivenMany(ms, pieces, given, r.ms)
      <3>1. GivenMany(ms, pieces, given, ms')
        BY <2>1, <2>4
      <3>2. held' = [a \in Addr |->
                    IF \E i \in DOMAIN pieces : chunk2mem(pieces[i].at) = a
                      THEN given[CHOOSE i \in DOMAIN pieces : chunk2mem(pieces[i].at) = a]
                      ELSE held[a]]
        BY <2>1
      <3> HIDE DEF given, pieces
      <3>3. HeapInv(w)' /\ HeapStep
        BY <3>1, <3>2, GivenManyKeeps
      <3> QED
        BY <3>1, <3>3 DEF GivenMany
    <2> QED
      BY <2>2, <2>3, <2>4 DEF GotMany
  <1> QED
    BY <1>2, <1>3, <1>4

-----------------------------------------------------------------------------
(* Every call keeps the invariant, and is a step of the abstract heap.     *)
LEMMA AlignKeeps ==
  ASSUME HeapInv(MIN_CHUNK_SIZE + 1), [NextAlign]_vars
  PROVE  HeapInv(MIN_CHUNK_SIZE + 1)' /\ HeapStep
  <1>1. CASE [NextOne]_vars
    BY <1>1, OneKeeps
  <1>2. ASSUME NEW sizes \in Elements, NEW array \in BOOLEAN,
               mspace_independent_comalloc(sizes, array)
        PROVE  HeapInv(MIN_CHUNK_SIZE + 1)' /\ HeapStep
    BY <1>2, ComallocKeeps, ElementsAssumption, ChunkConstants
  <1> QED
    BY <1>1, <1>2 DEF NextAlign

(* Every call counts what it gives out and takes back, unless it is a      *)
(* realloc that extends a block into top.                                  *)
LEMMA AlignCounts ==
  ASSUME HeapInv(MIN_CHUNK_SIZE + 1), [NextAlign]_vars, NoneGrowsIntoTop
  PROVE  CountKept(ms, ms')
  <1>1. CASE [NextOne]_vars
    BY <1>1, OneCounts
  <1>2. ASSUME NEW sizes \in Elements, NEW array \in BOOLEAN,
               mspace_independent_comalloc(sizes, array)
        PROVE  CountKept(ms, ms')
    BY <1>2, ComallocKeeps, ElementsAssumption, ChunkConstants
  <1> QED
    BY <1>1, <1>2 DEF NextAlign

(* The invariant holds in every state of every behaviour.                  *)
LEMMA AlignInductive == SpecAlign => []HeapInv(MIN_CHUNK_SIZE + 1)
  <1> DEFINE J == HeapInv(MIN_CHUNK_SIZE + 1)
  <1>1. Init => J
    <2> SUFFICES ASSUME IInv PROVE J
      BY InitIInv
    <2>1. ms \in MState /\ HeapOK(ms) /\ Promised(ms, held, MIN_CHUNK_SIZE)
      BY DEF IInv, HeapInv
    <2>2. ASSUME NEW a \in HeldBy(held)
          PROVE  ms.tags.size[mem2chunk(a)] < request2size(held[a]) + (MIN_CHUNK_SIZE + 1)
      <3> DEFINE nb == request2size(held[a])
                 s == ms.tags.size[mem2chunk(a)]
      <3>1. s \in Nat
        BY <2>1, HeldIsUsed, HeapIsShaped, ChunkFacts, ChunkConstants DEF UserChunks
      <3>2. nb \in Nat
        BY <2>1, RequestFits DEF Promised, HeldBy, NotHeld
      <3>3. s < nb + MIN_CHUNK_SIZE
        BY <2>1 DEF Promised
      <3> HIDE DEF s, nb
      <3>4. s < nb + (MIN_CHUNK_SIZE + 1)
        BY <3>1, <3>2, <3>3, ChunkConstants
      <3> QED
        BY <3>4 DEF s, nb
    <2>3. Promised(ms, held, MIN_CHUNK_SIZE + 1)
      BY <2>1, <2>2 DEF Promised
    <2> QED
      BY <2>3 DEF IInv, HeapInv
  <1>2. J /\ [NextAlign]_vars => J'
    BY AlignKeeps
  <1> HIDE DEF J
  <1>3. SpecAlign => []J
    BY <1>1, <1>2, PTL DEF SpecAlign
  <1> QED
    BY <1>3 DEF J

(* After any sequence of calls, aligned ones and calloc among them, chunks *)
(* tile the segment, tags agree, free chunks are merged and in their bins: *)
(* the leader and the end that are cut from a chunk are chunks.            *)
THEOREM CutsStayChunks == SpecAlign => []CutsKeepTheHeap
  <1>1. HeapInv(MIN_CHUNK_SIZE + 1) => CutsKeepTheHeap
    BY DEF HeapInv, CutsKeepTheHeap
  <1> QED
    BY <1>1, AlignInductive, PTL

(* mspace_memalign returns memory that is aligned as was asked, with room  *)
(* for the request and not a whole chunk more than it needs.               *)
THEOREM AlignmentHolds == SpecAlign => []AlignedAsAsked
  <1>1. ASSUME HeapInv(MIN_CHUNK_SIZE + 1), NEW al \in Alignments, NEW bytes \in AlignSizes,
               NEW r \in internal_memalign(ms, al, bytes), r.mem # 0
        PROVE  /\ al \in PowersOf2 => (r.mem * MALLOC_ALIGNMENT) % al = 0
               /\ r.ms.tags.size[mem2chunk(r.mem)] \in
                    request2size(bytes) .. request2size(bytes) + MIN_CHUNK_SIZE
    <2>1. ms \in MState /\ HeapOK(ms)
      BY <1>1 DEF HeapInv
    <2>2. al \in Nat /\ al <= 2^15 /\ bytes \in Nat
      BY AlignmentsFit
    <2>3. PICK p \in Addr :
            /\ r.mem = chunk2mem(p)
            /\ GivenOut(ms, p, request2size(bytes), MIN_CHUNK_SIZE + 1, r.ms)
      BY <1>1, <2>1, <2>2, MemalignGets DEF Got
    <2>4. mem2chunk(r.mem) = p
      BY <2>3, MemOfChunk
    <2>5. r.ms.tags.size[p] \in Nat
      BY <2>3 DEF GivenOut, MState, Tags
    <2> DEFINE nb == request2size(bytes)
    <2>6. nb \in Nat
      BY <2>2, RequestFits
    <2>7. r.ms.tags.size[p] >= nb /\ r.ms.tags.size[p] < nb + (MIN_CHUNK_SIZE + 1)
      BY <2>3 DEF GivenOut
    <2> HIDE DEF nb
    <2>8. r.ms.tags.size[p] \in nb .. nb + MIN_CHUNK_SIZE
      BY <2>5, <2>6, <2>7, ChunkConstants
    <2> QED
      BY <1>1, <2>1, <2>2, <2>4, <2>8, MemalignAligns DEF nb
  <1>2. HeapInv(MIN_CHUNK_SIZE + 1) => AlignedAsAsked
    BY <1>1 DEF AlignedAsAsked
  <1> QED
    BY <1>2, AlignInductive, PTL

(* Every chunk in use is a block that is held, with room for its bytes,    *)
(* those of a calloc whose product would not fit included.                 *)
THEOREM AlignedIntact == SpecAlign => []HeldIntact
  <1>1. HeapInv(MIN_CHUNK_SIZE + 1) => HeldIntact
    BY HeldHasRoom, ChunkConstants
  <1> QED
    BY <1>1, AlignInductive, PTL

(* mspace_used counts the chunks in use exactly, through any calls among   *)
(* which no realloc extends a block into top.                              *)
THEOREM UsedCounts == SpecAlign /\ [][NoneGrowsIntoTop]_vars => []UsedIsExact
  <1> DEFINE J == HeapInv(MIN_CHUNK_SIZE + 1)
             C == CountExact(ms)
  <1>1. Init => C
    BY InitCounts
  <1>2. J /\ C /\ [NextAlign]_vars /\ [NoneGrowsIntoTop]_vars => C'
    <2>1. CASE UNCHANGED vars
      BY <2>1 DEF vars, CountExact
    <2>2. ASSUME J, C, NextAlign, NoneGrowsIntoTop PROVE C'
      BY <2>2, AlignCounts DEF CountKept, CountExact
    <2> QED
      BY <2>1, <2>2
  <1>3. C => UsedIsExact
    BY DEF CountExact, UsedIsExact, SumFunctionOnSet
  <1> HIDE DEF J, C
  <1>4. SpecAlign => []J
    BY AlignInductive DEF J
  <1> QED
    BY <1>1, <1>2, <1>3, <1>4, PTL DEF SpecAlign

(* No two blocks that are held share a byte, however they were got, and    *)
(* none reaches beyond the chunks of the segment.                          *)
THEOREM NoBlocksOverlap ==
  SpecAlign =>
    [](\A a \in Held : /\ a * 8 + held[a] <= SegEnd(ms) * 8
                       /\ \A b \in Held \ {a} : \/ a * 8 + held[a] <= b * 8
                                                 \/ b * 8 + held[b] <= a * 8)
  <1> DEFINE P == \A a \in Held : /\ a * 8 + held[a] <= SegEnd(ms) * 8
                                  /\ \A b \in Held \ {a} : \/ a * 8 + held[a] <= b * 8
                                                            \/ b * 8 + held[b] <= a * 8
  <1>1. HeapInv(MIN_CHUNK_SIZE + 1) => P
    <2>1. Held = HeldBy(held)
      BY DEF Held, HeldBy
    <2> QED
      BY <2>1, BlocksApart, ChunkConstants DEF HeapInv
  <1> QED
    BY <1>1, AlignInductive, PTL

(* With all of these calls an mspace is the abstract heap: whatever is     *)
(* given out, one block or many, overlaps nothing, and what is held stays. *)
THEOREM AlignedIsAHeap == SpecAlign => ImplementsHeap
  <1>1. Init => Heap!Init
    BY InitIsOK DEF Init, Heap!Init, Heap!None, NotHeld
  <1>2. HeapInv(MIN_CHUNK_SIZE + 1) /\ [NextAlign]_vars => [Heap!Next]_<<held, SegEnd(ms)>>
    BY AlignKeeps DEF HeapStep
  <1> QED
    BY <1>1, <1>2, AlignInductive, PTL DEF SpecAlign, ImplementsHeap, Heap!Spec
=============================================================================
