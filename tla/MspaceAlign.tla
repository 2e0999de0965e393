---------------------------- MODULE MspaceAlign ----------------------------
(***************************************************************************)
(* The allocation routines of an mspace that cut one chunk got from        *)
(* mspace_malloc to measure: mspace_memalign, mspace_independent_calloc,   *)
(* mspace_independent_comalloc; and mspace_calloc.                         *)
(***************************************************************************)
EXTENDS MspaceProps, SequencesExt

CONSTANTS
  Alignments,       \* bytes that mspace_memalign is to align to
  AlignSizes,       \* bytes that mspace_memalign is asked for
  CallocRequests,   \* <<n_elements, elem_size>> of mspace_calloc
  CALLOC_HALF,      \* two counts below it have a product in a size_t
  Elements          \* sequences of sizes of mspace_independent_comalloc

BYTES_MOD == SIZE_T_MOD * MALLOC_ALIGNMENT

(* The powers of 2 that a size_t can hold, up to a bound: none is asked    *)
(* for beyond it.                                                          *)
PowersOf2 == {2^k : k \in 0 .. 15}

ASSUME AlignAssumption ==
  /\ \A al \in Alignments : al \in 0 .. 2^15 /\ al <= MAX_REQUEST \div 4
  /\ AlignSizes \subseteq Nat
ASSUME CallocAssumption ==
  /\ CallocRequests \subseteq Nat \X Nat
  /\ CALLOC_HALF \in Nat /\ CALLOC_HALF * CALLOC_HALF <= BYTES_MOD
ASSUME ElementsAssumption == Elements \subseteq Seq(Nat)

-----------------------------------------------------------------------------
(* internal_memalign, once the alignment exceeds that of every chunk: the  *)
(* least power of 2 that is neither below it nor below a chunk.            *)
Ensured(alignment) ==
  Min({a \in PowersOf2 : a >= alignment /\ a >= MIN_CHUNK_SIZE * MALLOC_ALIGNMENT})

(* A slip: a leader may be too small for a chunk.                          *)
AlignedSpot_First(p, g) ==
  LET mem == chunk2mem(p)
  IN  IF mem % g = 0 THEN p ELSE mem2chunk(((mem + g - 1) \div g) * g)

(* Where in the chunk at p the aligned chunk begins, g being the alignment *)
(* in granules: a leader is a chunk too.                                   *)
AlignedSpot(p, g) ==
  LET mem == chunk2mem(p)
      br  == mem2chunk(((mem + g - 1) \div g) * g)
  IN  IF mem % g = 0 THEN p
      ELSE IF br - p >= MIN_CHUNK_SIZE THEN br ELSE br + g

(* A slip: what follows the aligned chunk is not given back.               *)
Carve_KeepsEnd(m, p, pos, nb) ==
  IF pos = p THEN m
  ELSE Free([m EXCEPT !.tags = set_inuse(set_inuse(@, pos, m.tags.size[p] - (pos - p)),
                                         p, pos - p)], chunk2mem(p))

(* The chunk at p, given out by malloc, is cut to nb at pos: the leader    *)
(* and the spare room at the end are freed.                                *)
Carve(m, p, pos, nb) ==
  LET size == m.tags.size[p] - (pos - p)
      led  == IF pos = p THEN m
              ELSE [m EXCEPT !.tags = set_inuse(set_inuse(@, pos, size), p, pos - p)]
      spare == size > nb + MIN_CHUNK_SIZE
      cut  == IF spare
                THEN [led EXCEPT !.tags = set_inuse(set_inuse(@, pos, nb),
                                                    pos + nb, size - nb)]
                ELSE led
      unled == IF pos = p THEN cut ELSE Free(cut, chunk2mem(p))
  IN  IF spare THEN Free(unled, chunk2mem(pos + nb)) ELSE unled

internal_memalign(m, alignment, bytes) ==
  LET al  == Ensured(alignment)
      nb  == request2size(bytes)
      req == (nb + MIN_CHUNK_SIZE) * MALLOC_ALIGNMENT + al - CHUNK_OVERHEAD
      Spot(r) == AlignedSpot(mem2chunk(r.mem), al \div MALLOC_ALIGNMENT)
  IN  IF alignment <= MALLOC_ALIGNMENT THEN Malloc(m, bytes)
      ELSE IF bytes >= MAX_REQUEST - al THEN {Null(m)}
      ELSE {IF r.mem = 0 THEN r
            ELSE [ms  |-> Carve(r.ms, mem2chunk(r.mem), Spot(r), nb),
                  mem |-> chunk2mem(Spot(r))] : r \in Malloc(m, req)}

-----------------------------------------------------------------------------
(* A slip: the product is taken as it comes out.                           *)
CallocBytes_Wrapped(n, size) == (n * size) % BYTES_MOD

(* mspace_calloc: the bytes that are asked for, too many on overflow.      *)
CallocBytes(n, size) ==
  LET req == (n * size) % BYTES_MOD
  IN  IF n # 0 /\ (n >= CALLOC_HALF \/ size >= CALLOC_HALF) /\ req \div n # size
        THEN BYTES_MOD - 1 ELSE req

-----------------------------------------------------------------------------
(* ialloc.  A piece is a chunk cut from the one that holds them all.       *)
Piece(at, size) == [at |-> at, size |-> size]

Total(sizes, n) ==
  FoldFunctionOnSet(+, 0, [i \in DOMAIN sizes |-> request2size(sizes[i])], 1 .. n)
ArraySize(sizes) == request2size(Len(sizes) * SIZE_T_SIZE)

(* ialloc adds up the sizes with no check of the overflow, which its       *)
(* callers have to rule out.                                               *)
ASSUME SumsAssumption ==
  \A sizes \in Elements :
    (Total(sizes, Len(sizes)) + ArraySize(sizes)) * MALLOC_ALIGNMENT < BYTES_MOD

(* A slip: what is left over goes to nobody.                               *)
Pieces_NoSlop(p, sizes, total, array) ==
  LET n == Len(sizes)
  IN  (IF array THEN <<Piece(p + Total(sizes, n), ArraySize(sizes))>> ELSE <<>>)
        \o [i \in 1 .. n |-> Piece(p + Total(sizes, i - 1), request2size(sizes[i]))]

(* In the order of the writes: the array of pointers at the end, if the    *)
(* caller gave none, then the elements; what is left over goes to the last *)
(* piece in memory.                                                        *)
Pieces(p, sizes, total, array) ==
  LET n == Len(sizes)
      contents == IF array THEN Total(sizes, n) ELSE total
  IN  (IF array THEN <<Piece(p + contents, total - contents)>> ELSE <<>>)
        \o [i \in 1 .. n |->
              Piece(p + Total(sizes, i - 1),
                    IF i < n THEN request2size(sizes[i])
                    ELSE contents - Total(sizes, n - 1))]

Cut(t, pieces) ==
  FoldLeft(LAMBDA u, c : set_size_and_pinuse_of_inuse_chunk(u, c.at, c.size), t, pieces)

(* The bytes that go with the pieces.                                      *)
Given(sizes, array) == (IF array THEN <<Len(sizes) * SIZE_T_SIZE>> ELSE <<>>) \o sizes

(* A result has the pieces, none for NULL.                                 *)
ialloc(m, sizes, array) ==
  LET size == Total(sizes, Len(sizes)) + (IF array THEN ArraySize(sizes) ELSE 0)
      p(r) == mem2chunk(r.mem)
      cut(r) == Pieces(p(r), sizes, r.ms.tags.size[p(r)], array)
  IN  {IF r.mem = 0 THEN [ms |-> r.ms, pieces |-> <<>>]
       ELSE [ms |-> [r.ms EXCEPT !.tags = Cut(@, cut(r))], pieces |-> cut(r)]
         : r \in Malloc(m, size * MALLOC_ALIGNMENT - CHUNK_OVERHEAD)}

-----------------------------------------------------------------------------
mspace_memalign(alignment, bytes) ==
  \E r \in internal_memalign(ms, alignment, bytes) :
    /\ ms' = r.ms
    /\ held' = IF r.mem = 0 THEN held ELSE [held EXCEPT ![r.mem] = bytes]

mspace_calloc(n, size) ==
  \E r \in Malloc(ms, CallocBytes(n, size)) :
    /\ ms' = r.ms
    /\ held' = IF r.mem = 0 THEN held ELSE [held EXCEPT ![r.mem] = n * size]

(* mspace_independent_calloc is the case of equal sizes.  No element: the  *)
(* array is empty, or the caller's array stays as it is.                   *)
mspace_independent_comalloc(sizes, array) ==
  IF sizes = <<>> THEN IF array THEN mspace_malloc(0) ELSE UNCHANGED vars
  ELSE \E r \in ialloc(ms, sizes, array) :
    /\ ms' = r.ms
    /\ held' = [a \in Addr |->
                  IF \E i \in DOMAIN r.pieces : chunk2mem(r.pieces[i].at) = a
                    THEN Given(sizes, array)[CHOOSE i \in DOMAIN r.pieces :
                                               chunk2mem(r.pieces[i].at) = a]
                    ELSE held[a]]

NextOne ==
  \/ Next
  \/ /\ ~ms.aborted
     /\ \/ \E al \in Alignments, bytes \in AlignSizes : mspace_memalign(al, bytes)
        \/ \E c \in CallocRequests : mspace_calloc(c[1], c[2])

(* The calls that give out one block, and those that give out many.        *)
NextAlign ==
  \/ NextOne
  \/ /\ ~ms.aborted
     /\ \E sizes \in Elements, array \in BOOLEAN :
          mspace_independent_comalloc(sizes, array)

SpecAlign == Init /\ [][NextAlign]_vars

-----------------------------------------------------------------------------
(* Pieces, leaders and trailers that are cut from a chunk are chunks       *)
(* themselves: after any of these calls chunks tile the segment, tags      *)
(* agree, free chunks are merged and in their bins.                        *)
CutsKeepTheHeap == HeapOK(ms)

(* mspace_memalign returns memory that is aligned as was asked, whatever   *)
(* the heap looks like, and wastes no more than a chunk (internal_memalign *)
(* asserts the first; a remainder of exactly MIN_CHUNK_SIZE stays).        *)
AlignedAsAsked ==
  \A al \in Alignments, bytes \in AlignSizes :
    \A r \in internal_memalign(ms, al, bytes) :
      r.mem # 0 =>
        /\ al \in PowersOf2 => (r.mem * MALLOC_ALIGNMENT) % al = 0
        /\ r.ms.tags.size[mem2chunk(r.mem)] \in
             request2size(bytes) .. request2size(bytes) + MIN_CHUNK_SIZE
=============================================================================
