---------------------------- MODULE BoundaryTags ----------------------------
(***************************************************************************)
(* Chunks of an mspace and the words that delimit them (malloc.cpp, "Chunk *)
(* representations" and "Operations on head and foot fields").             *)
(*                                                                         *)
(* Addresses and chunk sizes are counted in granules of MALLOC_ALIGNMENT   *)
(* (8) bytes, requests in bytes.  The words of memory that matter are the  *)
(* head of each chunk (its size, PINUSE_BIT and CINUSE_BIT) and prev_foot  *)
(* (the size of the previous chunk, meaningful only when that one is       *)
(* free).  A word that lies in the body of a chunk is payload or garbage:  *)
(* every macro that delimits a chunk drops the tags strictly inside it, so *)
(* that a tag read where none is live yields 0.                            *)
(***************************************************************************)
EXTENDS Integers

CONSTANTS
  AddrMax,         \* last granule address that is modelled
  SIZE_T_SIZE,     \* bytes of a size_t: 4 or 8
  NSMALLBINS       \* number of small bins, one granule apart

ASSUME AddrMaxAssumption == AddrMax \in Nat
ASSUME SizeTAssumption == SIZE_T_SIZE \in {4, 8}
ASSUME SmallBinsAssumption == NSMALLBINS \in Nat /\ NSMALLBINS >= SIZE_T_SIZE

MALLOC_ALIGNMENT == 8
CHUNK_OVERHEAD == SIZE_T_SIZE

(* A struct malloc_chunk is two sizes and two links of a word each.        *)
MIN_CHUNK_SIZE == (4 * SIZE_T_SIZE) \div MALLOC_ALIGNMENT

Addr == 0 .. AddrMax

(* The distance in granules from a chunk to the memory it gives the user.  *)
TWO_SIZE_T_SIZES == (2 * SIZE_T_SIZE) \div MALLOC_ALIGNMENT
chunk2mem(p) == p + TWO_SIZE_T_SIZES
mem2chunk(a) == a - TWO_SIZE_T_SIZES

(* Bytes of a request to granules of the chunk that serves it.             *)
MIN_REQUEST == MIN_CHUNK_SIZE * MALLOC_ALIGNMENT - CHUNK_OVERHEAD - 1
MAX_SMALL_REQUEST == NSMALLBINS * MALLOC_ALIGNMENT - 1
                       - (MALLOC_ALIGNMENT - 1) - CHUNK_OVERHEAD
pad_request(req) ==
  (req + CHUNK_OVERHEAD + MALLOC_ALIGNMENT - 1) \div MALLOC_ALIGNMENT
request2size(req) ==
  IF req < MIN_REQUEST THEN MIN_CHUNK_SIZE ELSE pad_request(req)

-----------------------------------------------------------------------------
(* size[a] is the size in the head at a, 0 when no live head is there; cin *)
(* and pin are the addresses whose head has CINUSE_BIT and PINUSE_BIT set; *)
(* foot[a] is prev_foot of a, 0 when it is not live.                       *)
Tags == [size : [Addr -> Nat], cin : SUBSET Addr, pin : SUBSET Addr,
         foot : [Addr -> Nat]]

Body(p, s) == {a \in Addr : p < a /\ a < p + s}

HeadWritten(t, p, s) ==
  [a \in Addr |-> IF a = p THEN s ELSE IF a \in Body(p, s) THEN 0 ELSE t.size[a]]

FeetOfInuse(t, p, s) ==
  [a \in Addr |-> IF a \in Body(p, s) \/ a = p + s THEN 0 ELSE t.foot[a]]
FeetOfFree(t, p, s) ==
  [a \in Addr |-> IF a = p + s THEN s ELSE IF a \in Body(p, s) THEN 0 ELSE t.foot[a]]

set_size_and_pinuse_of_inuse_chunk(t, p, s) ==
  [size |-> HeadWritten(t, p, s),
   cin  |-> (t.cin \ Body(p, s)) \cup {p},
   pin  |-> (t.pin \ Body(p, s)) \cup {p},
   foot |-> FeetOfInuse(t, p, s)]

(* A slip: the next chunk is not told.                                     *)
set_inuse_and_pinuse_Alone(t, p, s) == set_size_and_pinuse_of_inuse_chunk(t, p, s)

set_inuse_and_pinuse(t, p, s) ==
  [size |-> HeadWritten(t, p, s),
   cin  |-> (t.cin \ Body(p, s)) \cup {p},
   pin  |-> (t.pin \ Body(p, s)) \cup {p, p + s},
   foot |-> FeetOfInuse(t, p, s)]

(* Leaves the pinuse bit of p as it is.                                    *)
set_inuse(t, p, s) ==
  [size |-> HeadWritten(t, p, s),
   cin  |-> (t.cin \ Body(p, s)) \cup {p},
   pin  |-> (t.pin \ Body(p, s)) \cup {p + s},
   foot |-> FeetOfInuse(t, p, s)]

set_size_and_pinuse_of_free_chunk(t, p, s) ==
  [size |-> HeadWritten(t, p, s),
   cin  |-> t.cin \ (Body(p, s) \cup {p}),
   pin  |-> (t.pin \ Body(p, s)) \cup {p},
   foot |-> FeetOfFree(t, p, s)]

(* A slip: the next chunk is not told.                                     *)
set_free_with_pinuse_Alone(t, p, s, n) == set_size_and_pinuse_of_free_chunk(t, p, s)

set_free_with_pinuse(t, p, s, n) ==
  set_size_and_pinuse_of_free_chunk([t EXCEPT !.pin = @ \ {n}], p, s)

(* p->head = s | PINUSE_BIT: the top chunk has no foot.                    *)
set_top_head(t, p, s) ==
  [size |-> HeadWritten(t, p, s),
   cin  |-> t.cin \ (Body(p, s) \cup {p}),
   pin  |-> (t.pin \ Body(p, s)) \cup {p},
   foot |-> [a \in Addr |-> IF a \in Body(p, s) THEN 0 ELSE t.foot[a]]]
=============================================================================
