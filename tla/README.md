# A verification of mmdata

mmdata lets one program build complex data (strings, vectors, hash maps) inside
a memory-mapped file and lets other programs map that file and use the data as
it lies there.  What makes this work is a heap that lives *in* the file: a
modified dlmalloc 2.8.3 in its `mspace` form, whose internal pointers are
offsets.  This directory holds TLA+ modules that model the code, TLC
configurations that check them on small instances, and proofs for every
instance that TLAPS checks.

    tlc -config MCHeap32.cfg MCMspace        (and the other cfg files)
    tlapm MspaceProofs.tla                   (and the other *Proofs modules)

## The system

| part | source | state | operations |
|---|---|---|---|
| mspace | `src/src/malloc.cpp` | `malloc_state` (bins, bin maps, dv, top, trim and release counters, `exts`) and the boundary tags of the chunks of one segment | `create_mspace_with_base`, `mspace_malloc/free/realloc/calloc/memalign/independent_*`, `mspace_trim`, `mspace_inc_size`, `mspace_used`, `mspace_top_address` |
| bins | `malloc.cpp` | the circular lists of the small bins, the tries of the large ones, with a chain for chunks of one size | `insert_chunk`, `unlink_chunk`, `unlink_first_small_chunk`, the searches of `tmalloc_large` and `tmalloc_small`, `bin_find`, `compute_tree_index` |
| process-wide parameters | `malloc.cpp` (`pmparams`) | a pointer to the `malloc_params` of the image created last | `init_mparams`, `mspace_mallopt` |
| mapped file | `mmap.cpp`, `mmap.hpp` | `MMapBuf`: `buf`, `size`; the file and its size | `OpenRead`, `OpenWrite`, `Close`, destructor |
| image | `mmdata.hpp`, `mmdata.cpp` | `Meta` at the start of the image (size, offset of the mspace, root object, naming table); `MMFileData`: file name, size, `readonly_` | `LoadRootWriteObject`, `LoadRootReadObject`, `CreateAllocator`, `ShrinkToFit`, `New`, `Delete`, `NewNamingObject`, `GetNamingObject`, `DeleteNamingObject` |
| allocator of the containers | `allocator.hpp`, `common_types.hpp` | an offset pointer to the image, or null | `allocate`, `deallocate`, `realloc`, copy, assignment, `used_space` |
| builder | `mmdata_util.hpp`, `mmdata_kcfg.hpp` | the destination image, a line of JSON | `DataImageBuilder::Build`, `Parse`, `Serialize` |
| registry | `mmdata_util.cpp` | a map from names to functions | `HelperFuncRegister`, the `Get...ByName` |

Containers call `Allocator<T>`, which finds the mspace through `Meta` and calls
`mspace_malloc` and `mspace_free`.  `MMFileData` maps a file, places `Meta`, the
`malloc_params` and the mspace in it (`CreateAllocator`), and constructs the
root container.  `ShrinkToFit` asks `Allocator::used_space` where the top chunk
begins, unmaps, and truncates the file there.  A reader maps the file and casts
the root object.

The library takes no locks (`USE_LOCKS` is 0).  One thread builds an image, so
the hard part of the heap is not interleaving but *long sequences of legal
calls*: each call leaves redundant data (the size in a head and in a foot, the
pinuse bit of the next chunk, the bin, the map bit of the bin, dv, top,
`exts`) that calls much later rely on.  Concurrency enters with the file:
processes that map it while it is rebuilt, cut, or left by a builder that died;
and with the pointers that outlive a mapping (`pmparams`, `MMapBuf::buf`).

What makes each part correct:

* **mspace** - chunks tile the segment; tags agree; free chunks are coalesced and
  each is in the one bin of its size; blocks in use are exactly those held, and
  are large enough; NULL is returned only when nothing fits; no run-time check
  fails; the count of used bytes is right; nothing held lies above top.
- **mapped file, image** - an object unmaps only what it mapped and uses only
  what is mapped; a reader gets a complete image; a failed open leaves no state
  that a retry takes for success; a failed rebuild does not destroy an image.
- **naming table** - a name is bound to the object created under it, or to none.
- **allocator** - everything reachable from the root lies in the image.
- **builder, conversion** - every valid line is inserted, an invalid one leaves
  nothing behind, and what is written is read back; `Build` ends with its file
  closed, and an answer means a whole image.
- **bins** - lists and tries hold the chunks that were put there and no others,
  and a search that follows one path finds the best fit there is.

## Modules

| module | models |
|---|---|
| `BoundaryTags` | a chunk's head, foot, `CINUSE_BIT`, `PINUSE_BIT`; the macros that write them; `request2size` and the sizes it rests on |
| `Bins` | small bins, tree bins, bin maps; insert, unlink, `compute_tree_index`, best fit |
| `Mspace` | the `malloc_state`; one operator per path of `mspace_malloc`, `mspace_free`, `internal_realloc`, `sys_trim`, `mspace_inc_size`; one action per call |
| `MspaceProps` | the invariants; the refinement mapping to `AbstractHeap` |
| `MspaceAlign` | `internal_memalign`, `ialloc`, `mspace_calloc` and the calls made of them, as further actions over `Mspace` |
| `AbstractHeap` | what an mspace promises: blocks that never overlap and never move by themselves |
| `MMFile` | image files, the processes that map them, `MMapBuf` and `MMFileData` |
| `MspaceCreate` | `CreateAllocator`, `create_mspace_with_base`, `init_mparams`, `mspace_mallopt`: sizes and addresses in bytes, several memories, a restart of the process |
| `BinStore` | what the bins promise: the sets of `Bins`, with insert and unlink as steps |
| `BinLinks` | the links of lists, tries and chains, and the searches; it implements `BinStore` |
| `BinIndexing` | the tree index of a size and its inverses, with the widths of the program: operators and what they owe each other, no state |
| `MMData` | `MMData` and its naming table, `Allocator<T>` and the heap that serves it, allocations and constructors that throw |
| `Builder` | `DataImageBuilder::Build` as steps over `MMFile`, into a file or a buffer |
| `Kcfg` | `Parse` and `Serialize` of every container |
| `MCMspace`, `MCMspaceAlign`, `MCMMFile`, `MCMspaceCreate`, `MCBinLinks`, `MCMMData`, `MCBuilder`, `MCKcfg` | the instances for TLC |
| `TagsProofs` | lemmas on the operations of `BoundaryTags` and `Bins`; tree bins are in the order of their sizes, and searches of them find what fits; sums over a finite set |
| `RoutineProofs` | the routines preserve the well-formed heap, do what they promise, and count what is in use |
| `MspaceProofs` | the inductive invariant of an mspace, its theorems, and the refinement |
| `MspaceAlignProofs` | the same for memalign, calloc and the `independent_` calls among the others; the count of used bytes |
| `MspaceCreateProofs` | where creation lays an mspace out, for every memory |
| `MMFileProofs`, `BuilderProofs` | files and their readers; `Build` over them |
| `MMDataProofs` | who owns the blocks of an image |

How state corresponds to code.  `ms` is the `malloc_state` together with the
tags in the memory it manages (`ms.tags`): `size[a]` is `chunksize` of the head
at `a`, 0 when no live head is there; `cin` and `pin` are the addresses whose
head has `CINUSE_BIT` and `PINUSE_BIT`; `foot[a]` is `prev_foot`.  `ms.bins`
holds `smallmap`, `treemap`, `smallbins`, `treebins`.  `top`, `topsize`, `dv`,
`dvsize`, `exts`, `seg_size`, `trim_check`, `release_checks` are the fields of
these names, `seg_size` being `seg.size`.  `aborted` is set where the code
calls `ABORT`.  `held` is not in the code: it is what the caller was given and
has not given back.

In `MMFile`, `file[f]` is a file and what it holds of an image; `map[p]` the
address space of process `p`; `obj[h]` the fields of an `MMFileData` (`buf`,
`size`, `readonly`, and `space` of its allocator) with `phase`, how far its
caller has come; `pmparams[p]` the pointer of that name.  `LoadRootWriteObject`,
`LoadRootReadObject` and `ShrinkToFit` are cut between the system calls
(`ftruncate` | `mmap` | creation of the heap; `fstat` | `mmap`; `munmap` |
`truncate`), where another process can come between; `open`, `mmap` and
`truncate` may fail, and a process may die before any step.  `built`, `promised`
and `faulted` are not in the code: what a finished build left, whether a reader
may count on it, and who touched memory that is gone.  The heap of an image is
reduced to the number of its items and where top begins; that nothing in use
lies above top is `TruncationKeepsHeld` of `Mspace`.

In `MspaceCreate` memory `m` lies at `Base[m]`; `params[m]` is the
`malloc_params` behind its `Meta` (`params[NULL]` is `default_mparams`),
`pmparams` the pointer, `mstate[m]` what `init_user_mstate` and `init_top`
wrote.  `accepted` is not in the code: the memories for which `CreateAllocator`
did not answer that they are too small; nor is `settings`, what was last set
with `mspace_mallopt`.

In `BinLinks` `links` has the fields `fd`, `bk`, `child`, `parent` and `index`
of every chunk, the headers of the small bins, the roots and the two maps;
`size[c]` is the size with which `c` was inserted, 0 while it is the user's.
The links of a chunk that is the user's are `Garbage`, so that a link that is
followed or written there shows.  `Held` reads the links as the code does and is
the refinement mapping to `BinStore`, whose steps are the operators that
`Mspace` uses: with `Mspace`, in which a bin is a set, `BinLinks` makes up the
whole heap.

In `MMData` `meta_[d]` and `allocator_[d]` are the members of `MMData`;
`image[m]` the two tables of memory `m`; `live` the blocks in use, each of one
heap: that of a memory or that of the process.  An entry has a block for its
node and, if its key is long, one for the text of the key.  `mine` and `left`
are not in the code: the objects that callers have, and those that a constructor
that threw left allocated.

`Builder` takes the actions of `MMFile` for the object `mfile` of `Build`;
`job.at` is where the thread is, `buffer` the memory that it may be given in
place of a file.  In `Kcfg` `calls` is the stack of calls of `Parse`, each with
the member it is at and the value it fills; a step is a turn of a loop.  A
document is a tree of kinds and names; what a name is converted to is a
parameter (`LexicalCast`, `KeyText`, `CString`), chosen so that names collide,
fail to convert, and are cut at a NUL.

Abstractions, all of data:

* Addresses and chunk sizes count granules of `MALLOC_ALIGNMENT` (8) bytes, as
  every chunk address and size is a multiple of it; requests are in bytes.
* A bin is the set of its chunks.  In which order a list or a trie yields chunks
  is left open: an operator returns the *set* of the results the order may
  give, so that what holds in the model holds whatever the order is.
* A macro that delimits a chunk erases the tags inside it: that memory is
  payload or garbage.  A tag read from there is 0, which no live chunk has, so
  that a stale read is caught and never passes for a valid one.
* Branches that only a mapped chunk, a second segment or a non-extern segment
  reach are left out; the mspaces of mmdata have none (see below).
* In `BinLinks` sizes are in granules, and a trie branches on the bits of the
  size from `bit_for_tree_index` down, as shifting the key left does.  Checks
  that an address lies in the heap (`ok_address`) are left out: every link that
  is followed is one to a chunk, or `Garbage`.
* In `BinIndexing` a word is the set of its bits, so that 64-bit sizes are exact.
  `BinLinks` has trees of small sizes: `IndexIsExact` there also says that the index
  of every chunk, and the bit its tree branches on, are what `BinIndexing` computes
  for the size scaled as in the program (`InProgram`).
* `mspace_mallopt` has the options that an mspace uses: `M_MMAP_THRESHOLD` is
  left out, as an mspace has no mmapped chunks.
* In `MspaceAlign` sums of element sizes stay below a `size_t`; the product of
  `mspace_calloc` does wrap.  Alignments are at most 2^15 (`PowersOf2`) and far below
  `MAX_REQUEST`.
* In `MMFile` a place in an address space (`Slots`) holds a whole mapping: two
  mappings share an address if and only if they have the same slot.  Creating
  the heap and the root is one step: until `ShrinkToFit` returns an image is
  unfinished anyhow, and nothing is claimed of it.

## Runs

| run | what it explores | distinct states |
|---|---|---|
| `heap32` | malloc of 1, 32 and 60 bytes and free, 4-byte words, 18 granules: small and large requests, dv, both kinds of bins, top, exhaustion | 45727 |
| `heap64` | 8-byte words (a chunk is four words, a remainder may be too small), with all four outcomes of realloc, `mspace_inc_size`, trims, and requests beyond `MAX_REQUEST`, on 16 granules that may become 20; the refinement of `AbstractHeap` | 65808 |
| `align` | memalign with and without a leader and a trailer, calloc with zero, fitting and overflowing products, independent blocks with and without an array | 42791 |
| `image` | one process that builds, shrinks, dies, builds again, one that reads with two objects; callers heed NULL and shrink once, and may read what they build before they go on | 199267 |
| `create` | creation, attachment, options and restarts in three memories, of 8191, 8192 and 20000 bytes | 930004 |
| `bins` | four chunks in two small bins and three trees, one of them with three levels of branches, inserted and unlinked in every order: lists, chains, replaced roots and inner nodes; the refinement of `BinStore`; and all pairs of sizes of one or two bits below 2^40 | 150675 |
| `naming` | two `MMData`, a memory and one that is too small, a short and a long name, four blocks to a heap | 461052 |
| `build` | `Build` of up to three lines into a file or a buffer, beside a reader, with crashes; that it ends | 399706 |
| `kcfg` | documents of up to three members against four nested types, into empty and full values; written and read back; that `Parse` ends | 256774 |
| `used` | the count of used bytes with a realloc into top: **violated** | |
| `params` | two images built in one process: `ParamsStayMapped` **violated** | |
| `readmekeys` | keys made as in the README: `SelfContained` **violated** | |

What the passing runs check:

| run | properties |
|---|---|
| `heap32` | tags agree, free chunks are merged and each is in its bin, no run-time check fails; an empty heap is the one that was created; NULL only when nothing fits |
| `heap64` | chunks tile the segment, little is wasted, an image can be cut at top, the segment follows top; the mspace implements `AbstractHeap` |
| `align` | `CutsKeepTheHeap`: pieces that are cut from a chunk leave the heap well-formed; blocks are those held, aligned as asked (`AlignedAsAsked`); the count of used bytes is exact |
| `image` | a promised reader has its image; nobody touches memory that is gone (`NoFault`); a root was constructed; every mapping has an object that will unmap it |
| `create` | what is written lies in the memory; top is a chunk; what is accepted has an mspace; parameters that a trim divides by are sane |
| `bins` | lists, tries and chains are as the `DEBUG` checks assert, searches on one path are exact, no memory of the user is written, `BinStore` is implemented; the index of a tree is in range, in order, tells paths apart, and is that of every compiler (`BinsWellFormed`, `SearchIsExact`, `UserMemoryUntouched`, `IndexIsExact`, `ImplementsStore`) |
| `naming` | an image refers to nothing outside it; names are bound to their objects and keep them; nothing else leaks or is freed twice (`SelfContained`, `NamesBindTheirObjects`, `NothingElseLeaks`, `NamesKeepTheirObjects`) |
| `build` | an answer means a whole image; nothing stays mapped; `Build` ends (`AnsweredMeansBuilt`, `NothingStaysMapped`) |
| `kcfg` | what is accepted is what the document means; nothing is left half parsed; what is written is read back; `Parse` returns (`ParsedAsMeant`, `NothingHalfParsed`, `RoundTrip`) |

An invariant of `Mspace` is in one run: `heap32`, `heap64` and `align` divide them,
and those that are proved hold in all three.

Every passing run is a complete exploration: the memory is finite, and a call
that does not fit answers NULL.  The bounds are chosen by what must happen: `heap32` has
room for five blocks, so that a free chunk can lie between two others of every
kind (in use, small bin, tree bin, dv, top); `NSMALLBINS` is lowered to 8 (4 in
`align`) so that chunks of the tree bins are a few granules long;
`TRIM_THRESHOLD` is below the initial top so that freeing into top trims;
`MAX_RELEASE_CHECK_RATE` is 2 so that the countdown runs out and starts again.
`SIZE_T_MOD` bounds a `size_t`: 36 in `heap64`, so that a request of 600000
bytes is beyond `MAX_REQUEST`, and 32 in `align`, so that products wrap.

For the files: an image has two items at most and a file of five units holds
them with room to spare, so that a build can fill up, be cut and be made again
with fewer items; one unit is too small for an allocator, and 0 no size; two
slots let a mapping come to lie where another was.  Slots, and the two readers,
are interchangeable in every definition, which `SYMMETRY` uses.  The properties
of `image` are about callers like the test program's (`Careful`): one object at
a time in the process that builds, and one builder of a file at a time, as the
code has no lock.  `ReaderSeesImage` covers a reader until the next build of its
file begins.  `build` has no such rule: there the order is that of the code.

For the bins: four chunks are enough for a list with a middle, a chain of three
beside a node, and a root whose replacement comes from two levels below it.
`NSMALLBINS` is 4 there, so that a tree of eight sizes has the least sizes for
which three bits are branched on; of the eight, four are used.  Chunks are
interchangeable (`SYMMETRY`).  For the tree index the bits that are set lie at
the edges of the definition: below the shift, at 2^8, at the limit of 2^24 from
which all is in the last tree, and at the top.

For the naming table: two objects, so that one may be on memory that the other
made; four blocks, so that a second long name runs out of memory in the middle.
For `Build`: a file may be large enough for all its lines, for some, or be
refused.  For `Kcfg`: three members, so that there is one before and one behind
a member that fails, and two spellings of one key.

### Fairness

A call of the heap or of `MMData` is one step that always ends, and nothing
obliges a caller to call: those specifications state no fairness.  Two do.
`Kcfg` has `WF_vars(Step)` and `Builder` has `WF_bvars(BuildStep)`: the thread
that is in `Parse` or in `Build` goes on, as the code takes no lock and waits for
nobody.  Nothing is assumed of readers, of crashes, or of an allocation that
throws.  Under it `ParseReturns` and `BuildEnds` hold: every loop steps on,
whatever the document, and `Build` comes to its destructors on every path.  The
source that `Build` reads is finite (`MaxLines`).

### Findings

`params`: `create_mspace_with_base` points `pmparams` into the newest image
(`malloc.cpp:4890`).  With two images in one process it dangles when the newest
is unmapped, and `sys_trim` for the other reads it (`malloc.cpp:3911`).

`used`: `internal_realloc` that expands a chunk into top (`malloc.cpp:4139-4150`)
sets the new size and leaves `exts` as it was.  `mspace_used` returns `exts`, in
place of the traversal that stands beside it as a comment (`5356-5382`).  After
such a realloc it returns too little; freeing the block then subtracts the new
size, so the counter goes below zero and wraps.  Without realloc
(`align`) `UsedIsExact` holds, and it is proved (`UsedCounts`) that this path is the
only one that breaks it.

`readmekeys`: the README's `SHMString key;` has an allocator without a space, and
its copy in the table too: a long key lies in the heap of the builder.

### Further instances

These configurations are kept beside the runs.  Each checks one property that the
code does not have, and TLC ends it with a counterexample (`MCTebibyte.cfg`, whose
property is about operators only, with "equal to FALSE").  The passing runs of the
same modules leave out the step or the environment that is named here.

`MCReload.cfg`: `LoadRootWriteObject` returns NULL when `CreateAllocator` refuses the
size, but the file stays mapped; the next call takes `databuf_.buf != NULL` for
success (`mmdata.hpp:178`) and returns a root on which no constructor ran.

`MCReshrink.cfg`: `ShrinkToFit` means to refuse an object that is not open
(`mmdata.cpp:79-83`), but `MMapBuf::Close` leaves `buf`, so after a first
`ShrinkToFit` the test passes and `used_space` reads unmapped memory.  The
destructor unmaps a second time for the same reason, which harms a process that
has mapped something there since.

`MCPages.cfg`: `CreateAllocator` compares the size with two pages of 4096
(`mmdata.cpp:52-55`), then offers whole pages of the machine and does not look
at what `create_mspace_with_base` answers: with pages of 64 KiB it accepts memory
in which there is no mspace.

`MCDirty.cfg`: only `Meta` is zeroed.  A `malloc_params` with a `page_size` is kept as it
is (`malloc.cpp:2876`), and the check that its sizes are powers of two is in the
branch that makes a new one.

`MCMisaligned.cfg`: the end of the segment is not aligned (`malloc.cpp:4890`); the head
of the first top loses the low bits of its size.

`MCMallopt.cfg`: an option is set in the `malloc_params` of the memory used last; the
next image has the defaults.

`MCTaken.cfg`: `NewNamingObject` inserts the name before it makes the object
(`mmdata.hpp:104`); when that throws the name is a duplicate from then on.

`MCBuildNull.cfg`: `Build` does not look whether it has a root and inserts through NULL.

`MCParent.cfg`: the root of a tree is its own parent, and keeps the parent of the root
that it replaces, against `assert(u->parent != u)` (`malloc.cpp:3105`).
`UserMemoryUntouched` shows that nothing follows that link.

`MCTebibyte.cfg`: on x86 `compute_tree_index` cuts the shifted size to 32 bits
(`malloc.cpp:2643`): a chunk of 2^40 bytes is in the tree of the least sizes.

## Proofs

All theorems hold for every value of the constants that the assumptions of the
modules admit.  An inductive invariant stands behind each; TLC checked each of
them on the instance of a run before it was proved.

### The mspace

`MspaceProofs`, for every segment, request size, word size and number of small
bins:

| theorem | says |
|---|---|
| `Inductive` | `Spec => []IInv` |
| `TypeCorrect` | `[]TypeOK` |
| `WellFormed` | `[](Tiling /\ BoundaryTagsAgree /\ NoAdjacentFree /\ BinnedExactly)` |
| `TagsStayTrue`, `FreeChunksStayApart`, `FreeChunksStayBinned` | the last three of them each |
| `BlocksIntact` | `[]HeldIntact` |
| `LittleIsWasted` | `[]WasteBounded` |
| `NoCheckFails` | `[]NeverAborts` |
| `SegmentEnd` | `[]SegmentEndsAfterTop` |
| `ImageCanBeCut` | `[]TruncationKeepsHeld` |
| `FreedIsWhole` | `[]FullCoalesce` |
| `NullMeansFull` | `[]NullOnlyWhenFull` |
| `IsAHeap` | `Heap!Spec`: the mspace implements `AbstractHeap` |

The inductive invariant `IInv` is: the state has its type; the heap is
well-formed (`HeapOK`: tiling, agreeing tags, no adjacent free chunks, top and dv
free and of their recorded sizes, bins exact); nothing aborted; `Promised`: the
chunks in use are those held, each with a size between what was asked and
`MIN_CHUNK_SIZE` more; the segment ends with top and its foot; and the chunk of
the `malloc_state` is as large as it was made.  None of the parts is inductive
alone: a free is right only because the tags it reads agree, which holds only
because all chunks tile the segment, and unlinking finds the neighbour only
because the bins are exact.  The last part is what `FullCoalesce` needs: that an
empty heap is the one that was created also says that its first chunk has not
grown.

The argument goes bottom up.  `TagsProofs` proves what each way of delimiting
chunks (make one in use, split, merge backward, merge forward, move top) does to
tiling, tags and coalescing, and that insert and unlink keep `HoldExactly` when
size and map agree.  `RoutineProofs` follows the paths of `mspace_free` and of
`mspace_malloc` and composes the two for realloc; each part ends in a statement of the
routine's effect (the heap is again well-formed, chunks in use are as before
plus or minus one).  `MspaceProofs` has one step per action.  For `IsAHeap` the
same lemmas say more of each action: a block that is got overlaps no other,
since chunks tile; the others stay where they are; and what top gives up or gets
is no block.  Each action is so a step of `AbstractHeap`, or a stutter.

`NullMeansFull` is about what a search leaves out.  `tmalloc_large` looks in the tree
of the request and in the next one that is not empty, which finds a chunk if there is
one only because later trees have larger chunks: `TagsProofs` proves that
`compute_tree_index` never decreases (`TreeIndexGrows`), from what it does with the
two highest bits of a size, and with it that where a search ends empty no chunk of
any tree is as large (`NothingLargeFits`).  The comparison with `dv` then loses
nothing: when `dv` is too small, `dvsize - nb` wraps to more than any chunk has.
The last tree has no upper bound, and the highest bit is sought only below it.

`MspaceAlignProofs` proves of `SpecAlign`, which has `mspace_memalign`, `mspace_calloc`
and the two `mspace_independent` calls as further steps:

| theorem | says |
|---|---|
| `CutsStayChunks` | `[]CutsKeepTheHeap` |
| `AlignmentHolds` | `[]AlignedAsAsked`, for every alignment up to 2^15 and every size |
| `AlignedIntact` | `[]HeldIntact` |
| `UsedCounts` | `[]UsedIsExact`, of behaviours with `[][NoneGrowsIntoTop]_vars` |
| `NoBlocksOverlap` | no two blocks that are held share a byte, and none reaches beyond the chunks of the segment |
| `AlignedIsAHeap` | `Heap!Spec` |

The invariant is `HeapInv(MIN_CHUNK_SIZE + 1)`, of which `IInv` is the case
`MIN_CHUNK_SIZE`: an aligned block keeps a rest of exactly one least chunk
(`size > nb + MIN_CHUNK_SIZE`, `malloc.cpp:4254`), so that `WasteBounded` does not hold of
it.  `CarveOK` follows the chunk through its cuts: the leader and the rest are
blocks of the caller for a moment, and are freed as such.  That there is room for
a leader of at least a chunk is `RoomToAlign` and `SpotIs`; that the place is
aligned to what was asked, and not only to the power of two it became, is
`PowersDivide`.  For calloc, `CallocBytesAre` says that the check of the overflow misses
none and refuses nothing that fits.

`ialloc` writes the heads of its pieces one after the other, the array of pointers
first, though it lies last: a fold.  `CutIs` says what the fold comes to: every
piece in use, whatever the order.  It is an induction over the number of writes, done
without an induction theorem: there is a greatest number for which it holds (`HasMax`),
and one write more is no exception.  `PiecesDivide` says that the pieces lie in a row,
each at least a chunk, from the chunk's first granule to its last, since what
`mspace_malloc` gave too much goes to the last piece; its places are sums of the sizes before
(`Totals`, `SumAdd`).  `DividedShape` and `DividedOK` say that a chunk in use that is
divided so leaves the heap well-formed.  `ialloc` writes `PINUSE_BIT` into every
piece; for the first one that is right because the chunk before a new one is in use
(`UsedBefore`), free chunks being merged.  That every piece has room for its bytes is
`ContentsFit`.  The step of `AbstractHeap` that gives out blocks takes a set of
them, of which most calls have one; a call of these has its pieces (`NewBlocksApart`).
`MCAlignHeap.cfg` checks this refinement on the instance of `align`.
The sums are those of natural numbers: `ialloc` does not check that they fit a
`size_t` (`malloc.cpp:4316-4335`), and `SumsAssumption` is that they do.

`UsedCounts` is about the finding of the run `used`.  `NoneGrowsIntoTop` says of a step
that it is no realloc of a chunk that is too small, in front of top, and that top has
room for (`malloc.cpp:4139`): the one path that leaves `exts` behind.  With it the
count is exact, and without it the run has the counterexample.  `CountExact` adds up the
sizes of the chunks in use.  The sums over finite sets of `TagsProofs` say what a chunk more,
one less, one cut or one divided does to it (`SumAdd`, `SumSame`, `SumUnion`), by
a least set that is an exception (`HasMinimal`).  `RoutineProofs` has one lemma for
each way that a routine changes the chunks in use (`CountGiven`, `CountTaken`, `CountCut`).
The code adds and subtracts in a `size_t`: `UsedInSegment` says that what is in use
is less than the segment, so that nothing wraps (`NoWrap`).

Assumptions are those of the modules: words are 4 or 8 bytes; a `malloc_state`
is at least a chunk long; segment and `size_t` are as large as the addresses; the
countdown's rate is positive; the sizes of an `independent_` call have a sum in a `size_t`.

### Creation

`MspaceCreateProofs` proves of `MspaceCreate`:

| theorem | says |
|---|---|
| `CreationStaysInMemory` | `AlignedBases` implies `Spec => []WrittenInMemory` |
| `FirstTopIsAChunk` | `AlignedBases` and pages that are a multiple of 8 imply `Spec => []TopIsAChunk` |
| `AcceptedMemoryHasAnMspace` | `Ordinary` implies `Spec => []AcceptedHasMspace` |
| `ParametersStaySane` | pages that are a power of 2 and memory that begins as zeros imply `Spec => []ParamsAreSane` |

`AlignedBases` says that memories begin at a multiple of 8, `Ordinary` that pages
are of 4096 bytes and memory begins as zeros: `MCMisaligned.cfg`, `MCPages.cfg` and
`MCDirty.cfg` show that none of the three can be left out.  The segment is longer than what is
left of the memory, since `base` is moved behind the `malloc_params` and
`capacity` is not; `Laid` says where the `malloc_state`, top and its foot come to
lie, and lemma `Foot` that `TOP_FOOT_SIZE` is larger than what is overrun.
`Laid` is inductive; for `AcceptedHasMspace` the invariant also says that the
parameters of a memory have either not been made or have pages of 4096
(`AInv`), which options and restarts keep.  `ParamsAreSane` needs that too, of
pages and granularity (`PInv`): an option may set the granularity only to what
passes the test of `change_mparam`, and `MCDirty.cfg` shows why the memory must be
clean.

### Files, readers, and `Build`

`MMFileProofs`, for any processes, objects, files and places to map them:

| theorem | under `CarefulCallers`, says |
|---|---|
| `FilesStaySafe` | `Spec => [](FileInv /\ NoFault)` |
| `ReadersSeeTheImage` | `[]ReaderSeesImage` |
| `NobodyFaults` | `[]NoFault` |
| `RootsStayConstructed` | `[]RootsAreConstructed` |
| `NothingMappedLeaks` | `[]NoMappingLeaks` |
| `ParamsStayForCareful` | `[]ParamsStayMapped` |

`CarefulCallers` is `Careful`, the constant of the module, and that a process
which builds has one object at a time.  None of it can be spared: `MCReload.cfg` and
`MCReshrink.cfg` are callers that are not careful, and the run `params` is a process
that builds two images, in which `ParamsStayMapped` fails.

What a reader sees depends on what other processes do to the file, so the
invariant `FileInv` speaks of all objects at once.  `HasMapping`, `Progress` and
`Promise` say what the phase of an object means: which mapping is its own, what
the file under it holds, what a promised reader may count on.  `OneWriter` and
`Apart` say that no two objects write one file and no two have one mapping, and
`Mine` that every mapping has an object that will unmap it.  `Progress` alone is
not inductive, as another process could truncate the file; with `OneWriter` it
is.  `OthersUnharmed` is the lemma the steps of a writer share: what it does to
its file harms only those to whom nothing is promised.

`BuilderProofs`, for `Build`:

| theorem | says |
|---|---|
| `AnswersAreBuilt` | `BuildersAlone => (BSpec => []AnsweredMeansBuilt)` |
| `EndedMeansUnmapped` | `BuildersAlone /\ OwnProcess => (BSpec => []NothingStaysMapped)` |

`Build` is not careful, since it ignores a NULL root, but what it touches then ends its
process; `FileInv` holds for it without `Careful`.  `JobInv` ties the place where
the thread stands to the phase of its object (`Stands`), and the entries it has
counted to the items of the image (`FileSoFar`, `BufferSoFar`).  `OwnProcess` says that
nobody else has objects in the process: `NothingStaysMapped` is about all of its
mappings, and those of others are not `Build`'s to unmap.

### The naming table

`MMDataProofs`, for any memories, names and number of `MMData`:

| theorem | says |
|---|---|
| `NamesStayBound` | `Spec => []NamesBindTheirObjects` |
| `NamesStayKept` | `Spec => NamesKeepTheirObjects`, an action property |
| `ImagesSelfContained` | `~DefaultKeys => (Spec => []SelfContained)` |
| `NothingIsLost` | `~DefaultKeys => (Spec => []NothingElseLeaks)` |

The invariant `MInv` is about owners: every block that an entry refers to is in
use and has no second owner, be it another entry, a caller, or a constructor
that threw (`Owned`), so that erasing or emptying a table frees nothing twice;
every block in use has an owner (`Accounted`); an entry's blocks lie in the memory
of its table (`Placed`); the object of an entry was made under its name (`Named`).
The last two theorems need keys that are made with the allocator of the image.
That is no assumption of convenience: the keys of the README's example are not
(`DefaultKeys`), and the run `readmekeys` shows what becomes of them.

### Only model-checked

* Everything about `BinLinks`, `BinIndexing` and `Kcfg`: the tries and the documents
  are walked by recursive operators, which the prover does not take.
* `BuildEnds` and `ParseReturns`: liveness under fairness.

Where a proof needs an induction (sums over sets, a fold, the place of the highest bit) it is
by a least counterexample (`HasMinimal`, `HasMax`, `LeastIndexIn`), since the theorems of
the library on induction take an operator as a parameter, which no installed prover can
instantiate.

## Not modelled

* `sys_alloc`, `add_segment`, `prepend_alloc`, `mmap_alloc`: `mspace_malloc`
  returns NULL where dlmalloc calls `sys_alloc`, and nothing else reaches them.
* `dl*` functions: compiled out (`ONLY_MSPACES`).
* statistics (`mallinfo`, `malloc_stats`): output only.
* the `DEBUG` checks other than `bin_find`: not code that runs, but what they
  assert is in `MspaceProps` and `BinLinks`.
* `create_mspace` and `Allocator::realloc`: nothing calls them.
* `HelperFuncRegister` and the three lookups by name: a map that static objects
  fill before `main`.  One thing in it is odd: a name registered without a build
  function is taken for new (`mmdata_util.cpp:53-54`) and may be registered again.
* `WriteListToJson`: output to a file.  The JSON library, `lexical_cast`, the
  boost containers and the system calls are modelled by how the code uses them.
* the Makefile and the test programs: read for how the library is used.

## Plan

What is left, in order of what matters:

1. That `BinStore` keeps `HoldExactly`, from the lemmas of `TagsProofs`.
2. An abstract specification above `MMFile` and `Builder`, a store of complete
   images with readers, and the refinement.
