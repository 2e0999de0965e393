------------------------------ MODULE BinLinks ------------------------------
(***************************************************************************)
(* The links of the bins of an mspace: the circular lists of the small     *)
(* bins, and the tries of the large ones, in which a node heads a chain of *)
(* chunks of its size (malloc.cpp, "Operations on smallbins", "Operations  *)
(* on trees", tmalloc_large and tmalloc_small).                            *)
(*                                                                         *)
(* A chunk that is in no bin is the user's, and its links are Garbage: who *)
(* follows one is lost.  Sizes are in granules, and a key of a trie is     *)
(* read bit by bit from the first that the sizes of its bin do not share.  *)
(***************************************************************************)
EXTENDS BinIndexing

CONSTANTS
  Chunks,     \* free chunks, in a bin or not
  Sizes,      \* their sizes
  NULL, Garbage

ASSUME SizesAssumption == Sizes \subseteq Nat \ {0} /\ {NULL, Garbage} \cap Chunks = {}
ASSUME PowerOfTwo == NSMALLBINS = 2 ^ HighestBit(NSMALLBINS)

VARIABLES
  size,    \* size[c]: the size with which c was inserted, 0 in no bin
  links    \* fd, bk, child, parent, index of chunks; the roots and the maps
vars == <<size, links>>

-----------------------------------------------------------------------------
(* The header of small bin i is a node of its list.                        *)
smallbin_at(i) == -1 - i
Headers == {smallbin_at(i) : i \in SmallIndex}

Init ==
  /\ size = [c \in Chunks |-> 0]
  /\ links = [fd |-> [c \in Chunks \cup Headers |-> IF c \in Chunks THEN Garbage ELSE c],
              bk |-> [c \in Chunks \cup Headers |-> IF c \in Chunks THEN Garbage ELSE c],
              child |-> [c \in Chunks |-> [b \in 0 .. 1 |-> Garbage]],
              parent |-> [c \in Chunks |-> Garbage],
              index |-> [c \in Chunks |-> Garbage],
              treebin |-> [i \in TreeIndex |-> NULL],
              smallmap |-> {}, treemap |-> {}]

-----------------------------------------------------------------------------
(* The highest bit that sizes of tree bin i may differ in; a branch after  *)
(* d others is taken by bit d below it.                                    *)
bit_for_tree_index(i) == (i \div 2) + HighestBit(NSMALLBINS) - 2
Branch(s, i, d) ==
  LET b == bit_for_tree_index(i) - d IN IF b < 0 THEN 0 ELSE (s \div 2 ^ b) % 2

SmallInserted(l, p, s) ==
  LET i == small_index(s)
      B == smallbin_at(i)
      F == IF i \in l.smallmap THEN l.fd[B] ELSE B
  IN  [l EXCEPT !.smallmap = @ \cup {i},
                !.fd[B] = p, !.bk[F] = p, !.fd[p] = F, !.bk[p] = B]

SmallUnlinked(l, p, s) ==
  LET F == l.fd[p]
      B == l.bk[p]
  IN  IF F = B THEN [l EXCEPT !.smallmap = @ \ {small_index(s)}]
      ELSE [l EXCEPT !.bk[F] = B, !.fd[B] = F]

(* A slip: the bin is taken for empty.                                     *)
FirstUnlinked_Clears(l, i) == [l EXCEPT !.smallmap = @ \ {i}]

(* unlink_first_small_chunk: B is the header, p the first of its list.     *)
FirstUnlinked(l, i) ==
  LET B == smallbin_at(i)
      F == l.fd[l.fd[B]]
  IN  IF B = F THEN [l EXCEPT !.smallmap = @ \ {i}]
      ELSE [l EXCEPT !.fd[B] = F, !.bk[F] = B]

-----------------------------------------------------------------------------
(* Where s is inserted below t, d branches down in tree i: at a node of    *)
(* its size, or as a child that is missing.                                *)
RECURSIVE Place(_, _, _, _, _)
Place(l, t, s, i, d) ==
  LET next == l.child[t][Branch(s, i, d)] IN
  IF size[t] = s THEN [node |-> t, chain |-> TRUE, branch |-> 0]
  ELSE IF next = NULL THEN [node |-> t, chain |-> FALSE, branch |-> Branch(s, i, d)]
  ELSE Place(l, next, s, i, d + 1)

(* A root is its own parent.  In a chain only the first has a parent.      *)
LargeInserted(l0, x, s) ==
  LET i == compute_tree_index(s)
      l == [l0 EXCEPT !.index[x] = i, !.child[x] = [b \in 0 .. 1 |-> NULL]]
  IN  IF i \notin l.treemap
        THEN [l EXCEPT !.treemap = @ \cup {i}, !.treebin[i] = x,
                       !.parent[x] = x, !.fd[x] = x, !.bk[x] = x]
      ELSE LET place == Place(l, l.treebin[i], s, i, 0)
               t == place.node
               F == l.fd[t]
           IN  IF place.chain
                 THEN [l EXCEPT !.fd[t] = x, !.bk[F] = x, !.fd[x] = F, !.bk[x] = t,
                                !.parent[x] = NULL]
               ELSE [l EXCEPT !.child[t][place.branch] = x,
                              !.parent[x] = t, !.fd[x] = x, !.bk[x] = x]

(* The rightmost leaf below t, which hangs at a branch of a node.          *)
RECURSIVE RightmostLeaf(_, _, _)
RightmostLeaf(l, node, b) ==
  LET t == l.child[node][b] IN
  IF l.child[t][1] # NULL THEN RightmostLeaf(l, t, 1)
  ELSE IF l.child[t][0] # NULL THEN RightmostLeaf(l, t, 0)
  ELSE [leaf |-> t, node |-> node, branch |-> b]

(* A slip: the replacement is the child of x, wherever its leaves are.     *)
Replacement_Child(l, x) ==
  IF l.bk[x] # x
    THEN [node |-> l.bk[x],
          links |-> [l EXCEPT !.bk[l.fd[x]] = l.bk[x], !.fd[l.bk[x]] = l.fd[x]]]
  ELSE LET b == IF l.child[x][1] # NULL THEN 1 ELSE 0 IN
       [node |-> l.child[x][b], links |-> [l EXCEPT !.child[x][b] = NULL]]

(* Who takes the place of x in its tree, and the links without it: its     *)
(* predecessor in the chain, or a leaf below it, or nobody.                *)
Replacement(l, x) ==
  IF l.bk[x] # x
    THEN [node |-> l.bk[x],
          links |-> [l EXCEPT !.bk[l.fd[x]] = l.bk[x], !.fd[l.bk[x]] = l.fd[x]]]
  ELSE LET b == IF l.child[x][1] # NULL THEN 1 ELSE 0
           last == RightmostLeaf(l, x, b)
       IN  IF l.child[x][b] = NULL THEN [node |-> NULL, links |-> l]
           ELSE [node |-> last.leaf,
                 links |-> [l EXCEPT !.child[last.node][last.branch] = NULL]]

(* r hangs where x hung ...                                                *)
HungFor(l, x, r) ==
  LET i == l.index[x]
      XP == l.parent[x]
      side == IF l.child[XP][0] = x THEN 0 ELSE 1
  IN  IF l.treebin[i] = x
        THEN [l EXCEPT !.treebin[i] = r,
                       !.treemap = IF r = NULL THEN @ \ {i} ELSE @]
      ELSE [l EXCEPT !.child[XP][side] = r]

(* A slip: the children are not told of their new parent.                  *)
Adopted_Untold(l, x, r) ==
  LET kids == l.child[x] IN
  [l EXCEPT !.parent[r] = l.parent[x],
            !.child[r] = [b \in 0 .. 1 |-> IF kids[b] # NULL THEN kids[b] ELSE @[b]]]

(* ... and has the children that x had.                                    *)
Adopted(l, x, r) ==
  LET kids == l.child[x] IN
  [l EXCEPT !.parent = [c \in Chunks |-> IF c = r THEN l.parent[x]
                                         ELSE IF c \in {kids[0], kids[1]} THEN r
                                         ELSE @[c]],
            !.child[r] = [b \in 0 .. 1 |-> IF kids[b] # NULL THEN kids[b] ELSE @[b]]]

LargeUnlinked(l, x) ==
  LET repl == Replacement(l, x)
      r == repl.node
      hung == HungFor(repl.links, x, r)
  IN  IF l.parent[x] = NULL THEN repl.links
      ELSE IF r = NULL THEN hung
      ELSE Adopted(hung, x, r)

-----------------------------------------------------------------------------
(* The user has the chunk's memory.                                        *)
Forgotten(l, x) ==
  [l EXCEPT !.fd[x] = Garbage, !.bk[x] = Garbage, !.parent[x] = Garbage,
            !.index[x] = Garbage, !.child[x] = [b \in 0 .. 1 |-> Garbage]]

Insert(x, s) ==
  /\ size[x] = 0
  /\ links' = IF is_small(s) THEN SmallInserted(links, x, s) ELSE LargeInserted(links, x, s)
  /\ size' = [size EXCEPT ![x] = s]

Unlink(x) ==
  /\ size[x] # 0
  /\ links' = Forgotten(IF is_small(size[x]) THEN SmallUnlinked(links, x, size[x])
                        ELSE LargeUnlinked(links, x), x)
  /\ size' = [size EXCEPT ![x] = 0]

UnlinkFirst(i) ==
  LET p == links.fd[smallbin_at(i)] IN
  /\ i \in links.smallmap
  /\ links' = Forgotten(FirstUnlinked(links, i), p)
  /\ size' = [size EXCEPT ![p] = 0]

Next ==
  \/ \E x \in Chunks : Unlink(x) \/ \E s \in Sizes : Insert(x, s)
  \/ \E i \in SmallIndex : UnlinkFirst(i)

Spec == Init /\ [][Next]_vars

-----------------------------------------------------------------------------
(* The searches.  v is the best so far; a chunk that is too small leaves   *)
(* more, as an unsigned number, than there was.                            *)
Better(t, v, nb) == size[t] >= nb /\ (v = NULL \/ size[t] < size[v])
Best(t, v, nb) == IF Better(t, v, nb) THEN t ELSE v

leftmost_child(t) ==
  IF links.child[t][0] # NULL THEN links.child[t][0] ELSE links.child[t][1]

(* The least chunk from t along the left.                                  *)
RECURSIVE Leftmost(_, _, _)
Leftmost(t, v, nb) ==
  IF t = NULL THEN v ELSE Leftmost(leftmost_child(t), Best(t, v, nb), nb)

(* The deepest right subtree that is not taken: its sizes are above nb.    *)
Untaken(right, next, rst) == IF right # NULL /\ right # next THEN right ELSE rst

(* Down the tree along the bits of nb, to the end or to a chunk of size nb:*)
(* the best on the way, and from where the search goes on.                 *)
RECURSIVE Down(_, _, _, _, _, _)
Down(t, v, rst, i, d, nb) ==
  LET next == links.child[t][Branch(nb, i, d)]
      rest == Untaken(links.child[t][1], next, rst)
  IN  IF Better(t, v, nb) /\ size[t] = nb THEN [best |-> t, rest |-> t]
      ELSE IF next = NULL THEN [best |-> Best(t, v, nb), rest |-> rest]
      ELSE Down(next, Best(t, v, nb), rest, i, d + 1, nb)

(* A slip: the bit of the tree itself is left in the map.                  *)
NextRoot_Own(i) ==
  LET above == {j \in links.treemap : j >= i}
  IN  IF above = {} THEN NULL ELSE links.treebin[LeastIndex(above)]

(* The root of the next tree that is not empty.                            *)
NextRoot(i) ==
  LET above == {j \in links.treemap : j > i}
  IN  IF above = {} THEN NULL ELSE links.treebin[LeastIndex(above)]

tmalloc_large(nb) ==
  LET i == compute_tree_index(nb)
      end == IF links.treebin[i] = NULL THEN [best |-> NULL, rest |-> NULL]
             ELSE Down(links.treebin[i], NULL, NULL, i, 0, nb)
      t == IF end.best = NULL /\ end.rest = NULL THEN NextRoot(i) ELSE end.rest
  IN  Leftmost(t, end.best, nb)

tmalloc_small(nb) == Leftmost(links.treebin[LeastIndex(links.treemap)], NULL, nb)

(* bin_find: the chain of the size of x, down its tree.                    *)
RECURSIVE NodeOfSize(_, _, _, _)
NodeOfSize(t, s, i, d) ==
  IF t = NULL \/ size[t] = s THEN t
  ELSE NodeOfSize(links.child[t][Branch(s, i, d)], s, i, d + 1)

-----------------------------------------------------------------------------
(* What the links hold, read as the traversals of malloc.cpp read them.    *)
RECURSIVE Reached(_, _)
Reached(S, step) ==
  LET T == S \cup ((UNION {step[c] : c \in S}) \cap Chunks)
  IN  IF T = S THEN S ELSE Reached(T, step)

Listed(i) ==
  IF i \notin links.smallmap THEN {}
  ELSE Reached({links.fd[smallbin_at(i)]} \cap Chunks, [c \in Chunks |-> {links.fd[c]}])
Chain(t) == Reached({t}, [c \in Chunks |-> {links.fd[c]}])
Nodes(i) ==
  Reached({links.treebin[i]} \cap Chunks,
          [c \in Chunks |-> {links.child[c][0], links.child[c][1]}])
Below(t, b) ==
  Reached({links.child[t][b]} \cap Chunks,
          [c \in Chunks |-> {links.child[c][0], links.child[c][1]}])

Held ==
  [smallmap |-> links.smallmap, treemap |-> links.treemap,
   small |-> [i \in SmallIndex |-> Listed(i)],
   tree |-> [i \in TreeIndex |-> UNION {Chain(t) : t \in Nodes(i)}]]

-----------------------------------------------------------------------------
(* The lists and tries implement the sets of Bins: inserting a chunk adds  *)
(* it to its bin and loses none, unlinking one removes just that one, and  *)
(* a map bit is set as long as the bin holds a chunk (insert_chunk,        *)
(* unlink_chunk, unlink_first_small_chunk).                                *)
Store == INSTANCE BinStore WITH bins <- Held
ImplementsStore == Store!Spec

(* Only chunks in a bin are written: a chunk that the user has is not      *)
(* reached by any link that is followed, and no operation writes it        *)
(* through a link it kept (X->parent, F->bk, B->fd and C0->parent).        *)
UserMemoryUntouched ==
  \A c \in Chunks : size[c] = 0 =>
    /\ Garbage = links.fd[c] /\ Garbage = links.bk[c]
    /\ Garbage = links.parent[c] /\ Garbage = links.index[c]
    /\ \A b \in 0 .. 1 : links.child[c][b] = Garbage

(* do_check_smallbin: every chunk of a marked small bin has the size of    *)
(* the bin, and both links of neighbours agree.                            *)
SmallBinsWellFormed ==
  \A i \in links.smallmap :
    /\ \A c \in Listed(i) : size[c] = small_index(i)
    /\ \A c \in Listed(i) \cup {smallbin_at(i)} :
         links.bk[links.fd[c]] = c /\ links.fd[links.bk[c]] = c

(* do_check_tree, for the chain of a node: chunks of one size and index,   *)
(* linked both ways, of which only the node has a parent or children.      *)
ChainWellFormed(t, i) ==
  \A u \in Chain(t) :
    /\ links.index[u] = i /\ i = compute_tree_index(size[u]) /\ size[u] = size[t]
    /\ links.fd[u] \in Chunks /\ links.bk[links.fd[u]] = u
    /\ links.bk[u] \in Chunks /\ links.fd[links.bk[u]] = u
    /\ u # t => links.parent[u] = NULL /\ links.child[u] = [b \in 0 .. 1 |-> NULL]
    /\ u = t => links.parent[u] # NULL

(* do_check_tree: children know their parents, and what hangs on the left  *)
(* is less than what hangs on the right.                                   *)
NodeWellFormed(t) ==
  /\ \A b \in 0 .. 1 : links.child[t][b] # NULL =>
       links.child[t][b] # t /\ links.parent[links.child[t][b]] = t
  /\ \A c \in Below(t, 0), d \in Below(t, 1) : size[c] < size[d]

(* What do_check_tree asserts of every tree, but for the parent of a root, *)
(* in any order of insertions and removals, of nodes, of chained chunks    *)
(* and of inner nodes that a leaf or a chained chunk replaces.             *)
TreesWellFormed ==
  \A i \in TreeIndex :
    /\ (links.treebin[i] = NULL) <=> i \notin links.treemap
    /\ \A t \in Nodes(i) : ChainWellFormed(t, i) /\ NodeWellFormed(t)

(* tmalloc_large finds the tightest fit of its tree, or the least chunk of *)
(* the next, and nothing only when no chunk is large enough; tmalloc_small *)
(* finds the least chunk of the first tree.  Both follow a single path.    *)
SearchIsExact ==
  \A nb \in Sizes :
    IF is_small(nb)
      THEN links.treemap # {} =>
             tmalloc_small(nb) \in SmallFitInTree([size |-> size], Held, nb)
    ELSE LET fit == LargeFit([size |-> size], Held, nb)
         IN  IF fit = {} THEN tmalloc_large(nb) = NULL ELSE tmalloc_large(nb) \in fit

(* bin_find of a chunk that is in a bin: it is met on the list of its size *)
(* or, down the one path that its bits take, in the chain of its size.     *)
bin_find(x) ==
  IF is_small(size[x]) THEN x \in Listed(small_index(size[x]))
  ELSE LET i == compute_tree_index(size[x])
           t == NodeOfSize(links.treebin[i], size[x], i, 0)
       IN  i \in links.treemap /\ t # NULL /\ x \in Chain(t)

(* traverse_and_check: assert(bin_find(m, q)) for every free chunk that is *)
(* neither dv nor top.                                                     *)
FoundInBin == \A c \in Chunks : size[c] # 0 => bin_find(c)

(* All that the DEBUG checks assert of bins, but for the parent of a root: *)
(* lists, tries and chains are linked both ways, hold chunks of their      *)
(* sizes, and every chunk is where the bits of its size lead.              *)
BinsWellFormed == SmallBinsWellFormed /\ TreesWellFormed /\ FoundInBin

(* The size of a chunk in the program, where the least size in a tree is   *)
(* 2 ^ TREEBIN_SHIFT and not NSMALLBINS.                                   *)
InProgram(s) ==
  {k + TREEBIN_SHIFT - HighestBit(NSMALLBINS) : k \in {j \in 0 .. 15 : (s \div 2 ^ j) % 2 = 1}}

(* What tries and searches take for granted of compute_tree_index,         *)
(* bit_for_tree_index and minsize_for_tree_index, with the widths of the   *)
(* program; and the index that a chunk has and the bits that its tree      *)
(* branches on are those of its size in the program.                       *)
IndexIsExact ==
  /\ InRangeOfTree /\ TreesInOrder /\ PathsTellApart /\ IndexIsPortable
  /\ \A c \in Chunks : size[c] # 0 /\ ~is_small(size[c]) =>
       /\ links.index[c] = compute_tree_index_x86(InProgram(size[c]))
       /\ InProgram(2 ^ bit_for_tree_index(links.index[c])) =
            {top_bit_for_tree_index(links.index[c])}

(* assert(u->parent != u) of do_check_tree.                                *)
ParentIsAnother == \A i \in links.treemap : \A t \in Nodes(i) : links.parent[t] # t
=============================================================================
