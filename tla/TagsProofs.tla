----------------------------- MODULE TagsProofs -----------------------------
(***************************************************************************)
(* What the macros that delimit chunks do to the tiling of a segment: each *)
(* lemma is about one change of tags that a routine of malloc.cpp makes,   *)
(* for a segment of any size.  Before them, what requests, searches of the *)
(* trees and the operations on bins do, for every number of small bins and *)
(* either word size.                                                       *)
(***************************************************************************)
EXTENDS MspaceProps, FiniteSetTheorems, WellFoundedInduction, TLAPS

USE AddrMaxAssumption, SizeTAssumption, SmallBinsAssumption

(* The constants of a chunk, for 4-byte and for 8-byte sizes.              *)
LEMMA ChunkConstants ==
  /\ MIN_CHUNK_SIZE \in Nat /\ MIN_CHUNK_SIZE >= 2
  /\ SIZE_T_SIZE = 4 => MIN_CHUNK_SIZE = 2
  /\ TWO_SIZE_T_SIZES \in 1 .. 2 /\ TWO_SIZE_T_SIZES <= MIN_CHUNK_SIZE
  /\ CHUNK_OVERHEAD \in {4, 8} /\ MALLOC_ALIGNMENT = 8
  /\ TWO_SIZE_T_SIZES * 8 - CHUNK_OVERHEAD <= 8
  BY DEF MIN_CHUNK_SIZE, TWO_SIZE_T_SIZES, CHUNK_OVERHEAD, MALLOC_ALIGNMENT

(* A request is served by a chunk that has room for it and for its head.   *)
LEMMA RequestFits ==
  ASSUME NEW req \in Nat
  PROVE  /\ pad_request(req) \in Nat
         /\ request2size(req) \in Nat
         /\ request2size(req) >= MIN_CHUNK_SIZE
         /\ request2size(req) * MALLOC_ALIGNMENT - CHUNK_OVERHEAD >= req
         /\ pad_request(req) * MALLOC_ALIGNMENT - CHUNK_OVERHEAD >= req
  BY ChunkConstants DEF request2size, pad_request, MIN_REQUEST

(* A small request is served by a small chunk, a larger one by one that is *)
(* not.                                                                    *)
LEMMA SmallRequest ==
  ASSUME NEW req \in Nat
  PROVE  /\ req <= MAX_SMALL_REQUEST => request2size(req) < NSMALLBINS
         /\ req > MAX_SMALL_REQUEST => /\ pad_request(req) >= NSMALLBINS
                                       /\ request2size(req) = pad_request(req)
  BY ChunkConstants DEF request2size, pad_request, MIN_REQUEST, MAX_SMALL_REQUEST,
     MIN_CHUNK_SIZE

-----------------------------------------------------------------------------
(* In which bin a chunk is looked for, for every number of small bins:     *)
(* larger chunks are in later trees, and where a search of the trees finds *)
(* nothing there is nothing that fits.                                     *)

(* compute_tree_index yields the number of a tree bin.                     *)
LEMMA TreeIndexInRange ==
  ASSUME NEW s \in Nat, s >= NSMALLBINS
  PROVE  compute_tree_index(s) \in TreeIndex
  <1>1. HighestBit(s \div MIN_LARGE_SIZE) \in 0 .. 15
    <2> DEFINE P == {k \in 1 .. 15 : 2^k <= s \div MIN_LARGE_SIZE}
    <2>1. IsFiniteSet(1 .. 15) /\ Cardinality(1 .. 15) = 15
      <3>1. /\ IsFiniteSet(1 .. 15)
            /\ Cardinality(1 .. 15) = IF 1 > 15 THEN 0 ELSE 15 - 1 + 1
        BY 1 \in Int, 15 \in Int, FS_Interval, Zenon
      <3> QED
        BY <3>1
    <2>2. P \subseteq 1 .. 15
      OBVIOUS
    <2>3. Cardinality(P) \in Nat /\ Cardinality(P) <= 15
      BY <2>1, <2>2, FS_Subset, FS_CardinalityType
    <2> QED
      BY <2>3 DEF HighestBit
  <1> QED
    BY <1>1 DEF compute_tree_index, TreeIndex, NTREEBINS

(* A set of bin numbers that is not empty has a lowest one.                *)
LEMMA LeastIndexIn ==
  ASSUME NEW map \in SUBSET Nat, map # {}
  PROVE  LeastIndex(map) \in map /\ \A j \in map : LeastIndex(map) <= j
  <1> DEFINE Less == {ss \in Nat \X Nat : ss[1] < ss[2]}
  <1>1. IsWellFoundedOn(Less, Nat)
    BY NatLessThanWellFounded, Zenon DEF OpToRel
  <1>2. PICK i \in map : \A j \in map : ~ (<<j, i>> \in Less)
    BY <1>1, WFMin, Zenon
  <1>3. ASSUME NEW j \in map, j < i PROVE FALSE
    <2>1. <<j, i>> \in Less
      BY <1>3
    <2> QED
      BY <1>2, <2>1
  <1>4. \A j \in map : i <= j
    BY <1>3
  <1> QED
    BY <1>4 DEF LeastIndex

-----------------------------------------------------------------------------
(* Sums over a finite set: mspace_used is one, and so is what ialloc asks  *)
(* for.                                                                    *)

(* A family of finite sets has a member that no member is less than by one *)
(* element.                                                                *)
LEMMA HasMinimal ==
  ASSUME NEW C, C # {}, \A T \in C : IsFiniteSet(T)
  PROVE  \E T \in C : \A x \in T : T \ {x} \notin C
  <1> DEFINE N == {Cardinality(T) : T \in C}
             k == LeastIndex(N)
  <1>1. \A T \in C : Cardinality(T) \in Nat
    BY FS_CardinalityType
  <1>2. k \in N /\ \A j \in N : k <= j
    <2>1. N \in SUBSET Nat /\ N # {}
      BY <1>1
    <2> HIDE DEF N
    <2> QED
      BY <2>1, LeastIndexIn
  <1>3. PICK T \in C : Cardinality(T) = k
    BY <1>2
  <1> HIDE DEF k
  <1>4. ASSUME NEW x \in T, T \ {x} \in C PROVE FALSE
    <2>1. Cardinality(T \ {x}) = Cardinality(T) - 1
      BY FS_RemoveElement
    <2>2. Cardinality(T \ {x}) \in N /\ Cardinality(T) \in Nat
      BY <1>1, <1>4
    <2> HIDE DEF N
    <2> QED
      BY <1>2, <1>3, <2>1, <2>2
  <1> QED
    BY <1>4

(* F gives the sum of f over each subset of S.                             *)
AddsUp(F, f, S) ==
  /\ F \in [SUBSET S -> Nat] /\ F[{}] = 0
  /\ \A T \in SUBSET S : \A x \in S \ T : F[T \cup {x}] = F[T] + f[x]

(* There is such an F.                                                     *)
LEMMA AddsUpExists ==
  ASSUME NEW S, IsFiniteSet(S), NEW f, \A x \in S : f[x] \in Nat
  PROVE  \E F : AddsUp(F, f, S)
  <1> DEFINE C == {T \in SUBSET S : ~ \E F : AddsUp(F, f, T)}
  <1> SUFFICES ASSUME C # {} PROVE FALSE
    OBVIOUS
  <1>1. PICK T \in C : \A x \in T : T \ {x} \notin C
    <2>1. \A T \in C : IsFiniteSet(T)
      BY FS_Subset
    <2> HIDE DEF C
    <2> QED
      BY <2>1, HasMinimal
  <1>2. CASE T = {}
    <2> DEFINE F == [s \in SUBSET T |-> 0]
    <2>1. AddsUp(F, f, T)
      BY <1>2 DEF AddsUp
    <2> QED
      BY <2>1
  <1>3. ASSUME NEW x \in T PROVE FALSE
    <2>1. PICK F : AddsUp(F, f, T \ {x})
      BY <1>1
    <2> DEFINE G == [s \in SUBSET T |-> IF x \in s THEN F[s \ {x}] + f[x] ELSE F[s]]
    <2>2. F \in [SUBSET (T \ {x}) -> Nat] /\ F[{}] = 0 /\ f[x] \in Nat
      BY <2>1 DEF AddsUp
    <2>3. G \in [SUBSET T -> Nat]
      <3>1. ASSUME NEW s \in SUBSET T
            PROVE  (IF x \in s THEN F[s \ {x}] + f[x] ELSE F[s]) \in Nat
        <4>1. CASE x \in s
          <5>1. F[s \ {x}] \in Nat
            BY <2>2
          <5> QED
            BY <2>2, <4>1, <5>1
        <4>2. CASE x \notin s
          <5>1. s \in SUBSET (T \ {x})
            BY <4>2
          <5> QED
            BY <2>2, <4>2, <5>1
        <4> QED
          BY <4>1, <4>2
      <3> QED
        BY <3>1
    <2>4. G[{}] = 0
      BY <2>2
    <2>5. ASSUME NEW s \in SUBSET T, NEW y \in T \ s
          PROVE  G[s \cup {y}] = G[s] + f[y]
      <3>1. CASE y = x
        <4>1. (s \cup {y}) \ {x} = s
          BY <3>1
        <4> QED
          BY <3>1, <4>1
      <3>2. CASE y # x /\ x \notin s
        <4>1. /\ s \in SUBSET (T \ {x}) /\ y \in (T \ {x}) \ s
          BY <3>2
        <4>2. F[s \cup {y}] = F[s] + f[y]
          BY <2>1, <4>1 DEF AddsUp
        <4> QED
          BY <3>2, <4>2
      <3>3. CASE y # x /\ x \in s
        <4>1. /\ s \ {x} \in SUBSET (T \ {x}) /\ y \in (T \ {x}) \ (s \ {x})
              /\ (s \cup {y}) \ {x} = (s \ {x}) \cup {y}
          BY <3>3
        <4>2. F[(s \cup {y}) \ {x}] = F[s \ {x}] + f[y]
          BY <2>1, <4>1 DEF AddsUp
        <4>3. F[s \ {x}] \in Nat /\ f[y] \in Nat
          BY <2>2, <4>1
        <4>4. G[s \cup {y}] = F[(s \cup {y}) \ {x}] + f[x] /\ G[s] = F[s \ {x}] + f[x]
          BY <3>3
        <4> QED
          BY <2>2, <4>2, <4>3, <4>4
      <3> QED
        BY <3>1, <3>2, <3>3
    <2> HIDE DEF G
    <2>6. AddsUp(G, f, T)
      BY <2>3, <2>4, <2>5 DEF AddsUp
    <2> QED
      BY <2>6
  <1> QED
    BY <1>2, <1>3

(* What the fold of a sum computes.                                        *)
LEMMA SumIs ==
  ASSUME NEW S, IsFiniteSet(S), NEW f, \A x \in S : f[x] \in Nat,
         NEW F, AddsUp(F, f, S)
  PROVE  SumFunctionOnSet(f, S) = F[S]
  <1> DEFINE Eq(g) == g = [s \in SUBSET S |->
                             IF s = {} THEN 0
                             ELSE f[CHOOSE x \in s : TRUE]
                                    + g[s \ {CHOOSE x \in s : TRUE}]]
             it == CHOOSE g : Eq(g)
  <1>1. Eq(F)
    <2>1. ASSUME NEW s \in SUBSET S, s # {}
          PROVE  F[s] = f[CHOOSE x \in s : TRUE] + F[s \ {CHOOSE x \in s : TRUE}]
      <3> DEFINE x == CHOOSE y \in s : TRUE
      <3>1. x \in s
        BY <2>1
      <3> HIDE DEF x
      <3>2. F[(s \ {x}) \cup {x}] = F[s \ {x}] + f[x]
        BY <3>1 DEF AddsUp
      <3>3. F[s \ {x}] \in Nat /\ f[x] \in Nat
        BY <3>1 DEF AddsUp
      <3>4. (s \ {x}) \cup {x} = s
        BY <3>1
      <3>5. F[s] = F[s \ {x}] + f[x]
        BY <3>2, <3>4, Zenon
      <3>6. F[s] = f[x] + F[s \ {x}]
        BY <3>3, <3>5
      <3> QED
        BY <3>6 DEF x
    <2>2. F = [s \in SUBSET S |-> F[s]] /\ F[{}] = 0
      BY DEF AddsUp
    <2> DEFINE H(s) == IF s = {} THEN 0
                       ELSE f[CHOOSE x \in s : TRUE] + F[s \ {CHOOSE x \in s : TRUE}]
    <2>3. \A s \in SUBSET S : F[s] = H(s)
      BY <2>1, <2>2
    <2>4. F = [s \in SUBSET S |-> H(s)]
      <3> HIDE DEF H
      <3> QED
        BY <2>2, <2>3
    <2> QED
      BY <2>4
  <1>2. Eq(it)
    <2> HIDE DEF Eq
    <2> QED
      BY <1>1
  <1>3. SumFunctionOnSet(f, S) = it[S]
    BY DEF SumFunctionOnSet, FoldFunctionOnSet, MapThenFoldSet
  <1> HIDE DEF it
  <1> DEFINE C == {T \in SUBSET S : it[T] # F[T]}
  <1>4. C = {}
    <2> SUFFICES ASSUME C # {} PROVE FALSE
      OBVIOUS
    <2>1. PICK T \in C : \A x \in T : T \ {x} \notin C
      <3>1. \A T \in C : IsFiniteSet(T)
        BY FS_Subset
      <3> HIDE DEF C
      <3> QED
        BY <3>1, HasMinimal
    <2>2. T # {}
      BY <1>1, <1>2
    <2> DEFINE x == CHOOSE y \in T : TRUE
    <2>3. x \in T
      BY <2>2
    <2>4. it[T \ {x}] = F[T \ {x}]
      BY <2>1, <2>3
    <2>5. it[T] = f[x] + it[T \ {x}] /\ F[T] = f[x] + F[T \ {x}]
      BY <1>1, <1>2, <2>2
    <2> QED
      BY <2>4, <2>5
  <1> QED
    BY <1>3, <1>4

(* So a sum can be taken element by element ...                            *)
LEMMA SumAdd ==
  ASSUME NEW S, IsFiniteSet(S), NEW y, y \notin S,
         NEW f, \A x \in S \cup {y} : f[x] \in Nat
  PROVE  /\ SumFunctionOnSet(f, S \cup {y}) = SumFunctionOnSet(f, S) + f[y]
         /\ SumFunctionOnSet(f, S) \in Nat
  <1> DEFINE R == S \cup {y}
  <1>1. IsFiniteSet(R)
    BY FS_AddElement
  <1>2. PICK F : AddsUp(F, f, R)
    BY <1>1, AddsUpExists
  <1> DEFINE G == [T \in SUBSET S |-> F[T]]
  <1>3. AddsUp(G, f, S)
    <2>1. G \in [SUBSET S -> Nat] /\ G[{}] = 0
      BY <1>2 DEF AddsUp
    <2>2. ASSUME NEW T \in SUBSET S, NEW x \in S \ T PROVE G[T \cup {x}] = G[T] + f[x]
      BY <1>2 DEF AddsUp
    <2> HIDE DEF G
    <2> QED
      BY <2>1, <2>2 DEF AddsUp
  <1>4. SumFunctionOnSet(f, S) = F[S]
    <2>1. SumFunctionOnSet(f, S) = G[S]
      BY <1>3, SumIs
    <2> QED
      BY <2>1
  <1>5. SumFunctionOnSet(f, R) = F[R]
    BY <1>1, <1>2, SumIs
  <1> QED
    BY <1>2, <1>4, <1>5 DEF AddsUp

(* ... is nothing for no element ...                                       *)
LEMMA SumNone == ASSUME NEW f PROVE SumFunctionOnSet(f, {}) = 0
  <1> DEFINE F == [s \in SUBSET {} |-> 0]
  <1>1. AddsUp(F, f, {}) /\ F[{}] = 0
    BY DEF AddsUp
  <1>2. IsFiniteSet({})
    BY FS_EmptySet
  <1> HIDE DEF F
  <1> QED
    BY <1>1, <1>2, SumIs

(* ... and is no other for a function that agrees.                         *)
LEMMA SumSame ==
  ASSUME NEW S, IsFiniteSet(S), NEW f, NEW g, \A x \in S : f[x] \in Nat /\ g[x] = f[x]
  PROVE  SumFunctionOnSet(g, S) = SumFunctionOnSet(f, S) /\ SumFunctionOnSet(f, S) \in Nat
  <1>1. PICK F : AddsUp(F, f, S)
    BY AddsUpExists
  <1>2. AddsUp(F, g, S)
    BY <1>1 DEF AddsUp
  <1>3. SumFunctionOnSet(f, S) = F[S] /\ SumFunctionOnSet(g, S) = F[S]
    BY <1>1, <1>2, SumIs
  <1>4. F[S] \in Nat
    BY <1>1 DEF AddsUp
  <1> QED
    BY <1>3, <1>4

(* The sum over two sets with nothing in common is the sum of the sums.    *)
LEMMA SumUnion ==
  ASSUME NEW S, NEW T, IsFiniteSet(S), IsFiniteSet(T), S \cap T = {},
         NEW f, \A x \in S \cup T : f[x] \in Nat
  PROVE  SumFunctionOnSet(f, S \cup T)
           = SumFunctionOnSet(f, S) + SumFunctionOnSet(f, T)
  <1> DEFINE Sm(X) == SumFunctionOnSet(f, X)
             C == {X \in SUBSET T : Sm(S \cup X) # Sm(S) + Sm(X)}
  <1>1. \A X \in SUBSET T : IsFiniteSet(X) /\ IsFiniteSet(S \cup X)
    BY FS_Subset, FS_Union
  <1>2. \A X \in SUBSET T : Sm(S \cup X) \in Nat /\ Sm(X) \in Nat
    <2> SUFFICES ASSUME NEW X \in SUBSET T PROVE Sm(S \cup X) \in Nat /\ Sm(X) \in Nat
      OBVIOUS
    <2>1. /\ IsFiniteSet(X) /\ IsFiniteSet(S \cup X)
          /\ \A x \in X : f[x] \in Nat /\ f[x] = f[x]
          /\ \A x \in S \cup X : f[x] \in Nat /\ f[x] = f[x]
      BY <1>1
    <2>2. SumFunctionOnSet(f, X) \in Nat
      BY ONLY <2>1, SumSame
    <2>3. SumFunctionOnSet(f, S \cup X) \in Nat
      BY ONLY <2>1, SumSame
    <2> QED
      BY <2>2, <2>3
  <1>3. C = {}
    <2> SUFFICES ASSUME C # {} PROVE FALSE
      OBVIOUS
    <2>1. PICK X \in C : \A x \in X : X \ {x} \notin C
      <3>1. \A X \in C : IsFiniteSet(X)
        BY <1>1
      <3> HIDE DEF C
      <3> QED
        BY <3>1, HasMinimal
    <2>2. X \in SUBSET T /\ Sm(S \cup X) # Sm(S) + Sm(X)
      BY <2>1
    <2>3. CASE X = {}
      <3>1. Sm(X) = 0 /\ S \cup X = S
        BY <2>3, SumNone
      <3>2. Sm(S) \in Nat /\ Sm(S \cup X) = Sm(S)
        BY <1>2, <2>2, <3>1
      <3> HIDE DEF Sm
      <3> QED
        BY <2>2, <3>1, <3>2
    <2>4. CASE X # {}
      <3>1. PICK x \in X : TRUE
        BY <2>4
      <3> DEFINE Y == X \ {x}
      <3>2. /\ Y \in SUBSET T /\ x \notin Y /\ x \notin S \cup Y /\ X = Y \cup {x}
            /\ S \cup X = (S \cup Y) \cup {x}
        BY <2>2
      <3>3. Sm(S \cup Y) = Sm(S) + Sm(Y)
        BY <2>1, <3>2
      <3>4. /\ IsFiniteSet(Y) /\ IsFiniteSet(S \cup Y) /\ f[x] \in Nat
            /\ \A z \in Y \cup {x} : f[z] \in Nat
            /\ \A z \in (S \cup Y) \cup {x} : f[z] \in Nat
        BY <1>1, <2>2, <3>2
      <3> HIDE DEF Y
      <3>5. Sm(Y \cup {x}) = Sm(Y) + f[x]
        BY ONLY <3>2, <3>4, SumAdd
      <3>6. Sm((S \cup Y) \cup {x}) = Sm(S \cup Y) + f[x]
        BY ONLY <3>2, <3>4, SumAdd
      <3>7. Sm(S) \in Nat /\ Sm(Y) \in Nat
        <4>1. S \cup {} = S /\ {} \in SUBSET T
          OBVIOUS
        <4> HIDE DEF Sm
        <4> QED
          BY <1>2, <3>2, <4>1
      <3>8. Sm(S \cup X) = Sm((S \cup Y) \cup {x}) /\ Sm(X) = Sm(Y \cup {x})
        BY <3>2
      <3> HIDE DEF Sm
      <3> QED
        BY <2>2, <3>3, <3>4, <3>5, <3>6, <3>7, <3>8
    <2> QED
      BY <2>3, <2>4
  <1> QED
    BY <1>3

-----------------------------------------------------------------------------
(* The powers of two that compute_tree_index meets.                        *)
IsPower(k, v) ==
  \/ (k = 0 /\ v = 1) \/ (k = 1 /\ v = 2) \/ (k = 2 /\ v = 4)
  \/ (k = 3 /\ v = 8) \/ (k = 4 /\ v = 16) \/ (k = 5 /\ v = 32)
  \/ (k = 6 /\ v = 64) \/ (k = 7 /\ v = 128) \/ (k = 8 /\ v = 256)
  \/ (k = 9 /\ v = 512) \/ (k = 10 /\ v = 1024) \/ (k = 11 /\ v = 2048)
  \/ (k = 12 /\ v = 4096) \/ (k = 13 /\ v = 8192) \/ (k = 14 /\ v = 16384)
  \/ (k = 15 /\ v = 32768) \/ (k = 16 /\ v = 65536)

Pow(k) == 2^k

(* Every such exponent has its power.                                      *)
LEMMA Powers == \A k \in 0 .. 16 : IsPower(k, Pow(k))
  <1> DEFINE P(k) == IsPower(k, Pow(k))
  <1>1. /\ P(0) /\ P(1) /\ P(2) /\ P(3)
    BY DEF IsPower, Pow
  <1>2. /\ P(4) /\ P(5) /\ P(6) /\ P(7)
    BY DEF IsPower, Pow
  <1>3. /\ P(8) /\ P(9) /\ P(10) /\ P(11)
    BY DEF IsPower, Pow
  <1>4. /\ P(12) /\ P(13) /\ P(14) /\ P(15)
    BY DEF IsPower, Pow
  <1>5. /\ P(16)
    BY DEF IsPower, Pow
  <1> HIDE DEF P
  <1>6. \A k \in 0 .. 16 : P(k)
    BY <1>1, <1>2, <1>3, <1>4, <1>5
  <1> QED
    BY <1>6 DEF P

(* The next power is the double.                                           *)
LEMMA PowersDouble ==
  ASSUME NEW k \in 0 .. 15, NEW v, NEW w, IsPower(k, v), IsPower(k + 1, w)
  PROVE  v \in Nat \ {0} /\ w = 2 * v
  BY DEF IsPower

(* A higher exponent has no smaller power.                                 *)
LEMMA PowersOrdered ==
  ASSUME NEW j \in 0 .. 16, NEW k \in 0 .. 16, NEW v, NEW w,
         IsPower(j, v), IsPower(k, w), j <= k
  PROVE  v \in Nat \ {0} /\ w \in Nat \ {0} /\ v <= w
  BY DEF IsPower

(* Of X the logarithm is sought: it has at most 16 bits, and is not 0.     *)
HasBits(X) == X \in Nat /\ X >= 1 /\ X < Pow(16)

(* A number of at most 16 bits lies between two powers of two.             *)
LEMMA BetweenPowers ==
  ASSUME NEW X \in Nat, HasBits(X)
  PROVE  \E K \in 0 .. 15 : Pow(K) <= X /\ X < Pow(K + 1)
  <1>1. \E K \in 0 .. 15, v \in Nat : IsPower(K, v) /\ v <= X /\ X < 2 * v
    <2>1. X >= 1 /\ X < 65536
      BY Powers DEF HasBits, IsPower
    <2> QED
      BY <2>1 DEF IsPower
  <1>2. PICK K \in 0 .. 15, v \in Nat : IsPower(K, v) /\ v <= X /\ X < 2 * v
    BY <1>1
  <1>3. IsPower(K, Pow(K)) /\ IsPower(K + 1, Pow(K + 1))
    <2>1. K \in 0 .. 16 /\ K + 1 \in 0 .. 16
      OBVIOUS
    <2> QED
      BY <2>1, Powers
  <1>4. \A w : IsPower(K, w) => w = v
    BY <1>2 DEF IsPower
  <1>5. \A w : IsPower(K + 1, w) => w = 2 * v
    BY <1>2 DEF IsPower
  <1> QED
    BY <1>2, <1>3, <1>4, <1>5

(* The logarithm of a number of at most 16 bits.                           *)
LEMMA HighestBitIs ==
  ASSUME NEW X \in Nat, HasBits(X), NEW K \in 0 .. 15, Pow(K) <= X, X < Pow(K + 1)
  PROVE  HighestBit(X) = K
  <1> DEFINE P == {k \in 1 .. 15 : Pow(k) <= X}
  <1>1. P = 1 .. K
    <2>1. ASSUME NEW k \in 1 .. 15 PROVE Pow(k) <= X <=> k <= K
      <3>1. /\ IsPower(k, Pow(k)) /\ IsPower(K, Pow(K)) /\ IsPower(K + 1, Pow(K + 1))
        <4>1. k \in 0 .. 16 /\ K \in 0 .. 16 /\ K + 1 \in 0 .. 16
          OBVIOUS
        <4> QED
          BY <4>1, Powers
      <3>2. \A u, v, w : IsPower(k, u) /\ IsPower(K, v) /\ IsPower(K + 1, w)
                           /\ v <= X /\ X < w => (u <= X <=> k <= K)
        <4>1. ASSUME NEW u, NEW v, NEW w, IsPower(k, u), IsPower(K, v),
                     IsPower(K + 1, w), v <= X, X < w
              PROVE  u <= X <=> k <= K
          <5>1. u \in Nat /\ v \in Nat /\ w \in Nat
            BY <4>1 DEF IsPower
          <5>2. CASE k <= K
            <6>1. u <= v
              BY <2>1, <4>1, <5>2, PowersOrdered
            <6> QED
              BY <4>1, <5>1, <5>2, <6>1
          <5>3. CASE ~(k <= K)
            <6>1. w <= u
              BY <2>1, <4>1, <5>3, PowersOrdered
            <6> QED
              BY <4>1, <5>1, <5>3, <6>1
          <5> QED
            BY <5>2, <5>3
        <4> QED
          BY <4>1
      <3> QED
        BY <3>1, <3>2
    <2> QED
      BY <2>1
  <1>2. Cardinality(1 .. K) = K
    <2>1. 1 \in Int /\ K \in Int
      OBVIOUS
    <2>2. Cardinality(1 .. K) = IF 1 > K THEN 0 ELSE K - 1 + 1
      BY <2>1, FS_Interval
    <2> QED
      BY <2>2
  <1>3. HighestBit(X) = Cardinality(P)
    <2>1. P = {k \in 1 .. 15 : 2^k <= X}
      BY DEF Pow
    <2> HIDE DEF P
    <2> QED
      BY <2>1 DEF HighestBit
  <1> HIDE DEF P
  <1> QED
    BY <1>1, <1>2, <1>3

(* What the division by a power of two says of a size.                     *)
LEMMA DividedBetween ==
  ASSUME NEW s \in Nat, NEW M \in Nat \ {0}, NEW v \in Nat \ {0},
         v <= s \div M, s \div M < 2 * v
  PROVE  /\ v * M \in Nat \ {0} /\ v * M <= s /\ s < 2 * (v * M)
  <1> DEFINE X == s \div M
  <1>1. X \in Nat /\ X * M <= s /\ s < (X + 1) * M
    OBVIOUS
  <1> HIDE DEF X
  <1>2. \A a, b \in Nat : a <= b => a * M <= b * M
    OBVIOUS
  <1>3. v <= X /\ X + 1 <= 2 * v
    BY <1>1 DEF X
  <1>4. v * M <= X * M /\ (X + 1) * M <= (2 * v) * M
    BY <1>1, <1>2, <1>3
  <1>5. (2 * v) * M = 2 * (v * M) /\ v * M \in Nat /\ X * M \in Nat /\ (X + 1) * M \in Nat
    BY <1>1
  <1>6. v * M # 0
    OBVIOUS
  <1> QED
    BY <1>1, <1>4, <1>5, <1>6

(* Between D and its double, twice a size holds D two or three times, and  *)
(* more often when the size is larger.                                     *)
LEMMA Halves ==
  ASSUME NEW D \in Nat \ {0}, NEW s \in Nat, NEW t \in Nat, D <= s, s <= t, t < 2 * D
  PROVE  /\ (2 * s) \div D \in 2 .. 3 /\ (2 * t) \div D \in 2 .. 3
         /\ (2 * s) \div D <= (2 * t) \div D
  <1> DEFINE p == (2 * s) \div D
             q == (2 * t) \div D
  <1>1. /\ p \in Nat /\ p * D <= 2 * s /\ 2 * s < (p + 1) * D
        /\ q \in Nat /\ q * D <= 2 * t /\ 2 * t < (q + 1) * D
    OBVIOUS
  <1> HIDE DEF p, q
  <1>2. \A a, b \in Nat : a <= b => a * D <= b * D
    OBVIOUS
  <1>3. p >= 2
    <2> SUFFICES ASSUME p <= 1 PROVE FALSE
      BY <1>1
    <2>1. (p + 1) * D <= 2 * D
      BY <1>1, <1>2
    <2> QED
      BY <1>1, <2>1
  <1>4. q <= 3
    <2> SUFFICES ASSUME 4 <= q PROVE FALSE
      BY <1>1
    <2>1. 4 * D <= q * D
      BY <1>1, <1>2
    <2> QED
      BY <1>1, <2>1
  <1>5. p <= q
    <2> SUFFICES ASSUME q + 1 <= p PROVE FALSE
      BY <1>1
    <2>1. (q + 1) * D <= p * D
      BY <1>1, <1>2
    <2> QED
      BY <1>1, <2>1
  <1> QED
    BY <1>1, <1>3, <1>4, <1>5 DEF p, q

(* A quotient does not shrink when the dividend grows.                     *)
LEMMA DivisionGrows ==
  ASSUME NEW s \in Nat, NEW t \in Nat, NEW M \in Nat \ {0}, s <= t
  PROVE  s \div M \in Nat /\ t \div M \in Nat /\ s \div M <= t \div M
  <1> DEFINE p == s \div M
             q == t \div M
  <1>1. p \in Nat /\ p * M <= s /\ q \in Nat /\ t < (q + 1) * M
    OBVIOUS
  <1> HIDE DEF p, q
  <1>2. \A a, b \in Nat : a <= b => a * M <= b * M
    OBVIOUS
  <1>3. ASSUME q + 1 <= p PROVE FALSE
    <2>1. (q + 1) * M <= p * M
      BY <1>1, <1>2, <1>3
    <2> QED
      BY <1>1, <2>1
  <1> QED
    BY <1>1, <1>3 DEF p, q

(* compute_tree_index of a size in terms of the powers of two about it.    *)
IndexAbout(s, K) ==
  /\ Pow(K) \in Nat \ {0}
  /\ Pow(K) <= s \div NSMALLBINS /\ s \div NSMALLBINS < 2 * Pow(K)
  /\ compute_tree_index(s)
       = 2 * K + (IF ((2 * s) \div (Pow(K) * NSMALLBINS)) % 2 = 1 THEN 1 ELSE 0)

(* The logarithm of X is K.                                                *)
LogIs(X, K) ==
  /\ Pow(K) \in Nat \ {0} /\ Pow(K) <= X /\ X < 2 * Pow(K)
  /\ HighestBit(X) = K

(* Every number of at most 16 bits, 0 left out, has a logarithm.           *)
LEMMA HasLog ==
  ASSUME NEW X \in Nat, HasBits(X)
  PROVE  \E K \in 0 .. 15 : LogIs(X, K)
  <1>2. PICK K \in 0 .. 15 : Pow(K) <= X /\ X < Pow(K + 1)
    BY BetweenPowers
  <1>3. HighestBit(X) = K
    BY <1>2, HighestBitIs
  <1>4. Pow(K) \in Nat \ {0} /\ Pow(K + 1) = 2 * Pow(K)
    <2>1. K \in 0 .. 16 /\ K + 1 \in 0 .. 16
      OBVIOUS
    <2> QED
      BY <2>1, Powers, PowersDouble
  <1> QED
    BY <1>2, <1>3, <1>4 DEF LogIs

(* The tree of a size, unless it is one for the last.                      *)
LEMMA TreeIndexIs ==
  ASSUME NEW s \in Nat, HasBits(s \div NSMALLBINS)
  PROVE  \E K \in 0 .. 15 : IndexAbout(s, K)
  <1> DEFINE X == s \div NSMALLBINS
  <1>1. X \in Nat /\ X # 0 /\ ~(X > 65535)
    <2>1. X \in Nat /\ X >= 1 /\ X < Pow(16)
      BY DEF HasBits
    <2> HIDE DEF X
    <2> QED
      BY <2>1, Powers DEF IsPower
  <1>2. compute_tree_index(s)
          = IF X = 0 THEN 0
            ELSE IF X > 65535 THEN NTREEBINS - 1
            ELSE 2 * HighestBit(X)
                   + (IF ((2 * s) \div (Pow(HighestBit(X)) * NSMALLBINS)) % 2 = 1
                        THEN 1 ELSE 0)
    BY DEF compute_tree_index, MIN_LARGE_SIZE, Pow
  <1> HIDE DEF X
  <1>3. PICK K \in 0 .. 15 : LogIs(X, K)
    <2>1. HasBits(X)
      BY DEF X
    <2> QED
      BY <1>1, <2>1, HasLog
  <1>4. compute_tree_index(s)
          = 2 * K + (IF ((2 * s) \div (Pow(K) * NSMALLBINS)) % 2 = 1 THEN 1 ELSE 0)
    BY <1>1, <1>2, <1>3 DEF LogIs
  <1> QED
    BY <1>3, <1>4 DEF IndexAbout, LogIs, X

(* Larger chunks are in trees of higher numbers, or in the same.           *)
THEOREM TreeIndexGrows ==
  ASSUME NEW s \in Nat, NEW t \in Nat, s >= NSMALLBINS, s <= t
  PROVE  compute_tree_index(s) <= compute_tree_index(t)
  <1> DEFINE M == NSMALLBINS
  <1>1. /\ compute_tree_index(s) \in 0 .. 31 /\ compute_tree_index(t) \in 0 .. 31
    BY TreeIndexInRange DEF TreeIndex, NTREEBINS
  <1>2. /\ s \div M \in Nat /\ t \div M \in Nat /\ s \div M <= t \div M
        /\ s \div M >= 1
    <2>1. s \div M >= 1
      OBVIOUS
    <2> QED
      BY <2>1, DivisionGrows
  <1>3. CASE ~(t \div M < Pow(16))
    <2>1. t \div M > 65535
      BY <1>2, <1>3, Powers DEF IsPower
    <2>2. compute_tree_index(t) = 31
      BY <2>1 DEF compute_tree_index, MIN_LARGE_SIZE, NTREEBINS
    <2> QED
      BY <1>1, <2>2
  <1>4. CASE t \div M < Pow(16)
    <2>1. PICK K \in 0 .. 15 : IndexAbout(s, K)
      <3>1. Pow(16) \in Nat
        BY Powers DEF IsPower
      <3>2. HasBits(s \div NSMALLBINS)
        BY <1>2, <1>4, <3>1 DEF HasBits
      <3> QED
        BY <3>2, TreeIndexIs
    <2>2. PICK L \in 0 .. 15 : IndexAbout(t, L)
      <3>1. HasBits(t \div NSMALLBINS)
        BY <1>2, <1>4 DEF HasBits
      <3> QED
        BY <3>1, TreeIndexIs
    <2>3. K <= L
      <3> SUFFICES ASSUME L + 1 <= K PROVE FALSE
        OBVIOUS
      <3>1. L + 1 \in 0 .. 16 /\ K \in 0 .. 16 /\ L \in 0 .. 16
        OBVIOUS
      <3>2. Pow(L + 1) = 2 * Pow(L)
        BY <3>1, Powers, PowersDouble
      <3>3. Pow(L + 1) <= Pow(K)
        BY <3>1, Powers, PowersOrdered
      <3> QED
        BY <1>2, <2>1, <2>2, <3>2, <3>3 DEF IndexAbout
    <2>4. CASE K < L
      BY <2>1, <2>2, <2>4 DEF IndexAbout
    <2>5. CASE K = L
      <3> DEFINE D == Pow(K) * M
                 p == (2 * s) \div D
                 q == (2 * t) \div D
      <3>1. D \in Nat \ {0} /\ D <= s /\ t < 2 * D
        <4>1. M \in Nat \ {0}
          OBVIOUS
        <4>2. D \in Nat \ {0} /\ D <= s
          BY <2>1, <4>1, DividedBetween DEF IndexAbout
        <4>3. t < 2 * D
          BY <2>2, <2>5, <4>1, DividedBetween DEF IndexAbout
        <4> QED
          BY <4>2, <4>3
      <3>2. compute_tree_index(s) = 2 * K + (IF p % 2 = 1 THEN 1 ELSE 0)
        BY <2>1 DEF IndexAbout
      <3>3. compute_tree_index(t) = 2 * K + (IF q % 2 = 1 THEN 1 ELSE 0)
        BY <2>2, <2>5 DEF IndexAbout
      <3>4. p \in 2 .. 3 /\ q \in 2 .. 3 /\ p <= q
        BY <3>1, Halves
      <3> HIDE DEF p, q
      <3> QED
        BY <3>2, <3>3, <3>4
    <2> QED
      BY <2>3, <2>4, <2>5
  <1> QED
    BY <1>3, <1>4

-----------------------------------------------------------------------------
(* Where a chunk fits, one of those that fit most tightly is found.        *)
LEMMA TightestFound ==
  ASSUME NEW t \in Tags, NEW S \in SUBSET Addr, NEW nb \in Nat,
         NEW c \in S, t.size[c] >= nb
  PROVE  Tightest(t, S, nb) # {}
  <1> DEFINE fit == {d \in S : t.size[d] >= nb}
             sizes == {t.size[d] : d \in fit}
  <1>1. \A d \in S : t.size[d] \in Nat
    BY DEF Tags
  <1>2. sizes \in SUBSET Nat /\ sizes # {}
    BY <1>1
  <1>3. LeastIndex(sizes) \in sizes /\ \A j \in sizes : LeastIndex(sizes) <= j
    <2> HIDE DEF sizes
    <2> QED
      BY <1>2, LeastIndexIn
  <1>4. PICK d \in fit : \A e \in fit : t.size[d] <= t.size[e]
    BY <1>3
  <1>5. d \in Tightest(t, S, nb)
    BY <1>4 DEF Tightest
  <1> QED
    BY <1>5

(* When the trees have nothing for a size, no chunk in them is that large. *)
LEMMA NothingLargeFits ==
  ASSUME NEW t \in Tags, NEW b \in BinSet, NEW B \in SUBSET Addr,
         HoldExactly(b, B, t.size), NEW nb \in Nat, nb >= NSMALLBINS,
         b.treemap = {} \/ LargeFit(t, b, nb) = {}
  PROVE  \A a \in B : ~is_small(t.size[a]) => t.size[a] < nb
  <1> SUFFICES ASSUME NEW a \in B, ~is_small(t.size[a]), ~(t.size[a] < nb)
               PROVE  FALSE
    OBVIOUS
  <1> DEFINE i == compute_tree_index(nb)
             j == compute_tree_index(t.size[a])
             above == {k \in b.treemap : k > i}
  <1>1. t.size[a] \in Nat /\ t.size[a] >= nb /\ t.size[a] >= NSMALLBINS
    BY DEF Tags, is_small
  <1>2. i \in TreeIndex /\ j \in TreeIndex /\ i <= j
    BY <1>1, TreeIndexInRange, TreeIndexGrows
  <1>3. a \in b.tree[j] /\ j \in b.treemap
    BY <1>2 DEF HoldExactly
  <1>4. LargeFit(t, b, nb) = {}
    BY <1>3
  <1>5. b.treemap \in SUBSET TreeIndex /\ \A k \in TreeIndex : b.tree[k] \in SUBSET Addr
    BY DEF BinSet
  <1>6. /\ Tightest(t, b.tree[i], nb) = {}
        /\ above # {} => Tightest(t, b.tree[LeastIndex(above)], nb) = {}
    BY <1>4 DEF LargeFit
  <1> HIDE DEF i, j
  <1>7. CASE i = j
    <2>1. Tightest(t, b.tree[j], nb) # {}
      BY <1>1, <1>2, <1>3, <1>5, TightestFound
    <2> QED
      BY <1>6, <1>7, <2>1
  <1>8. CASE i # j
    <2>1. j \in above
      BY <1>2, <1>3, <1>8 DEF TreeIndex
    <2>2. above \in SUBSET Nat /\ above \subseteq b.treemap
      BY <1>5 DEF TreeIndex
    <2>3. \A k \in above : k > i
      OBVIOUS
    <2> HIDE DEF above
    <2> DEFINE k == LeastIndex(above)
    <2>4. k \in b.treemap /\ k > i
      BY <2>1, <2>2, <2>3, LeastIndexIn
    <2> HIDE DEF k
    <2>5. k \in TreeIndex /\ b.tree[k] # {}
      BY <1>5, <2>4 DEF HoldExactly
    <2>6. PICK c \in b.tree[k] : TRUE
      BY <2>5
    <2>7. c \in B /\ ~is_small(t.size[c]) /\ compute_tree_index(t.size[c]) = k
      BY <2>5, <2>6 DEF HoldExactly
    <2>8. t.size[c] >= nb
      <3> SUFFICES ASSUME ~(t.size[c] >= nb) PROVE FALSE
        OBVIOUS
      <3>1. t.size[c] \in Nat /\ t.size[c] >= NSMALLBINS /\ t.size[c] <= nb
        BY <2>7 DEF Tags, is_small
      <3>2. k <= i
        BY <2>7, <3>1, TreeIndexGrows DEF i
      <3> QED
        BY <1>2, <2>4, <2>5, <3>2 DEF TreeIndex
    <2>9. Tightest(t, b.tree[k], nb) # {}
      BY <1>5, <2>5, <2>6, <2>8, TightestFound
    <2> QED
      BY <1>6, <2>1, <2>9 DEF k
  <1> QED
    BY <1>7, <1>8

-----------------------------------------------------------------------------
(* Freeing a chunk that no bin holds puts it where its size says.          *)
LEMMA InsertHolds ==
  ASSUME NEW b \in BinSet, NEW B \in SUBSET Addr, NEW p \in Addr, NEW s \in Nat,
         NEW size, NEW size2, HoldExactly(b, B, size), p \notin B,
         \A a \in B : size2[a] = size[a], size2[p] = s
  PROVE  /\ insert_chunk(b, p, s) \in BinSet
         /\ HoldExactly(insert_chunk(b, p, s), B \cup {p}, size2)
  <1>1. CASE is_small(s)
    <2>1. s \in SmallIndex
      BY <1>1 DEF is_small, SmallIndex
    <2> DEFINE c == insert_small_chunk(b, p, s)
    <2>2. /\ c.smallmap = b.smallmap \cup {s} /\ c.treemap = b.treemap
          /\ c.tree = b.tree
          /\ c.small = [b.small EXCEPT ![s] = b.small[s] \cup {p}]
      <3>1. s \notin b.smallmap => b.small[s] = {}
        BY <2>1 DEF HoldExactly
      <3> QED
        BY <2>1, <3>1 DEF insert_small_chunk, small_index, BinSet
    <2>3. c \in BinSet
      BY <2>1 DEF insert_small_chunk, small_index, BinSet
    <2>4. HoldExactly(c, B \cup {p}, size2)
      BY <1>1, <2>1, <2>2 DEF HoldExactly, is_small, small_index, BinSet
    <2> QED
      BY <1>1, <2>3, <2>4 DEF insert_chunk
  <1>2. CASE ~is_small(s)
    <2> DEFINE i == compute_tree_index(s)
               c == insert_large_chunk(b, p, s)
    <2>1. i \in TreeIndex
      BY <1>2, TreeIndexInRange DEF is_small
    <2> HIDE DEF i
    <2>2. /\ c.treemap = b.treemap \cup {i} /\ c.smallmap = b.smallmap
          /\ c.small = b.small
          /\ c.tree = [b.tree EXCEPT ![i] = b.tree[i] \cup {p}]
      <3>1. i \notin b.treemap => b.tree[i] = {}
        BY <2>1 DEF HoldExactly
      <3> QED
        BY <2>1, <3>1 DEF insert_large_chunk, BinSet, i
    <2>3. c \in BinSet
      BY <2>1 DEF insert_large_chunk, BinSet, i
    <2>4. HoldExactly(c, B \cup {p}, size2)
      BY <1>2, <2>1, <2>2 DEF HoldExactly, BinSet, i
    <2> QED
      BY <1>2, <2>3, <2>4 DEF insert_chunk
  <1> QED
    BY <1>1, <1>2

(* A chunk that is unlinked with its own size leaves its bin and no other, *)
(* and the bit of a bin goes with its last chunk.                          *)
LEMMA UnlinkHolds ==
  ASSUME NEW b \in BinSet, NEW B \in SUBSET Addr, NEW p \in B,
         NEW size, size[p] \in Nat, HoldExactly(b, B, size)
  PROVE  /\ unlink_chunk(b, p, size[p]) \in BinSet
         /\ HoldExactly(unlink_chunk(b, p, size[p]), B \ {p}, size)
  <1> DEFINE s == size[p]
  <1>1. CASE is_small(s)
    <2>1. s \in SmallIndex
      BY <1>1 DEF is_small, SmallIndex
    <2> DEFINE c == unlink_small_chunk(b, p, s)
    <2>2. c \in BinSet
      BY <2>1 DEF unlink_small_chunk, BinSet
    <2>3. \A j \in SmallIndex : (b.small[j] = {p}) => j = s
      BY <1>1, <2>1 DEF HoldExactly, small_index
    <2>4. /\ c.treemap = b.treemap /\ c.tree = b.tree
          /\ c.small = [j \in SmallIndex |-> b.small[j] \ {p}]
          /\ c.smallmap = IF b.small[s] = {p} THEN b.smallmap \ {s} ELSE b.smallmap
      BY <2>1, <2>3 DEF unlink_small_chunk, small_index, BinSet
    <2>5. HoldExactly(c, B \ {p}, size)
      <3>1. \A j \in SmallIndex : c.small[j] =
              {a \in B \ {p} : is_small(size[a]) /\ small_index(size[a]) = j}
        BY <2>4 DEF HoldExactly
      <3>2. \A j \in TreeIndex : c.tree[j] =
              {a \in B \ {p} : ~is_small(size[a]) /\ compute_tree_index(size[a]) = j}
        BY <1>1, <2>4 DEF HoldExactly
      <3>3. \A j \in SmallIndex : p \in b.small[j] => j = s
        BY <1>1 DEF HoldExactly, small_index
      <3>4. c.smallmap = {j \in SmallIndex : c.small[j] # {}}
        BY <2>1, <2>4, <3>3 DEF HoldExactly
      <3>5. c.treemap = {j \in TreeIndex : c.tree[j] # {}}
        BY <2>4 DEF HoldExactly
      <3> QED
        BY <3>1, <3>2, <3>4, <3>5 DEF HoldExactly
    <2> QED
      BY <1>1, <2>2, <2>5 DEF unlink_chunk
  <1>2. CASE ~is_small(s)
    <2> DEFINE c == unlink_large_chunk(b, p)
    <2>1. c \in BinSet
      BY DEF unlink_large_chunk, BinSet
    <2>2. /\ c.smallmap = b.smallmap /\ c.small = b.small
          /\ c.tree = [j \in TreeIndex |-> b.tree[j] \ {p}]
          /\ c.treemap = {j \in b.treemap : b.tree[j] # {p}}
      BY DEF unlink_large_chunk, BinSet
    <2>3. \A j \in SmallIndex : c.small[j] =
            {a \in B \ {p} : is_small(size[a]) /\ small_index(size[a]) = j}
      BY <1>2, <2>2 DEF HoldExactly
    <2>4. \A j \in TreeIndex : c.tree[j] =
            {a \in B \ {p} : ~is_small(size[a]) /\ compute_tree_index(size[a]) = j}
      BY <2>2 DEF HoldExactly
    <2>5. c.smallmap = {j \in SmallIndex : c.small[j] # {}}
      BY <2>2 DEF HoldExactly
    <2>6. c.treemap = {j \in TreeIndex : c.tree[j] # {}}
      BY <2>2 DEF HoldExactly
    <2> QED
      BY <1>2, <2>1, <2>3, <2>4, <2>5, <2>6 DEF unlink_chunk, HoldExactly
  <1> QED
    BY <1>1, <1>2

-----------------------------------------------------------------------------
USE SegmentAssumption, ParamsAssumption
USE DEF Addr

(* The part of a well-formed mspace that its tags make up.                 *)
Shaped(m) == Tiles(m) /\ TagsAgree(m) /\ Coalesced(m) /\ TopIsFree(m)

(* A chunk ends at a head of the segment, and no other head is before it.  *)
LEMMA ChunkFacts ==
  ASSUME NEW m \in MState, Shaped(m)
  PROVE  /\ SegEnd(m) \in Addr /\ m.top \in Addr /\ m.top < SegEnd(m)
         /\ SegBase \in Chunks(m) /\ m.top \in Chunks(m) /\ SegBase < m.top
         /\ \A a \in Chunks(m) :
              /\ a \in Addr /\ SegBase <= a /\ a < SegEnd(m)
              /\ m.tags.size[a] \in Nat \ {0}
              /\ a + m.tags.size[a] \in Addr /\ a + m.tags.size[a] <= SegEnd(m)
              /\ \A c \in Heads(m.tags) : a < c => a + m.tags.size[a] <= c
              /\ a # m.top => a + m.tags.size[a] \in Chunks(m)
  <1> DEFINE t == m.tags
  <1>1. /\ t.size \in [Addr -> Nat] /\ m.top \in Addr /\ m.topsize \in Nat
    BY DEF MState, Tags
  <1>2. SegEnd(m) \in Addr /\ m.top < SegEnd(m) /\ t.size[m.top] = m.topsize
    BY <1>1 DEF Shaped, Tiles, TopIsFree, SegEnd, Heads
  <1>3. SegBase \in Chunks(m) /\ m.top \in Chunks(m) /\ m.top # SegBase
    BY DEF Shaped, Tiles, TopIsFree, TagsAgree, FreeChunks
  <1>4. ASSUME NEW a \in Chunks(m)
        PROVE  /\ a \in Addr /\ SegBase <= a /\ a < SegEnd(m)
               /\ t.size[a] \in Nat \ {0}
               /\ a + t.size[a] \in Addr /\ a + t.size[a] <= SegEnd(m)
               /\ \A c \in Heads(t) : a < c => a + t.size[a] <= c
    <2>1. /\ a \in Addr /\ t.size[a] \in Nat \ {0} /\ a # SegEnd(m)
          /\ a \in Heads(t) /\ a + t.size[a] \in Heads(t)
          /\ Body(a, t.size[a]) \cap Heads(t) = {}
      <3>1. /\ a \in Heads(t) /\ a # SegEnd(m)
        BY DEF Chunks
      <3>2. /\ a + t.size[a] \in Heads(t) /\ Body(a, t.size[a]) \cap Heads(t) = {}
        BY DEF Shaped, Tiles
      <3>3. a \in Addr /\ t.size[a] \in Nat \ {0}
        BY <1>1, <3>1 DEF Heads
      <3> QED
        BY <3>1, <3>2, <3>3
    <2>2. SegBase <= a /\ a <= SegEnd(m) /\ a + t.size[a] <= SegEnd(m)
      BY <2>1 DEF Shaped, Tiles
    <2>3. ASSUME NEW c \in Heads(t), a < c PROVE a + t.size[a] <= c
      BY <2>1, <2>3 DEF Body, Heads
    <2> QED
      BY <1>2, <2>1, <2>2, <2>3 DEF Heads
  <1>5. ASSUME NEW a \in Chunks(m), a # m.top PROVE a + t.size[a] \in Chunks(m)
    <2>1. a + t.size[a] \in Heads(t)
      BY DEF Shaped, Tiles
    <2>2. a + t.size[a] # SegEnd(m)
      <3>1. m.top + t.size[m.top] = SegEnd(m)
        BY <1>2 DEF SegEnd
      <3>2. m.top \in Heads(t) /\ a \in Heads(t)
        BY <1>3 DEF Chunks
      <3>3. CASE a < m.top
        <4>1. a + t.size[a] <= m.top
          BY <1>4, <3>2, <3>3
        <4> QED
          BY <1>1, <1>2, <1>4, <4>1
      <3>4. CASE m.top < a
        <4>1. m.top + t.size[m.top] <= a
          BY <1>3, <1>4, <3>2, <3>4
        <4> QED
          BY <1>1, <1>2, <1>4, <3>1, <4>1
      <3> QED
        BY <1>1, <1>4, <1>5, <3>3, <3>4
    <2> QED
      BY <2>1, <2>2 DEF Chunks
  <1>6. SegBase < m.top
    <2>1. SegBase <= m.top
      BY <1>3, <1>4
    <2> QED
      BY <1>1, <1>3, <2>1
  <1> QED
    BY <1>1, <1>2, <1>3, <1>4, <1>5, <1>6

(* No two chunks end at the same place.                                    *)
LEMMA UniqueNext ==
  ASSUME NEW m \in MState, Shaped(m), NEW a \in Chunks(m), NEW c \in Chunks(m),
         a + m.tags.size[a] = c + m.tags.size[c]
  PROVE  a = c
  <1>1. /\ a \in Addr /\ m.tags.size[a] \in Nat \ {0} /\ a \in Heads(m.tags)
        /\ c \in Addr /\ m.tags.size[c] \in Nat \ {0} /\ c \in Heads(m.tags)
    BY ChunkFacts DEF Chunks
  <1>2. /\ a < c => a + m.tags.size[a] <= c
        /\ c < a => c + m.tags.size[c] <= a
    BY <1>1, ChunkFacts
  <1> QED
    BY <1>1, <1>2

(* The chunks from q up to the head e become one chunk.                    *)
Merge(m, m2, q, e) ==
  /\ \A a \in Addr : m2.tags.size[a] =
        IF a = q THEN e - q ELSE IF q < a /\ a < e THEN 0 ELSE m.tags.size[a]
  /\ SegEnd(m2) = SegEnd(m)
  /\ m2.top = IF e = SegEnd(m) THEN q ELSE m.top
  /\ e - q >= MIN_CHUNK_SIZE \/ e = SegEnd(m)

(* After a merge the chunks still tile the segment.                        *)
LEMMA MergeTiles ==
  ASSUME NEW m \in MState, Shaped(m), NEW m2 \in MState,
         NEW q \in Chunks(m), NEW e \in Heads(m.tags), q < e, Merge(m, m2, q, e)
  PROVE  /\ Tiles(m2)
         /\ Chunks(m2) = {a \in Chunks(m) : a <= q \/ e <= a}
         /\ \A a \in Chunks(m2) : a # q => m2.tags.size[a] = m.tags.size[a]
         /\ \A a \in Chunks(m2) : a # q => a + m.tags.size[a] <= q \/ e < a + m.tags.size[a]
         /\ m2.tags.size[q] = e - q /\ q \in Chunks(m2)
  <1> DEFINE t == m.tags
             u == m2.tags
             E == SegEnd(m)
  <1>1. /\ q \in Addr /\ SegBase <= q /\ q < E /\ E \in Addr
        /\ e \in Addr /\ e <= E /\ t.size[q] \in Nat /\ SegBase \in Nat
    BY ChunkFacts DEF Shaped, Tiles, Heads
  <1>2. Heads(u) = {a \in Heads(t) : a <= q \/ e <= a}
    <2>1. ASSUME NEW a \in Addr
          PROVE  u.size[a] # 0 <=> t.size[a] # 0 /\ (a <= q \/ e <= a)
      BY <1>1, <2>1, q \in Heads(t) DEF Chunks, Heads, Merge
    <2> QED
      BY <2>1 DEF Heads
  <1>3. Chunks(m2) = {a \in Chunks(m) : a <= q \/ e <= a}
    BY <1>2 DEF Chunks, Merge
  <1>4. q \in Chunks(m2) /\ u.size[q] = e - q
    BY <1>1, <1>3 DEF Merge
  <1>5. ASSUME NEW a \in Chunks(m2), a # q
        PROVE  /\ u.size[a] = t.size[a] /\ a \in Chunks(m)
               /\ a + t.size[a] <= q \/ e < a + t.size[a]
    <2>1. a \in Chunks(m) /\ (a <= q \/ e <= a) /\ a \in Addr /\ t.size[a] \in Nat \ {0}
      BY <1>3, ChunkFacts
    <2>2. a < q => a + t.size[a] <= q
      BY <2>1, ChunkFacts DEF Chunks
    <2> QED
      BY <1>1, <1>5, <2>1, <2>2 DEF Merge
  <1>6. SegBase \in Chunks(m2) /\ E \in Heads(u)
    BY <1>1, <1>2, <1>3, ChunkFacts DEF Shaped, Tiles
  <1>7. \A a \in Heads(u) : SegBase <= a /\ a <= E
    BY <1>2 DEF Shaped, Tiles
  <1>8. ASSUME NEW a \in Chunks(m2)
        PROVE  /\ a + u.size[a] \in Heads(u)
               /\ Body(a, u.size[a]) \cap Heads(u) = {}
               /\ a # m2.top => u.size[a] >= MIN_CHUNK_SIZE
    <2>1. CASE a = q
      <3>1. a + u.size[a] = e
        BY <1>1, <1>4, <2>1
      <3> QED
        BY <1>1, <1>2, <1>4, <2>1, <3>1 DEF Body, Merge
    <2>2. CASE a # q
      <3>1. a \in Chunks(m) /\ u.size[a] = t.size[a] /\ a + t.size[a] \in Addr
        BY <1>5, <2>2, ChunkFacts
      <3>2. a + t.size[a] \in Heads(t) /\ Body(a, t.size[a]) \cap Heads(t) = {}
        BY <3>1 DEF Shaped, Tiles
      <3>3. a # m2.top => t.size[a] >= MIN_CHUNK_SIZE
        <4>1. SUFFICES ASSUME a = m.top, a # m2.top PROVE FALSE
          BY <3>1 DEF Shaped, Tiles
        <4>2. e = E
          BY <4>1 DEF Merge
        <4>3. a + t.size[a] = E
          BY <4>1 DEF Shaped, TopIsFree, SegEnd
        <4> QED
          BY <1>1, <1>5, <2>2, <4>2, <4>3
      <3> QED
        BY <1>1, <1>2, <1>5, <2>2, <3>1, <3>2, <3>3
    <2> QED
      BY <2>1, <2>2
  <1>9. ASSUME NEW h \in Heads(u) \ {SegBase}
        PROVE  \E c \in Chunks(m2) : c + u.size[c] = h
    <2>1. PICK c \in Chunks(m) : c + t.size[c] = h
      BY <1>2 DEF Shaped, Tiles
    <2>2. c \in Addr /\ h \in Addr /\ (h <= q \/ e <= h) /\ t.size[c] \in Nat \ {0}
      BY <1>2, <2>1, ChunkFacts DEF Heads
    <2>3. CASE c < q \/ e <= c
      <3>1. c \in Chunks(m2) /\ c # q
        BY <1>1, <1>3, <2>2, <2>3
      <3> QED
        BY <1>5, <2>1, <3>1
    <2>4. CASE q <= c /\ c < e
      <3>1. h <= e
        BY <2>1, <2>4, ChunkFacts
      <3>2. h = e
        BY <1>1, <2>1, <2>2, <2>4, <3>1
      <3> QED
        BY <1>1, <1>4, <3>2
    <2> QED
      BY <1>1, <2>2, <2>3, <2>4
  <1>10. Tiles(m2)
    BY <1>6, <1>7, <1>8, <1>9 DEF Tiles, Merge
  <1> QED
    BY <1>3, <1>4, <1>5, <1>10

(* The chunks from p up to the head e become two: nb at p, then the rest.  *)
Recut(m, m2, p, nb, e) ==
  /\ \A a \in Addr : m2.tags.size[a] =
        IF a = p THEN nb ELSE IF a = p + nb THEN e - (p + nb)
        ELSE IF p < a /\ a < e THEN 0 ELSE m.tags.size[a]
  /\ SegEnd(m2) = SegEnd(m)
  /\ m2.top = IF e = SegEnd(m) THEN p + nb ELSE m.top
  /\ nb >= MIN_CHUNK_SIZE
  /\ e - (p + nb) >= MIN_CHUNK_SIZE \/ e = SegEnd(m)

(* The chunks there are then.                                              *)
RecutChunks(m, p, nb, e) == {a \in Chunks(m) : a <= p \/ e <= a} \cup {p + nb}

(* After chunks are cut anew, the chunks still tile the segment.           *)
LEMMA RecutTiles ==
  ASSUME NEW m \in MState, Shaped(m), NEW m2 \in MState,
         NEW p \in Chunks(m), NEW e \in Heads(m.tags),
         NEW nb \in Nat, nb > 0, p + nb < e, Recut(m, m2, p, nb, e)
  PROVE  /\ Tiles(m2)
         /\ Chunks(m2) = RecutChunks(m, p, nb, e)
         /\ \A a \in Chunks(m2) \ {p, p + nb} :
              /\ m2.tags.size[a] = m.tags.size[a]
              /\ a + m.tags.size[a] <= p \/ e < a + m.tags.size[a]
         /\ m2.tags.size[p] = nb /\ m2.tags.size[p + nb] = e - (p + nb)
         /\ p \in Chunks(m2)
  <1> DEFINE t == m.tags
             u == m2.tags
             E == SegEnd(m)
             r == p + nb
  <1>1. /\ p \in Addr /\ SegBase <= p /\ p < E /\ E \in Addr
        /\ e \in Addr /\ e <= E /\ t.size[p] \in Nat /\ SegBase \in Nat
        /\ r \in Addr /\ p < r /\ r < e
    <2>1. /\ p \in Addr /\ SegBase <= p /\ p < E /\ E \in Addr
          /\ t.size[p] \in Nat /\ SegBase \in Nat
      BY ChunkFacts
    <2>2. e \in Addr /\ e <= E
      BY DEF Shaped, Tiles, Heads
    <2>3. r \in Addr /\ p < r /\ r < e
      BY <2>1, <2>2
    <2> QED
      BY <2>1, <2>2, <2>3
  <1>2. Heads(u) = {a \in Heads(t) : a <= p \/ e <= a} \cup {r}
    <2>1. ASSUME NEW a \in Addr
          PROVE  u.size[a] # 0 <=> a = r \/ (t.size[a] # 0 /\ (a <= p \/ e <= a))
      BY <1>1, <2>1, p \in Heads(t) DEF Chunks, Heads, Recut
    <2> QED
      BY <1>1, <2>1 DEF Heads
  <1>3. Chunks(m2) = {a \in Chunks(m) : a <= p \/ e <= a} \cup {r}
    BY <1>1, <1>2 DEF Chunks, Recut
  <1>4. p \in Chunks(m2) /\ r \in Chunks(m2) /\ u.size[p] = nb /\ u.size[r] = e - r
    BY <1>1, <1>3 DEF Recut
  <1>5. ASSUME NEW a \in Chunks(m2), a # p, a # r
        PROVE  /\ u.size[a] = t.size[a] /\ a \in Chunks(m)
               /\ a + t.size[a] <= p \/ e < a + t.size[a]
    <2>1. a \in Chunks(m) /\ (a <= p \/ e <= a) /\ a \in Addr /\ t.size[a] \in Nat \ {0}
      BY <1>3, <1>5, ChunkFacts
    <2>2. a < p => a + t.size[a] <= p
      BY <2>1, ChunkFacts DEF Chunks
    <2> QED
      BY <1>1, <1>5, <2>1, <2>2 DEF Recut
  <1>6. SegBase \in Chunks(m2) /\ E \in Heads(u)
    BY <1>1, <1>2, <1>3, ChunkFacts DEF Shaped, Tiles
  <1>7. ASSUME NEW a \in Heads(u) PROVE SegBase <= a /\ a <= E
    <2>1. CASE a = r
      BY <1>1, <2>1
    <2>2. CASE a # r
      BY <1>2, <2>2 DEF Shaped, Tiles
    <2> QED
      BY <2>1, <2>2
  <1>8. ASSUME NEW a \in Chunks(m2)
        PROVE  /\ a + u.size[a] \in Heads(u)
               /\ Body(a, u.size[a]) \cap Heads(u) = {}
               /\ a # m2.top => u.size[a] >= MIN_CHUNK_SIZE
    <2>1. CASE a = p
      <3>1. a + u.size[a] = r
        BY <1>1, <1>4, <2>1
      <3> QED
        BY <1>1, <1>2, <1>4, <2>1, <3>1 DEF Body, Recut
    <2>2. CASE a = r
      <3>1. a + u.size[a] = e
        BY <1>1, <1>4, <2>2
      <3> QED
        BY <1>1, <1>2, <1>4, <2>2, <3>1 DEF Body, Recut
    <2>3. CASE a # p /\ a # r
      <3>1. a \in Chunks(m) /\ u.size[a] = t.size[a] /\ a + t.size[a] \in Addr
        BY <1>5, <2>3, ChunkFacts
      <3>2. a + t.size[a] \in Heads(t) /\ Body(a, t.size[a]) \cap Heads(t) = {}
        BY <3>1 DEF Shaped, Tiles
      <3>3. a # m2.top => t.size[a] >= MIN_CHUNK_SIZE
        <4>1. SUFFICES ASSUME a = m.top, a # m2.top PROVE FALSE
          BY <3>1 DEF Shaped, Tiles
        <4>2. e = E
          BY <4>1 DEF Recut
        <4>3. a + t.size[a] = E
          BY <4>1 DEF Shaped, TopIsFree, SegEnd
        <4> QED
          BY <1>1, <1>5, <2>3, <4>2, <4>3
      <3>4. Body(a, t.size[a]) \cap {r} = {}
        <4>1. (a <= p \/ e <= a) /\ a \in Addr
          BY <1>3, <2>3, <3>1, ChunkFacts
        <4>2. t.size[a] \in Nat /\ (a < p => a + t.size[a] <= p)
          BY <3>1, ChunkFacts DEF Chunks
        <4>3. r \notin Body(a, t.size[a])
          BY <1>1, <2>3, <4>1, <4>2 DEF Body
        <4> QED
          BY <4>3
      <3>5. a + t.size[a] \in Heads(u)
        <4>1. t.size[a] \in Nat \ {0} /\ a \in Addr
          BY <3>1, ChunkFacts
        <4>2. a + t.size[a] <= p \/ e < a + t.size[a]
          BY <1>5, <2>3
        <4> QED
          BY <1>1, <1>2, <3>2, <4>1, <4>2
      <3>6. Body(a, t.size[a]) \cap Heads(u) = {}
        BY <1>2, <3>2, <3>4
      <3> QED
        BY <3>1, <3>3, <3>5, <3>6
    <2> QED
      BY <2>1, <2>2, <2>3
  <1>9. ASSUME NEW h \in Heads(u) \ {SegBase}
        PROVE  \E c \in Chunks(m2) : c + u.size[c] = h
    <2>1. CASE h = r
      BY <1>4, <2>1
    <2>2. CASE h # r
      <3>1. PICK c \in Chunks(m) : c + t.size[c] = h
        BY <1>2, <2>2 DEF Shaped, Tiles
      <3>2. c \in Addr /\ h \in Addr /\ (h <= p \/ e <= h) /\ t.size[c] \in Nat \ {0}
        BY <1>2, <2>2, <3>1, ChunkFacts DEF Heads
      <3>3. CASE c < p \/ e <= c
        <4>1. c \in Chunks(m2) /\ c # p /\ c # r
          BY <1>1, <1>3, <3>2, <3>3
        <4> QED
          BY <1>5, <3>1, <4>1
      <3>4. CASE p <= c /\ c < e
        <4>1. h <= e
          BY <3>1, <3>4, ChunkFacts
        <4>2. h = e
          BY <1>1, <3>1, <3>2, <3>4, <4>1
        <4> QED
          BY <1>1, <1>4, <4>2
      <3> QED
        BY <1>1, <3>2, <3>3, <3>4
    <2> QED
      BY <2>1, <2>2
  <1>10. Tiles(m2)
    BY <1>6, <1>7, <1>8, <1>9 DEF Tiles, Recut
  <1>11. Chunks(m2) = RecutChunks(m, p, nb, e)
    BY <1>3 DEF RecutChunks
  <1> QED
    BY <1>4, <1>5, <1>10, <1>11

-----------------------------------------------------------------------------
(* The macros write within the segment.                                    *)
LEMMA MacroTypes ==
  ASSUME NEW t \in Tags, NEW p \in Addr, NEW s \in Nat, p + s \in Addr, NEW n
  PROVE  /\ set_size_and_pinuse_of_inuse_chunk(t, p, s) \in Tags
         /\ set_inuse_and_pinuse(t, p, s) \in Tags
         /\ set_inuse(t, p, s) \in Tags
         /\ set_size_and_pinuse_of_free_chunk(t, p, s) \in Tags
         /\ set_free_with_pinuse(t, p, s, n) \in Tags
         /\ set_top_head(t, p, s) \in Tags
  <1>1. /\ HeadWritten(t, p, s) \in [Addr -> Nat]
        /\ FeetOfInuse(t, p, s) \in [Addr -> Nat]
        /\ FeetOfFree(t, p, s) \in [Addr -> Nat]
    BY DEF Tags, HeadWritten, FeetOfInuse, FeetOfFree
  <1>2. FeetOfFree([t EXCEPT !.pin = @ \ {n}], p, s) = FeetOfFree(t, p, s)
    BY DEF Tags, FeetOfFree
  <1>3. HeadWritten([t EXCEPT !.pin = @ \ {n}], p, s) = HeadWritten(t, p, s)
    BY DEF Tags, HeadWritten
  <1>4. set_size_and_pinuse_of_inuse_chunk(t, p, s) \in Tags
    BY <1>1 DEF Tags, set_size_and_pinuse_of_inuse_chunk
  <1>5. set_inuse_and_pinuse(t, p, s) \in Tags
    BY <1>1 DEF Tags, set_inuse_and_pinuse
  <1>6. set_inuse(t, p, s) \in Tags
    BY <1>1 DEF Tags, set_inuse
  <1>7. set_size_and_pinuse_of_free_chunk(t, p, s) \in Tags
    BY <1>1 DEF Tags, set_size_and_pinuse_of_free_chunk
  <1>8. set_free_with_pinuse(t, p, s, n) \in Tags
    BY <1>1, <1>2, <1>3 DEF Tags, set_free_with_pinuse, set_size_and_pinuse_of_free_chunk
  <1>9. set_top_head(t, p, s) \in Tags
    BY <1>1 DEF Tags, set_top_head
  <1> QED
    BY <1>4, <1>5, <1>6, <1>7, <1>8, <1>9

(* A free chunk is given out whole.                                        *)
LEMMA TakeWhole ==
  ASSUME NEW m \in MState, Shaped(m), NEW m2 \in MState,
         NEW p \in FreeChunks(m), p # m.top,
         m2.tags = set_inuse_and_pinuse(m.tags, p, m.tags.size[p]),
         m2.top = m.top, m2.topsize = m.topsize
  PROVE  /\ Shaped(m2)
         /\ m2.tags.size = m.tags.size
         /\ Chunks(m2) = Chunks(m)
         /\ FreeChunks(m2) = FreeChunks(m) \ {p}
  <1> DEFINE t == m.tags
             u == m2.tags
             s == t.size[p]
             n == p + s
  <1>1. /\ p \in Chunks(m) /\ p \in Addr /\ s \in Nat \ {0}
        /\ n \in Addr /\ n \in Chunks(m) /\ SegBase <= p
        /\ p # SegBase /\ p \in t.pin /\ p \notin t.cin /\ n \in t.cin
    BY ChunkFacts DEF FreeChunks, Shaped, TagsAgree, Coalesced
  <1>2. t \in Tags
    BY DEF MState
  <1>3. Body(p, s) \cap Heads(t) = {}
    BY <1>1 DEF Shaped, Tiles
  <1>4. u.size = t.size
    <2>1. \A a \in Addr : a \in Body(p, s) => t.size[a] = 0
      BY <1>3 DEF Heads
    <2>2. u.size = HeadWritten(t, p, s)
      BY DEF set_inuse_and_pinuse
    <2> QED
      BY <1>2, <2>1, <2>2 DEF HeadWritten, Tags
  <1>5. SegEnd(m2) = SegEnd(m) /\ Heads(u) = Heads(t) /\ Chunks(m2) = Chunks(m)
    BY <1>4 DEF SegEnd, Heads, Chunks
  <1>6. \A a \in Heads(t) : /\ a \in u.cin <=> a \in t.cin \/ a = p
                            /\ a \in u.pin <=> a \in t.pin \/ a = n
    BY <1>1, <1>3 DEF set_inuse_and_pinuse
  <1>7. FreeChunks(m2) = FreeChunks(m) \ {p}
    BY <1>5, <1>6 DEF FreeChunks, Chunks
  <1>8. Tiles(m2)
    BY <1>4, <1>5 DEF Shaped, Tiles
  <1>9. \A a \in Chunks(m) : a + t.size[a] = n <=> a = p
    BY <1>1, UniqueNext
  <1>10. TagsAgree(m2)
    <2>1. SegBase \in u.pin /\ SegBase \in u.cin
      BY <1>6, ChunkFacts DEF Shaped, TagsAgree, Chunks
    <2>2. \A a \in Chunks(m2) : (a + u.size[a] \in u.pin) <=> (a \in u.cin)
      BY <1>4, <1>5, <1>6, <1>9 DEF Shaped, TagsAgree, Tiles, Chunks
    <2>3. \A a \in FreeChunks(m2) \ {m2.top} : u.foot[a + u.size[a]] = u.size[a]
      <3>1. SUFFICES ASSUME NEW a \in FreeChunks(m) \ {m.top}, a # p
                     PROVE  u.foot[a + t.size[a]] = t.size[a]
        BY <1>4, <1>7
      <3>2. a + t.size[a] \in Chunks(m) /\ a + t.size[a] \in Addr
        BY ChunkFacts DEF FreeChunks
      <3>3. a + t.size[a] # n /\ a + t.size[a] \notin Body(p, s)
        BY <1>3, <1>9, <3>1, <3>2 DEF FreeChunks, Chunks
      <3>4. u.foot[a + t.size[a]] = t.foot[a + t.size[a]]
        BY <3>2, <3>3 DEF set_inuse_and_pinuse, FeetOfInuse
      <3> QED
        BY <3>1, <3>4 DEF Shaped, TagsAgree
    <2> QED
      BY <2>1, <2>2, <2>3 DEF TagsAgree
  <1>11. Coalesced(m2)
    BY <1>4, <1>5, <1>6, <1>7, ChunkFacts DEF Shaped, Coalesced, Tiles, FreeChunks, Chunks
  <1>12. TopIsFree(m2)
    BY <1>4, <1>6, <1>7 DEF Shaped, TopIsFree, FreeChunks, Chunks
  <1> QED
    BY <1>4, <1>5, <1>7, <1>8, <1>10, <1>11, <1>12 DEF Shaped

(* A free chunk is given out up to nb; the rest stays free.                *)
LEMMA SplitFree ==
  ASSUME NEW m \in MState, Shaped(m), NEW m2 \in MState,
         NEW p \in FreeChunks(m), p # m.top, NEW nb \in Nat,
         nb >= MIN_CHUNK_SIZE, m.tags.size[p] - nb >= MIN_CHUNK_SIZE,
         m2.tags = Split(m.tags, p, nb, m.tags.size[p] - nb),
         m2.top = m.top, m2.topsize = m.topsize
  PROVE  /\ Shaped(m2)
         /\ Chunks(m2) = Chunks(m) \cup {p + nb}
         /\ FreeChunks(m2) = (FreeChunks(m) \ {p}) \cup {p + nb}
         /\ \A a \in Chunks(m) \ {p} : m2.tags.size[a] = m.tags.size[a]
         /\ m2.tags.size[p] = nb /\ m2.tags.size[p + nb] = m.tags.size[p] - nb
         /\ p + nb \notin Chunks(m)
  <1> DEFINE t == m.tags
             u == m2.tags
             s == t.size[p]
             r == p + nb
             n == p + s
  <1>1. /\ p \in Chunks(m) /\ p \in Addr /\ s \in Nat \ {0}
        /\ n \in Addr /\ n \in Chunks(m) /\ SegBase <= p
        /\ p # SegBase /\ p \in t.pin /\ p \notin t.cin /\ n \in t.cin
        /\ n \notin t.pin
    BY ChunkFacts DEF FreeChunks, Shaped, TagsAgree, Coalesced
  <1>2. t \in Tags /\ MIN_CHUNK_SIZE \in Nat \ {0}
    BY ChunkConstants DEF MState
  <1>3. Body(p, s) \cap Heads(t) = {}
    BY <1>1 DEF Shaped, Tiles
  <1>4. r \in Addr /\ r \in Body(p, s) /\ r # n /\ r \notin Chunks(m) /\ p < r /\ r < n
    <2>1. r \in Addr /\ r # n /\ p < r /\ r < n
      BY <1>1, <1>2
    <2>2. r \in Body(p, s)
      BY <1>1, <2>1 DEF Body
    <2> QED
      BY <1>3, <2>1, <2>2 DEF Chunks
  <1>5. \A a \in Addr : a \in Body(p, s) => t.size[a] = 0
    BY <1>3 DEF Heads
  <1>6. \A a \in Addr : u.size[a] = IF a = p THEN nb ELSE IF a = r THEN s - nb
                                    ELSE t.size[a]
    <2>1. u.size = HeadWritten(set_size_and_pinuse_of_inuse_chunk(t, p, nb), r, s - nb)
      BY DEF Split, set_size_and_pinuse_of_free_chunk
    <2>2. \A a \in Addr : set_size_and_pinuse_of_inuse_chunk(t, p, nb).size[a] =
            IF a = p THEN nb ELSE t.size[a]
      <3>1. ASSUME NEW a \in Addr, a \in Body(p, nb) PROVE t.size[a] = 0
        BY <1>1, <1>2, <1>5, <3>1 DEF Body
      <3> QED
        BY <3>1 DEF set_size_and_pinuse_of_inuse_chunk, HeadWritten
    <2>3. \A a \in Addr : a \in Body(r, s - nb) => t.size[a] = 0 /\ a # p
      BY <1>1, <1>2, <1>4, <1>5 DEF Body
    <2> QED
      BY <1>4, <2>1, <2>2, <2>3 DEF HeadWritten
  <1>7. SegEnd(m2) = SegEnd(m)
    BY DEF SegEnd
  <1>8. Recut(m, m2, p, nb, n)
    <2>1. n # SegEnd(m)
      BY <1>1 DEF Chunks
    <2>2. n - r = s - nb
      BY <1>1
    <2>3. \A a \in Addr : p < a /\ a < n => t.size[a] = 0
      BY <1>1, <1>5 DEF Body
    <2> QED
      BY <1>1, <1>6, <1>7, <2>1, <2>2, <2>3 DEF Recut
  <1>9. /\ Tiles(m2) /\ Chunks(m2) = Chunks(m) \cup {r}
    <2>1. /\ Tiles(m2)
          /\ Chunks(m2) = {a \in Chunks(m) : a <= p \/ n <= a} \cup {r}
      BY <1>1, <1>2, <1>4, <1>8, RecutTiles DEF Chunks, RecutChunks
    <2>2. \A a \in Chunks(m) : a <= p \/ n <= a
      BY <1>1, ChunkFacts DEF Chunks
    <2> QED
      BY <2>1, <2>2
  <1>10. \A a \in Chunks(m) : /\ a \in u.cin <=> a \in t.cin \/ a = p
                              /\ a \in u.pin <=> a \in t.pin
    <2>1. \A a \in Chunks(m) : a \notin Body(p, s) /\ a # r
      BY <1>3, <1>4 DEF Chunks
    <2>2. \A a \in Addr : a \in Body(p, nb) \/ a \in Body(r, s - nb) => a \in Body(p, s)
      BY <1>1, <1>2, <1>4 DEF Body
    <2>3. /\ u.cin = ((t.cin \ Body(p, nb)) \cup {p}) \ (Body(r, s - nb) \cup {r})
          /\ u.pin = (((t.pin \ Body(p, nb)) \cup {p}) \ Body(r, s - nb)) \cup {r}
      BY DEF Split, set_size_and_pinuse_of_free_chunk, set_size_and_pinuse_of_inuse_chunk
    <2> QED
      BY <1>1, <2>1, <2>2, <2>3, ChunkFacts
  <1>11. r \notin u.cin /\ r \in u.pin
    BY DEF Split, set_size_and_pinuse_of_free_chunk
  <1>12. FreeChunks(m2) = (FreeChunks(m) \ {p}) \cup {r}
    BY <1>9, <1>10, <1>11 DEF FreeChunks
  <1>13. \A a \in Chunks(m) : u.size[a] = IF a = p THEN nb ELSE t.size[a]
    BY <1>4, <1>6, ChunkFacts
  <1>14. u.size[r] = s - nb /\ r + u.size[r] = n
    BY <1>1, <1>4, <1>6
  <1>15. \A a \in Chunks(m) \ {p} : a + t.size[a] # r /\ a + t.size[a] # n
    <2>1. \A a \in Chunks(m) : a + t.size[a] \in Heads(t)
      BY DEF Shaped, Tiles
    <2>2. r \notin Heads(t)
      BY <1>3, <1>4
    <2>3. \A a \in Chunks(m) \ {p} : a + t.size[a] # n
      BY <1>1, UniqueNext
    <2> QED
      BY <2>1, <2>2, <2>3
  <1>16. TagsAgree(m2)
    <2>1. SegBase \in u.pin /\ SegBase \in u.cin
      BY <1>10, ChunkFacts DEF Shaped, TagsAgree
    <2>2. ASSUME NEW a \in Chunks(m2) PROVE (a + u.size[a] \in u.pin) <=> (a \in u.cin)
      <3>1. CASE a = r
        BY <1>1, <1>10, <1>11, <1>14, <3>1
      <3>2. CASE a = p
        BY <1>1, <1>4, <1>10, <1>11, <1>13, <3>2
      <3>3. CASE a # r /\ a # p /\ a # m.top
        <4>1. a \in Chunks(m) /\ a + t.size[a] \in Chunks(m) /\ u.size[a] = t.size[a]
          BY <1>9, <1>13, <3>3, ChunkFacts
        <4> QED
          BY <1>10, <3>3, <4>1 DEF Shaped, TagsAgree
      <3>4. CASE a = m.top
        <4>1. /\ a \in Chunks(m) /\ u.size[a] = t.size[a] /\ a \notin t.cin /\ a # p
              /\ a + t.size[a] \notin t.pin /\ a + t.size[a] = SegEnd(m)
          BY <1>13, <3>4 DEF Shaped, TopIsFree, FreeChunks, TagsAgree, SegEnd
        <4>2. SegEnd(m) \notin u.pin
          <5>1. SegEnd(m) \notin Body(p, s) /\ SegEnd(m) # p /\ SegEnd(m) # r
            BY <1>1, <1>4, ChunkFacts DEF Body
          <5> QED
            BY <4>1, <5>1 DEF Split, set_size_and_pinuse_of_free_chunk,
                              set_size_and_pinuse_of_inuse_chunk
        <4> QED
          BY <1>10, <4>1, <4>2
      <3> QED
        BY <3>1, <3>2, <3>3, <3>4
    <2>3. ASSUME NEW a \in FreeChunks(m2) \ {m2.top} PROVE u.foot[a + u.size[a]] = u.size[a]
      <3>1. u.foot = FeetOfFree(set_size_and_pinuse_of_inuse_chunk(t, p, nb), r, s - nb)
        BY DEF Split, set_size_and_pinuse_of_free_chunk
      <3>2. CASE a = r
        <4>1. r + (s - nb) = n
          BY <1>1, <1>2
        <4> QED
          BY <1>1, <1>14, <3>1, <3>2, <4>1 DEF FeetOfFree
      <3>3. CASE a # r
        <4>1. a \in FreeChunks(m) /\ a # p /\ u.size[a] = t.size[a] /\ a # m.top
          BY <1>12, <1>13, <3>3 DEF FreeChunks
        <4>2. a + t.size[a] \in Chunks(m) /\ a + t.size[a] \in Addr
          BY <4>1, ChunkFacts DEF FreeChunks
        <4>3. a + t.size[a] \notin Body(p, s) /\ a + t.size[a] # n /\ a + t.size[a] # r
          BY <1>3, <1>15, <4>1, <4>2 DEF FreeChunks, Chunks
        <4>4. \A x \in Addr : x \in Body(p, nb) \/ x \in Body(r, s - nb) => x \in Body(p, s)
          BY <1>1, <1>2, <1>4 DEF Body
        <4>5. r + (s - nb) = n
          BY <1>1, <1>2
        <4>6. u.foot[a + t.size[a]] = t.foot[a + t.size[a]]
          BY <3>1, <4>2, <4>3, <4>4, <4>5
             DEF FeetOfFree, FeetOfInuse, set_size_and_pinuse_of_inuse_chunk
        <4> QED
          BY <4>1, <4>6 DEF Shaped, TagsAgree
      <3> QED
        BY <3>2, <3>3
    <2> QED
      BY <2>1, <2>2, <2>3 DEF TagsAgree
  <1>17. Coalesced(m2)
    <2>1. ASSUME NEW a \in FreeChunks(m2) \ {m2.top}
          PROVE  a \in u.pin /\ a + u.size[a] \in u.cin
      <3>1. CASE a = r
        BY <1>1, <1>10, <1>11, <1>14, <3>1
      <3>2. CASE a # r
        <4>1. a \in FreeChunks(m) /\ a # p /\ u.size[a] = t.size[a] /\ a # m.top /\ a \in Chunks(m)
          BY <1>12, <1>13, <3>2 DEF FreeChunks
        <4>2. a + t.size[a] \in Chunks(m)
          BY <4>1, ChunkFacts
        <4> QED
          BY <1>10, <4>1, <4>2 DEF Shaped, Coalesced
      <3> QED
        BY <3>1, <3>2
    <2> QED
      BY <2>1 DEF Coalesced
  <1>18. TopIsFree(m2)
    BY <1>10, <1>12, <1>13, ChunkFacts DEF Shaped, TopIsFree
  <1>19. Shaped(m2)
    BY <1>9, <1>16, <1>17, <1>18 DEF Shaped
  <1>20. u.size[p] = nb
    BY <1>1, <1>13
  <1> HIDE DEF u, t, s, n
  <1> QED
    BY <1>4, <1>9, <1>12, <1>13, <1>14, <1>19, <1>20 DEF t, s, u

(* The chunk that is cut from the start of what ends at top is given out;  *)
(* it was top itself, or is in use and grows.                              *)
TopCut(m, m2, p, r) ==
  /\ p \in m2.tags.cin /\ r \notin m2.tags.cin /\ r \in m2.tags.pin
  /\ SegEnd(m) \notin m2.tags.pin
  /\ \A a \in Chunks(m) : a < p => (a \in m2.tags.cin <=> a \in m.tags.cin)
  /\ \A a \in Chunks(m) : a <= p => /\ a \in m2.tags.pin <=> a \in m.tags.pin
                                    /\ m2.tags.foot[a] = m.tags.foot[a]
  /\ m2.topsize = m2.tags.size[r]

(* After top is cut the heap has its shape, and top is what is left.       *)
LEMMA CutTop ==
  ASSUME NEW m \in MState, Shaped(m), NEW m2 \in MState, NEW p \in Chunks(m),
         NEW nb \in Nat, nb >= MIN_CHUNK_SIZE, p + nb < SegEnd(m),
         p # SegBase, p <= m.top,
         Recut(m, m2, p, nb, SegEnd(m)), TopCut(m, m2, p, p + nb),
         p = m.top \/ (p \in m.tags.cin /\ p + m.tags.size[p] = m.top)
  PROVE  /\ Shaped(m2)
         /\ Chunks(m2) = (Chunks(m) \ {m.top}) \cup {p, p + nb}
         /\ FreeChunks(m2) = (FreeChunks(m) \ {m.top}) \cup {p + nb}
         /\ \A a \in Chunks(m) \ {m.top, p} : m2.tags.size[a] = m.tags.size[a]
         /\ m2.tags.size[p] = nb /\ m2.top = p + nb /\ p + nb \notin Chunks(m) \ {m.top}
  <1> DEFINE t == m.tags
             u == m2.tags
             E == SegEnd(m)
             r == p + nb
  <1>1. /\ p \in Addr /\ SegBase <= p /\ E \in Addr /\ m.top \in Addr /\ m.top < E
        /\ r \in Addr /\ p < r /\ r < E /\ E \in Heads(t) /\ nb > 0
        /\ E \notin Chunks(m)
    <2>1. /\ p \in Addr /\ SegBase <= p /\ E \in Addr /\ m.top \in Addr /\ m.top < E
      BY ChunkFacts
    <2>2. nb > 0 /\ E \in Heads(t) /\ E \notin Chunks(m)
      BY ChunkConstants DEF Shaped, Tiles, Chunks
    <2> QED
      BY <2>1, <2>2
  <1>2. /\ Tiles(m2)
        /\ Chunks(m2) = {a \in Chunks(m) : a <= p \/ E <= a} \cup {r}
        /\ \A a \in Chunks(m2) \ {p, r} :
             u.size[a] = t.size[a] /\ (a + t.size[a] <= p \/ E < a + t.size[a])
        /\ u.size[p] = nb /\ u.size[r] = E - r
    <2>1. p + nb < E /\ nb > 0 /\ E \in Heads(m.tags) /\ Recut(m, m2, p, nb, E)
      BY <1>1
    <2> HIDE DEF E, t, u
    <2>2. Tiles(m2) /\ Chunks(m2) = {a \in Chunks(m) : a <= p \/ E <= a} \cup {r}
      <3> HIDE DEF r
      <3>1. Tiles(m2)
        BY <2>1, RecutTiles
      <3>2. Chunks(m2) = {a \in Chunks(m) : a <= p \/ E <= a} \cup {p + nb}
        <4>1. Chunks(m2) = RecutChunks(m, p, nb, E)
          BY <2>1, RecutTiles
        <4> QED
          BY <4>1 DEF RecutChunks
      <3> QED
        BY <3>1, <3>2 DEF r
    <2> USE DEF t, u
    <2>3. \A a \in Chunks(m2) \ {p, r} :
             u.size[a] = t.size[a] /\ (a + t.size[a] <= p \/ E < a + t.size[a])
      BY <2>1, RecutTiles
    <2>4. u.size[p] = nb /\ u.size[r] = E - r
      BY <1>1, <2>1 DEF Recut
    <2> QED
      BY <2>2, <2>3, <2>4
  <1>3. m2.top = r /\ SegEnd(m2) = E
    BY DEF Recut
  <1>4. \A a \in Chunks(m) : p < a => a = m.top
    <2>1. ASSUME NEW a \in Chunks(m), p < a PROVE a = m.top
      <3>1. a \in Addr /\ a < E /\ a \in Heads(t) /\ m.top \in Chunks(m)
        BY ChunkFacts DEF Chunks
      <3>2. m.top < a => E <= a
        BY <3>1, ChunkFacts DEF Shaped, TopIsFree, SegEnd
      <3>3. p # m.top => m.top <= a
        BY <2>1, <3>1, ChunkFacts
      <3> QED
        BY <1>1, <2>1, <3>1, <3>2, <3>3
    <2> QED
      BY <2>1
  <1>5. Chunks(m2) = (Chunks(m) \ {m.top}) \cup {p, r}
    <2>1. \A a \in Chunks(m) : a \in Addr /\ a < E /\ (p < a <=> a = m.top /\ a # p)
      <3>1. ASSUME NEW a \in Chunks(m) PROVE a \in Addr /\ a < E
        BY ChunkFacts
      <3> QED
        BY <1>1, <1>4, <3>1
    <2> HIDE DEF E, r
    <2>2. \A a \in Chunks(m) : a <= p \/ E <= a <=> a # m.top \/ a = p
      BY <1>1, <2>1
    <2> QED
      BY <1>2, <2>2
  <1>6. \A a \in Chunks(m) \ {m.top, p} : a \in Addr /\ a < p /\ a # r
    BY <1>1, <1>4, ChunkFacts
  <1>7. r \notin Chunks(m) \ {m.top}
    BY <1>1, <1>4
  <1>8. p \notin FreeChunks(m) \ {m.top}
    BY DEF FreeChunks
  <1>9. FreeChunks(m2) = (FreeChunks(m) \ {m.top}) \cup {r}
    BY <1>5, <1>6, <1>7, <1>8 DEF FreeChunks, TopCut
  <1>10. \A a \in Chunks(m) \ {m.top, p} :
           /\ u.size[a] = t.size[a] /\ a + t.size[a] \in Chunks(m)
           /\ a + t.size[a] \in Addr /\ a + t.size[a] <= p
    <2>1. ASSUME NEW a \in Chunks(m), a # m.top, a # p
          PROVE  /\ u.size[a] = t.size[a] /\ a + t.size[a] \in Chunks(m)
                 /\ a + t.size[a] \in Addr /\ a + t.size[a] <= p
      <3>1. a + t.size[a] \in Chunks(m) /\ a + t.size[a] \in Addr /\ a \in Addr
        BY <2>1, ChunkFacts
      <3>2. a < p /\ p \in Heads(t) /\ a \in Chunks(m2) /\ a # r
        BY <1>5, <1>6, <2>1 DEF Chunks
      <3> QED
        BY <1>2, <2>1, <3>1, <3>2, ChunkFacts
    <2> QED
      BY <2>1
  <1>11. TagsAgree(m2)
    <2>1. SegBase \in u.pin /\ SegBase \in u.cin
      <3>1. SegBase \in Chunks(m) /\ SegBase < p /\ SegBase \in t.cin /\ SegBase \in t.pin
        BY <1>1, ChunkFacts DEF Shaped, TagsAgree
      <3> QED
        BY <1>1, <3>1 DEF TopCut
    <2>2. ASSUME NEW a \in Chunks(m2) PROVE (a + u.size[a] \in u.pin) <=> (a \in u.cin)
      <3>1. CASE a = p
        BY <1>2, <3>1 DEF TopCut
      <3>2. CASE a = r
        <4>1. a + u.size[a] = E
          BY <1>1, <1>2, <3>2
        <4> QED
          BY <3>2, <4>1 DEF TopCut
      <3>3. CASE a # p /\ a # r
        <4>1. a \in Chunks(m) \ {m.top, p}
          BY <1>5, <3>3
        <4> QED
          BY <1>6, <1>10, <4>1 DEF Shaped, TagsAgree, TopCut
      <3> QED
        BY <3>1, <3>2, <3>3
    <2>3. ASSUME NEW a \in FreeChunks(m2) \ {m2.top} PROVE u.foot[a + u.size[a]] = u.size[a]
      <3>1. a \in FreeChunks(m) \ {m.top} /\ a \in Chunks(m) \ {m.top, p}
        BY <1>3, <1>8, <1>9 DEF FreeChunks
      <3> QED
        BY <1>10, <3>1 DEF Shaped, TagsAgree, TopCut
    <2> QED
      BY <2>1, <2>2, <2>3 DEF TagsAgree
  <1>12. Coalesced(m2)
    <2>1. ASSUME NEW a \in FreeChunks(m2) \ {m2.top}
          PROVE  a \in u.pin /\ a + u.size[a] \in u.cin
      <3>1. a \in FreeChunks(m) \ {m.top} /\ a \in Chunks(m) \ {m.top, p}
        BY <1>3, <1>8, <1>9 DEF FreeChunks
      <3>2. a \in t.pin /\ a + t.size[a] \in t.cin
        BY <3>1 DEF Shaped, Coalesced
      <3>3. a \in u.pin
        <4>1. a \in Addr /\ a < p /\ a \in Chunks(m)
          BY <1>6, <3>1
        <4>2. a <= p
          BY <1>1, <4>1
        <4> QED
          BY <3>2, <4>1, <4>2 DEF TopCut
      <3>4. a + t.size[a] \in u.cin
        <4>1. /\ a + t.size[a] \in Chunks(m) /\ a + t.size[a] <= p
              /\ a + t.size[a] \in Addr
          BY <1>10, <3>1
        <4>2. a + t.size[a] < p \/ a + t.size[a] = p
          BY <1>1, <4>1
        <4> QED
          BY <3>2, <4>1, <4>2 DEF TopCut
      <3> QED
        BY <1>10, <3>1, <3>3, <3>4
    <2> QED
      BY <2>1 DEF Coalesced
  <1>13. TopIsFree(m2)
    BY <1>1, <1>2, <1>3, <1>9 DEF TopIsFree, TopCut
  <1>14. Shaped(m2)
    BY <1>2, <1>11, <1>12, <1>13 DEF Shaped
  <1> QED
    BY <1>2, <1>3, <1>5, <1>7, <1>9, <1>10, <1>14

(* The chunk p, in use, is cut: the rest is in use too.                    *)
LEMMA CutInuse ==
  ASSUME NEW m \in MState, Shaped(m), NEW m2 \in MState,
         NEW p \in Chunks(m), p \in m.tags.cin, NEW nb \in Nat,
         nb >= MIN_CHUNK_SIZE, m.tags.size[p] - nb >= MIN_CHUNK_SIZE,
         m2.tags = set_inuse(set_inuse(m.tags, p, nb), p + nb, m.tags.size[p] - nb),
         m2.top = m.top, m2.topsize = m.topsize
  PROVE  /\ Shaped(m2)
         /\ Chunks(m2) = Chunks(m) \cup {p + nb}
         /\ FreeChunks(m2) = FreeChunks(m)
         /\ \A a \in Chunks(m) \ {p} : m2.tags.size[a] = m.tags.size[a]
         /\ m2.tags.size[p] = nb /\ m2.tags.size[p + nb] = m.tags.size[p] - nb
         /\ p + nb \notin Chunks(m) /\ p + nb \in m2.tags.cin
  <1> DEFINE t == m.tags
             u == m2.tags
             s == t.size[p]
             r == p + nb
             n == p + s
  <1>1. /\ p \in Addr /\ s \in Nat \ {0} /\ n \in Addr /\ n \in Chunks(m)
        /\ SegBase <= p /\ n \in t.pin /\ p # m.top
    BY ChunkFacts DEF FreeChunks, Shaped, TagsAgree, TopIsFree
  <1>2. t \in Tags /\ MIN_CHUNK_SIZE \in Nat \ {0}
    BY ChunkConstants DEF MState
  <1>3. Body(p, s) \cap Heads(t) = {}
    BY DEF Shaped, Tiles
  <1>4. r \in Addr /\ r \in Body(p, s) /\ r # n /\ r \notin Chunks(m) /\ p < r /\ r < n
    <2>1. r \in Addr /\ r # n /\ p < r /\ r < n
      BY <1>1, <1>2
    <2>2. r \in Body(p, s)
      BY <1>1, <2>1 DEF Body
    <2> QED
      BY <1>3, <2>1, <2>2 DEF Chunks
  <1>5. \A a \in Addr : a \in Body(p, s) => t.size[a] = 0
    BY <1>3 DEF Heads
  <1>6. \A a \in Addr : u.size[a] = IF a = p THEN nb ELSE IF a = r THEN s - nb
                                    ELSE t.size[a]
    <2>1. u.size = HeadWritten(set_inuse(t, p, nb), r, s - nb)
      BY DEF set_inuse
    <2>2. \A a \in Addr : set_inuse(t, p, nb).size[a] = IF a = p THEN nb ELSE t.size[a]
      <3>1. ASSUME NEW a \in Addr, a \in Body(p, nb) PROVE t.size[a] = 0
        BY <1>1, <1>2, <1>5, <3>1 DEF Body
      <3> QED
        BY <3>1 DEF set_inuse, HeadWritten
    <2>3. \A a \in Addr : a \in Body(r, s - nb) => t.size[a] = 0 /\ a # p
      BY <1>1, <1>2, <1>4, <1>5 DEF Body
    <2> QED
      BY <1>4, <2>1, <2>2, <2>3 DEF HeadWritten
  <1>7. SegEnd(m2) = SegEnd(m)
    BY DEF SegEnd
  <1>8. Recut(m, m2, p, nb, n)
    <2>1. n # SegEnd(m)
      BY <1>1 DEF Chunks
    <2>2. n - r = s - nb
      BY <1>1
    <2>3. \A a \in Addr : p < a /\ a < n => t.size[a] = 0
      BY <1>1, <1>5 DEF Body
    <2> QED
      BY <1>1, <1>6, <1>7, <2>1, <2>2, <2>3 DEF Recut
  <1>9. /\ Tiles(m2) /\ Chunks(m2) = Chunks(m) \cup {r}
    <2>1. /\ Tiles(m2)
          /\ Chunks(m2) = {a \in Chunks(m) : a <= p \/ n <= a} \cup {r}
      BY <1>1, <1>2, <1>4, <1>8, RecutTiles DEF Chunks, RecutChunks
    <2>2. \A a \in Chunks(m) : a <= p \/ n <= a
      BY <1>1, ChunkFacts DEF Chunks
    <2> QED
      BY <2>1, <2>2
  <1>10. \A a \in Chunks(m) : /\ a \in u.cin <=> a \in t.cin
                              /\ a \in u.pin <=> a \in t.pin
    <2>1. \A a \in Chunks(m) : a \notin Body(p, s) /\ a # r
      BY <1>3, <1>4 DEF Chunks
    <2>2. \A a \in Addr : a \in Body(p, nb) \/ a \in Body(r, s - nb) => a \in Body(p, s)
      BY <1>1, <1>2, <1>4 DEF Body
    <2>3. r + (s - nb) = n
      BY <1>1, <1>2
    <2>4. /\ u.cin = (((t.cin \ Body(p, nb)) \cup {p}) \ Body(r, s - nb)) \cup {r}
          /\ u.pin = (((t.pin \ Body(p, nb)) \cup {r}) \ Body(r, s - nb)) \cup {n}
      BY <2>3 DEF set_inuse
    <2> QED
      BY <1>1, <2>1, <2>2, <2>4, ChunkFacts
  <1>11. r \in u.cin /\ r \in u.pin
    <2>1. r \notin Body(r, s - nb)
      BY <1>1, <1>4 DEF Body
    <2> QED
      BY <2>1 DEF set_inuse
  <1>12. FreeChunks(m2) = FreeChunks(m)
    BY <1>9, <1>10, <1>11 DEF FreeChunks
  <1>13. \A a \in Chunks(m) : u.size[a] = IF a = p THEN nb ELSE t.size[a]
    BY <1>4, <1>6, ChunkFacts
  <1>14. u.size[r] = s - nb /\ r + u.size[r] = n
    BY <1>1, <1>4, <1>6
  <1>15. \A a \in Chunks(m) \ {p} : a + t.size[a] # r /\ a + t.size[a] # n
    <2>1. \A a \in Chunks(m) : a + t.size[a] \in Heads(t)
      BY DEF Shaped, Tiles
    <2>2. r \notin Heads(t)
      BY <1>3, <1>4
    <2>3. \A a \in Chunks(m) \ {p} : a + t.size[a] # n
      BY <1>1, UniqueNext
    <2> QED
      BY <2>1, <2>2, <2>3
  <1>16. TagsAgree(m2)
    <2>1. SegBase \in u.pin /\ SegBase \in u.cin
      BY <1>10, ChunkFacts DEF Shaped, TagsAgree
    <2>2. ASSUME NEW a \in Chunks(m2) PROVE (a + u.size[a] \in u.pin) <=> (a \in u.cin)
      <3>1. CASE a = r
        BY <1>1, <1>10, <1>11, <1>14, <3>1
      <3>2. CASE a = p
        BY <1>1, <1>10, <1>11, <1>13, <3>2
      <3>3. CASE a # r /\ a # p /\ a # m.top
        <4>1. a \in Chunks(m) /\ a + t.size[a] \in Chunks(m) /\ u.size[a] = t.size[a]
          BY <1>9, <1>13, <3>3, ChunkFacts
        <4> QED
          BY <1>10, <3>3, <4>1 DEF Shaped, TagsAgree
      <3>4. CASE a = m.top
        <4>1. /\ a \in Chunks(m) /\ u.size[a] = t.size[a] /\ a \notin t.cin
              /\ a + t.size[a] \notin t.pin /\ a + t.size[a] = SegEnd(m)
          BY <1>1, <1>13, <3>4 DEF Shaped, TopIsFree, FreeChunks, TagsAgree, SegEnd
        <4>2. SegEnd(m) \notin u.pin
          <5>1. SegEnd(m) # r /\ SegEnd(m) # n /\ r + (s - nb) = n
            BY <1>1, <1>2, <1>4, ChunkFacts
          <5> QED
            BY <4>1, <5>1 DEF set_inuse
        <4> QED
          BY <1>10, <4>1, <4>2
      <3> QED
        BY <3>1, <3>2, <3>3, <3>4
    <2>3. ASSUME NEW a \in FreeChunks(m2) \ {m2.top} PROVE u.foot[a + u.size[a]] = u.size[a]
      <3>1. u.foot = FeetOfInuse(set_inuse(t, p, nb), r, s - nb)
        BY DEF set_inuse
      <3>2. a \in FreeChunks(m) /\ a # p /\ u.size[a] = t.size[a] /\ a # m.top
        BY <1>12, <1>13 DEF FreeChunks
      <3>3. a + t.size[a] \in Chunks(m) /\ a + t.size[a] \in Addr
        BY <3>2, ChunkFacts DEF FreeChunks
      <3>4. a + t.size[a] \notin Body(p, s) /\ a + t.size[a] # n /\ a + t.size[a] # r
        BY <1>3, <1>15, <3>2, <3>3 DEF FreeChunks, Chunks
      <3>5. \A x \in Addr : x \in Body(p, nb) \/ x \in Body(r, s - nb) => x \in Body(p, s)
        BY <1>1, <1>2, <1>4 DEF Body
      <3>6. r + (s - nb) = n
        BY <1>1, <1>2
      <3>7. u.foot[a + t.size[a]] = t.foot[a + t.size[a]]
        BY <3>1, <3>3, <3>4, <3>5, <3>6 DEF FeetOfInuse, set_inuse
      <3> QED
        BY <3>2, <3>7 DEF Shaped, TagsAgree
    <2> QED
      BY <2>1, <2>2, <2>3 DEF TagsAgree
  <1>17. Coalesced(m2)
    <2>1. ASSUME NEW a \in FreeChunks(m2) \ {m2.top}
          PROVE  a \in u.pin /\ a + u.size[a] \in u.cin
      <3>1. a \in FreeChunks(m) /\ a # p /\ u.size[a] = t.size[a] /\ a # m.top /\ a \in Chunks(m)
        BY <1>12, <1>13 DEF FreeChunks
      <3>2. a + t.size[a] \in Chunks(m)
        BY <3>1, ChunkFacts
      <3> QED
        BY <1>10, <3>1, <3>2 DEF Shaped, Coalesced
    <2> QED
      BY <2>1 DEF Coalesced
  <1>18. TopIsFree(m2)
    BY <1>1, <1>10, <1>12, <1>13, ChunkFacts DEF Shaped, TopIsFree
  <1>19. Shaped(m2)
    BY <1>9, <1>16, <1>17, <1>18 DEF Shaped
  <1>20. u.size[p] = nb
    BY <1>13
  <1> HIDE DEF u, t, s, n
  <1> QED
    BY <1>4, <1>9, <1>11, <1>12, <1>13, <1>14, <1>19, <1>20 DEF t, s, u

(* The chunks from q up to the head e become one free chunk: what was in   *)
(* use there is freed, and merged with what was free on either side.       *)
FreedTags(m, m2, q, e) ==
  LET t == m.tags
      u == m2.tags
  IN  /\ q \in u.pin /\ q \notin u.cin /\ e \notin u.pin
      /\ \A a \in Chunks(m) : a < q \/ e <= a => (a \in u.cin <=> a \in t.cin)
      /\ \A a \in Heads(t) : a < q \/ e < a => (a \in u.pin <=> a \in t.pin)
      /\ \A a \in Chunks(m) : a <= q \/ e < a => u.foot[a] = t.foot[a]
      /\ e # SegEnd(m) => u.foot[e] = e - q

(* After a merge the heap has its shape, with one free chunk more.         *)
LEMMA MergeFree ==
  ASSUME NEW m \in MState, Shaped(m), NEW m2 \in MState,
         NEW q \in Chunks(m), q # SegBase, q \in m.tags.pin,
         NEW e \in Heads(m.tags), q < e, e = SegEnd(m) \/ e \in m.tags.cin,
         Merge(m, m2, q, e), FreedTags(m, m2, q, e)
  PROVE  /\ Shaped(m2)
         /\ Chunks(m2) = {a \in Chunks(m) : a <= q \/ e <= a}
         /\ FreeChunks(m2) = {a \in FreeChunks(m) : a < q \/ e <= a} \cup {q}
         /\ \A a \in Chunks(m2) : a # q => m2.tags.size[a] = m.tags.size[a]
         /\ m2.tags.size[q] = e - q
  <1> DEFINE t == m.tags
             u == m2.tags
             E == SegEnd(m)
  <1>1. /\ q \in Addr /\ SegBase < q /\ E \in Addr /\ m.top \in Addr /\ m.top < E
        /\ e \in Addr /\ e <= E
    <2>1. /\ q \in Addr /\ SegBase <= q /\ E \in Addr /\ m.top \in Addr /\ m.top < E
      BY ChunkFacts
    <2>2. e \in Addr /\ e <= E
      BY DEF Shaped, Tiles, Heads
    <2> QED
      BY <2>1, <2>2
  <1>2. /\ Tiles(m2)
        /\ Chunks(m2) = {a \in Chunks(m) : a <= q \/ e <= a}
        /\ u.size[q] = e - q /\ q \in Chunks(m2)
    BY MergeTiles
  <1>3. \A a \in Chunks(m2) : a # q => u.size[a] = t.size[a]
    BY MergeTiles
  <1>4. \A a \in Chunks(m2) : a # q => a + t.size[a] <= q \/ e < a + t.size[a]
    BY MergeTiles
  <1>5. SegEnd(m2) = E /\ m2.top = IF e = E THEN q ELSE m.top
    BY DEF Merge
  <1>6. \A a \in Chunks(m2) : a # q =>
          /\ a \in Chunks(m) /\ a \in Addr /\ (a < q \/ e <= a)
          /\ a + t.size[a] \in Addr /\ a + t.size[a] \in Heads(t)
    <2>1. ASSUME NEW a \in Chunks(m2), a # q
          PROVE  /\ a \in Chunks(m) /\ a \in Addr /\ (a < q \/ e <= a)
                 /\ a + t.size[a] \in Addr /\ a + t.size[a] \in Heads(t)
      <3>1. a \in Chunks(m) /\ (a <= q \/ e <= a)
        BY <1>2
      <3>2. a \in Addr /\ a + t.size[a] \in Addr
        BY <3>1, ChunkFacts
      <3>3. a + t.size[a] \in Heads(t)
        BY <3>1 DEF Shaped, Tiles
      <3> QED
        BY <1>1, <2>1, <3>1, <3>2, <3>3
    <2> QED
      BY <2>1
  <1>7. FreeChunks(m2) = {a \in FreeChunks(m) : a < q \/ e <= a} \cup {q}
    <2>1. \A a \in Chunks(m2) : a # q => (a \in u.cin <=> a \in t.cin)
      BY <1>6 DEF FreedTags
    <2>2. \A a \in Chunks(m) : a < q \/ e <= a => a \in Chunks(m2) /\ a # q
      BY <1>1, <1>2, ChunkFacts
    <2>3. q \notin u.cin
      BY DEF FreedTags
    <2> QED
      BY <1>2, <1>6, <2>1, <2>2, <2>3 DEF FreeChunks
  <1>8. \A a \in FreeChunks(m2) : a # q =>
          a \in FreeChunks(m) /\ a \in Chunks(m2) /\ (a = m.top => a = m2.top)
    <2>1. ASSUME NEW a \in FreeChunks(m2), a # q, a = m.top PROVE e # E
      BY <1>1, <1>4, <2>1 DEF FreeChunks, Shaped, TopIsFree, SegEnd
    <2> QED
      BY <1>5, <1>7, <2>1 DEF FreeChunks
  <1>9. \A a \in Chunks(m) : a + t.size[a] = q => a \in t.cin
    BY DEF Shaped, TagsAgree
  <1>10. TagsAgree(m2)
    <2>1. SegBase \in u.pin /\ SegBase \in u.cin
      <3>1. /\ SegBase \in Chunks(m) /\ SegBase \in Heads(t)
            /\ SegBase \in t.cin /\ SegBase \in t.pin
        BY DEF Shaped, Tiles, TagsAgree, Chunks
      <3> QED
        BY <1>1, <3>1 DEF FreedTags
    <2>2. ASSUME NEW a \in Chunks(m2) PROVE (a + u.size[a] \in u.pin) <=> (a \in u.cin)
      <3>1. CASE a = q
        <4>1. a + u.size[a] = e
          BY <1>1, <1>2, <3>1
        <4> QED
          BY <3>1, <4>1 DEF FreedTags
      <3>2. CASE a # q
        <4>1. /\ a \in Chunks(m) /\ (a < q \/ e <= a) /\ a + t.size[a] \in Heads(t)
              /\ u.size[a] = t.size[a] /\ (a + t.size[a] <= q \/ e < a + t.size[a])
              /\ a + t.size[a] \in Addr
          BY <1>3, <1>4, <1>6, <3>2
        <4>2. a \in u.cin <=> a \in t.cin
          BY <4>1 DEF FreedTags
        <4>3. a + t.size[a] \in t.pin <=> a \in t.cin
          BY <4>1 DEF Shaped, TagsAgree
        <4>4. a + t.size[a] \in u.pin <=> a + t.size[a] \in t.pin
          <5>1. CASE a + t.size[a] = q
            BY <5>1 DEF FreedTags
          <5>2. CASE a + t.size[a] # q
            <6>1. a + t.size[a] < q \/ e < a + t.size[a]
              BY <1>1, <4>1, <5>2
            <6> QED
              BY <4>1, <6>1 DEF FreedTags
          <5> QED
            BY <5>1, <5>2
        <4> QED
          BY <4>1, <4>2, <4>3, <4>4
      <3> QED
        BY <3>1, <3>2
    <2>3. ASSUME NEW a \in FreeChunks(m2) \ {m2.top} PROVE u.foot[a + u.size[a]] = u.size[a]
      <3>1. CASE a = q
        <4>1. a + u.size[a] = e /\ e # E
          BY <1>1, <1>2, <1>5, <3>1
        <4> QED
          BY <1>2, <3>1, <4>1 DEF FreedTags
      <3>2. CASE a # q
        <4>1. a \in FreeChunks(m) \ {m.top} /\ a \in Chunks(m2)
          BY <1>8, <3>2
        <4>2. /\ u.size[a] = t.size[a] /\ (a + t.size[a] <= q \/ e < a + t.size[a])
              /\ a + t.size[a] \in Chunks(m)
          BY <1>3, <1>4, <3>2, <4>1, ChunkFacts DEF FreeChunks
        <4> QED
          BY <4>1, <4>2 DEF FreedTags, Shaped, TagsAgree
      <3> QED
        BY <3>1, <3>2
    <2> QED
      BY <2>1, <2>2, <2>3 DEF TagsAgree
  <1>11. Coalesced(m2)
    <2>1. ASSUME NEW a \in FreeChunks(m2) \ {m2.top}
          PROVE  a \in u.pin /\ a + u.size[a] \in u.cin
      <3>1. CASE a = q
        <4>1. a + u.size[a] = e /\ e # E
          BY <1>1, <1>2, <1>5, <3>1
        <4>2. e \in Chunks(m) /\ e \in t.cin
          BY <4>1 DEF Chunks
        <4> QED
          BY <1>1, <3>1, <4>1, <4>2 DEF FreedTags
      <3>2. CASE a # q
        <4>1. a \in FreeChunks(m) \ {m.top} /\ a \in Chunks(m2)
          BY <1>8, <3>2
        <4>2. /\ u.size[a] = t.size[a] /\ (a + t.size[a] <= q \/ e < a + t.size[a])
              /\ a + t.size[a] \in Chunks(m) /\ a + t.size[a] \in Addr
              /\ a + t.size[a] \in t.cin /\ a \in t.pin /\ a \notin t.cin
          BY <1>3, <1>4, <3>2, <4>1, ChunkFacts DEF FreeChunks, Shaped, Coalesced
        <4>3. a + t.size[a] # q
          BY <1>9, <4>1, <4>2 DEF FreeChunks
        <4>4. a + t.size[a] \in u.cin
          <5>1. a + t.size[a] < q \/ e < a + t.size[a]
            BY <1>1, <4>2, <4>3
          <5>2. a + t.size[a] < q \/ e <= a + t.size[a]
            BY <1>1, <4>2, <5>1
          <5> QED
            BY <4>2, <5>2 DEF FreedTags
        <4>5. a # e
          <5>1. a # E
            BY <4>1 DEF FreeChunks, Chunks
          <5> QED
            BY <4>2, <5>1
        <4>6. a \in u.pin
          <5>1. (a < q \/ e < a) /\ a \in Heads(t)
            BY <1>1, <1>6, <3>2, <4>1, <4>5 DEF FreeChunks, Chunks
          <5> QED
            BY <4>2, <5>1 DEF FreedTags
        <4> QED
          BY <4>2, <4>4, <4>6
      <3> QED
        BY <3>1, <3>2
    <2> QED
      BY <2>1 DEF Coalesced
  <1>12. TopIsFree(m2)
    <2>1. CASE e = E
      <3>1. m2.top = q /\ m2.topsize = E - q
        <4>1. m2.top = q /\ q + m2.topsize = E /\ m2.topsize \in Nat
          BY <1>5, <2>1 DEF SegEnd, MState
        <4> QED
          BY <1>1, <4>1
      <3> QED
        BY <1>1, <1>2, <1>7, <2>1, <3>1 DEF TopIsFree, FreedTags
    <2>2. CASE e # E
      <3>1. m2.top = m.top /\ m2.topsize = m.topsize
        <4>1. m2.top = m.top /\ m2.top + m2.topsize = E /\ m.top + m.topsize = E
          BY <1>5, <2>2 DEF SegEnd
        <4> QED
          BY <1>1, <4>1 DEF MState
      <3>2. e \in Chunks(m) /\ e \in t.cin
        BY <2>2 DEF Chunks
      <3>3. /\ m.top \in FreeChunks(m) /\ m.top \in t.pin /\ t.size[m.top] = m.topsize
            /\ m.top \in Chunks(m) /\ m.top \in Heads(t) /\ m.topsize > 0
        BY DEF Shaped, TopIsFree, FreeChunks, Chunks
      <3>4. e < m.top
        <4>1. m.top < e => E <= e
          BY <3>2, <3>3, ChunkFacts DEF SegEnd
        <4> QED
          BY <1>1, <2>2, <3>2, <3>3, <4>1 DEF FreeChunks
      <3>5. m.top \in FreeChunks(m2) /\ m.top \in Chunks(m2) /\ m.top # q
        BY <1>1, <1>2, <1>7, <3>3, <3>4
      <3>6. m.top \in u.pin
        BY <3>3, <3>4 DEF FreedTags
      <3> QED
        BY <1>3, <3>1, <3>3, <3>5, <3>6 DEF TopIsFree
    <2> QED
      BY <2>1, <2>2
  <1>13. Shaped(m2)
    BY <1>2, <1>10, <1>11, <1>12 DEF Shaped
  <1> QED
    BY <1>2, <1>3, <1>7, <1>13

-----------------------------------------------------------------------------
(* What mspace_free merges around the block p: from q up to the head e.    *)
NextOf(m, p) == p + m.tags.size[p]
PrevOf(m, p) == p - (IF p \in m.tags.pin THEN 0 ELSE m.tags.foot[p])
EndOf(m, p) ==
  LET n == NextOf(m, p) IN IF n \in m.tags.cin THEN n ELSE n + m.tags.size[n]

(* prev_foot of a block leads to the free chunk before it.                 *)
LEMMA PrevFacts ==
  ASSUME NEW m \in MState, Shaped(m), NEW p \in UserChunks(m)
  PROVE  LET q == PrevOf(m, p) IN
         /\ q \in Chunks(m) /\ q \in m.tags.pin /\ q # SegBase /\ q <= p /\ q # m.top
         /\ p \in m.tags.pin => q = p
         /\ p \notin m.tags.pin => /\ q \in FreeChunks(m) /\ q < p
                                   /\ m.tags.foot[p] = m.tags.size[q]
                                   /\ q + m.tags.size[q] = p
  <1> DEFINE t == m.tags
             q == PrevOf(m, p)
  <1>1. /\ p \in Chunks(m) /\ p \in t.cin /\ p # SegBase /\ p \in Addr
        /\ m.top \notin t.cin /\ m.top \in Addr /\ SegEnd(m) \notin Chunks(m)
        /\ SegBase \in t.cin
    BY ChunkFacts DEF UserChunks, Shaped, TopIsFree, FreeChunks, TagsAgree, Chunks
  <1>2. CASE p \in t.pin
    <2>1. q = p
      BY <1>1, <1>2 DEF PrevOf
    <2> QED
      BY <1>1, <1>2, <2>1
  <1>3. CASE p \notin t.pin
    <2>1. PICK a \in Chunks(m) : a + t.size[a] = p
      BY <1>1 DEF Shaped, Tiles, Chunks
    <2>2. a # m.top
      BY <1>1, <2>1 DEF Shaped, TopIsFree, SegEnd
    <2>3. a \in FreeChunks(m)
      BY <1>3, <2>1 DEF Shaped, TagsAgree, FreeChunks
    <2>4. t.foot[p] = t.size[a] /\ a \in t.pin
      BY <2>1, <2>2, <2>3 DEF Shaped, TagsAgree, Coalesced
    <2>5. a \in Addr /\ t.size[a] \in Nat \ {0}
      BY ChunkFacts
    <2>6. q = a
      BY <1>3, <2>1, <2>4, <2>5 DEF PrevOf
    <2>7. a # SegBase /\ a < p
      BY <1>1, <2>1, <2>3, <2>5 DEF FreeChunks
    <2> HIDE DEF q
    <2>8. /\ q \in Chunks(m) /\ q \in t.pin /\ q # SegBase /\ q <= p /\ q # m.top
          /\ q \in FreeChunks(m) /\ q < p /\ t.foot[p] = t.size[q]
          /\ q + t.size[q] = p
      BY <1>1, <2>1, <2>2, <2>3, <2>4, <2>5, <2>6, <2>7
    <2> QED
      BY <1>3, <2>8 DEF q
  <1> QED
    BY <1>2, <1>3

(* The merge ends at a head that is in use, or at the end of the segment.  *)
LEMMA NextFacts ==
  ASSUME NEW m \in MState, Shaped(m), NEW p \in UserChunks(m)
  PROVE  LET n == NextOf(m, p)
             e == EndOf(m, p)
         IN  /\ n \in Chunks(m) /\ n \in Addr /\ p < n /\ n \in m.tags.pin
             /\ e \in Heads(m.tags) /\ e \in Addr /\ n <= e
             /\ n # e => n + m.tags.size[n] = e
             /\ e = SegEnd(m) \/ e \in m.tags.cin
             /\ e = SegEnd(m) <=> n = m.top
             /\ n \in m.tags.cin <=> n = e
             /\ n # e => e \notin m.tags.pin
  <1> DEFINE t == m.tags
             n == NextOf(m, p)
             e == EndOf(m, p)
  <1>1. /\ p \in Chunks(m) /\ p \in t.cin /\ p # m.top
    BY DEF UserChunks, Shaped, TopIsFree, FreeChunks
  <1>2. n \in Chunks(m) /\ n \in Addr /\ p < n /\ n \in t.pin
    BY <1>1, ChunkFacts DEF NextOf, Shaped, TagsAgree
  <1> HIDE DEF n
  <1>3. t.size[n] \in Nat \ {0} /\ n + t.size[n] \in Addr /\ n + t.size[n] \in Heads(t)
    BY <1>2, ChunkFacts DEF Shaped, Tiles
  <1>4. n \in Heads(t) /\ n # SegEnd(m)
    BY <1>2 DEF Chunks
  <1>5. m.top \notin t.cin /\ m.top \in Chunks(m) /\ m.top + t.size[m.top] = SegEnd(m)
    BY DEF Shaped, TopIsFree, FreeChunks, SegEnd
  <1>6. CASE n \in t.cin
    <2>1. e = n
      BY <1>6 DEF EndOf, n
    <2> QED
      BY <1>2, <1>4, <1>5, <1>6, <2>1 DEF n
  <1>7. CASE n \notin t.cin
    <2>1. e = n + t.size[n]
      BY <1>7 DEF EndOf, n
    <2>2. e \notin t.pin
      BY <1>2, <1>7, <2>1 DEF Shaped, TagsAgree
    <2>3. n # m.top => e \in t.cin /\ e # SegEnd(m)
      <3>1. SUFFICES ASSUME n # m.top PROVE e \in t.cin /\ e # SegEnd(m)
        OBVIOUS
      <3>2. n \in FreeChunks(m)
        BY <1>2, <1>7 DEF FreeChunks
      <3>3. e \in t.cin
        BY <2>1, <3>1, <3>2 DEF Shaped, Coalesced
      <3> HIDE DEF e
      <3>4. e \in Chunks(m)
        BY <1>2, <2>1, <3>1, ChunkFacts
      <3> QED
        BY <3>3, <3>4 DEF Chunks
    <2>4. n < e
      BY <1>2, <1>3, <2>1
    <2>5. n = m.top => e = SegEnd(m)
      BY <1>5, <2>1
    <2> HIDE DEF e
    <2> QED
      BY <1>2, <1>3, <1>7, <2>1, <2>2, <2>3, <2>4, <2>5 DEF n, e
  <1> QED
    BY <1>6, <1>7

(* Nothing else lies in the range that is merged.                          *)
LEMMA RangeFacts ==
  ASSUME NEW m \in MState, Shaped(m), NEW p \in UserChunks(m)
  PROVE  LET q == PrevOf(m, p)
             n == NextOf(m, p)
             e == EndOf(m, p)
         IN  /\ q < e /\ q \in Addr /\ e - q >= MIN_CHUNK_SIZE
             /\ {a \in Chunks(m) : a < q \/ e <= a}
                  = Chunks(m) \ ({q, p} \cup (IF n = e THEN {} ELSE {n}))
  <1> DEFINE t == m.tags
             q == PrevOf(m, p)
             n == NextOf(m, p)
             e == EndOf(m, p)
  <1>1. /\ q \in Chunks(m) /\ q <= p /\ q # m.top
        /\ p # q => q + t.size[q] = p
    BY PrevFacts DEF UserChunks
  <1>2. /\ n \in Chunks(m) /\ n \in Addr /\ p < n /\ n <= e /\ e \in Addr
        /\ n # e => n + t.size[n] = e
    BY NextFacts
  <1>3. p + t.size[p] = n
    BY DEF NextOf
  <1>4. p \in Chunks(m) /\ p \in Addr
    BY ChunkFacts DEF UserChunks
  <1> HIDE DEF q, n, e
  <1>5. q \in Addr /\ t.size[q] \in Nat /\ t.size[q] >= MIN_CHUNK_SIZE
    BY <1>1, ChunkFacts DEF Shaped, Tiles
  <1>6. q < e /\ e - q >= MIN_CHUNK_SIZE
    <2>1. q + t.size[q] <= n
      BY <1>1, <1>2, <1>3, <1>4, <1>5
    <2> QED
      BY <1>2, <1>4, <1>5, <2>1, ChunkConstants
  <1>7. ASSUME NEW a \in Chunks(m)
        PROVE  (a < q \/ e <= a) <=> a \notin {q, p} \cup (IF n = e THEN {} ELSE {n})
    <2>1. a \in Addr /\ a \in Heads(t)
      BY ChunkFacts DEF Chunks
    <2>2. /\ q < a => q + t.size[q] <= a
          /\ p < a => n <= a
          /\ n < a => n + t.size[n] <= a
      BY <1>1, <1>2, <1>3, <1>4, <2>1, ChunkFacts
    <2> QED
      BY <1>1, <1>2, <1>3, <1>4, <1>5, <1>6, <2>1, <2>2
  <1>8. {a \in Chunks(m) : a < q \/ e <= a}
          = Chunks(m) \ ({q, p} \cup (IF n = e THEN {} ELSE {n}))
    BY <1>7
  <1> QED
    BY <1>5, <1>6, <1>8 DEF q, n, e

(* The macros that mspace_free uses merge a range.                         *)
LEMMA FreeMacros ==
  ASSUME NEW m \in MState, NEW m2 \in MState, NEW q \in Addr, NEW e \in Addr, q < e,
         Shaped(m), SegEnd(m2) = SegEnd(m), e - q >= MIN_CHUNK_SIZE,
         m2.top = IF e = SegEnd(m) THEN q ELSE m.top,
         \/ m2.tags = set_free_with_pinuse(m.tags, q, e - q, e)
         \/ /\ e \notin m.tags.pin
            /\ m2.tags = set_size_and_pinuse_of_free_chunk(m.tags, q, e - q)
         \/ /\ e \notin m.tags.pin /\ e = SegEnd(m)
            /\ m2.tags = set_top_head(m.tags, q, e - q)
  PROVE  Merge(m, m2, q, e) /\ FreedTags(m, m2, q, e)
  <1> DEFINE t == m.tags
             u == m2.tags
             z == e - q
             B == Body(q, z)
  <1>1. t \in Tags /\ z \in Nat /\ q + z = e
    BY DEF MState
  <1>2. \A a \in Addr : a \in B <=> q < a /\ a < e
    BY <1>1 DEF Body
  <1>3. q \notin B /\ e \notin B
    BY <1>2
  <1>4. \A a \in Chunks(m) \cup Heads(t) : a \in Addr
    BY DEF Chunks, Heads
  <1> HIDE DEF B, z
  <1>4a. /\ set_free_with_pinuse(t, q, z, e).size = HeadWritten(t, q, z)
         /\ set_free_with_pinuse(t, q, z, e).foot = FeetOfFree(t, q, z)
    <2> DEFINE v == [t EXCEPT !.pin = @ \ {e}]
    <2>1. v.size = t.size /\ v.foot = t.foot
      BY <1>1 DEF Tags
    <2> HIDE DEF v
    <2>2. HeadWritten(v, q, z) = HeadWritten(t, q, z) /\ FeetOfFree(v, q, z) = FeetOfFree(t, q, z)
      BY <2>1 DEF HeadWritten, FeetOfFree
    <2> QED
      BY <2>2 DEF set_free_with_pinuse, set_size_and_pinuse_of_free_chunk, v
  <1>5. u.size = HeadWritten(t, q, z)
    BY <1>4a DEF set_size_and_pinuse_of_free_chunk, set_top_head, z
  <1>6. Merge(m, m2, q, e)
    BY <1>1, <1>2, <1>5 DEF Merge, HeadWritten, z, B
  <1>7. u.cin = t.cin \ (B \cup {q})
    BY DEF set_free_with_pinuse, set_size_and_pinuse_of_free_chunk, set_top_head, z, B
  <1>8. u.pin = ((t.pin \ {e}) \ B) \cup {q}
    BY DEF set_free_with_pinuse, set_size_and_pinuse_of_free_chunk, set_top_head, z, B
  <1>9. \A a \in Addr : a \notin B /\ a # e => u.foot[a] = t.foot[a]
    BY <1>1, <1>4a DEF set_size_and_pinuse_of_free_chunk, set_top_head, FeetOfFree, z, B
  <1>10. e # SegEnd(m) => u.foot[e] = z
    BY <1>1, <1>4a DEF set_size_and_pinuse_of_free_chunk, FeetOfFree, z
  <1>11. FreedTags(m, m2, q, e)
    <2>1. q \in u.pin /\ q \notin u.cin /\ e \notin u.pin
      BY <1>3, <1>7, <1>8
    <2>2. \A a \in Chunks(m) : a < q \/ e <= a => (a \in u.cin <=> a \in t.cin)
      BY <1>2, <1>4, <1>7
    <2>3. \A a \in Heads(t) : a < q \/ e < a => (a \in u.pin <=> a \in t.pin)
      BY <1>2, <1>4, <1>8
    <2>4. \A a \in Chunks(m) : a <= q \/ e < a => u.foot[a] = t.foot[a]
      BY <1>2, <1>3, <1>4, <1>9
    <2> QED
      BY <1>10, <2>1, <2>2, <2>3, <2>4 DEF FreedTags, z
  <1> QED
    BY <1>6, <1>11

(* The chunks in use: those of the user and that of the malloc_state.      *)
UsedChunks(m) == UserChunks(m) \cup {SegBase}

(* In a well-formed segment they are the chunks that are not free.         *)
LEMMA UsedAreNotFree ==
  ASSUME NEW m, Shaped(m)
  PROVE  UsedChunks(m) = Chunks(m) \ FreeChunks(m)
  <1>1. SegBase \in Chunks(m) /\ SegBase \in m.tags.cin
    BY DEF Shaped, Tiles, TagsAgree
  <1> QED
    BY <1>1 DEF UsedChunks, UserChunks, FreeChunks

(* However mspace_free merges, a well-formed segment remains.              *)
LEMMA FreeShape ==
  ASSUME NEW m \in MState, Shaped(m), NEW p \in UserChunks(m), NEW m2 \in MState,
         NEW q, q = PrevOf(m, p), NEW n, n = NextOf(m, p), NEW e, e = EndOf(m, p),
         SegEnd(m2) = SegEnd(m),
         m2.top = IF e = SegEnd(m) THEN q ELSE m.top,
         \/ m2.tags = set_free_with_pinuse(m.tags, q, e - q, e)
         \/ /\ n # e
            /\ m2.tags = set_size_and_pinuse_of_free_chunk(m.tags, q, e - q)
         \/ /\ n = m.top
            /\ m2.tags = set_top_head(m.tags, q, e - q)
  PROVE  /\ Shaped(m2)
         /\ FreeChunks(m2) = (FreeChunks(m) \ {n}) \cup {q}
         /\ UserChunks(m2) = UserChunks(m) \ {p}
         /\ \A a \in FreeChunks(m2) \cup UsedChunks(m2) :
              a # q => m2.tags.size[a] = m.tags.size[a]
         /\ m2.tags.size[q] = e - q
  <1>1. /\ q \in Chunks(m) /\ q \in m.tags.pin /\ q # SegBase /\ q \in Addr
        /\ q < e /\ e - q >= MIN_CHUNK_SIZE
    BY PrevFacts, RangeFacts
  <1>2. /\ e \in Addr /\ e \in Heads(m.tags) /\ (e = SegEnd(m) \/ e \in m.tags.cin)
        /\ n # e => e \notin m.tags.pin
        /\ e = SegEnd(m) <=> n = m.top
        /\ n = m.top => n # e
        /\ n = e <=> n \in m.tags.cin
    <2>1. m.top \notin m.tags.cin
      BY DEF Shaped, TopIsFree, FreeChunks
    <2> QED
      BY <2>1, NextFacts
  <1>3. Merge(m, m2, q, e) /\ FreedTags(m, m2, q, e)
    BY <1>1, <1>2, FreeMacros
  <1>4. /\ Shaped(m2)
        /\ Chunks(m2) = {a \in Chunks(m) : a <= q \/ e <= a}
        /\ FreeChunks(m2) = {a \in FreeChunks(m) : a < q \/ e <= a} \cup {q}
    BY <1>1, <1>2, <1>3, MergeFree
  <1>5. /\ \A a \in Chunks(m2) : a # q => m2.tags.size[a] = m.tags.size[a]
        /\ m2.tags.size[q] = e - q
    BY <1>1, <1>2, <1>3, MergeFree
  <1>6. {a \in Chunks(m) : a < q \/ e <= a}
          = Chunks(m) \ ({q, p} \cup (IF n = e THEN {} ELSE {n}))
    BY RangeFacts
  <1>7. FreeChunks(m2) = (FreeChunks(m) \ {n}) \cup {q}
    <2>1. p \notin FreeChunks(m) /\ (n = e => n \notin FreeChunks(m))
      BY <1>2 DEF UserChunks, FreeChunks
    <2> QED
      BY <1>4, <1>6, <2>1 DEF FreeChunks
  <1>8. UserChunks(m2) = UserChunks(m) \ {p}
    <2>1. \A a \in Chunks(m2) : a # q => (a \in m2.tags.cin <=> a \in m.tags.cin)
      <3>1. ASSUME NEW a \in Chunks(m2), a # q PROVE a \in Chunks(m) /\ (a < q \/ e <= a)
        <4>1. a \in Chunks(m) /\ (a <= q \/ e <= a)
          BY <1>4
        <4>2. a \in Addr
          BY <4>1, ChunkFacts
        <4> QED
          BY <1>1, <3>1, <4>1, <4>2
      <3> QED
        BY <1>3, <3>1 DEF FreedTags
    <2>2. q \notin m2.tags.cin /\ (q # p => q \notin m.tags.cin)
      BY <1>3, PrevFacts DEF FreedTags, FreeChunks
    <2>3. n \in m.tags.cin => n = e
      BY <1>2
    <2>4. \A a \in Chunks(m2) : a # q => a \in Chunks(m) /\ a # p
      BY <1>1, <1>4, <1>6, ChunkFacts
    <2>5. \A a \in Chunks(m) : a \in m.tags.cin /\ a # p => a \in Chunks(m2) /\ a # q
      <3>1. ASSUME NEW a \in Chunks(m), a \in m.tags.cin, a # p
            PROVE  a \in Chunks(m2) /\ a # q
        <4>1. a \in Addr /\ a # q /\ (n # e => a # n)
          BY <2>2, <2>3, <3>1, ChunkFacts
        <4>2. a \in Chunks(m) \ ({q, p} \cup (IF n = e THEN {} ELSE {n}))
          BY <3>1, <4>1
        <4>3. a < q \/ e <= a
          BY <1>6, <4>2
        <4> QED
          BY <1>1, <1>4, <4>1, <4>3
      <3> QED
        BY <3>1
    <2> QED
      BY <2>1, <2>2, <2>4, <2>5 DEF UserChunks
  <1> QED
    BY <1>4, <1>5, <1>7, <1>8, UsedAreNotFree DEF FreeChunks

-----------------------------------------------------------------------------
(* The macros that cut from what ends at top: malloc's from top itself,    *)
(* and realloc's that gives part of top to the block before it.            *)
LEMMA CutTopMacros ==
  ASSUME NEW m \in MState, Shaped(m), NEW m2 \in MState, NEW p \in Chunks(m),
         NEW nb \in Nat, nb >= MIN_CHUNK_SIZE, NEW z \in Nat, z > 0,
         p + nb + z = SegEnd(m),
         p = m.top \/ (p \in m.tags.cin /\ p + m.tags.size[p] = m.top),
         \/ m2.tags = set_size_and_pinuse_of_inuse_chunk(
                        set_top_head(m.tags, p + nb, z), p, nb) /\ p \in m.tags.pin
         \/ m2.tags = set_top_head(set_inuse(m.tags, p, nb), p + nb, z),
         m2.top = p + nb, m2.topsize = z
  PROVE  Recut(m, m2, p, nb, SegEnd(m)) /\ TopCut(m, m2, p, p + nb)
  <1> DEFINE t == m.tags
             u == m2.tags
             r == p + nb
             E == SegEnd(m)
             B == Body(p, nb)
             C == Body(r, z)
  <1>1. p \in Addr /\ E \in Addr /\ t \in Tags /\ nb > 0
    BY ChunkFacts, ChunkConstants DEF MState
  <1>2. r \in Addr /\ p < r /\ r < E /\ r + z = E
    BY <1>1
  <1> HIDE DEF E
  <1>3. \A a \in Addr : /\ a \in B <=> p < a /\ a < r
                        /\ a \in C <=> r < a /\ a < E
    BY <1>1, <1>2 DEF Body
  <1> HIDE DEF B, C
  <1>4. \A a \in Addr : u.size[a] = IF a = p THEN nb ELSE IF a = r THEN z
                                    ELSE IF a \in B \/ a \in C THEN 0 ELSE t.size[a]
    <2>1. CASE u = set_size_and_pinuse_of_inuse_chunk(set_top_head(t, r, z), p, nb)
      <3>1. u.size = HeadWritten(set_top_head(t, r, z), p, nb)
        BY <2>1 DEF set_size_and_pinuse_of_inuse_chunk
      <3>2. set_top_head(t, r, z).size = HeadWritten(t, r, z)
        BY DEF set_top_head
      <3> QED
        BY <1>1, <1>2, <1>3, <3>1, <3>2 DEF HeadWritten, B, C
    <2>2. CASE u = set_top_head(set_inuse(t, p, nb), r, z)
      <3>1. u.size = HeadWritten(set_inuse(t, p, nb), r, z)
        BY <2>2 DEF set_top_head
      <3>2. set_inuse(t, p, nb).size = HeadWritten(t, p, nb)
        BY DEF set_inuse
      <3> QED
        BY <1>1, <1>2, <1>3, <3>1, <3>2 DEF HeadWritten, B, C
    <2> QED
      BY <2>1, <2>2
  <1>5. \A a \in Addr : a <= p => u.foot[a] = t.foot[a]
    <2>1. CASE u = set_size_and_pinuse_of_inuse_chunk(set_top_head(t, r, z), p, nb)
      <3>1. u.foot = FeetOfInuse(set_top_head(t, r, z), p, nb)
        BY <2>1 DEF set_size_and_pinuse_of_inuse_chunk
      <3>2. \A a \in Addr : a <= p => set_top_head(t, r, z).foot[a] = t.foot[a]
        BY <1>1, <1>2, <1>3 DEF set_top_head, C
      <3> QED
        BY <1>1, <1>2, <1>3, <3>1, <3>2 DEF FeetOfInuse, B
    <2>2. CASE u = set_top_head(set_inuse(t, p, nb), r, z)
      <3>1. \A a \in Addr : a <= p => u.foot[a] = set_inuse(t, p, nb).foot[a]
        BY <1>1, <1>2, <1>3, <2>2 DEF set_top_head, C
      <3>2. set_inuse(t, p, nb).foot = FeetOfInuse(t, p, nb)
        BY DEF set_inuse
      <3> QED
        BY <1>1, <1>2, <1>3, <3>1, <3>2 DEF FeetOfInuse, B
    <2> QED
      BY <2>1, <2>2
  <1>6. E \notin t.pin
    BY DEF Shaped, TagsAgree, TopIsFree, FreeChunks, SegEnd, E
  <1>7. /\ p \in u.cin /\ r \notin u.cin /\ r \in u.pin /\ E \notin u.pin
        /\ \A a \in Addr : a < p => (a \in u.cin <=> a \in t.cin)
        /\ \A a \in Addr : a <= p => (a \in u.pin <=> a \in t.pin)
    <2>1. CASE u = set_size_and_pinuse_of_inuse_chunk(set_top_head(t, r, z), p, nb)
               /\ p \in t.pin
      <3>1. /\ u.cin = ((t.cin \ (C \cup {r})) \ B) \cup {p}
            /\ u.pin = (((t.pin \ C) \cup {r}) \ B) \cup {p}
        BY <2>1 DEF set_size_and_pinuse_of_inuse_chunk, set_top_head, B, C
      <3> QED
        BY <1>1, <1>2, <1>3, <1>6, <2>1, <3>1
    <2>2. CASE u = set_top_head(set_inuse(t, p, nb), r, z)
      <3>1. /\ u.cin = ((t.cin \ B) \cup {p}) \ (C \cup {r})
            /\ u.pin = (((t.pin \ B) \cup {r}) \ C) \cup {r}
        BY <2>2 DEF set_inuse, set_top_head, B, C
      <3> QED
        BY <1>1, <1>2, <1>3, <1>6, <3>1
    <2> QED
      BY <2>1, <2>2
  <1>8. SegEnd(m2) = E /\ z = E - r
    BY <1>1, <1>2 DEF SegEnd
  <1>9. Recut(m, m2, p, nb, E)
    BY <1>1, <1>2, <1>3, <1>4, <1>8 DEF Recut, E
  <1>10. \A a \in Chunks(m) : a \in Addr
    BY ChunkFacts
  <1>11. u.size[r] = z
    BY <1>2, <1>4
  <1>12. TopCut(m, m2, p, r)
    BY <1>5, <1>7, <1>10, <1>11 DEF TopCut, E
  <1> QED
    BY <1>9, <1>12 DEF E
=============================================================================
