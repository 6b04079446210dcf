------------------------- MODULE LinkbackPoolProofs -------------------------
(***************************************************************************)
(* For every size of the pool and every set of devices: the linked list     *)
(* meets the used items of the pool once each, and implements the sequence  *)
(* of LinkbackQueue.                                                        *)
(*                                                                          *)
(* The invariant is about a sequence q of items: IsList says that the       *)
(* pointers and the marks of the pool are those of the list q.  Such a q is *)
(* what a traversal meets (ListIs), so a step is followed by writing down   *)
(* the q it leads to.                                                       *)
(***************************************************************************)
EXTENDS LinkbackPool, FiniteSetTheorems, SequenceTheorems,
        WellFoundedInduction, TLAPS

Linked(q, h, nx) ==
    /\ q \in Seq(Items)
    /\ Len(q) <= NodeNum
    /\ h = IF Len(q) = 0 THEN Null ELSE q[1]
    /\ \A k \in 1..Len(q) : nx[q[k]] = IF k = Len(q) THEN Null ELSE q[k + 1]

OnceEach(q, us) ==
    /\ \A i, j \in 1..Len(q) : q[i] = q[j] => i = j
    /\ \A i \in Items : us[i] <=> \E k \in 1..Len(q) : q[k] = i

EndsAt(q, tl) == tl = IF Len(q) = 0 THEN Null ELSE q[Len(q)]

Distinct(q, nd) ==
    \A i, j \in 1..Len(q) : nd[q[i]].addr = nd[q[j]].addr => i = j

IsList(q, us, nx, h, tl) == Linked(q, h, nx) /\ OnceEach(q, us) /\ EndsAt(q, tl)

IInv ==
    /\ TypeOK
    /\ IsList(Chain, used, next, head, tail)
    /\ Distinct(Chain, node)

-----------------------------------------------------------------------------
(* Sets of numbers. *)

(* A set of numbers that is not empty has a least one.                      *)
LEMMA SmallestIn ==
    ASSUME NEW S \in SUBSET Nat, S # {}
    PROVE  \E n \in S : \A m \in S : n <= m
<1>1. PICK n \in S : \A m \in S : ~(<<m, n>> \in OpToRel(<, Nat))
  BY NatLessThanWellFounded, WFMin
<1>2. ASSUME NEW m \in S PROVE n <= m
  <2>1. m \in Nat /\ n \in Nat
    OBVIOUS
  <2>2. ~(m < n)
    BY <1>1, <2>1 DEF OpToRel
  <2> QED
    BY <2>1, <2>2
<1> QED
  BY <1>2

(* A set of positions is finite.                                            *)
LEMMA Positions ==
    ASSUME NEW n \in Nat, NEW S \in SUBSET (1..n)
    PROVE  /\ IsFiniteSet(S) /\ Cardinality(S) \in Nat /\ Cardinality(S) <= n
           /\ S \in SUBSET Nat
<1>1. IsFiniteSet(1..n) /\ Cardinality(1..n) = n
  BY FS_Interval
<1>2. IsFiniteSet(S) /\ Cardinality(S) <= n
  BY <1>1, FS_Subset
<1>3. Cardinality(S) \in Nat
  BY <1>2, FS_CardinalityType
<1>4. S \in SUBSET Nat
  OBVIOUS
<1> QED
  BY <1>2, <1>3, <1>4

(* It has a greatest one.                                                   *)
LEMMA GreatestIn ==
    ASSUME NEW n \in Nat, NEW S \in SUBSET (1..n), S # {}
    PROVE  \E m \in S : \A i \in S : i <= m
<1> DEFINE T == {m \in Nat : \A i \in S : i <= m}
<1>1. T \in SUBSET Nat /\ n \in T
  OBVIOUS
<1>2. PICK m \in T : \A j \in T : m <= j
  BY <1>1, SmallestIn
<1>3. m \in S
  <2> SUFFICES ASSUME m \notin S PROVE FALSE
    OBVIOUS
  <2>1. PICK s \in S : TRUE
    OBVIOUS
  <2>2. m \in Nat /\ s \in 1..n /\ s <= m
    BY <1>2
  <2>3. m - 1 \in Nat
    BY <2>2
  <2>4. \A i \in S : i <= m - 1
    BY <1>2, <2>2
  <2>5. m <= m - 1
    BY <1>2, <2>3, <2>4
  <2> QED
    BY <2>2, <2>5
<1> QED
  BY <1>2, <1>3

-----------------------------------------------------------------------------
(* The place of a number in a set of positions. *)

LEMMA PlaceType ==
    ASSUME NEW n \in Nat, NEW S \in SUBSET (1..n), NEW i \in S
    PROVE  Place(S, i) \in 1..Cardinality(S)
<1> DEFINE T == {j \in S : j <= i}
<1>1. IsFiniteSet(S) /\ Cardinality(S) \in Nat
  BY Positions
<1>2. T \in SUBSET S /\ i \in T
  OBVIOUS
<1>3. IsFiniteSet(T) /\ Cardinality(T) <= Cardinality(S)
  BY <1>1, <1>2, FS_Subset
<1>4. Cardinality(T) \in Nat /\ Cardinality(T) # 0
  BY <1>2, <1>3, FS_CardinalityType, FS_EmptySet
<1> QED
  BY <1>1, <1>3, <1>4 DEF Place

(* The least one comes first.                                               *)
LEMMA PlaceFirst ==
    ASSUME NEW n \in Nat, NEW S \in SUBSET (1..n), NEW i \in S,
           \A j \in S : i <= j
    PROVE  Place(S, i) = 1
<1>1. {j \in S : j <= i} = {i}
  <2>1. \A j \in S : j \in Nat /\ i \in Nat
    OBVIOUS
  <2>2. \A j \in S : j <= i <=> j = i
    BY <2>1
  <2> QED
    BY <2>2, Zenon
<1>2. Cardinality({i}) = 1
  BY FS_Singleton
<1> QED
  BY <1>1, <1>2 DEF Place

(* The greatest one comes last.                                             *)
LEMMA PlaceLast ==
    ASSUME NEW n \in Nat, NEW S \in SUBSET (1..n), NEW i \in S,
           \A j \in S : j <= i
    PROVE  Place(S, i) = Cardinality(S)
<1>1. {j \in S : j <= i} = S
  BY Zenon
<1> QED
  BY <1>1 DEF Place

(* The next one has the next place.                                         *)
LEMMA PlaceNext ==
    ASSUME NEW n \in Nat, NEW S \in SUBSET (1..n), NEW i \in S, NEW j \in S,
           i < j, \A k \in S : k > i => j <= k
    PROVE  Place(S, j) = Place(S, i) + 1
<1> DEFINE T == {l \in S : l <= i}
<1>1. T \in SUBSET S /\ j \notin T
  OBVIOUS
<1>2. {l \in S : l <= j} = T \cup {j}
  <2>1. \A l \in S : l \in Nat /\ i \in Nat /\ j \in Nat
    OBVIOUS
  <2>2. \A l \in S : l <= j <=> l <= i \/ l = j
    BY <2>1
  <2> QED
    BY <2>2, Zenon
<1>3. IsFiniteSet(T)
  BY <1>1, Positions, FS_Subset
<1>4. Cardinality(T \cup {j}) = Cardinality(T) + 1
  BY <1>1, <1>3, FS_AddElement
<1> QED
  BY <1>2, <1>4 DEF Place

(* A later one has a later place.                                           *)
LEMMA PlaceLess ==
    ASSUME NEW n \in Nat, NEW S \in SUBSET (1..n), NEW i \in S, NEW j \in S,
           i < j
    PROVE  Place(S, i) < Place(S, j)
<1> DEFINE T == {l \in S : l <= i}
<1> DEFINE U == {l \in S : l <= j}
<1>1. T \in SUBSET U /\ U \in SUBSET S /\ j \in U /\ j \notin T
  <2>1. \A l \in S : l \in Nat /\ i \in Nat /\ j \in Nat
    OBVIOUS
  <2>2. \A l \in S : l <= i => l <= j
    BY <2>1
  <2>3. j <= j /\ ~(j <= i)
    BY <2>1
  <2> QED
    BY <2>2, <2>3, Zenon
<1>2. IsFiniteSet(U)
  BY <1>1, Positions, FS_Subset
<1>3. /\ Cardinality(T) <= Cardinality(U)
      /\ Cardinality(U) = Cardinality(T) => U = T
  BY <1>1, <1>2, FS_Subset
<1>4. Place(S, i) = Cardinality(T) /\ Place(S, j) = Cardinality(U)
  BY DEF Place
<1>5. Place(S, i) \in 1..Cardinality(S) /\ Place(S, j) \in 1..Cardinality(S)
  BY PlaceType
<1>6. Cardinality(S) \in Nat
  BY Positions
<1>7. U # T
  BY <1>1
<1> HIDE DEF T, U
<1> QED
  BY <1>3, <1>4, <1>5, <1>6, <1>7

(* Every place is taken.                                                    *)
LEMMA PlaceOnto ==
    ASSUME NEW n \in Nat, NEW S \in SUBSET (1..n), NEW k \in 1..Cardinality(S)
    PROVE  \E i \in S : Place(S, i) = k
<1> DEFINE c == Cardinality(S)
<1> DEFINE f == [i \in S |-> Place(S, i)]
<1>1. c \in Nat /\ IsFiniteSet(S)
  BY Positions
<1>2. IsFiniteSet(1..c) /\ Cardinality(1..c) = c
  BY <1>1, FS_Interval
<1>3. f \in [S -> 1..c]
  BY PlaceType
<1>4. ASSUME NEW i \in S, NEW j \in S, Place(S, i) = Place(S, j)
      PROVE  i = j
  <2>1. i \in Nat /\ j \in Nat /\ Place(S, i) \in 1..c
    BY PlaceType
  <2>2. ~(Place(S, i) < Place(S, j)) /\ ~(Place(S, j) < Place(S, i))
    BY <1>1, <1>4, <2>1
  <2>3. ~(i < j)
    BY <2>2, PlaceLess
  <2>4. ~(j < i)
    BY <2>2, PlaceLess
  <2> QED
    BY <2>1, <2>3, <2>4
<1>5. f \in Injection(S, 1..c)
  BY <1>3, <1>4 DEF Injection, IsInjective
<1>6. f \in Surjection(S, 1..c)
  BY <1>2, <1>5, FS_Injection
<1> QED
  BY <1>6 DEF Surjection

(* KthOf is the element at the place.                                       *)
LEMMA KthOfPlace ==
    ASSUME NEW n \in Nat, NEW S \in SUBSET (1..n)
    PROVE  /\ \A k \in 1..Cardinality(S) :
                KthOf(S, k) \in S /\ Place(S, KthOf(S, k)) = k
           /\ \A i \in S : KthOf(S, Place(S, i)) = i
<1>1. ASSUME NEW k \in 1..Cardinality(S)
      PROVE  KthOf(S, k) \in S /\ Place(S, KthOf(S, k)) = k
  <2>1. \E i \in S : Place(S, i) = k
    BY PlaceOnto
  <2> QED
    BY <2>1 DEF KthOf
<1>2. ASSUME NEW i \in S PROVE KthOf(S, Place(S, i)) = i
  <2> DEFINE j == KthOf(S, Place(S, i))
  <2>1. Place(S, i) \in 1..Cardinality(S)
    BY PlaceType
  <2>2. j \in S /\ Place(S, j) = Place(S, i)
    BY <1>1, <2>1
  <2>3. Cardinality(S) \in Nat
    BY Positions
  <2> HIDE DEF j
  <2>4. ~(Place(S, i) < Place(S, j)) /\ ~(Place(S, j) < Place(S, i))
    BY <2>1, <2>2, <2>3
  <2>5. j \in S
    BY <2>2
  <2>6. ~(i < j)
    BY <2>4, <2>5, PlaceLess
  <2>7. ~(j < i)
    BY <2>4, <2>5, PlaceLess
  <2>8. j = i
    BY <2>5, <2>6, <2>7
  <2> QED
    BY <2>8 DEF j
<1> QED
  BY <1>1, <1>2

-----------------------------------------------------------------------------
(* The traversal. *)

Met(q, k) == IF k <= Len(q) THEN SubSeq(q, 1, k) ELSE q

LEMMA MetFacts ==
    ASSUME NEW q \in Seq(Items), NEW k \in Nat
    PROVE  /\ Met(q, k) \in Seq(Items)
           /\ Len(Met(q, k)) = IF k <= Len(q) THEN k ELSE Len(q)
           /\ \A i \in 1..Len(Met(q, k)) : Met(q, k)[i] = q[i]
<1>1. CASE k <= Len(q)
  <2>1. \A i \in 1..k : q[i] \in Items
    BY <1>1, LenProperties
  <2>2. /\ SubSeq(q, 1, k) \in Seq(Items)
        /\ Len(SubSeq(q, 1, k)) = IF 1 <= k THEN k - 1 + 1 ELSE 0
        /\ \A i \in 1..(k - 1 + 1) : SubSeq(q, 1, k)[i] = q[1 + i - 1]
    BY <2>1, SubSeqProperties
  <2>3. Len(SubSeq(q, 1, k)) = k
    BY <2>2
  <2>4. \A i \in 1..k : SubSeq(q, 1, k)[i] = q[i]
    BY <2>2
  <2> QED
    BY <1>1, <2>2, <2>3, <2>4 DEF Met
<1>2. CASE ~(k <= Len(q))
  BY <1>2 DEF Met
<1> QED
  BY <1>1, <1>2

(* One step further, the traversal has met one item more.                   *)
LEMMA MetStep ==
    ASSUME NEW q, NEW h, NEW nx, Linked(q, h, nx), NEW k \in Nat, k # 0
    PROVE  Further(h, nx)[Met(q, k - 1)] = Met(q, k)
<1> DEFINE p == Met(q, k - 1)
<1>1. q \in Seq(Items) /\ k - 1 \in Nat /\ Len(q) \in Nat
  BY LenProperties DEF Linked
<1>2. /\ p \in Seq(Items)
      /\ Len(p) = IF k - 1 <= Len(q) THEN k - 1 ELSE Len(q)
      /\ \A i \in 1..Len(p) : p[i] = q[i]
  BY <1>1, MetFacts
<1>3. /\ Met(q, k) \in Seq(Items)
      /\ Len(Met(q, k)) = IF k <= Len(q) THEN k ELSE Len(q)
      /\ \A i \in 1..Len(Met(q, k)) : Met(q, k)[i] = q[i]
  BY <1>1, MetFacts
<1> HIDE DEF p
<1>4. Further(h, nx)[p] = IF Ahead(h, nx, p) = Null THEN p
                          ELSE Append(p, Ahead(h, nx, p))
  BY <1>2 DEF Further
<1>5. p = <<>> <=> Len(p) = 0
  BY <1>2, EmptySeq
<1>6. Ahead(h, nx, p) = IF k <= Len(q) THEN q[k] ELSE Null
  <2>1. CASE Len(p) = 0
    <3>1. Ahead(h, nx, p) = h
      BY <1>5, <2>1 DEF Ahead
    <3>2. k = 1 \/ Len(q) = 0
      BY <1>1, <1>2, <2>1
    <3> QED
      BY <1>1, <3>1, <3>2 DEF Linked
  <2>2. CASE Len(p) # 0
    <3>1. Ahead(h, nx, p) = nx[p[Len(p)]]
      BY <1>5, <2>2 DEF Ahead
    <3>2. Len(p) \in 1..Len(q) /\ p[Len(p)] = q[Len(p)]
      BY <1>1, <1>2, <2>2
    <3>3. nx[q[Len(p)]] = IF Len(p) = Len(q) THEN Null ELSE q[Len(p) + 1]
      BY <3>2 DEF Linked
    <3> QED
      BY <1>1, <1>2, <3>1, <3>2, <3>3
  <2> QED
    BY <2>1, <2>2
<1>7. CASE k <= Len(q)
  <2>1. q[k] \in Items /\ q[k] # Null
    <3>1. k \in 1..Len(q)
      BY <1>1, <1>7
    <3>2. q[k] \in Items
      BY <1>1, <3>1, ElementOfSeq
    <3> QED
      BY <3>2, NodeNumAssumption DEF Items, Null
  <2>2. Further(h, nx)[p] = Append(p, q[k])
    BY <1>4, <1>6, <1>7, <2>1
  <2>3. /\ Append(p, q[k]) \in Seq(Items)
        /\ Len(Append(p, q[k])) = Len(p) + 1
        /\ \A i \in 1..Len(p) : Append(p, q[k])[i] = p[i]
        /\ Append(p, q[k])[Len(p) + 1] = q[k]
    BY <1>2, <2>1, AppendProperties
  <2>4. Len(p) = k - 1 /\ Len(Met(q, k)) = k
    BY <1>1, <1>2, <1>3, <1>7
  <2>5. \A i \in 1..k : Append(p, q[k])[i] = Met(q, k)[i]
    BY <1>1, <1>2, <1>3, <2>3, <2>4
  <2>6. Append(p, q[k]) = Met(q, k)
    BY <1>3, <2>3, <2>4, <2>5, SeqEqual
  <2> QED
    BY <2>2, <2>6 DEF p
<1>8. CASE ~(k <= Len(q))
  <2>1. Further(h, nx)[p] = p
    BY <1>4, <1>6, <1>8
  <2>2. p = Met(q, k)
    BY <1>1, <1>2, <1>3, <1>8, SeqEqual
  <2> QED
    BY <2>1, <2>2 DEF p
<1> QED
  BY <1>7, <1>8

(* The definition of Walk, unfolded: there is such a function.              *)
LEMMA WalkDef ==
    ASSUME NEW q, NEW h, NEW nx, Linked(q, h, nx)
    PROVE  Walk(h, nx) = [k \in 0..(NodeNum + 1) |->
                            IF k = 0 THEN <<>>
                            ELSE Further(h, nx)[Walk(h, nx)[k - 1]]]
<1> DEFINE P(f) == f = [k \in 0..(NodeNum + 1) |->
                          IF k = 0 THEN <<>> ELSE Further(h, nx)[f[k - 1]]]
<1> DEFINE w == [k \in 0..(NodeNum + 1) |-> Met(q, k)]
<1>1. Walk(h, nx) = CHOOSE f : P(f)
  BY Zenon DEF Walk
<1>2. q \in Seq(Items) /\ Len(q) \in Nat /\ NodeNum \in Nat
  BY LenProperties, NodeNumAssumption DEF Linked
<1>3. Met(q, 0) = <<>>
  <2>1. Met(q, 0) \in Seq(Items) /\ Len(Met(q, 0)) = 0
    BY <1>2, MetFacts
  <2> QED
    BY <2>1, EmptySeq
<1>4. \A k \in 0..(NodeNum + 1) :
         Met(q, k) = IF k = 0 THEN <<>> ELSE Further(h, nx)[w[k - 1]]
  <2> TAKE k \in 0..(NodeNum + 1)
  <2>1. CASE k = 0
    BY <1>3, <2>1
  <2>2. CASE k # 0
    <3>1. k \in Nat /\ k - 1 \in 0..(NodeNum + 1)
      BY <1>2, <2>2
    <3>2. w[k - 1] = Met(q, k - 1)
      BY <3>1
    <3>3. Further(h, nx)[Met(q, k - 1)] = Met(q, k)
      BY <2>2, <3>1, MetStep
    <3> QED
      BY <2>2, <3>2, <3>3
  <2> QED
    BY <2>1, <2>2
<1>5. P(w)
  BY <1>4, Zenon
<1>6. P(CHOOSE f : P(f))
  BY <1>5, Zenon
<1> QED
  BY <1>1, <1>6, Zenon

(* A traversal meets the list.                                              *)
LEMMA ListIs ==
    ASSUME NEW q, NEW h, NEW nx, Linked(q, h, nx)
    PROVE  ListFrom(h, nx) = q
<1> DEFINE N == NodeNum + 1
<1> DEFINE w == Walk(h, nx)
<1>1. q \in Seq(Items) /\ Len(q) \in Nat /\ NodeNum \in Nat /\ Len(q) <= NodeNum
  BY LenProperties, NodeNumAssumption DEF Linked
<1>2. w = [k \in 0..N |-> IF k = 0 THEN <<>> ELSE Further(h, nx)[w[k - 1]]]
  BY WalkDef
<1>3. w[0] = <<>>
  <2>1. 0 \in 0..N
    BY <1>1
  <2> QED
    BY <1>2, <2>1, Zenon
<1>4. \A k \in 0..N : k # 0 => w[k] = Further(h, nx)[w[k - 1]]
  BY <1>2, Zenon
<1> HIDE DEF w
<1>5. Met(q, 0) = <<>>
  <2>1. Met(q, 0) \in Seq(Items) /\ Len(Met(q, 0)) = 0
    BY <1>1, MetFacts
  <2> QED
    BY <2>1, EmptySeq
<1>6. \A k \in 0..N : w[k] = Met(q, k)
  <2> DEFINE T == {k \in 0..N : w[k] # Met(q, k)}
  <2> SUFFICES ASSUME T # {} PROVE FALSE
    OBVIOUS
  <2>1. T \in SUBSET Nat
    OBVIOUS
  <2>2. PICK k \in T : \A j \in T : k <= j
    BY <2>1, SmallestIn
  <2>3. k \in 0..N /\ w[k] # Met(q, k) /\ k # 0
    BY <1>3, <1>5, <2>2
  <2>4. k \in Nat /\ k - 1 \in 0..N /\ ~(k <= k - 1)
    BY <1>1, <2>3
  <2>5. w[k - 1] = Met(q, k - 1)
    BY <2>2, <2>4
  <2>6. Further(h, nx)[Met(q, k - 1)] = Met(q, k)
    BY <2>3, <2>4, MetStep
  <2>7. w[k] = Further(h, nx)[w[k - 1]]
    BY <1>4, <2>3
  <2> QED
    BY <2>3, <2>5, <2>6, <2>7
<1>7. w[N] = Met(q, N)
  BY <1>1, <1>6
<1>8. Met(q, N) = q
  BY <1>1 DEF Met
<1> QED
  BY <1>7, <1>8 DEF ListFrom, w

-----------------------------------------------------------------------------
(* A list of items that names each used item once. *)

Marked(us) == {i \in Items : us[i]}

LEMMA ItemFacts ==
    ASSUME NEW q \in Seq(Items)
    PROVE  /\ NodeNum \in Nat /\ Len(q) \in Nat
           /\ DOMAIN q = 1..Len(q)
           /\ q = <<>> <=> Len(q) = 0
           /\ \A k \in 1..Len(q) : q[k] \in Items /\ q[k] \in Nat /\ q[k] # Null
<1>1. NodeNum \in Nat /\ Len(q) \in Nat /\ DOMAIN q = 1..Len(q)
  BY NodeNumAssumption, LenProperties
<1>2. q = <<>> <=> Len(q) = 0
  BY EmptySeq
<1>3. \A k \in 1..Len(q) : q[k] \in Items
  BY ElementOfSeq
<1>4. \A i \in Items : i \in Nat /\ i # Null
  BY <1>1 DEF Items, Null
<1> QED
  BY <1>1, <1>2, <1>3, <1>4

(* It is as long as there are used items; a full list leaves none free.     *)
LEMMA Count ==
    ASSUME NEW q \in Seq(Items), NEW us, OnceEach(q, us)
    PROVE  /\ Cardinality(Marked(us)) = Len(q)
           /\ Len(q) <= NodeNum
           /\ Len(q) = NodeNum => \A i \in Items : us[i]
<1> DEFINE U == Marked(us)
<1>1. /\ NodeNum \in Nat /\ Len(q) \in Nat
      /\ q \in [1..Len(q) -> Items]
  BY ItemFacts, LenProperties
<1>2. q \in [1..Len(q) -> U]
  BY <1>1 DEF OnceEach, Marked
<1>3. q \in Injection(1..Len(q), U)
  BY <1>2 DEF OnceEach, Injection, IsInjective
<1>4. q \in Surjection(1..Len(q), U)
  BY <1>2 DEF OnceEach, Marked, Surjection
<1>5. ExistsBijection(1..Len(q), U)
  BY <1>3, <1>4 DEF ExistsBijection, Bijection
<1>6. Cardinality(U) = Len(q)
  BY <1>1, <1>5, FS_CountingElements
<1>7. IsFiniteSet(Items) /\ Cardinality(Items) = NodeNum
  BY <1>1, FS_Interval DEF Items
<1>8. U \in SUBSET Items
  BY DEF Marked
<1>9. /\ Cardinality(U) <= Cardinality(Items)
      /\ Cardinality(Items) = Cardinality(U) => Items = U
  BY <1>7, <1>8, FS_Subset
<1>10. Items = U => \A i \in Items : us[i]
  BY DEF Marked
<1> QED
  BY <1>6, <1>7, <1>9, <1>10 DEF U

(* The tail of a list that is not empty is its last item.                   *)
LEMMA TailIs ==
    ASSUME NEW q, NEW us, NEW nx, NEW h, NEW tl, IsList(q, us, nx, h, tl)
    PROVE  /\ q \in Seq(Items) /\ Len(q) \in Nat /\ Len(q) <= NodeNum
           /\ h = Null <=> Len(q) = 0
           /\ h # Null => h \in Items /\ h = q[1] /\ us[h]
           /\ h # Null => tl \in Items /\ tl = q[Len(q)] /\ us[tl]
           /\ tl \in Pointer /\ h \in Pointer
<1>1. q \in Seq(Items) /\ Len(q) <= NodeNum
  BY DEF IsList, Linked
<1>2. /\ Len(q) \in Nat
      /\ \A k \in 1..Len(q) : q[k] \in Items /\ q[k] # Null
  BY <1>1, ItemFacts
<1>3. h = IF Len(q) = 0 THEN Null ELSE q[1]
  BY DEF IsList, Linked
<1>4. tl = IF Len(q) = 0 THEN Null ELSE q[Len(q)]
  BY DEF IsList, EndsAt
<1>5. \A k \in 1..Len(q) : us[q[k]]
  BY <1>2 DEF IsList, OnceEach
<1>6. Len(q) # 0 => 1 \in 1..Len(q) /\ Len(q) \in 1..Len(q)
  BY <1>2
<1> QED
  BY <1>1, <1>2, <1>3, <1>4, <1>5, <1>6 DEF Pointer

(* insert_normal_node: a free item is linked behind the tail.               *)
LEMMA AppendList ==
    ASSUME NEW q, NEW us, NEW nx, NEW h, NEW tl, IsList(q, us, nx, h, tl),
           NEW m \in Items, ~us[m],
           NEW us2, us2[m], \A i \in Items : i # m => (us2[i] <=> us[i]),
           NEW nx2, nx2[m] = Null, h # Null => nx2[tl] = m,
           \A i \in Items : i # m /\ (h = Null \/ i # tl) => nx2[i] = nx[i]
    PROVE  IsList(Append(q, m), us2, nx2, IF h = Null THEN m ELSE h, m)
<1> DEFINE n == Len(q)
<1> DEFINE r == Append(q, m)
<1>1. /\ q \in Seq(Items) /\ n \in Nat
      /\ h = Null <=> n = 0
      /\ h # Null => h = q[1] /\ tl \in Items /\ tl = q[n] /\ us[tl]
  BY TailIs
<1>2. \A k \in 1..n : q[k] \in Items /\ us[q[k]] /\ q[k] # m
  <2>1. \A k \in 1..n : q[k] \in Items
    BY <1>1, ItemFacts
  <2> QED
    BY <2>1 DEF IsList, OnceEach
<1>3. /\ r \in Seq(Items) /\ Len(r) = n + 1
      /\ \A k \in 1..n : r[k] = q[k]
      /\ r[n + 1] = m
  BY <1>1, AppendProperties
<1> HIDE DEF r
<1>4. OnceEach(r, us2)
  <2>1. ASSUME NEW i \in 1..(n + 1), NEW j \in 1..(n + 1), r[i] = r[j]
        PROVE  i = j
    <3>1. \A k \in 1..(n + 1) : k \in 1..n \/ k = n + 1
      BY <1>1
    <3>2. CASE i \in 1..n /\ j \in 1..n
      BY <1>3, <2>1, <3>2 DEF IsList, OnceEach
    <3>3. CASE i = n + 1 \/ j = n + 1
      BY <1>2, <1>3, <2>1, <3>1, <3>3
    <3> QED
      BY <3>1, <3>2, <3>3
  <2>2. ASSUME NEW i \in Items
        PROVE  us2[i] <=> \E k \in 1..(n + 1) : r[k] = i
    <3>1. CASE i = m
      <4>1. n + 1 \in 1..(n + 1)
        BY <1>1
      <4> QED
        BY <1>3, <3>1, <4>1
    <3>2. CASE i # m
      <4>1. us[i] <=> \E k \in 1..n : q[k] = i
        BY DEF IsList, OnceEach
      <4>2. \A k \in 1..(n + 1) : r[k] = i => k \in 1..n
        BY <1>1, <1>3, <3>2
      <4>3. \A k \in 1..n : k \in 1..(n + 1) /\ r[k] = q[k]
        BY <1>1, <1>3
      <4>4. (\E k \in 1..n : q[k] = i) <=> \E k \in 1..(n + 1) : r[k] = i
        BY <4>2, <4>3
      <4> QED
        BY <3>2, <4>1, <4>4
    <3> QED
      BY <3>1, <3>2
  <2> QED
    BY <1>3, <2>1, <2>2 DEF OnceEach
<1>5. n + 1 <= NodeNum
  BY <1>3, <1>4, Count
<1>6. ASSUME NEW k \in 1..(n + 1)
      PROVE  nx2[r[k]] = IF k = n + 1 THEN Null ELSE r[k + 1]
  <2>1. CASE k = n + 1
    BY <1>3, <2>1
  <2>2. CASE k # n + 1
    <3>1. k \in 1..n /\ k # n + 1 /\ n # 0
      BY <1>1, <2>2
    <3>2. r[k] = q[k] /\ q[k] \in Items /\ q[k] # m
      BY <1>2, <1>3, <3>1
    <3>3. CASE k = n
      BY <1>1, <1>3, <3>1, <3>2, <3>3
    <3>4. CASE k # n
      <4>1. k + 1 \in 1..n /\ n \in 1..n
        BY <1>1, <3>1, <3>4
      <4>2. q[k] # q[n]
        BY <3>1, <3>4, <4>1 DEF IsList, OnceEach
      <4>3. nx[q[k]] = q[k + 1]
        BY <3>1, <3>4 DEF IsList, Linked
      <4>4. nx2[q[k]] = nx[q[k]]
        BY <1>1, <3>1, <3>2, <4>2
      <4> QED
        BY <1>3, <3>1, <3>2, <4>1, <4>3, <4>4
    <3> QED
      BY <3>3, <3>4
  <2> QED
    BY <2>1, <2>2
<1>7. (IF h = Null THEN m ELSE h) = r[1]
  BY <1>1, <1>3
<1>8. Linked(r, IF h = Null THEN m ELSE h, nx2)
  BY <1>1, <1>3, <1>5, <1>6, <1>7 DEF Linked
<1>9. EndsAt(r, m)
  BY <1>1, <1>3 DEF EndsAt
<1> QED
  BY <1>4, <1>8, <1>9 DEF IsList, r

(* insert_force_node: a free item is linked before the head.                *)
LEMMA PushList ==
    ASSUME NEW q, NEW us, NEW nx, NEW h, NEW tl, IsList(q, us, nx, h, tl),
           NEW m \in Items, ~us[m],
           NEW us2, us2[m], \A i \in Items : i # m => (us2[i] <=> us[i]),
           NEW nx2, nx2[m] = h, \A i \in Items : i # m => nx2[i] = nx[i]
    PROVE  IsList(<<m>> \o q, us2, nx2, m, IF h = Null THEN m ELSE tl)
<1> DEFINE n == Len(q)
<1> DEFINE r == <<m>> \o q
<1>1. /\ q \in Seq(Items) /\ n \in Nat
      /\ h = Null <=> n = 0
      /\ h # Null => h = q[1] /\ tl \in Items /\ tl = q[n] /\ us[tl]
  BY TailIs
<1>2. \A k \in 1..n : q[k] \in Items /\ us[q[k]] /\ q[k] # m
  <2>1. \A k \in 1..n : q[k] \in Items
    BY <1>1, ItemFacts
  <2> QED
    BY <2>1 DEF IsList, OnceEach
<1>3. /\ r \in Seq(Items) /\ Len(r) = n + 1
      /\ r[1] = m
      /\ \A k \in 2..(n + 1) : r[k] = q[k - 1]
  <2>1. <<m>> \in Seq(Items) /\ Len(<<m>>) = 1 /\ <<m>>[1] = m
    OBVIOUS
  <2>2. /\ r \in Seq(Items)
        /\ Len(r) = 1 + n
        /\ \A i \in 1..(1 + n) : r[i] = IF i <= 1 THEN <<m>>[i] ELSE q[i - 1]
    BY <1>1, <2>1, ConcatProperties
  <2> HIDE DEF r
  <2> QED
    BY <1>1, <2>1, <2>2
<1> HIDE DEF r
<1>4. OnceEach(r, us2)
  <2>1. ASSUME NEW i \in 1..(n + 1), NEW j \in 1..(n + 1), r[i] = r[j]
        PROVE  i = j
    <3>1. \A k \in 1..(n + 1) : k = 1 \/ (k \in 2..(n + 1) /\ k - 1 \in 1..n)
      BY <1>1
    <3>2. CASE i # 1 /\ j # 1
      <4>1. i - 1 \in 1..n /\ j - 1 \in 1..n /\ q[i - 1] = q[j - 1]
        BY <1>3, <2>1, <3>1, <3>2
      <4>2. i - 1 = j - 1
        BY <4>1 DEF IsList, OnceEach
      <4> QED
        BY <1>1, <4>2
    <3>3. CASE i = 1 \/ j = 1
      BY <1>2, <1>3, <2>1, <3>1, <3>3
    <3> QED
      BY <3>2, <3>3
  <2>2. ASSUME NEW i \in Items
        PROVE  us2[i] <=> \E k \in 1..(n + 1) : r[k] = i
    <3>1. CASE i = m
      <4>1. 1 \in 1..(n + 1)
        BY <1>1
      <4> QED
        BY <1>3, <3>1, <4>1
    <3>2. CASE i # m
      <4>1. us[i] <=> \E k \in 1..n : q[k] = i
        BY DEF IsList, OnceEach
      <4>2. \A k \in 1..(n + 1) : r[k] = i => k - 1 \in 1..n /\ q[k - 1] = i
        BY <1>1, <1>3, <3>2
      <4>3. ASSUME NEW k \in 1..n
            PROVE  k + 1 \in 1..(n + 1) /\ r[k + 1] = q[k]
        <5>1. k + 1 \in 2..(n + 1) /\ k + 1 - 1 = k /\ k + 1 \in 1..(n + 1)
          BY <1>1
        <5>2. r[k + 1] = q[k + 1 - 1]
          BY <1>3, <5>1
        <5> QED
          BY <5>1, <5>2
      <4>4. (\E k \in 1..n : q[k] = i) <=> \E k \in 1..(n + 1) : r[k] = i
        BY <4>2, <4>3
      <4> QED
        BY <3>2, <4>1, <4>4
    <3> QED
      BY <3>1, <3>2
  <2> QED
    BY <1>3, <2>1, <2>2 DEF OnceEach
<1>5. n + 1 <= NodeNum
  BY <1>3, <1>4, Count
<1>6. ASSUME NEW k \in 1..(n + 1)
      PROVE  nx2[r[k]] = IF k = n + 1 THEN Null ELSE r[k + 1]
  <2>1. CASE k = 1
    BY <1>1, <1>3, <2>1
  <2>2. CASE k # 1
    <3>1. k \in 2..(n + 1) /\ k - 1 \in 1..n
      BY <1>1, <2>2
    <3>2. r[k] = q[k - 1] /\ q[k - 1] \in Items /\ q[k - 1] # m
      BY <1>2, <1>3, <3>1
    <3>3. nx2[r[k]] = nx[q[k - 1]]
      BY <3>2
    <3>4. nx[q[k - 1]] = IF k - 1 = n THEN Null ELSE q[k - 1 + 1]
      BY <3>1 DEF IsList, Linked
    <3> QED
      BY <1>1, <1>3, <3>1, <3>3, <3>4
  <2> QED
    BY <2>1, <2>2
<1>7. Linked(r, m, nx2)
  BY <1>1, <1>3, <1>5, <1>6 DEF Linked
<1>8. EndsAt(r, IF h = Null THEN m ELSE tl)
  BY <1>1, <1>3 DEF EndsAt
<1> QED
  BY <1>4, <1>7, <1>8 DEF IsList, r

(* take_first_node: the head leaves.                                        *)
LEMMA TakeList ==
    ASSUME NEW q, NEW us, NEW nx, NEW h, NEW tl, IsList(q, us, nx, h, tl),
           h # Null,
           NEW us2, ~us2[h], \A i \in Items : i # h => (us2[i] <=> us[i])
    PROVE  IsList(Tail(q), us2, nx, nx[h], IF nx[h] = Null THEN Null ELSE tl)
<1> DEFINE n == Len(q)
<1> DEFINE r == Tail(q)
<1>1. /\ q \in Seq(Items) /\ n \in Nat /\ n <= NodeNum
      /\ n # 0
      /\ h = q[1] /\ h \in Items /\ tl = q[n] /\ us[h]
  BY TailIs
<1>2. \A k \in 1..n : q[k] \in Items /\ q[k] # Null
  BY <1>1, ItemFacts
<1>3. /\ r \in Seq(Items) /\ Len(r) = n - 1
      /\ \A k \in 1..(n - 1) : r[k] = q[k + 1]
  <2>1. q # <<>>
    BY <1>1, ItemFacts
  <2> QED
    BY <1>1, <2>1, HeadTailProperties
<1> HIDE DEF r
<1>4. \A i, j \in 1..n : q[i] = q[j] => i = j
  BY DEF IsList, OnceEach
<1>5. \A k \in 1..n : nx[q[k]] = IF k = n THEN Null ELSE q[k + 1]
  BY DEF IsList, Linked
<1>6. NodeNum \in Nat
  BY NodeNumAssumption
<1>7. OnceEach(r, us2)
  <2>1. ASSUME NEW i \in 1..(n - 1), NEW j \in 1..(n - 1), r[i] = r[j]
        PROVE  i = j
    <3>1. i + 1 \in 1..n /\ j + 1 \in 1..n /\ q[i + 1] = q[j + 1]
      BY <1>1, <1>3, <2>1
    <3>2. i + 1 = j + 1
      BY <1>4, <3>1
    <3> QED
      BY <1>1, <3>2
  <2>2. ASSUME NEW i \in Items
        PROVE  us2[i] <=> \E k \in 1..(n - 1) : r[k] = i
    <3>1. CASE i = h
      <4>1. ASSUME NEW k \in 1..(n - 1) PROVE r[k] # i
        <5>1. k + 1 \in 1..n /\ 1 \in 1..n /\ k + 1 # 1
          BY <1>1
        <5>2. q[k + 1] # q[1]
          BY <1>4, <5>1
        <5> QED
          BY <1>1, <1>3, <3>1, <5>2
      <4> QED
        BY <3>1, <4>1
    <3>2. CASE i # h
      <4>1. us[i] <=> \E k \in 1..n : q[k] = i
        BY DEF IsList, OnceEach
      <4>2. ASSUME NEW k \in 1..n, q[k] = i
            PROVE  k - 1 \in 1..(n - 1) /\ r[k - 1] = i
        <5>1. k # 1
          BY <1>1, <3>2, <4>2
        <5>2. k - 1 \in 1..(n - 1) /\ k - 1 + 1 = k
          BY <1>1, <5>1
        <5>3. r[k - 1] = q[k - 1 + 1]
          BY <1>3, <5>2
        <5> QED
          BY <4>2, <5>2, <5>3
      <4>3. \A k \in 1..(n - 1) : k + 1 \in 1..n /\ r[k] = q[k + 1]
        BY <1>1, <1>3
      <4>4. (\E k \in 1..n : q[k] = i) <=> \E k \in 1..(n - 1) : r[k] = i
        BY <4>2, <4>3
      <4> QED
        BY <3>2, <4>1, <4>4
    <3> QED
      BY <3>1, <3>2
  <2> QED
    BY <1>3, <2>1, <2>2 DEF OnceEach
<1>8. nx[h] = IF n = 1 THEN Null ELSE q[2]
  <2>1. 1 \in 1..n /\ 1 + 1 = 2
    BY <1>1
  <2>2. nx[q[1]] = IF 1 = n THEN Null ELSE q[1 + 1]
    BY <1>5, <2>1
  <2> QED
    BY <1>1, <2>1, <2>2
<1>9. nx[h] = Null <=> n = 1
  <2>1. ASSUME n # 1 PROVE 2 \in 1..n
    <3>1. n \in Nat /\ n # 0 /\ n # 1
      BY <1>1, <2>1
    <3> HIDE DEF n
    <3> QED
      BY <3>1
  <2> QED
    BY <1>2, <1>8, <2>1
<1>10. ASSUME NEW k \in 1..(n - 1)
       PROVE  nx[r[k]] = IF k = n - 1 THEN Null ELSE r[k + 1]
  <2>1. k + 1 \in 1..n /\ r[k] = q[k + 1]
    BY <1>1, <1>3
  <2>2. nx[q[k + 1]] = IF k + 1 = n THEN Null ELSE q[k + 1 + 1]
    BY <1>5, <2>1
  <2>3. k # n - 1 => k + 1 \in 1..(n - 1) /\ r[k + 1] = q[k + 1 + 1]
    BY <1>1, <1>3
  <2> QED
    BY <1>1, <2>1, <2>2, <2>3
<1>11. nx[h] = IF n - 1 = 0 THEN Null ELSE r[1]
  <2>1. n # 1 => 1 \in 1..(n - 1) /\ r[1] = q[1 + 1]
    BY <1>1, <1>3
  <2> QED
    BY <1>1, <1>8, <2>1
<1>12. Linked(r, nx[h], nx)
  <2>1. n - 1 <= NodeNum
    BY <1>1, <1>6
  <2> QED
    BY <1>3, <1>10, <1>11, <2>1 DEF Linked
<1>13. EndsAt(r, IF nx[h] = Null THEN Null ELSE tl)
  <2>1. n # 1 => n - 1 \in 1..(n - 1) /\ r[n - 1] = q[n - 1 + 1]
    BY <1>1, <1>3
  <2>2. n - 1 + 1 = n /\ (n - 1 = 0 <=> n = 1)
    BY <1>1
  <2> QED
    BY <1>1, <1>3, <1>9, <2>1, <2>2 DEF EndsAt
<1> QED
  BY <1>7, <1>12, <1>13 DEF IsList, r

(* delete_all_node, and the queue before anything is queued.                *)
LEMMA ClearList ==
    ASSUME NEW us, NEW nx, \A i \in Items : ~us[i]
    PROVE  IsList(<<>>, us, nx, Null, Null)
<1>1. <<>> \in Seq(Items) /\ Len(<<>>) = 0
  BY EmptySeq
<1>2. \A k \in 1..Len(<<>>) : FALSE
  BY <1>1
<1> HIDE <1>2
<1>3. Linked(<<>>, Null, nx)
  BY <1>1, <1>2, NodeNumAssumption DEF Linked
<1>4. OnceEach(<<>>, us)
  BY <1>2 DEF OnceEach
<1>5. EndsAt(<<>>, Null)
  BY <1>1 DEF EndsAt
<1> QED
  BY <1>3, <1>4, <1>5 DEF IsList

-----------------------------------------------------------------------------
(* delete_group_member: the items that are kept, in their order. *)

Stay(q, nd) == {j \in 1..Len(q) : ~nd[q[j]].member}

Kept(q, nd) ==
    [k \in 1..Cardinality(Stay(q, nd)) |-> q[KthOf(Stay(q, nd), k)]]

FirstOf(q, L) ==
    IF L = {} THEN Null ELSE q[CHOOSE j \in L : \A k \in L : j <= k]

LastOf(q, L) ==
    IF L = {} THEN Null ELSE q[CHOOSE j \in L : \A k \in L : k <= j]

LEMMA StayFacts ==
    ASSUME NEW q \in Seq(Items), NEW nd
    PROVE  /\ Len(q) \in Nat /\ Stay(q, nd) \in SUBSET (1..Len(q))
           /\ Cardinality(Stay(q, nd)) \in Nat
           /\ Cardinality(Stay(q, nd)) <= Len(q)
           /\ Cardinality(Stay(q, nd)) = 0 <=> Stay(q, nd) = {}
<1>1. Len(q) \in Nat
  BY ItemFacts
<1>2. Stay(q, nd) \in SUBSET (1..Len(q))
  BY DEF Stay
<1>3. /\ IsFiniteSet(Stay(q, nd)) /\ Cardinality(Stay(q, nd)) \in Nat
      /\ Cardinality(Stay(q, nd)) <= Len(q)
  BY <1>1, <1>2, Positions
<1> QED
  BY <1>1, <1>2, <1>3, FS_EmptySet

(* The k-th kept item is one that stays, and each that stays has its place. *)
LEMMA KeptFacts ==
    ASSUME NEW q \in Seq(Items), NEW nd
    PROVE  /\ Kept(q, nd) \in Seq(Items)
           /\ Len(Kept(q, nd)) = Cardinality(Stay(q, nd))
           /\ \A k \in 1..Len(Kept(q, nd)) :
                 /\ KthOf(Stay(q, nd), k) \in Stay(q, nd)
                 /\ Place(Stay(q, nd), KthOf(Stay(q, nd), k)) = k
                 /\ Kept(q, nd)[k] = q[KthOf(Stay(q, nd), k)]
           /\ \A j \in Stay(q, nd) :
                 /\ Place(Stay(q, nd), j) \in 1..Len(Kept(q, nd))
                 /\ Kept(q, nd)[Place(Stay(q, nd), j)] = q[j]
<1> DEFINE S == Stay(q, nd)
<1> DEFINE c == Cardinality(S)
<1>1. Len(q) \in Nat /\ S \in SUBSET (1..Len(q)) /\ c \in Nat
  BY StayFacts
<1>2. /\ \A k \in 1..c : KthOf(S, k) \in S /\ Place(S, KthOf(S, k)) = k
      /\ \A j \in S : KthOf(S, Place(S, j)) = j
  BY <1>1, KthOfPlace
<1>3. \A j \in S : Place(S, j) \in 1..c
  BY <1>1, PlaceType
<1>4. \A j \in S : q[j] \in Items
  BY <1>1, ItemFacts
<1> HIDE DEF S
<1>5. Kept(q, nd) = [k \in 1..c |-> q[KthOf(S, k)]]
  BY DEF Kept, S
<1>6. Kept(q, nd) \in [1..c -> Items]
  BY <1>2, <1>4, <1>5
<1>7. Kept(q, nd) \in Seq(Items) /\ Len(Kept(q, nd)) = c
  <2>1. \A f \in [1..c -> Items] : f \in Seq(Items) /\ Len(f) = c
    BY <1>1
  <2> QED
    BY <1>6, <2>1
<1>8. \A k \in 1..c : Kept(q, nd)[k] = q[KthOf(S, k)]
  BY <1>5
<1>9. \A j \in S : Kept(q, nd)[Place(S, j)] = q[j]
  BY <1>2, <1>3, <1>8
<1> QED
  BY <1>2, <1>3, <1>7, <1>8, <1>9 DEF S

(* What the pointer of a kept item, or of the head, moves to.               *)
LEMMA KeptAfterIs ==
    ASSUME NEW q \in Seq(Items), NEW i, NEW p,
           \/ i = 0 /\ p = 0
           \/ i \in Stay(q, node) /\ p = Place(Stay(q, node), i)
    PROVE  KeptAfter(q, i) = IF p = Len(Kept(q, node)) THEN Null
                             ELSE Kept(q, node)[p + 1]
<1> DEFINE S == Stay(q, node)
<1> DEFINE c == Cardinality(S)
<1> DEFINE later == {j \in S : j > i}
<1>1. /\ Len(q) \in Nat /\ S \in SUBSET (1..Len(q)) /\ c \in Nat
      /\ c = 0 <=> S = {}
      /\ DOMAIN q = 1..Len(q)
  BY StayFacts, ItemFacts
<1>2. /\ Len(Kept(q, node)) = c
      /\ \A j \in S : /\ Place(S, j) \in 1..c
                      /\ Kept(q, node)[Place(S, j)] = q[j]
  BY KeptFacts
<1>3. {j \in DOMAIN q : j > i /\ ~node[q[j]].member} = later
  <2>1. \A j \in 1..Len(q) : j \in S <=> ~node[q[j]].member
    BY DEF Stay
  <2> HIDE DEF S
  <2> QED
    BY <1>1, <2>1, Zenon
<1>4. KeptAfter(q, i) = IF later = {} THEN Null
                        ELSE q[CHOOSE j \in later : \A k \in later : j <= k]
  <2> DEFINE L == {j \in DOMAIN q : j > i /\ ~node[q[j]].member}
  <2>1. KeptAfter(q, i) = FirstOf(q, L)
    BY Zenon DEF KeptAfter, FirstOf
  <2>2. L = later
    BY <1>3, Zenon
  <2>3. KeptAfter(q, i) = FirstOf(q, later)
    BY <2>1, <2>2, Zenon
  <2> QED
    BY <2>3, Zenon DEF FirstOf
<1>5. i \in Nat /\ \A j \in S : j \in Nat /\ j # 0
  BY <1>1
<1> HIDE DEF S
<1>6. CASE later = {}
  <2>1. \A j \in S : j <= i
    BY <1>5, <1>6
  <2>2. CASE i = 0 /\ p = 0
    <3>1. S = {}
      BY <1>5, <2>1, <2>2
    <3> QED
      BY <1>1, <1>2, <1>4, <1>6, <2>2, <3>1
  <2>3. CASE i \in S /\ p = Place(S, i)
    <3>1. p = c
      BY <1>1, <2>1, <2>3, PlaceLast
    <3> QED
      BY <1>2, <1>4, <1>6, <3>1
  <2> QED
    BY <2>2, <2>3 DEF S
<1>7. CASE later # {}
  <2> DEFINE m == CHOOSE j \in later : \A k \in later : j <= k
  <2>1. later \in SUBSET Nat
    BY <1>5
  <2>2. \E j \in later : \A k \in later : j <= k
    BY <1>7, <2>1, SmallestIn
  <2>3. m \in later /\ \A k \in later : m <= k
    BY <2>2
  <2>4. KeptAfter(q, i) = q[m]
    BY <1>4, <1>7
  <2> HIDE DEF m
  <2>5. m \in S /\ m > i /\ \A k \in S : k > i => m <= k
    BY <2>3
  <2>6. Place(S, m) = p + 1
    <3>1. CASE i = 0 /\ p = 0
      <4>1. \A k \in S : m <= k
        BY <1>5, <2>5, <3>1
      <4>2. Place(S, m) = 1
        BY <1>1, <2>5, <4>1, PlaceFirst
      <4> QED
        BY <3>1, <4>2
    <3>2. CASE i \in S /\ p = Place(S, i)
      <4>1. i < m
        BY <1>5, <2>5
      <4> QED
        BY <1>1, <2>5, <3>2, <4>1, PlaceNext
    <3> QED
      BY <3>1, <3>2 DEF S
  <2>7. p \in Nat
    <3>1. CASE i = 0 /\ p = 0
      BY <3>1
    <3>2. CASE i \in S /\ p = Place(S, i)
      BY <1>1, <1>2, <3>2
    <3> QED
      BY <3>1, <3>2 DEF S
  <2>8. p + 1 \in 1..c /\ Kept(q, node)[p + 1] = q[m]
    BY <1>2, <2>5, <2>6
  <2> QED
    BY <1>1, <1>2, <2>4, <2>7, <2>8
<1> QED
  BY <1>6, <1>7

(* The tail moves to the last kept item.                                    *)
LEMMA LastKeptIs ==
    ASSUME NEW q \in Seq(Items)
    PROVE  EndsAt(Kept(q, node), LastKept(q))
<1> DEFINE S == Stay(q, node)
<1> DEFINE c == Cardinality(S)
<1>1. /\ Len(q) \in Nat /\ S \in SUBSET (1..Len(q)) /\ c \in Nat
      /\ c = 0 <=> S = {}
      /\ DOMAIN q = 1..Len(q)
  BY StayFacts, ItemFacts
<1>2. /\ Len(Kept(q, node)) = c
      /\ \A j \in S : /\ Place(S, j) \in 1..c
                      /\ Kept(q, node)[Place(S, j)] = q[j]
  BY KeptFacts
<1>3. {j \in DOMAIN q : ~node[q[j]].member} = S
  BY <1>1, Zenon DEF Stay
<1>4. LastKept(q) = IF S = {} THEN Null
                    ELSE q[CHOOSE j \in S : \A k \in S : k <= j]
  <2> DEFINE L == {j \in DOMAIN q : ~node[q[j]].member}
  <2>1. LastKept(q) = LastOf(q, L)
    BY Zenon DEF LastKept, LastOf
  <2>2. L = S
    BY <1>3, Zenon
  <2>3. LastKept(q) = LastOf(q, S)
    BY <2>1, <2>2, Zenon
  <2> QED
    BY <2>3, Zenon DEF LastOf
<1> HIDE DEF S
<1>5. CASE S = {}
  BY <1>1, <1>2, <1>4, <1>5 DEF EndsAt
<1>6. CASE S # {}
  <2> DEFINE m == CHOOSE j \in S : \A k \in S : k <= j
  <2>1. \E j \in S : \A k \in S : k <= j
    BY <1>1, <1>6, GreatestIn
  <2>2. m \in S /\ \A k \in S : k <= m
    BY <2>1
  <2>3. LastKept(q) = q[m]
    BY <1>4, <1>6
  <2> HIDE DEF m
  <2>4. Place(S, m) = c
    BY <1>1, <2>2, PlaceLast
  <2>5. Kept(q, node)[c] = q[m] /\ c # 0
    BY <1>1, <1>2, <1>6, <2>2, <2>4
  <2> QED
    BY <1>2, <2>3, <2>5 DEF EndsAt
<1> QED
  BY <1>5, <1>6

(* The kept items are a list once the group is gone.                        *)
LEMMA DeleteList ==
    ASSUME NEW q, IsList(q, used, next, head, tail),
           NEW us2, \A i \in Items : us2[i] <=> used[i] /\ ~node[i].member,
           NEW nx2, \A j \in Stay(q, node) : nx2[q[j]] = KeptAfter(q, j)
    PROVE  IsList(Kept(q, node), us2, nx2, KeptAfter(q, 0), LastKept(q))
<1> DEFINE S == Stay(q, node)
<1> DEFINE r == Kept(q, node)
<1> DEFINE at(k) == KthOf(S, k)
<1>1. /\ q \in Seq(Items) /\ Len(q) <= NodeNum
      /\ \A i, j \in 1..Len(q) : q[i] = q[j] => i = j
      /\ \A i \in Items : used[i] <=> \E k \in 1..Len(q) : q[k] = i
  BY DEF IsList, Linked, OnceEach
<1>2. /\ Len(q) \in Nat /\ S \in SUBSET (1..Len(q))
      /\ Cardinality(S) \in Nat /\ Cardinality(S) <= Len(q)
  BY <1>1, StayFacts
<1>3. /\ r \in Seq(Items) /\ Len(r) = Cardinality(S)
      /\ \A k \in 1..Len(r) : /\ at(k) \in S
                              /\ Place(S, at(k)) = k
                              /\ r[k] = q[at(k)]
      /\ \A j \in S : Place(S, j) \in 1..Len(r) /\ r[Place(S, j)] = q[j]
  BY <1>1, KeptFacts
<1>4. \A j \in 1..Len(q) : j \in S <=> ~node[q[j]].member
  BY DEF Stay
<1>5. \A j \in S : nx2[q[j]] = KeptAfter(q, j)
  OBVIOUS
<1>6. NodeNum \in Nat
  BY NodeNumAssumption
<1>7. \A j \in S : KeptAfter(q, j)
                     = IF Place(S, j) = Len(r) THEN Null ELSE r[Place(S, j) + 1]
  BY <1>1, KeptAfterIs
<1>8. KeptAfter(q, 0) = IF Len(r) = 0 THEN Null ELSE r[1]
  <2>1. KeptAfter(q, 0) = IF 0 = Len(r) THEN Null ELSE r[0 + 1]
    BY <1>1, KeptAfterIs
  <2> QED
    BY <2>1
<1>9. EndsAt(r, LastKept(q))
  BY <1>1, LastKeptIs
<1> HIDE DEF S, r, at
<1>10. OnceEach(r, us2)
  <2>1. ASSUME NEW i \in 1..Len(r), NEW j \in 1..Len(r), r[i] = r[j]
        PROVE  i = j
    <3>1. at(i) \in 1..Len(q) /\ at(j) \in 1..Len(q) /\ q[at(i)] = q[at(j)]
      BY <1>2, <1>3, <2>1
    <3>2. at(i) = at(j)
      BY <1>1, <3>1
    <3> QED
      BY <1>3, <3>2
  <2>2. ASSUME NEW i \in Items
        PROVE  us2[i] <=> \E k \in 1..Len(r) : r[k] = i
    <3>1. ASSUME us2[i] PROVE \E k \in 1..Len(r) : r[k] = i
      <4>1. PICK j \in 1..Len(q) : q[j] = i
        BY <1>1, <3>1
      <4>2. j \in S
        BY <1>4, <3>1, <4>1
      <4> QED
        BY <1>3, <4>1, <4>2
    <3>2. ASSUME NEW k \in 1..Len(r), r[k] = i PROVE us2[i]
      <4>1. at(k) \in 1..Len(q) /\ at(k) \in S /\ q[at(k)] = i
        BY <1>2, <1>3, <3>2
      <4>2. used[i] /\ ~node[i].member
        BY <1>1, <1>4, <4>1
      <4> QED
        BY <4>2
    <3> QED
      BY <3>1, <3>2
  <2> QED
    BY <2>1, <2>2 DEF OnceEach
<1>11. ASSUME NEW k \in 1..Len(r)
       PROVE  nx2[r[k]] = IF k = Len(r) THEN Null ELSE r[k + 1]
  <2>1. at(k) \in S /\ Place(S, at(k)) = k /\ r[k] = q[at(k)]
    BY <1>3
  <2>2. nx2[q[at(k)]] = KeptAfter(q, at(k))
    BY <1>5, <2>1
  <2>3. KeptAfter(q, at(k)) = IF Place(S, at(k)) = Len(r) THEN Null
                              ELSE r[Place(S, at(k)) + 1]
    BY <1>7, <2>1
  <2> QED
    BY <2>1, <2>2, <2>3
<1>12. Linked(r, KeptAfter(q, 0), nx2)
  <2>1. Len(r) <= NodeNum
    BY <1>1, <1>2, <1>3, <1>6
  <2> QED
    BY <1>3, <1>8, <1>11, <2>1 DEF Linked
<1> QED
  BY <1>9, <1>10, <1>12 DEF IsList, r

-----------------------------------------------------------------------------
(* The nodes of a list, and what the operations do to them. *)

NodeType == Node \cup {ZeroNode}

Nodes(q, nd) == [i \in DOMAIN q |-> nd[q[i]]]

LEMMA NodeFacts ==
    ASSUME NEW n \in NodeType
    PROVE  /\ n = [addr |-> n.addr, profs |-> n.profs,
                   force |-> n.force, member |-> n.member]
           /\ n.profs \in SUBSET Profs
           /\ n.force \in BOOLEAN /\ n.member \in BOOLEAN
           /\ n.addr \in Addrs => n \in Node
<1>1. CASE n \in Node
  BY <1>1 DEF Node
<1>2. CASE n = ZeroNode
  BY <1>2 DEF ZeroNode, Node
<1> QED
  BY <1>1, <1>2 DEF NodeType

LEMMA NodesFacts ==
    ASSUME NEW q \in Seq(Items), NEW nd \in [Items -> NodeType]
    PROVE  /\ Nodes(q, nd) \in Seq(NodeType)
           /\ Len(Nodes(q, nd)) = Len(q)
           /\ DOMAIN Nodes(q, nd) = 1..Len(q)
           /\ \A k \in 1..Len(q) :
                 Nodes(q, nd)[k] = nd[q[k]] /\ nd[q[k]] \in NodeType
<1>1. Len(q) \in Nat /\ DOMAIN q = 1..Len(q)
  BY ItemFacts
<1>2. \A k \in 1..Len(q) : q[k] \in Items
  BY ItemFacts
<1>3. Nodes(q, nd) = [k \in 1..Len(q) |-> nd[q[k]]]
  BY <1>1, Zenon DEF Nodes
<1>4. \A k \in 1..Len(q) :
         Nodes(q, nd)[k] = nd[q[k]] /\ nd[q[k]] \in NodeType
  BY <1>2, <1>3
<1>5. Nodes(q, nd) \in [1..Len(q) -> NodeType]
  BY <1>3, <1>4
<1>6. \A f \in [1..Len(q) -> NodeType] :
         f \in Seq(NodeType) /\ Len(f) = Len(q) /\ DOMAIN f = 1..Len(q)
  BY <1>1
<1> QED
  BY <1>4, <1>5, <1>6

(* Two lists of nodes are equal when they agree everywhere.                 *)
LEMMA SameNodes ==
    ASSUME NEW q \in Seq(Items), NEW nd \in [Items -> NodeType],
           NEW f, DOMAIN f = 1..Len(q), f = [k \in DOMAIN f |-> f[k]],
           \A k \in 1..Len(q) : f[k] = nd[q[k]]
    PROVE  Nodes(q, nd) = f
<1>1. DOMAIN q = 1..Len(q)
  BY ItemFacts
<1>2. Nodes(q, nd) = [k \in 1..Len(q) |-> nd[q[k]]]
  BY <1>1, Zenon DEF Nodes
<1>3. f = [k \in 1..Len(q) |-> f[k]]
  BY Zenon
<1>4. [k \in 1..Len(q) |-> f[k]] = [k \in 1..Len(q) |-> nd[q[k]]]
  BY Zenon
<1> QED
  BY <1>2, <1>3, <1>4, Zenon

LEMMA NodesAppend ==
    ASSUME NEW q \in Seq(Items), NEW m \in Items,
           NEW nd \in [Items -> NodeType], NEW nd2 \in [Items -> NodeType],
           \A k \in 1..Len(q) : nd2[q[k]] = nd[q[k]]
    PROVE  Nodes(Append(q, m), nd2) = Append(Nodes(q, nd), nd2[m])
<1> DEFINE n == Len(q)
<1> DEFINE r == Append(q, m)
<1> DEFINE f == Nodes(q, nd)
<1>1. n \in Nat /\ f \in Seq(NodeType) /\ Len(f) = n /\ nd2[m] \in NodeType
      /\ \A k \in 1..n : f[k] = nd[q[k]]
  BY ItemFacts, NodesFacts
<1>2. /\ r \in Seq(Items) /\ Len(r) = n + 1
      /\ \A k \in 1..n : r[k] = q[k]
      /\ r[n + 1] = m
  BY AppendProperties
<1> HIDE DEF r, f
<1>3. /\ Append(f, nd2[m]) \in Seq(NodeType)
      /\ Len(Append(f, nd2[m])) = n + 1
      /\ \A k \in 1..n : Append(f, nd2[m])[k] = f[k]
      /\ Append(f, nd2[m])[n + 1] = nd2[m]
  BY <1>1, AppendProperties
<1>4. /\ Nodes(r, nd2) \in Seq(NodeType) /\ Len(Nodes(r, nd2)) = n + 1
      /\ \A k \in 1..(n + 1) : Nodes(r, nd2)[k] = nd2[r[k]]
  BY <1>2, NodesFacts
<1>5. ASSUME NEW k \in 1..(n + 1)
      PROVE  Nodes(r, nd2)[k] = Append(f, nd2[m])[k]
  <2>1. k \in 1..n \/ k = n + 1
    BY <1>1
  <2> QED
    BY <1>1, <1>2, <1>3, <1>4, <2>1
<1>6. Nodes(r, nd2) = Append(f, nd2[m])
  BY <1>3, <1>4, <1>5, SeqEqual
<1> QED
  BY <1>6 DEF r, f

LEMMA NodesPush ==
    ASSUME NEW q \in Seq(Items), NEW m \in Items,
           NEW nd \in [Items -> NodeType], NEW nd2 \in [Items -> NodeType],
           \A k \in 1..Len(q) : nd2[q[k]] = nd[q[k]]
    PROVE  Nodes(<<m>> \o q, nd2) = <<nd2[m]>> \o Nodes(q, nd)
<1> DEFINE n == Len(q)
<1> DEFINE r == <<m>> \o q
<1> DEFINE f == Nodes(q, nd)
<1> DEFINE g == <<nd2[m]>> \o f
<1>1. n \in Nat /\ f \in Seq(NodeType) /\ Len(f) = n /\ nd2[m] \in NodeType
      /\ \A k \in 1..n : f[k] = nd[q[k]]
  BY ItemFacts, NodesFacts
<1>2. /\ r \in Seq(Items) /\ Len(r) = 1 + n
      /\ \A k \in 1..(1 + n) : r[k] = IF k <= 1 THEN m ELSE q[k - 1]
  <2>1. <<m>> \in Seq(Items) /\ Len(<<m>>) = 1 /\ <<m>>[1] = m
    OBVIOUS
  <2>2. /\ r \in Seq(Items)
        /\ Len(r) = 1 + n
        /\ \A i \in 1..(1 + n) : r[i] = IF i <= 1 THEN <<m>>[i] ELSE q[i - 1]
    BY <2>1, ConcatProperties
  <2> HIDE DEF r
  <2>3. \A i \in 1..(1 + n) : i <= 1 => i = 1
    BY <1>1
  <2> QED
    BY <2>1, <2>2, <2>3
<1> HIDE DEF f
<1>3. /\ g \in Seq(NodeType) /\ Len(g) = 1 + n
      /\ \A k \in 1..(1 + n) : g[k] = IF k <= 1 THEN nd2[m] ELSE f[k - 1]
  <2>1. /\ <<nd2[m]>> \in Seq(NodeType) /\ Len(<<nd2[m]>>) = 1
        /\ <<nd2[m]>>[1] = nd2[m]
    BY <1>1
  <2>2. /\ g \in Seq(NodeType)
        /\ Len(g) = 1 + n
        /\ \A i \in 1..(1 + n) :
              g[i] = IF i <= 1 THEN <<nd2[m]>>[i] ELSE f[i - 1]
    BY <1>1, <2>1, ConcatProperties
  <2> HIDE DEF g
  <2>3. \A i \in 1..(1 + n) : i <= 1 => i = 1
    BY <1>1
  <2> QED
    BY <2>1, <2>2, <2>3
<1> HIDE DEF r, g
<1>4. /\ Nodes(r, nd2) \in Seq(NodeType) /\ Len(Nodes(r, nd2)) = 1 + n
      /\ \A k \in 1..(1 + n) : Nodes(r, nd2)[k] = nd2[r[k]]
  BY <1>2, NodesFacts
<1>5. ASSUME NEW k \in 1..(1 + n)
      PROVE  Nodes(r, nd2)[k] = g[k]
  <2>1. CASE k <= 1
    BY <1>2, <1>3, <1>4, <2>1
  <2>2. CASE ~(k <= 1)
    <3>1. k - 1 \in 1..n
      BY <1>1, <2>2
    <3>2. nd2[q[k - 1]] = nd[q[k - 1]] /\ f[k - 1] = nd[q[k - 1]]
      BY <1>1, <3>1
    <3> QED
      BY <1>2, <1>3, <1>4, <2>2, <3>2
  <2> QED
    BY <2>1, <2>2
<1>6. Nodes(r, nd2) = g
  BY <1>3, <1>4, <1>5, SeqEqual
<1> QED
  BY <1>6 DEF r, g, f

LEMMA NodesTail ==
    ASSUME NEW q \in Seq(Items), q # <<>>, NEW nd \in [Items -> NodeType]
    PROVE  Nodes(q, nd) # <<>> /\ Nodes(Tail(q), nd) = Tail(Nodes(q, nd))
<1> DEFINE n == Len(q)
<1> DEFINE r == Tail(q)
<1> DEFINE f == Nodes(q, nd)
<1>1. n \in Nat /\ n # 0 /\ f \in Seq(NodeType) /\ Len(f) = n
      /\ \A k \in 1..n : f[k] = nd[q[k]]
  BY ItemFacts, NodesFacts
<1>2. /\ r \in Seq(Items) /\ Len(r) = n - 1
      /\ \A k \in 1..Len(r) : r[k] = q[k + 1]
  BY HeadTailProperties
<1> HIDE DEF r, f
<1>3. f # <<>>
  BY <1>1, EmptySeq
<1>4. /\ Tail(f) \in Seq(NodeType) /\ Len(Tail(f)) = n - 1
      /\ \A k \in 1..Len(Tail(f)) : Tail(f)[k] = f[k + 1]
  BY <1>1, <1>3, HeadTailProperties
<1>5. /\ Nodes(r, nd) \in Seq(NodeType) /\ Len(Nodes(r, nd)) = n - 1
      /\ \A k \in 1..(n - 1) : Nodes(r, nd)[k] = nd[r[k]]
  BY <1>2, NodesFacts
<1>6. ASSUME NEW k \in 1..(n - 1)
      PROVE  Nodes(r, nd)[k] = Tail(f)[k]
  <2>1. k + 1 \in 1..n
    BY <1>1
  <2> QED
    BY <1>1, <1>2, <1>4, <1>5, <2>1
<1>7. Nodes(r, nd) = Tail(f)
  BY <1>4, <1>5, <1>6, SeqEqual
<1> QED
  BY <1>3, <1>7 DEF r, f

LEMMA NodesKept ==
    ASSUME NEW q \in Seq(Items), NEW nd \in [Items -> NodeType]
    PROVE  DeleteGroup(Nodes(q, nd)) = Nodes(Kept(q, nd), nd)
<1> DEFINE S == Stay(q, nd)
<1> DEFINE c == Cardinality(S)
<1> DEFINE f == Nodes(q, nd)
<1> DEFINE L == {i \in DOMAIN f : ~f[i].member}
<1> DEFINE g == [k \in 1..c |-> f[KthOf(S, k)]]
<1>1. /\ Kept(q, nd) \in Seq(Items) /\ Len(Kept(q, nd)) = c
      /\ \A k \in 1..c : KthOf(S, k) \in S /\ Kept(q, nd)[k] = q[KthOf(S, k)]
  BY KeptFacts
<1>2. S \in SUBSET (1..Len(q))
  BY StayFacts
<1>3. DOMAIN f = 1..Len(q) /\ \A k \in 1..Len(q) : f[k] = nd[q[k]]
  BY NodesFacts
<1> HIDE DEF f
<1>4. L = S
  <2>1. \A i \in 1..Len(q) : i \in S <=> ~f[i].member
    BY <1>3 DEF Stay
  <2> HIDE DEF S
  <2> QED
    BY <1>2, <1>3, <2>1, Zenon
<1>5. DeleteGroup(f) = [k \in 1..Cardinality(L) |-> f[KthOf(L, k)]]
  BY Zenon DEF DeleteGroup
<1> HIDE DEF L
<1>6. DeleteGroup(f) = g
  BY <1>4, <1>5, Zenon
<1>7. DOMAIN g = 1..c /\ g = [k \in DOMAIN g |-> g[k]]
      /\ \A k \in 1..c : g[k] = f[KthOf(S, k)]
  OBVIOUS
<1>8. \A k \in 1..c : g[k] = nd[Kept(q, nd)[k]]
  BY <1>1, <1>2, <1>3, <1>7
<1> HIDE DEF g, S
<1>9. Nodes(Kept(q, nd), nd) = g
  BY <1>1, <1>7, <1>8, SameNodes
<1> QED
  BY <1>6, <1>9 DEF f

-----------------------------------------------------------------------------
(* What the invariant says of the traversal and of the look-up. *)

LEMMA InvFacts ==
    ASSUME IInv
    PROVE  /\ Chain \in Seq(Items) /\ Len(Chain) \in Nat
           /\ DOMAIN Chain = 1..Len(Chain)
           /\ node \in [Items -> NodeType]
           /\ Todo = Nodes(Chain, node)
           /\ Queued = Marked(used)
           /\ \A k \in 1..Len(Chain) : Chain[k] \in Items /\ used[Chain[k]]
<1>1. Chain \in Seq(Items)
  BY DEF IInv, IsList, Linked
<1>2. /\ Len(Chain) \in Nat /\ DOMAIN Chain = 1..Len(Chain)
      /\ \A k \in 1..Len(Chain) : Chain[k] \in Items
  BY <1>1, ItemFacts
<1>3. Todo = Nodes(Chain, node)
  BY Zenon DEF Todo, Nodes
<1>4. node \in [Items -> NodeType]
  BY DEF IInv, TypeOK, NodeType
<1>5. \A i \in Items : used[i] <=> \E k \in 1..Len(Chain) : Chain[k] = i
  BY DEF IInv, IsList, OnceEach
<1>6. \A x : x \in Queued <=> \E k \in 1..Len(Chain) : Chain[k] = x
  BY <1>2, Zenon DEF Queued
<1>7. \A x : x \in Marked(used) <=> x \in Items /\ used[x]
  BY Zenon DEF Marked
<1>8. \A x : x \in Queued <=> x \in Marked(used)
  BY <1>2, <1>5, <1>6, <1>7, Zenon
<1>9. Queued = Marked(used)
  BY <1>8, Zenon
<1> QED
  BY <1>1, <1>2, <1>3, <1>4, <1>5, <1>9

(* An address has at most one holder, and has one when it is in the queue.  *)
LEMMA HolderFacts ==
    ASSUME IInv, NEW a
    PROVE  /\ \A i : i \in Holders(a) <=>
                i \in Items /\ used[i] /\ node[i].addr = a
           /\ \A i, j \in Holders(a) : i = j
           /\ \A k \in 1..Len(Chain) :
                 Chain[k] \in Holders(a) <=> Todo[k].addr = a
           /\ HasAddr(Todo, a) <=> Holders(a) # {}
<1>1. /\ Chain \in Seq(Items) /\ node \in [Items -> NodeType]
      /\ Todo = Nodes(Chain, node) /\ Queued = Marked(used)
      /\ \A k \in 1..Len(Chain) : Chain[k] \in Items /\ used[Chain[k]]
  BY InvFacts
<1>2. \A i : i \in Holders(a) <=> i \in Items /\ used[i] /\ node[i].addr = a
  BY <1>1, Zenon DEF Holders, Marked
<1>3. DOMAIN Todo = 1..Len(Chain)
      /\ \A k \in 1..Len(Chain) : Todo[k] = node[Chain[k]]
  BY <1>1, NodesFacts
<1>4. \A i \in Items : used[i] <=> \E k \in 1..Len(Chain) : Chain[k] = i
  BY DEF IInv, IsList, OnceEach
<1>5. \A i, j \in 1..Len(Chain) :
         node[Chain[i]].addr = node[Chain[j]].addr => i = j
  BY DEF IInv, Distinct
<1>6. \A i, j \in Holders(a) : i = j
  BY <1>2, <1>4, <1>5
<1>7. \A k \in 1..Len(Chain) : Chain[k] \in Holders(a) <=> Todo[k].addr = a
  BY <1>1, <1>2, <1>3
<1>8. HasAddr(Todo, a) <=> \E k \in 1..Len(Chain) : Todo[k].addr = a
  BY <1>3, Zenon DEF HasAddr
<1>9. Holders(a) # {} <=> \E k \in 1..Len(Chain) : Chain[k] \in Holders(a)
  BY <1>2, <1>4
<1> QED
  BY <1>2, <1>6, <1>7, <1>8, <1>9

(* A step is followed by naming the list it leads to.                       *)
LEMMA NextList ==
    ASSUME TypeOK', NEW q, IsList(q, used', next', head', tail'),
           Distinct(q, node')
    PROVE  IInv' /\ Todo' = Nodes(q, node')
<1>1. Linked(q, head', next')
  BY DEF IsList
<1>2. ListFrom(head', next') = q
  BY <1>1, ListIs
<1>3. Chain' = q
  BY <1>2, Zenon DEF Chain
<1>4. IInv'
  BY <1>3 DEF IInv
<1>5. Todo' = Nodes(Chain', node')
  BY Zenon DEF Todo, Nodes
<1> QED
  BY <1>3, <1>4, <1>5

(* The allocator returns a free item.                                       *)
LEMMA MallocFree ==
    ASSUME Free # {}
    PROVE  Malloc \in Items /\ ~used[Malloc]
<1>1. Free \in SUBSET Nat /\ \A i \in Free : i \in Items /\ ~used[i]
  BY NodeNumAssumption DEF Free, Items
<1>2. \E i \in Free : \A j \in Free : i <= j
  BY <1>1, SmallestIn
<1>3. Malloc \in Free
  BY <1>2 DEF Malloc
<1> QED
  BY <1>1, <1>3

(* A free item means that the queue is not full, none that it is.           *)
LEMMA FullWhen ==
    ASSUME IInv
    PROVE  Free # {} <=> Len(Todo) < NodeNum
<1>1. /\ Chain \in Seq(Items) /\ Len(Chain) \in Nat
      /\ node \in [Items -> NodeType] /\ Todo = Nodes(Chain, node)
  BY InvFacts
<1>2. OnceEach(Chain, used) /\ used \in [Items -> BOOLEAN]
  BY DEF IInv, IsList, TypeOK
<1>3. /\ Cardinality(Marked(used)) = Len(Chain) /\ Len(Chain) <= NodeNum
      /\ Len(Chain) = NodeNum => \A i \in Items : used[i]
  BY <1>1, <1>2, Count
<1>4. NodeNum \in Nat /\ Cardinality(Items) = NodeNum
  BY NodeNumAssumption, FS_Interval DEF Items
<1>5. Free = {} => Marked(used) = Items
  BY DEF Free, Marked
<1>6. Free # {} => \E i \in Items : ~used[i]
  BY DEF Free
<1>7. Len(Todo) = Len(Chain)
  BY <1>1, NodesFacts
<1> QED
  BY <1>1, <1>3, <1>4, <1>5, <1>6, <1>7

-----------------------------------------------------------------------------
(* The steps. *)

LEMMA StepAppend ==
    ASSUME IInv, NEW a \in Addrs, NEW P \in SUBSET Profs, NEW m \in BOOLEAN,
           AppendItem(a, P, m)
    PROVE  IInv' /\ Todo' = InsertNormal(Todo, a, P, m)
<1> DEFINE x == Malloc
<1> DEFINE n == [addr |-> a, profs |-> P, force |-> FALSE, member |-> m]
<1> DEFINE q == Chain
<1> DEFINE r == Append(q, x)
<1>1. /\ q \in Seq(Items) /\ Len(q) \in Nat
      /\ node \in [Items -> NodeType] /\ Todo = Nodes(q, node)
      /\ \A k \in 1..Len(q) : q[k] \in Items /\ used[q[k]]
  BY InvFacts
<1>2. /\ x \in Items /\ ~used[x]
      /\ Holders(a) = {} /\ Free # {}
  BY MallocFree DEF AppendItem
<1>3. /\ used' = [used EXCEPT ![x] = TRUE]
      /\ node' = [node EXCEPT ![x] = n]
      /\ next' = IF head = Null THEN [next EXCEPT ![x] = Null]
                 ELSE [next EXCEPT ![x] = Null, ![tail] = x]
      /\ head' = IF head = Null THEN x ELSE head
      /\ tail' = x
  BY DEF AppendItem
<1>4. /\ used \in [Items -> BOOLEAN] /\ next \in [Items -> Pointer]
      /\ head \in Pointer
  BY DEF IInv, TypeOK
<1>5. IsList(q, used, next, head, tail) /\ Distinct(q, node)
  BY DEF IInv
<1>6. head # Null => tail \in Items /\ used[tail]
  BY <1>5, TailIs
<1> HIDE DEF x, q
<1>7. n \in Node
  BY DEF Node
<1> HIDE DEF n
<1>8. n \in NodeType
  BY <1>7 DEF NodeType
<1>9. x \in Pointer /\ Null \in Pointer
  BY <1>2 DEF Pointer
<1>10. node' \in [Items -> NodeType]
  BY <1>1, <1>3, <1>8
<1>11. used' \in [Items -> BOOLEAN]
  BY <1>3, <1>4
<1>12. next' \in [Items -> Pointer]
  BY <1>3, <1>4, <1>9
<1>13. TypeOK'
  BY <1>2, <1>3, <1>4, <1>9, <1>10, <1>11, <1>12 DEF TypeOK, NodeType
<1>14. used'[x] /\ \A i \in Items : i # x => (used'[i] <=> used[i])
  BY <1>2, <1>3, <1>4
<1>15. head # Null => tail # x
  BY <1>2, <1>6
<1>16. /\ next'[x] = Null
       /\ head # Null => next'[tail] = x
       /\ \A i \in Items :
             i # x /\ (head = Null \/ i # tail) => next'[i] = next[i]
  <2>1. CASE head = Null
    BY <1>2, <1>3, <1>4, <2>1
  <2>2. CASE head # Null
    BY <1>2, <1>3, <1>4, <1>6, <1>15, <2>2
  <2> QED
    BY <2>1, <2>2
<1>17. IsList(r, used', next', IF head = Null THEN x ELSE head, x)
  BY <1>2, <1>5, <1>14, <1>16, AppendList
<1>18. IsList(r, used', next', head', tail')
  BY <1>3, <1>17
<1>19. /\ r \in Seq(Items) /\ Len(r) = Len(q) + 1
       /\ \A k \in 1..Len(q) : r[k] = q[k]
       /\ r[Len(q) + 1] = x
  BY <1>1, <1>2, AppendProperties
<1>20. \A k \in 1..Len(q) : node'[q[k]] = node[q[k]]
  BY <1>1, <1>2, <1>3
<1>21. node'[x] = n
  BY <1>1, <1>2, <1>3
<1>22. n.addr = a
  BY DEF n
<1>23. \A k \in 1..Len(q) : node[q[k]].addr # a
  <2>1. \A i : i \in Holders(a) <=> i \in Items /\ used[i] /\ node[i].addr = a
    BY HolderFacts
  <2> QED
    BY <1>1, <1>2, <2>1
<1> HIDE DEF r
<1>24. Distinct(r, node')
  <2>1. ASSUME NEW i \in 1..(Len(q) + 1), NEW j \in 1..(Len(q) + 1),
               node'[r[i]].addr = node'[r[j]].addr
        PROVE  i = j
    <3>1. \A k \in 1..(Len(q) + 1) : k \in 1..Len(q) \/ k = Len(q) + 1
      BY <1>1
    <3>2. \A k \in 1..Len(q) : node'[r[k]].addr = node[q[k]].addr
      BY <1>19, <1>20
    <3>3. node'[r[Len(q) + 1]].addr = a
      BY <1>19, <1>21, <1>22
    <3>4. CASE i \in 1..Len(q) /\ j \in 1..Len(q)
      BY <1>5, <2>1, <3>2, <3>4 DEF Distinct
    <3>5. CASE i = Len(q) + 1 \/ j = Len(q) + 1
      BY <1>23, <2>1, <3>1, <3>2, <3>3, <3>5
    <3> QED
      BY <3>1, <3>4, <3>5
  <2> QED
    BY <1>19, <2>1 DEF Distinct
<1>25. IInv' /\ Todo' = Nodes(r, node')
  BY <1>13, <1>18, <1>24, NextList
<1>26. Nodes(r, node') = Append(Todo, n)
  <2>1. Nodes(Append(q, x), node') = Append(Nodes(q, node), node'[x])
    <3>1. q \in Seq(Items) /\ x \in Items /\ node \in [Items -> NodeType]
      BY <1>1, <1>2
    <3> QED
      BY <1>10, <1>20, <3>1, NodesAppend
  <2> QED
    BY <1>1, <1>21, <2>1 DEF r
<1>27. InsertNormal(Todo, a, P, m) = Append(Todo, n)
  <2>1. ~HasAddr(Todo, a)
    BY <1>2, HolderFacts
  <2>2. Len(Todo) < NodeNum
    BY <1>2, FullWhen
  <2> QED
    BY <2>1, <2>2, Zenon DEF InsertNormal, n
<1> QED
  BY <1>25, <1>26, <1>27

LEMMA StepPush ==
    ASSUME IInv, NEW a \in Addrs, NEW P \in SUBSET Profs, NEW m \in BOOLEAN,
           PushItem(a, P, m)
    PROVE  IInv' /\ Todo' = InsertForce(Todo, a, P, m)
<1> DEFINE x == Malloc
<1> DEFINE n == [addr |-> a, profs |-> P, force |-> TRUE, member |-> m]
<1> DEFINE q == Chain
<1> DEFINE r == <<x>> \o q
<1>1. /\ q \in Seq(Items) /\ Len(q) \in Nat
      /\ node \in [Items -> NodeType] /\ Todo = Nodes(q, node)
      /\ \A k \in 1..Len(q) : q[k] \in Items /\ used[q[k]]
  BY InvFacts
<1>2. /\ x \in Items /\ ~used[x]
      /\ Holders(a) = {} /\ Free # {}
  BY MallocFree DEF PushItem
<1>3. /\ used' = [used EXCEPT ![x] = TRUE]
      /\ node' = [node EXCEPT ![x] = n]
      /\ next' = [next EXCEPT ![x] = head]
      /\ head' = x
      /\ tail' = IF head = Null THEN x ELSE tail
  BY DEF PushItem
<1>4. /\ used \in [Items -> BOOLEAN] /\ next \in [Items -> Pointer]
      /\ head \in Pointer /\ tail \in Pointer
  BY DEF IInv, TypeOK
<1>5. IsList(q, used, next, head, tail) /\ Distinct(q, node)
  BY DEF IInv
<1> HIDE DEF x, q
<1>7. n \in Node
  BY DEF Node
<1> HIDE DEF n
<1>8. n \in NodeType
  BY <1>7 DEF NodeType
<1>9. x \in Pointer
  BY <1>2 DEF Pointer
<1>10. node' \in [Items -> NodeType]
  BY <1>1, <1>3, <1>8
<1>11. used' \in [Items -> BOOLEAN]
  BY <1>3, <1>4
<1>12. next' \in [Items -> Pointer]
  BY <1>3, <1>4
<1>13. TypeOK'
  BY <1>3, <1>4, <1>9, <1>10, <1>11, <1>12 DEF TypeOK, NodeType
<1>14. used'[x] /\ \A i \in Items : i # x => (used'[i] <=> used[i])
  BY <1>2, <1>3, <1>4
<1>15. next'[x] = head /\ \A i \in Items : i # x => next'[i] = next[i]
  BY <1>2, <1>3, <1>4
<1>16. IsList(r, used', next', x, IF head = Null THEN x ELSE tail)
  BY <1>2, <1>5, <1>14, <1>15, PushList
<1>17. IsList(r, used', next', head', tail')
  BY <1>3, <1>16
<1>18. /\ r \in Seq(Items) /\ Len(r) = 1 + Len(q)
       /\ \A k \in 1..(1 + Len(q)) : r[k] = IF k <= 1 THEN x ELSE q[k - 1]
  <2>1. <<x>> \in Seq(Items) /\ Len(<<x>>) = 1 /\ <<x>>[1] = x
    BY <1>2
  <2>2. /\ r \in Seq(Items)
        /\ Len(r) = 1 + Len(q)
        /\ \A i \in 1..(1 + Len(q)) :
              r[i] = IF i <= 1 THEN <<x>>[i] ELSE q[i - 1]
    BY <1>1, <2>1, ConcatProperties
  <2> HIDE DEF r
  <2>3. \A i \in 1..(1 + Len(q)) : i <= 1 => i = 1
    BY <1>1
  <2> QED
    BY <2>1, <2>2, <2>3
<1>20. \A k \in 1..Len(q) : node'[q[k]] = node[q[k]]
  BY <1>1, <1>2, <1>3
<1>21. node'[x] = n
  BY <1>1, <1>2, <1>3
<1>22. n.addr = a
  BY DEF n
<1>23. \A k \in 1..Len(q) : node[q[k]].addr # a
  <2>1. \A i : i \in Holders(a) <=> i \in Items /\ used[i] /\ node[i].addr = a
    BY HolderFacts
  <2> QED
    BY <1>1, <1>2, <2>1
<1> HIDE DEF r
<1>24. Distinct(r, node')
  <2>1. ASSUME NEW i \in 1..(1 + Len(q)), NEW j \in 1..(1 + Len(q)),
               node'[r[i]].addr = node'[r[j]].addr
        PROVE  i = j
    <3>1. \A k \in 1..(1 + Len(q)) :
             k = 1 \/ (k - 1 \in 1..Len(q) /\ ~(k <= 1))
      BY <1>1
    <3>2. \A k \in 1..(1 + Len(q)) :
             k # 1 => node'[r[k]].addr = node[q[k - 1]].addr
      BY <1>18, <1>20, <3>1
    <3>3. node'[r[1]].addr = a
      <4>1. 1 \in 1..(1 + Len(q)) /\ 1 <= 1
        BY <1>1
      <4>2. r[1] = x
        BY <1>18, <4>1
      <4> QED
        BY <1>21, <1>22, <4>2
    <3>4. CASE i # 1 /\ j # 1
      <4>1. i - 1 \in 1..Len(q) /\ j - 1 \in 1..Len(q)
        BY <3>1, <3>4
      <4>2. node[q[i - 1]].addr = node[q[j - 1]].addr
        BY <2>1, <3>2, <3>4
      <4>3. i - 1 = j - 1
        BY <1>5, <4>1, <4>2 DEF Distinct
      <4> QED
        BY <1>1, <4>3
    <3>5. CASE i = 1 \/ j = 1
      BY <1>23, <2>1, <3>1, <3>2, <3>3, <3>5
    <3> QED
      BY <3>4, <3>5
  <2> QED
    BY <1>18, <2>1 DEF Distinct
<1>25. IInv' /\ Todo' = Nodes(r, node')
  BY <1>13, <1>17, <1>24, NextList
<1>26. Nodes(r, node') = <<n>> \o Todo
  <2>1. Nodes(<<x>> \o q, node') = <<node'[x]>> \o Nodes(q, node)
    <3>1. q \in Seq(Items) /\ x \in Items /\ node \in [Items -> NodeType]
      BY <1>1, <1>2
    <3> QED
      BY <1>10, <1>20, <3>1, NodesPush
  <2> QED
    BY <1>1, <1>21, <2>1 DEF r
<1>27. InsertForce(Todo, a, P, m) = <<n>> \o Todo
  <2>1. ~HasAddr(Todo, a)
    BY <1>2, HolderFacts
  <2>2. Len(Todo) < NodeNum
    BY <1>2, FullWhen
  <2> QED
    BY <2>1, <2>2, Zenon DEF InsertForce, n
<1> QED
  BY <1>25, <1>26, <1>27

LEMMA StepPoolEmpty ==
    ASSUME IInv, NEW a, NEW P, NEW m, PoolEmpty(a)
    PROVE  /\ IInv' /\ Todo' = Todo
           /\ Todo = InsertNormal(Todo, a, P, m)
           /\ Todo = InsertForce(Todo, a, P, m)
<1>1. UNCHANGED vars /\ Holders(a) = {} /\ Free = {}
  BY DEF PoolEmpty
<1>2. Chain' = Chain
  BY <1>1 DEF Chain, vars
<1>3. Todo' = Todo
  BY <1>1, <1>2 DEF Todo, vars
<1>4. IInv'
  BY <1>1, <1>2 DEF IInv, TypeOK, vars
<1>5. ~HasAddr(Todo, a)
  BY <1>1, HolderFacts
<1>6. ~(Len(Todo) < NodeNum)
  BY <1>1, FullWhen
<1> QED
  BY <1>3, <1>4, <1>5, <1>6, Zenon DEF InsertNormal, InsertForce

(* A step that changes nodes and no list, and keeps their addresses.        *)
LEMMA StepNodes ==
    ASSUME IInv, UNCHANGED <<used, next, head, tail>>,
           node' \in [Items -> NodeType],
           \A k \in 1..Len(Chain) : node'[Chain[k]].addr = node[Chain[k]].addr
    PROVE  IInv' /\ Todo' = Nodes(Chain, node')
<1>1. TypeOK'
  BY DEF IInv, TypeOK, NodeType
<1>2. IsList(Chain, used, next, head, tail) /\ Distinct(Chain, node)
  BY DEF IInv
<1>3. IsList(Chain, used', next', head', tail')
  BY <1>2
<1>4. Distinct(Chain, node')
  BY <1>2 DEF Distinct
<1> QED
  BY <1>1, <1>3, <1>4, NextList

Widened(n, P, f) ==
    [addr |-> n.addr, profs |-> n.profs \cup P, force |-> n.force \/ f,
     member |-> FALSE]

NodeRecord ==
    [addr : Addrs \cup {ZeroNode.addr}, profs : SUBSET Profs,
     force : BOOLEAN, member : BOOLEAN]

Looks(n, a, P, f, m) ==
    n.addr = a /\ n.profs = P /\ n.force = f /\ n.member = m

LEMMA NodeIsRecord ==
    ASSUME NEW n \in NodeType
    PROVE  n \in NodeRecord
<1>1. CASE n \in Node
  BY <1>1 DEF Node, NodeRecord
<1>2. CASE n = ZeroNode
  BY <1>2 DEF ZeroNode, NodeRecord
<1> QED
  BY <1>1, <1>2 DEF NodeType

LEMMA SameRecord ==
    ASSUME NEW n \in NodeRecord, NEW r \in NodeRecord,
           n.addr = r.addr, n.profs = r.profs,
           n.force = r.force, n.member = r.member
    PROVE  n = r
BY DEF NodeRecord

(* One field of a node changes, the others stay.                            *)
LEMMA SetProfs ==
    ASSUME NEW n \in NodeRecord, NEW P \in SUBSET Profs
    PROVE  /\ [n EXCEPT !.profs = P] \in NodeRecord
           /\ Looks([n EXCEPT !.profs = P], n.addr, P, n.force, n.member)
BY DEF NodeRecord, Looks

LEMMA SetForce ==
    ASSUME NEW n \in NodeRecord, NEW f \in BOOLEAN
    PROVE  /\ [n EXCEPT !.force = f] \in NodeRecord
           /\ Looks([n EXCEPT !.force = f], n.addr, n.profs, f, n.member)
BY DEF NodeRecord, Looks

LEMMA SetMember ==
    ASSUME NEW n \in NodeRecord, NEW m \in BOOLEAN
    PROVE  /\ [n EXCEPT !.member = m] \in NodeRecord
           /\ Looks([n EXCEPT !.member = m], n.addr, n.profs, n.force, m)
BY DEF NodeRecord, Looks

LEMMA WidenedFacts ==
    ASSUME NEW n \in NodeRecord, NEW P \in SUBSET Profs, NEW f \in BOOLEAN
    PROVE  /\ n.profs \cup P \in SUBSET Profs /\ (n.force \/ f) \in BOOLEAN
           /\ Widened(n, P, f) \in NodeRecord
           /\ Looks(Widened(n, P, f),
                    n.addr, n.profs \cup P, n.force \/ f, FALSE)
BY DEF Widened, Looks, NodeRecord

LEMMA WidenedNode ==
    ASSUME NEW n \in NodeRecord, NEW P \in SUBSET Profs
    PROVE  /\ [n EXCEPT !.profs = @ \cup P, !.member = FALSE]
                = Widened(n, P, FALSE)
           /\ [n EXCEPT !.profs = @ \cup P, !.force = TRUE, !.member = FALSE]
                = Widened(n, P, TRUE)
<1> DEFINE g1 == [n EXCEPT !.profs = n.profs \cup P]
<1> DEFINE g2 == [g1 EXCEPT !.member = FALSE]
<1> DEFINE h2 == [g1 EXCEPT !.force = TRUE]
<1> DEFINE h3 == [h2 EXCEPT !.member = FALSE]
<1> DEFINE v == Widened(n, P, FALSE)
<1> DEFINE w == Widened(n, P, TRUE)
<1>1. [n EXCEPT !.profs = @ \cup P, !.member = FALSE] = g2
  OBVIOUS
<1>2. [n EXCEPT !.profs = @ \cup P, !.force = TRUE, !.member = FALSE] = h3
  OBVIOUS
<1>3. n.force \in BOOLEAN /\ (n.force \/ FALSE) = n.force
      /\ (n.force \/ TRUE) = TRUE
  BY DEF NodeRecord
<1>4. /\ n.profs \cup P \in SUBSET Profs
      /\ v \in NodeRecord
      /\ Looks(v, n.addr, n.profs \cup P, n.force \/ FALSE, FALSE)
  BY WidenedFacts
<1>5. /\ w \in NodeRecord
      /\ Looks(w, n.addr, n.profs \cup P, TRUE, FALSE)
  <2>1. /\ w \in NodeRecord
        /\ Looks(w, n.addr, n.profs \cup P, n.force \/ TRUE, FALSE)
    BY WidenedFacts
  <2> QED
    BY <1>3, <2>1, Zenon
<1> HIDE DEF v, w
<1>6. g1 \in NodeRecord
      /\ Looks(g1, n.addr, n.profs \cup P, n.force, n.member)
  BY <1>4, SetProfs
<1> HIDE DEF g1
<1>7. g2 \in NodeRecord /\ Looks(g2, g1.addr, g1.profs, g1.force, FALSE)
  BY <1>6, SetMember
<1>8. h2 \in NodeRecord /\ Looks(h2, g1.addr, g1.profs, TRUE, g1.member)
  BY <1>6, SetForce
<1> HIDE DEF g2, h2
<1>9. h3 \in NodeRecord /\ Looks(h3, h2.addr, h2.profs, h2.force, FALSE)
  BY <1>8, SetMember
<1> HIDE DEF h3
<1>10. g2 = v
  BY <1>3, <1>4, <1>6, <1>7, SameRecord DEF Looks
<1>11. h3 = w
  BY <1>3, <1>5, <1>6, <1>8, <1>9, SameRecord DEF Looks
<1> QED
  BY <1>1, <1>2, <1>10, <1>11 DEF v, w

WidenAt(nd, i, P, f) ==
    [nd EXCEPT ![i].profs = @ \cup P, ![i].force = @ \/ f, ![i].member = FALSE]

LEMMA WidenedPool ==
    ASSUME NEW nd \in [Items -> NodeType], NEW i \in Items,
           NEW P \in SUBSET Profs, NEW f \in BOOLEAN
    PROVE  WidenAt(nd, i, P, f) = [nd EXCEPT ![i] = Widened(nd[i], P, f)]
<1> DEFINE n == nd[i]
<1> DEFINE g1 == [n EXCEPT !.profs = n.profs \cup P]
<1> DEFINE g2 == [g1 EXCEPT !.force = g1.force \/ f]
<1> DEFINE g3 == [g2 EXCEPT !.member = FALSE]
<1> DEFINE w == Widened(n, P, f)
<1>1. WidenAt(nd, i, P, f) = [nd EXCEPT ![i] = g3]
  BY DEF WidenAt
<1>2. n \in NodeRecord
  BY NodeIsRecord
<1> HIDE DEF n
<1>3. /\ n.profs \cup P \in SUBSET Profs /\ (n.force \/ f) \in BOOLEAN
      /\ w \in NodeRecord
      /\ Looks(w, n.addr, n.profs \cup P, n.force \/ f, FALSE)
  BY <1>2, WidenedFacts
<1> HIDE DEF w
<1>4. g1 \in NodeRecord
      /\ Looks(g1, n.addr, n.profs \cup P, n.force, n.member)
  BY <1>2, <1>3, SetProfs
<1> HIDE DEF g1
<1>5. g1.force \/ f \in BOOLEAN
  OBVIOUS
<1>6. g2 \in NodeRecord
      /\ Looks(g2, g1.addr, g1.profs, g1.force \/ f, g1.member)
  BY <1>4, <1>5, SetForce
<1> HIDE DEF g2
<1>7. g3 \in NodeRecord /\ Looks(g3, g2.addr, g2.profs, g2.force, FALSE)
  BY <1>6, SetMember
<1> HIDE DEF g3
<1>8. g3 = w
  BY <1>3, <1>4, <1>6, <1>7, SameRecord DEF Looks
<1> QED
  BY <1>1, <1>8 DEF w, n

LEMMA StepWiden ==
    ASSUME IInv, NEW a \in Addrs, NEW P \in SUBSET Profs, NEW m \in BOOLEAN,
           NEW f \in BOOLEAN, Widen(a, P, m, f)
    PROVE  /\ IInv'
           /\ ~f => Todo' = InsertNormal(Todo, a, P, m)
           /\ f => Todo' = InsertForce(Todo, a, P, m)
<1> DEFINE q == Chain
<1> DEFINE i == CHOOSE h \in Holders(a) : TRUE
<1> DEFINE g == [k \in DOMAIN Todo |-> IF Todo[k].addr = a
                                       THEN Widened(Todo[k], P, f) ELSE Todo[k]]
<1>1. /\ q \in Seq(Items) /\ Len(q) \in Nat
      /\ node \in [Items -> NodeType] /\ Todo = Nodes(q, node)
      /\ \A k \in 1..Len(q) : q[k] \in Items
  BY InvFacts
<1>2. Holders(a) # {} /\ UNCHANGED <<used, next, head, tail>>
  BY DEF Widen
<1>3. i \in Holders(a)
  BY <1>2
<1>4. node' = IF m THEN node
              ELSE WidenAt(node, i, P, f)
  BY Zenon DEF Widen, WidenAt
<1>5. /\ i \in Items /\ node[i].addr = a
      /\ \A j \in Holders(a) : j = i
      /\ \A k \in 1..Len(q) : q[k] \in Holders(a) <=> Todo[k].addr = a
      /\ HasAddr(Todo, a)
  BY <1>2, <1>3, HolderFacts
<1>6. /\ DOMAIN Todo = 1..Len(q)
      /\ \A k \in 1..Len(q) :
            Todo[k] = node[q[k]] /\ node[q[k]] \in NodeType
  BY <1>1, NodesFacts
<1> HIDE DEF i
<1>7. CASE m
  <2>1. node' = node
    BY <1>4, <1>7
  <2>2. IInv' /\ Todo' = Nodes(q, node')
    BY <1>1, <1>2, <2>1, StepNodes
  <2>3. InsertNormal(Todo, a, P, m) = Todo /\ InsertForce(Todo, a, P, m) = Todo
    BY <1>5, <1>7, Zenon DEF InsertNormal, InsertForce
  <2> QED
    BY <1>1, <2>1, <2>2, <2>3
<1>8. CASE ~m
  <2>1. node' = [node EXCEPT ![i] = Widened(node[i], P, f)]
    <3>1. WidenAt(node, i, P, f) = [node EXCEPT ![i] = Widened(node[i], P, f)]
      BY <1>1, <1>5, WidenedPool
    <3> QED
      BY <1>4, <1>8, <3>1, Zenon
  <2>2. Widened(node[i], P, f) \in NodeType /\ Widened(node[i], P, f).addr = a
    <3>1. node[i] \in NodeType
      BY <1>1, <1>5
    <3>2. /\ node[i].profs \in SUBSET Profs
          /\ node[i].force \in BOOLEAN /\ node[i].member \in BOOLEAN
      BY <3>1, NodeFacts
    <3> QED
      BY <1>5, <3>2 DEF Widened, NodeType, Node
  <2>3. node' \in [Items -> NodeType]
    BY <1>1, <2>1, <2>2
  <2>4. node'[i] = Widened(node[i], P, f)
        /\ \A j \in Items : j # i => node'[j] = node[j]
    BY <1>1, <1>5, <2>1
  <2>5. \A k \in 1..Len(q) : node'[q[k]].addr = node[q[k]].addr
    BY <1>1, <1>5, <2>2, <2>4
  <2>6. IInv' /\ Todo' = Nodes(q, node')
    BY <1>2, <2>3, <2>5, StepNodes
  <2>7. \A k \in 1..Len(q) : Todo[k].addr = a <=> q[k] = i
    BY <1>3, <1>5
  <2>8. \A k \in 1..Len(q) :
           node'[q[k]] = IF Todo[k].addr = a THEN Widened(Todo[k], P, f)
                         ELSE Todo[k]
    BY <1>1, <1>6, <2>4, <2>7
  <2>9. /\ DOMAIN g = 1..Len(q) /\ g = [k \in DOMAIN g |-> g[k]]
        /\ \A k \in 1..Len(q) : g[k] = node'[q[k]]
    BY <1>6, <2>8
  <2> HIDE DEF g
  <2>10. Nodes(q, node') = g
    BY <1>1, <2>3, <2>9, SameNodes
  <2>11. ASSUME ~f PROVE InsertNormal(Todo, a, P, m) = g
    <3>1. InsertNormal(Todo, a, P, m)
            = [k \in DOMAIN Todo |->
                 IF Todo[k].addr = a
                 THEN [Todo[k] EXCEPT !.profs = @ \cup P, !.member = FALSE]
                 ELSE Todo[k]]
      BY <1>5, <1>8, Zenon DEF InsertNormal
    <3>2. \A k \in DOMAIN Todo :
             [Todo[k] EXCEPT !.profs = @ \cup P, !.member = FALSE]
               = Widened(Todo[k], P, FALSE)
      BY <1>6, NodeIsRecord, WidenedNode
    <3>3. f = FALSE
      BY <2>11
    <3> QED
      BY <3>1, <3>2, <3>3, Zenon DEF g
  <2>12. ASSUME f PROVE InsertForce(Todo, a, P, m) = g
    <3>1. InsertForce(Todo, a, P, m)
            = [k \in DOMAIN Todo |->
                 IF Todo[k].addr = a
                 THEN [Todo[k] EXCEPT !.profs = @ \cup P, !.force = TRUE,
                                      !.member = FALSE]
                 ELSE Todo[k]]
      BY <1>5, <1>8, Zenon DEF InsertForce
    <3>2. \A k \in DOMAIN Todo :
             [Todo[k] EXCEPT !.profs = @ \cup P, !.force = TRUE,
                             !.member = FALSE]
               = Widened(Todo[k], P, TRUE)
      BY <1>6, NodeIsRecord, WidenedNode
    <3>3. f = TRUE
      BY <2>12
    <3> QED
      BY <3>1, <3>2, <3>3, Zenon DEF g
  <2> QED
    BY <2>6, <2>10, <2>11, <2>12
<1> QED
  BY <1>7, <1>8

LEMMA StepRemove ==
    ASSUME IInv, NEW a \in Addrs, NEW P \in SUBSET Profs, RemovePlanProfs(a, P)
    PROVE  IInv' /\ Todo' = RemoveProfs(Todo, a, P)
<1> DEFINE q == Chain
<1> DEFINE less(n) == [n EXCEPT !.profs = @ \ P]
<1> DEFINE g == [k \in DOMAIN Todo |-> IF Todo[k].addr = a
                                       THEN less(Todo[k]) ELSE Todo[k]]
<1>1. /\ q \in Seq(Items) /\ Len(q) \in Nat
      /\ node \in [Items -> NodeType] /\ Todo = Nodes(q, node)
      /\ \A k \in 1..Len(q) : q[k] \in Items
  BY InvFacts
<1>2. UNCHANGED <<used, next, head, tail>>
      /\ node' = [i \in Items |-> IF i \in Holders(a) THEN less(node[i])
                                  ELSE node[i]]
  BY Zenon DEF RemovePlanProfs
<1>3. \A k \in 1..Len(q) : q[k] \in Holders(a) <=> Todo[k].addr = a
  BY HolderFacts
<1>4. /\ DOMAIN Todo = 1..Len(q)
      /\ \A k \in 1..Len(q) : Todo[k] = node[q[k]]
  BY <1>1, NodesFacts
<1>5. \A n \in NodeType : less(n).addr = n.addr
                          /\ (n.addr \in Addrs => less(n) \in NodeType)
  <2>1. \A n \in Node : less(n).addr = n.addr /\ less(n) \in Node
    BY DEF Node
  <2>2. less(ZeroNode).addr = ZeroNode.addr /\ less(ZeroNode) = ZeroNode
    BY DEF ZeroNode
  <2> QED
    BY <2>1, <2>2 DEF NodeType
<1>6. \A i \in Holders(a) : node[i].addr = a
  BY HolderFacts
<1> HIDE DEF less
<1>7. node' \in [Items -> NodeType]
  BY <1>1, <1>2, <1>5, <1>6
<1>8. \A k \in 1..Len(q) : node'[q[k]].addr = node[q[k]].addr
  BY <1>1, <1>2, <1>5
<1>9. IInv' /\ Todo' = Nodes(q, node')
  BY <1>2, <1>7, <1>8, StepNodes
<1>10. \A k \in 1..Len(q) :
          node'[q[k]] = IF Todo[k].addr = a THEN less(Todo[k]) ELSE Todo[k]
  BY <1>1, <1>2, <1>3, <1>4
<1>11. /\ DOMAIN g = 1..Len(q) /\ g = [k \in DOMAIN g |-> g[k]]
       /\ \A k \in 1..Len(q) : g[k] = node'[q[k]]
  BY <1>4, <1>10
<1> HIDE DEF g
<1>12. Nodes(q, node') = g
  BY <1>1, <1>7, <1>11, SameNodes
<1>13. RemoveProfs(Todo, a, P) = g
  BY Zenon DEF RemoveProfs, g, less
<1> QED
  BY <1>9, <1>12, <1>13

LEMMA StepTake ==
    ASSUME IInv, TakeFirstNode
    PROVE  IInv' /\ Todo # <<>> /\ Todo' = Tail(Todo)
<1> DEFINE q == Chain
<1>1. /\ q \in Seq(Items) /\ Len(q) \in Nat
      /\ node \in [Items -> NodeType] /\ Todo = Nodes(q, node)
  BY InvFacts
<1>2. /\ used \in [Items -> BOOLEAN] /\ next \in [Items -> Pointer]
      /\ node \in [Items -> Node \cup {ZeroNode}]
      /\ head \in Pointer /\ tail \in Pointer
  BY DEF IInv, TypeOK
<1>3. IsList(q, used, next, head, tail) /\ Distinct(q, node)
  BY DEF IInv
<1>4. /\ head # Null
      /\ used' = [used EXCEPT ![head] = FALSE]
      /\ head' = next[head]
      /\ tail' = IF next[head] = Null THEN Null ELSE tail
      /\ node' = node /\ next' = next
  BY DEF TakeFirstNode
<1>5. head \in Items /\ Len(q) # 0
  BY <1>3, <1>4, TailIs
<1>6. q # <<>>
  BY <1>1, <1>5, ItemFacts
<1> HIDE DEF q
<1>7. ~used'[head] /\ \A i \in Items : i # head => (used'[i] <=> used[i])
  BY <1>2, <1>4, <1>5
<1>8. IsList(Tail(q), used', next, next[head],
             IF next[head] = Null THEN Null ELSE tail)
  BY <1>3, <1>4, <1>7, TakeList
<1>9. IsList(Tail(q), used', next', head', tail')
  BY <1>4, <1>8
<1>10. TypeOK'
  <2>1. Null \in Pointer
    BY DEF Pointer
  <2>2. next[head] \in Pointer
    BY <1>2, <1>5
  <2>3. used' \in [Items -> BOOLEAN]
    BY <1>2, <1>4
  <2> QED
    BY <1>2, <1>4, <2>1, <2>2, <2>3 DEF TypeOK
<1>11. Distinct(Tail(q), node')
  <2>1. /\ Len(Tail(q)) = Len(q) - 1
        /\ \A k \in 1..Len(Tail(q)) : Tail(q)[k] = q[k + 1]
    BY <1>1, <1>6, HeadTailProperties
  <2>2. ASSUME NEW i \in 1..(Len(q) - 1), NEW j \in 1..(Len(q) - 1),
               node[q[i + 1]].addr = node[q[j + 1]].addr
        PROVE  i = j
    <3>1. i + 1 \in 1..Len(q) /\ j + 1 \in 1..Len(q)
      BY <1>1
    <3>2. i + 1 = j + 1
      BY <1>3, <2>2, <3>1 DEF Distinct
    <3> QED
      BY <1>1, <3>2
  <2> QED
    BY <1>4, <2>1, <2>2 DEF Distinct
<1>12. IInv' /\ Todo' = Nodes(Tail(q), node')
  BY <1>9, <1>10, <1>11, NextList
<1>13. Nodes(q, node) # <<>> /\ Nodes(Tail(q), node) = Tail(Nodes(q, node))
  BY <1>1, <1>6, NodesTail
<1> QED
  BY <1>1, <1>4, <1>12, <1>13

LEMMA StepDeleteAll ==
    ASSUME IInv, DeleteAllNode
    PROVE  IInv' /\ Todo' = <<>>
<1>1. /\ used' = [i \in Items |-> used[i] /\ i \notin Queued]
      /\ head' = Null /\ tail' = Null /\ node' = node /\ next' = next
  BY DEF DeleteAllNode
<1>2. Queued = Marked(used) /\ node \in [Items -> NodeType]
  BY InvFacts
<1>3. \A i \in Items : ~used'[i]
  <2>1. \A i \in Items : used[i] => i \in Queued
    BY <1>2 DEF Marked
  <2> QED
    BY <1>1, <2>1
<1>4. IsList(<<>>, used', next', head', tail')
  BY <1>1, <1>3, ClearList
<1>5. <<>> \in Seq(Items) /\ Len(<<>>) = 0
  BY EmptySeq
<1>6. Distinct(<<>>, node')
  BY <1>5 DEF Distinct
<1>7. TypeOK'
  <2>1. used' \in [Items -> BOOLEAN]
    BY <1>1
  <2> QED
    BY <1>1, <2>1 DEF IInv, TypeOK, Pointer
<1>8. IInv' /\ Todo' = Nodes(<<>>, node')
  BY <1>4, <1>6, <1>7, NextList
<1>9. Nodes(<<>>, node) \in Seq(NodeType) /\ Len(Nodes(<<>>, node)) = 0
  BY <1>2, <1>5, NodesFacts
<1>10. Nodes(<<>>, node) = <<>>
  BY <1>9, EmptySeq
<1> QED
  BY <1>1, <1>8, <1>10

LEMMA StepDeleteGroup ==
    ASSUME IInv, DeleteGroupMember
    PROVE  IInv' /\ Todo' = DeleteGroup(Todo)
<1> DEFINE q == Chain
<1> DEFINE left == {i \in Queued : node[i].member}
<1> DEFINE S == Stay(q, node)
<1> DEFINE r == Kept(q, node)
<1>1. /\ q \in Seq(Items) /\ Len(q) \in Nat /\ DOMAIN q = 1..Len(q)
      /\ node \in [Items -> NodeType] /\ Todo = Nodes(q, node)
      /\ Queued = Marked(used)
      /\ \A k \in 1..Len(q) : q[k] \in Items /\ used[q[k]]
  BY InvFacts
<1>2. /\ used' = [i \in Items |-> used[i] /\ i \notin left]
      /\ head' = KeptAfter(q, 0)
      /\ next' = [i \in Items |->
                    IF i \in Queued \ left
                    THEN KeptAfter(q, CHOOSE j \in DOMAIN q : q[j] = i)
                    ELSE next[i]]
      /\ tail' = LastKept(q)
      /\ node' = node
  BY Zenon DEF DeleteGroupMember
<1>3. /\ used \in [Items -> BOOLEAN] /\ next \in [Items -> Pointer]
      /\ node \in [Items -> Node \cup {ZeroNode}]
  BY DEF IInv, TypeOK
<1>4. IsList(q, used, next, head, tail) /\ Distinct(q, node)
      /\ \A i, j \in 1..Len(q) : q[i] = q[j] => i = j
  BY DEF IInv, IsList, OnceEach
<1> HIDE DEF q
<1>5. \A i \in Items : i \in Queued <=> used[i]
  BY <1>1, Zenon DEF Marked
<1>6. \A i \in Items : i \in left <=> used[i] /\ node[i].member
  BY <1>5
<1>7. S \in SUBSET (1..Len(q)) /\ \A j \in S : ~node[q[j]].member
  BY DEF Stay
<1> HIDE DEF left, S
<1>8. \A i \in Items : used'[i] <=> used[i] /\ ~node[i].member
  BY <1>2, <1>6
<1>9. ASSUME NEW j \in S PROVE next'[q[j]] = KeptAfter(q, j)
  <2>1. j \in 1..Len(q) /\ q[j] \in Items /\ used[q[j]] /\ ~node[q[j]].member
    BY <1>1, <1>7
  <2>2. q[j] \in Queued \ left
    BY <1>5, <1>6, <2>1
  <2>3. next'[q[j]] = KeptAfter(q, CHOOSE k \in DOMAIN q : q[k] = q[j])
    BY <1>2, <2>1, <2>2
  <2>4. (CHOOSE k \in DOMAIN q : q[k] = q[j]) = j
    BY <1>1, <1>4, <2>1
  <2> QED
    BY <2>3, <2>4
<1>10. IsList(r, used', next', KeptAfter(q, 0), LastKept(q))
  <2>1. \A j \in Stay(q, node) : next'[q[j]] = KeptAfter(q, j)
    BY <1>9 DEF S
  <2> QED
    BY <1>4, <1>8, <2>1, DeleteList
<1>11. IsList(r, used', next', head', tail')
  BY <1>2, <1>10
<1>12. /\ r \in Seq(Items)
       /\ Len(r) = Cardinality(S)
       /\ \A k \in 1..Len(r) : KthOf(S, k) \in S /\ r[k] = q[KthOf(S, k)]
                               /\ Place(S, KthOf(S, k)) = k
  BY <1>1, KeptFacts DEF S
<1> HIDE DEF r
<1>13. Distinct(r, node')
  <2>1. ASSUME NEW i \in 1..Len(r), NEW j \in 1..Len(r),
               node[r[i]].addr = node[r[j]].addr
        PROVE  i = j
    <3>1. KthOf(S, i) \in 1..Len(q) /\ KthOf(S, j) \in 1..Len(q)
      BY <1>7, <1>12
    <3>2. node[q[KthOf(S, i)]].addr = node[q[KthOf(S, j)]].addr
      BY <1>12, <2>1
    <3>3. KthOf(S, i) = KthOf(S, j)
      BY <1>4, <3>1, <3>2 DEF Distinct
    <3> QED
      BY <1>12, <3>3
  <2> QED
    BY <1>2, <2>1 DEF Distinct
<1>14. head' \in Pointer /\ tail' \in Pointer
  BY <1>11, TailIs
<1>15. \A j \in S : next'[q[j]] \in Pointer
  <2>1. \A k \in 1..Len(r) :
           next'[r[k]] = IF k = Len(r) THEN Null ELSE r[k + 1]
    BY <1>11 DEF IsList, Linked
  <2>2. \A j \in S : Place(S, j) \in 1..Len(r) /\ r[Place(S, j)] = q[j]
    BY <1>1, KeptFacts DEF S, r
  <2>3. Len(r) \in Nat /\ \A k \in 1..Len(r) : r[k] \in Items
    BY <1>12, ItemFacts
  <2>4. \A k \in 1..Len(r) : k # Len(r) => k + 1 \in 1..Len(r)
    BY <2>3
  <2>5. \A k \in 1..Len(r) : next'[r[k]] \in Pointer
    BY <2>1, <2>3, <2>4 DEF Pointer
  <2> QED
    BY <2>2, <2>5
<1>16. ASSUME NEW i \in Items PROVE next'[i] \in Pointer
  <2>1. CASE i \in Queued \ left
    <3>1. used[i] /\ ~node[i].member
      BY <1>5, <1>6, <2>1
    <3>2. PICK j \in 1..Len(q) : q[j] = i
      BY <1>4, <3>1 DEF IsList, OnceEach
    <3>3. j \in S
      BY <3>1, <3>2 DEF S, Stay
    <3> QED
      BY <1>15, <3>2, <3>3
  <2>2. CASE i \notin Queued \ left
    BY <1>2, <1>3, <2>2
  <2> QED
    BY <2>1, <2>2
<1>17. TypeOK'
  <2>1. next' \in [Items -> Pointer]
    BY <1>2, <1>16
  <2>2. used' \in [Items -> BOOLEAN]
    BY <1>2, <1>3
  <2> QED
    BY <1>2, <1>3, <1>14, <2>1, <2>2 DEF TypeOK
<1>18. IInv' /\ Todo' = Nodes(r, node')
  BY <1>11, <1>13, <1>17, NextList
<1>19. DeleteGroup(Nodes(q, node)) = Nodes(Kept(q, node), node)
  BY <1>1, NodesKept
<1> QED
  BY <1>1, <1>2, <1>18, <1>19 DEF r

-----------------------------------------------------------------------------
(* Every step keeps the invariant and is a step of the sequence.            *)

LEMMA InitIInv ==
    ASSUME Init
    PROVE  IInv /\ Todo = <<>>
<1>1. IsList(<<>>, used, next, head, tail)
  <2>1. \A i \in Items : ~used[i]
    BY DEF Init
  <2>2. IsList(<<>>, used, next, Null, Null)
    BY <2>1, ClearList
  <2> QED
    BY <2>2 DEF Init
<1>2. Chain = <<>>
  <2>1. Linked(<<>>, head, next)
    BY <1>1 DEF IsList
  <2>2. ListFrom(head, next) = <<>>
    BY <2>1, ListIs
  <2> QED
    BY <2>2 DEF Chain
<1>3. TypeOK
  BY DEF Init, TypeOK, Pointer
<1>4. <<>> \in Seq(Items) /\ Len(<<>>) = 0
  BY EmptySeq
<1>5. Distinct(Chain, node)
  BY <1>2, <1>4 DEF Distinct
<1>6. IInv
  BY <1>1, <1>2, <1>3, <1>5 DEF IInv
<1>7. Todo = Nodes(<<>>, node) /\ node \in [Items -> NodeType]
  BY <1>2, <1>6, InvFacts
<1>8. Todo \in Seq(NodeType) /\ Len(Todo) = 0
  BY <1>4, <1>7, NodesFacts
<1> QED
  BY <1>6, <1>8, EmptySeq

LEMMA StepInsertNormal ==
    ASSUME IInv, NEW a \in Addrs, NEW P \in SUBSET Profs, NEW m \in BOOLEAN,
           InsertNormalNode(a, P, m)
    PROVE  IInv' /\ Todo' = InsertNormal(Todo, a, P, m)
<1>1. CASE Widen(a, P, m, FALSE)
  BY <1>1, StepWiden
<1>2. CASE PoolEmpty(a)
  BY <1>2, StepPoolEmpty
<1>3. CASE AppendItem(a, P, m)
  BY <1>3, StepAppend
<1> QED
  BY <1>1, <1>2, <1>3 DEF InsertNormalNode

LEMMA StepInsertForce ==
    ASSUME IInv, NEW a \in Addrs, NEW P \in SUBSET Profs, NEW m \in BOOLEAN,
           InsertForceNode(a, P, m)
    PROVE  IInv' /\ Todo' = InsertForce(Todo, a, P, m)
<1>1. CASE Widen(a, P, m, TRUE)
  BY <1>1, StepWiden
<1>2. CASE PoolEmpty(a)
  BY <1>2, StepPoolEmpty
<1>3. CASE PushItem(a, P, m)
  BY <1>3, StepPush
<1> QED
  BY <1>1, <1>2, <1>3 DEF InsertForceNode

(* The operators of the abstract module are those of LinkbackNodes.         *)
LEMMA SameOperators ==
    ASSUME NEW q, NEW a, NEW P, NEW m
    PROVE  /\ Abstract!InsertNormal(q, a, P, m) = InsertNormal(q, a, P, m)
           /\ Abstract!InsertForce(q, a, P, m) = InsertForce(q, a, P, m)
           /\ Abstract!RemoveProfs(q, a, P) = RemoveProfs(q, a, P)
           /\ Abstract!DeleteGroup(q) = DeleteGroup(q)
<1>1. Abstract!InsertNormal(q, a, P, m) = InsertNormal(q, a, P, m)
  BY Zenon DEF Abstract!InsertNormal, InsertNormal, Abstract!HasAddr, HasAddr
<1>2. Abstract!InsertForce(q, a, P, m) = InsertForce(q, a, P, m)
  BY Zenon DEF Abstract!InsertForce, InsertForce, Abstract!HasAddr, HasAddr
<1>3. Abstract!RemoveProfs(q, a, P) = RemoveProfs(q, a, P)
  BY Zenon DEF Abstract!RemoveProfs, RemoveProfs
<1>4. Abstract!DeleteGroup(q) = DeleteGroup(q)
  BY Zenon DEF Abstract!DeleteGroup, DeleteGroup, Abstract!KthOf, KthOf,
               Abstract!Place, Place, Abstract!Cardinality, Cardinality
<1> QED
  BY <1>1, <1>2, <1>3, <1>4

LEMMA NextIInv ==
    ASSUME IInv, [Next]_vars
    PROVE  IInv' /\ [Abstract!Next]_Todo
<1>1. ASSUME NEW a \in Addrs, NEW P \in SUBSET Profs \ {{}}, NEW m \in BOOLEAN,
             InsertNormalNode(a, P, m)
      PROVE  IInv' /\ Abstract!Next
  <2>1. IInv' /\ Todo' = InsertNormal(Todo, a, P, m)
    BY <1>1, StepInsertNormal
  <2>2. Abstract!OpInsertNormal(a, P, m)
    BY <2>1, SameOperators, Zenon DEF Abstract!OpInsertNormal
  <2> QED
    BY <2>1, <2>2, Zenon DEF Abstract!Next
<1>2. ASSUME NEW a \in Addrs, NEW P \in SUBSET Profs \ {{}}, NEW m \in BOOLEAN,
             InsertForceNode(a, P, m)
      PROVE  IInv' /\ Abstract!Next
  <2>1. IInv' /\ Todo' = InsertForce(Todo, a, P, m)
    BY <1>2, StepInsertForce
  <2>2. Abstract!OpInsertForce(a, P, m)
    BY <2>1, SameOperators, Zenon DEF Abstract!OpInsertForce
  <2> QED
    BY <2>1, <2>2, Zenon DEF Abstract!Next
<1>3. ASSUME NEW a \in Addrs, NEW P \in SUBSET Profs \ {{}},
             RemovePlanProfs(a, P)
      PROVE  IInv' /\ Abstract!Next
  <2>1. IInv' /\ Todo' = RemoveProfs(Todo, a, P)
    BY <1>3, StepRemove
  <2>2. Abstract!OpRemoveProfs(a, P)
    BY <2>1, SameOperators, Zenon DEF Abstract!OpRemoveProfs
  <2> QED
    BY <2>1, <2>2, Zenon DEF Abstract!Next
<1>4. CASE TakeFirstNode
  <2>1. IInv' /\ Todo # <<>> /\ Todo' = Tail(Todo)
    BY <1>4, StepTake
  <2>2. Abstract!OpTakeFirst
    BY <2>1, Zenon DEF Abstract!OpTakeFirst
  <2> QED
    BY <2>1, <2>2, Zenon DEF Abstract!Next
<1>5. CASE DeleteAllNode
  <2>1. IInv' /\ Todo' = <<>>
    BY <1>5, StepDeleteAll
  <2>2. Abstract!OpDeleteAll
    BY <2>1, Zenon DEF Abstract!OpDeleteAll
  <2> QED
    BY <2>1, <2>2, Zenon DEF Abstract!Next
<1>6. CASE DeleteGroupMember
  <2>1. IInv' /\ Todo' = DeleteGroup(Todo)
    BY <1>6, StepDeleteGroup
  <2>2. Abstract!OpDeleteGroup
    BY <2>1, SameOperators, Zenon DEF Abstract!OpDeleteGroup
  <2> QED
    BY <2>1, <2>2, Zenon DEF Abstract!Next
<1>7. CASE UNCHANGED vars
  <2>1. Chain' = Chain
    BY <1>7 DEF Chain, vars
  <2>2. Todo' = Todo
    BY <1>7, <2>1 DEF Todo, vars
  <2>3. IInv'
    BY <1>7, <2>1 DEF IInv, TypeOK, vars
  <2> QED
    BY <2>2, <2>3
<1> QED
  BY <1>1, <1>2, <1>3, <1>4, <1>5, <1>6, <1>7 DEF Next

(* What the invariant means for the list and the pool.                      *)
LEMMA IInvImplies ==
    ASSUME IInv
    PROVE  TypeOK /\ ListMatchesPool
<1>1. /\ Chain \in Seq(Items) /\ Len(Chain) \in Nat
      /\ Queued = Marked(used)
  BY InvFacts
<1>2. Len(Chain) = Cardinality(Queued)
  <2>1. OnceEach(Chain, used)
    BY DEF IInv, IsList
  <2>2. Cardinality(Marked(used)) = Len(Chain)
    BY <1>1, <2>1, Count
  <2> QED
    BY <1>1, <2>2
<1>3. tail = IF Chain = <<>> THEN Null ELSE Chain[Len(Chain)]
  <2>1. Chain = <<>> <=> Len(Chain) = 0
    BY <1>1, ItemFacts
  <2> QED
    BY <2>1 DEF IInv, IsList, EndsAt
<1>4. ASSUME NEW a \in Addrs PROVE Cardinality(Holders(a)) <= 1
  <2>1. \A i, j \in Holders(a) : i = j
    BY HolderFacts
  <2>2. CASE Holders(a) = {}
    <3>1. Cardinality(Holders(a)) = 0
      BY <2>2, FS_EmptySet
    <3> QED
      BY <3>1
  <2>3. CASE Holders(a) # {}
    <3>1. PICK i : Holders(a) = {i}
      BY <2>1, <2>3
    <3>2. Cardinality(Holders(a)) = 1
      BY <3>1, FS_Singleton
    <3> QED
      BY <3>2
  <2> QED
    BY <2>2, <2>3
<1>5. Queued = {i \in Items : used[i]}
  BY <1>1, Zenon DEF Marked
<1> QED
  BY <1>2, <1>3, <1>4, <1>5, Zenon DEF ListMatchesPool, IInv

-----------------------------------------------------------------------------
(* The pointers of the pool are those of one list at all times.             *)
THEOREM Inductive == Spec => []IInv
<1>1. Init => IInv
  BY InitIInv
<1>2. IInv /\ [Next]_vars => IInv'
  BY NextIInv
<1> QED
  BY <1>1, <1>2, PTL DEF Spec

(* The items hold nodes, the pointers items (app_linkback.c, T_LINKBACK_    *)
(* TODO_QUEUE): TypeOK for every size of the pool.                          *)
THEOREM TypeCorrect == Spec => []TypeOK
<1>1. IInv => TypeOK
  BY IInvImplies
<1> QED
  BY <1>1, Inductive, PTL

(* No item leaks and none is handed out twice, the tail is where the list   *)
(* ends, and nobody is queued twice: ListMatchesPool for every pool.        *)
THEOREM NoItemLeaks == Spec => []ListMatchesPool
<1>1. IInv => ListMatchesPool
  BY IInvImplies
<1> QED
  BY <1>1, Inductive, PTL

(* The linked list with its head and tail pointers does to the nodes it     *)
(* holds what each operation promises its caller.                           *)
THEOREM PoolIsQueue == Spec => ImplementsQueue
<1>1. Init => Abstract!Init
  BY InitIInv DEF Abstract!Init
<1>2. IInv /\ [Next]_vars => [Abstract!Next]_Todo
  BY NextIInv
<1> QED
  BY <1>1, <1>2, Inductive, PTL DEF Spec, ImplementsQueue, Abstract!Spec
=============================================================================
