------------------------- MODULE GattcStorageProofs -------------------------
(***************************************************************************)
(* The GATT table store for every number of devices, entries and blocks,    *)
(* every length of tables and settings, and flash calls that may fail.      *)
(***************************************************************************)
EXTENDS GattcStorage, FiniteSetTheorems, WellFoundedInduction, TLAPS

-----------------------------------------------------------------------------
(* Sets of numbers and their order. *)

LEMMA BlocksAre ==
    /\ Blocks \subseteq Nat
    /\ IsFiniteSet(Blocks)
    /\ \A S \in SUBSET Blocks :
          /\ IsFiniteSet(S)
          /\ Cardinality(S) \in Nat
<1>1. PICK n \in Nat : n = ByteNum * Width
  BY SizesAssumption
<1>2. Blocks = 0..n - 1
  BY <1>1 DEF Blocks
<1>3. Blocks \subseteq Nat /\ IsFiniteSet(Blocks)
  BY <1>2, FS_Interval
<1> QED
  BY <1>3, FS_Subset, FS_CardinalityType

LEMMA FreshBlocks ==
    /\ Below(Blocks, FreeNum) \subseteq Blocks
    /\ Cardinality(Below(Blocks, FreeNum)) = FreeNum
    /\ FreeNum \in Nat
<1>1. PICK n \in Nat : n = ByteNum * Width
  BY SizesAssumption
<1>2. Blocks = 0..n - 1 /\ FreeNum \in 0..n
  BY <1>1, SizesAssumption DEF Blocks
<1>3. Below(Blocks, FreeNum) = 0..FreeNum - 1
  BY <1>2 DEF Below
<1>4. Cardinality(0..FreeNum - 1) = FreeNum
  BY <1>2, FS_Interval
<1> QED
  BY <1>2, <1>3, <1>4

LEMMA SmallestIn ==
    ASSUME NEW S \in SUBSET Nat, S # {}
    PROVE  \E n \in S : \A m \in S : n <= m
<1>1. PICK n \in S : \A m \in S : ~(<<m, n>> \in OpToRel(<, Nat))
  BY NatLessThanWellFounded, WFMin
<1>2. ASSUME NEW m \in S PROVE n <= m
  <2>1. m \in Nat /\ n \in Nat
    OBVIOUS
  <2>2. ~(m < n)
    BY <1>1, <2>1 DEF OpToRel
  <2> QED
    BY <2>1, <2>2
<1> QED
  BY <1>2

LEMMA BelowType ==
    ASSUME NEW S \in SUBSET Nat, IsFiniteSet(S), NEW n
    PROVE  /\ Below(S, n) \subseteq S
           /\ IsFiniteSet(Below(S, n))
           /\ Cardinality(Below(S, n)) \in Nat
<1>1. Below(S, n) \subseteq S
  BY DEF Below
<1> QED
  BY <1>1, FS_Subset, FS_CardinalityType

LEMMA BelowGrows ==
    ASSUME NEW S \in SUBSET Nat, IsFiniteSet(S), NEW m \in S, NEW n \in S, m < n
    PROVE  Cardinality(Below(S, m)) < Cardinality(Below(S, n))
<1>1. m \notin Below(S, m) /\ Below(S, m) \cup {m} \subseteq Below(S, n)
  <2>1. m \in Nat /\ n \in Nat /\ ~(m < m)
    OBVIOUS
  <2>2. ASSUME NEW i \in Below(S, m) PROVE i \in Below(S, n)
    BY <2>1 DEF Below
  <2> QED
    BY <2>1, <2>2 DEF Below
<1>2. Cardinality(Below(S, m) \cup {m}) = Cardinality(Below(S, m)) + 1
  BY <1>1, BelowType, FS_AddElement
<1>3. Cardinality(Below(S, m) \cup {m}) <= Cardinality(Below(S, n))
  BY <1>1, BelowType, FS_Subset
<1> QED
  BY <1>2, <1>3, BelowType

(* One more of the lowest: it is the least of the rest. *)
LEMMA LowestNext ==
    ASSUME NEW S \in SUBSET Nat, IsFiniteSet(S), NEW k \in Nat,
           k < Cardinality(S), Cardinality(Lowest(S, k)) = k
    PROVE  Cardinality(Lowest(S, k + 1)) = k + 1
<1>1. Lowest(S, k) \subseteq S /\ IsFiniteSet(Lowest(S, k)) /\ Cardinality(S) \in Nat
  BY FS_Subset, FS_CardinalityType DEF Lowest
<1>2. S \ Lowest(S, k) # {}
  BY <1>1
<1>3. PICK n \in S \ Lowest(S, k) : \A m \in S \ Lowest(S, k) : n <= m
  BY <1>2, SmallestIn
<1>4. Below(S, n) = Lowest(S, k)
  <2>1. ASSUME NEW m \in Below(S, n) PROVE m \in Lowest(S, k)
    BY <1>3 DEF Below
  <2>2. ASSUME NEW m \in Lowest(S, k) PROVE m \in Below(S, n)
    <3>1. m \in S /\ Cardinality(Below(S, m)) < k /\ ~(Cardinality(Below(S, n)) < k)
      BY <1>3 DEF Lowest
    <3>2. ~(n < m) /\ n # m
      BY <3>1, <1>3, BelowGrows, BelowType
    <3> QED
      BY <3>1, <3>2 DEF Below
  <2> QED
    BY <2>1, <2>2
<1>5. Lowest(S, k + 1) = Lowest(S, k) \cup {n}
  <2>1. Cardinality(Below(S, n)) = k
    BY <1>4
  <2>2. ASSUME NEW m \in Lowest(S, k + 1), m \notin Lowest(S, k) PROVE m = n
    <3>1. m \in S /\ n <= m /\ Cardinality(Below(S, m)) < k + 1
      BY <1>3, <2>2 DEF Lowest
    <3>2. ~(n < m)
      BY <2>1, <3>1, BelowGrows, BelowType
    <3> QED
      BY <3>1, <3>2
  <2>3. ASSUME NEW m \in Lowest(S, k) PROVE m \in Lowest(S, k + 1)
    BY BelowType DEF Lowest
  <2>4. n \in Lowest(S, k + 1)
    BY <1>3, <2>1 DEF Lowest
  <2> QED
    BY <2>2, <2>3, <2>4
<1> QED
  BY <1>1, <1>3, <1>5, FS_AddElement

LEMMA LowestCard ==
    ASSUME NEW S \in SUBSET Nat, IsFiniteSet(S), NEW k \in 0..Cardinality(S)
    PROVE  Lowest(S, k) \subseteq S /\ Cardinality(Lowest(S, k)) = k
<1> DEFINE Bad == {j \in 0..Cardinality(S) : Cardinality(Lowest(S, j)) # j}
<1>1. Cardinality(S) \in Nat /\ Bad \in SUBSET Nat
  BY FS_CardinalityType
<1>2. Bad = {}
  <2> SUFFICES ASSUME Bad # {} PROVE FALSE
    OBVIOUS
  <2>1. PICK j \in Bad : \A i \in Bad : j <= i
    BY <1>1, SmallestIn
  <2>2. CASE j = 0
    <3>1. Lowest(S, 0) = {}
      BY BelowType DEF Lowest
    <3> QED
      BY <2>1, <2>2, <3>1, FS_EmptySet
  <2>3. CASE j # 0
    <3>1. j - 1 \in Nat /\ j - 1 < Cardinality(S) /\ (j - 1) + 1 = j
      BY <1>1, <2>3
    <3>2. j - 1 \notin Bad
      BY <2>1, <3>1
    <3>3. Cardinality(Lowest(S, j - 1)) = j - 1
      BY <1>1, <3>1, <3>2
    <3> HIDE DEF Bad
    <3>4. Cardinality(Lowest(S, j)) = j
      BY <3>1, <3>3, LowestNext
    <3> USE DEF Bad
    <3> QED
      BY <2>1, <3>4
  <2> QED
    BY <2>2, <2>3
<1> QED
  BY <1>2 DEF Lowest

LEMMA NthIs ==
    ASSUME NEW S \in SUBSET Nat, IsFiniteSet(S), NEW k \in 1..Cardinality(S)
    PROVE  Nth(S, k) \in S /\ Cardinality(Below(S, Nth(S, k))) = k - 1
<1>1. Cardinality(S) \in Nat
  BY FS_CardinalityType
<1>2. PICK j \in 0..Cardinality(S) : j = k - 1
  BY <1>1
<1>3. /\ Lowest(S, k) \subseteq S /\ Cardinality(Lowest(S, k)) = k
      /\ Lowest(S, j) \subseteq S /\ Cardinality(Lowest(S, j)) = j
  BY <1>1, LowestCard
<1>4. ~(Lowest(S, k) \subseteq Lowest(S, j))
  BY <1>2, <1>3, FS_Subset
<1>5. PICK n \in S : Cardinality(Below(S, n)) < k /\ ~(Cardinality(Below(S, n)) < j)
  BY <1>4 DEF Lowest
<1>6. Cardinality(Below(S, n)) = k - 1
  BY <1>2, <1>5, BelowType
<1> QED
  BY <1>6 DEF Nth

-----------------------------------------------------------------------------
(***************************************************************************)
(* A header: its type, what its lengths say, one entry to a device, and the *)
(* blocks shared out.  One that is not valid holds nothing, so a call that  *)
(* finds it so forgets nothing it could have answered.                      *)
(***************************************************************************)
Headers ==
    [sync : {"none", "old", "ok"}, num : 0..FreeNum,
     unused : SUBSET Blocks, dev : [Slots -> EntryType \cup {Nothing}]]

Lengths(h) ==
    \A s \in Entries(h) :
       /\ Cardinality(h.dev[s].used) = h.dev[s].cccdNum + Size[h.dev[s].svc]
       /\ h.dev[s].cccd # Nothing => h.dev[s].cccdLen <= h.dev[s].cccdNum

Unique(h) == \A r, s \in Entries(h) : h.dev[r].addr = h.dev[s].addr => r = s

Apart(h) ==
    /\ \A s \in Entries(h) : h.dev[s].used \cap h.unused = {}
    /\ \A r, s \in Entries(h) : r # s => h.dev[r].used \cap h.dev[s].used = {}

(* Every block of the bitmap is unused or in an entry. *)
Whole(h) ==
    /\ h.unused \subseteq Below(Blocks, FreeNum)
    /\ \A s \in Entries(h) : h.dev[s].used \subseteq Below(Blocks, FreeNum)
    /\ \A b \in Below(Blocks, FreeNum) :
          b \in h.unused \/ \E s \in Entries(h) : b \in h.dev[s].used
    /\ h.num = Cardinality(h.unused)

Sound(h) ==
    /\ h \in Headers /\ h.sync = "ok"
    /\ Lengths(h) /\ Unique(h) /\ Apart(h) /\ Whole(h)

Good(h) == IF h.sync = "ok" THEN Sound(h) ELSE h \in {Blank, Old}

IInv == Good(header) /\ flash \in [Blocks -> {Nothing} \cup (Values \X Nat)]

LEMMA EntryIs ==
    ASSUME NEW h \in Headers, NEW s \in Entries(h)
    PROVE  /\ s \in Slots
           /\ h.dev[s] \in EntryType
           /\ h.dev[s].addr \in Devs /\ h.dev[s].svc \in Tables
           /\ h.dev[s].used \in SUBSET Blocks
           /\ h.dev[s].cccdNum \in Nat /\ h.dev[s].cccdLen \in Nat
  BY DEF Headers, Entries, EntryType

LEMMA EntryIsSome == \A e \in EntryType : e # Nothing
  BY NothingAssumption

LEMMA BlanksAre ==
    /\ Blank \in Headers /\ Old \in Headers /\ Fresh \in Headers
    /\ Blank.sync = "none" /\ Old.sync = "old" /\ Fresh.sync = "ok"
    /\ Entries(Blank) = {} /\ Entries(Old) = {} /\ Entries(Fresh) = {}
    /\ Fresh.unused = Below(Blocks, FreeNum) /\ Fresh.num = FreeNum
<1> DEFINE v == [s \in Slots |-> Nothing]
<1>1. v \in [Slots -> EntryType \cup {Nothing}] /\ \A s \in Slots : v[s] = Nothing
  OBVIOUS
<1>2. FreeNum \in 0..FreeNum /\ 0 \in 0..FreeNum /\ Below(Blocks, FreeNum) \in SUBSET Blocks
  BY FreshBlocks
<1> HIDE DEF v
<1>3. PICK b \in Headers :
         /\ b = Blank /\ b.sync = "none" /\ b.dev = v
         /\ b = [sync |-> "none", num |-> 0, unused |-> {}, dev |-> v]
  BY <1>1, <1>2 DEF Blank, v, Headers
<1>4. PICK o \in Headers : o = Old /\ o.sync = "old" /\ o.dev = v
  <2>1. [b EXCEPT !.sync = "old"] \in Headers
    BY DEF Headers
  <2>2. [b EXCEPT !.sync = "old"] = Old
    BY <1>3 DEF Old
  <2> QED
    BY <1>3, <2>1, <2>2 DEF Headers
<1>5. PICK f \in Headers :
         /\ f = Fresh /\ f.sync = "ok" /\ f.dev = v
         /\ f.num = FreeNum /\ f.unused = Below(Blocks, FreeNum)
  <2>1. PICK u \in SUBSET Blocks : u = Below(Blocks, FreeNum)
    BY <1>2
  <2> DEFINE f1 == [b EXCEPT !.sync = "ok"]
             f2 == [f1 EXCEPT !.num = FreeNum]
             f3 == [f2 EXCEPT !.unused = u]
  <2>2. f1 \in Headers
    BY DEF Headers
  <2>3. f2 \in Headers
    BY <1>2, <2>2 DEF Headers
  <2>4. f3 \in Headers
    BY <2>3 DEF Headers
  <2>5. f3.sync = "ok" /\ f3.num = FreeNum /\ f3.unused = u /\ f3.dev = v
    BY <1>2, <1>3, <2>2, <2>3, <2>4 DEF Headers
  <2>6. Fresh = [b EXCEPT !.sync = "ok", !.num = FreeNum, !.unused = u]
    BY <1>3, <2>1, Zenon DEF Fresh
  <2>7. [b EXCEPT !.sync = "ok", !.num = FreeNum, !.unused = u] = f3
    OBVIOUS
  <2> HIDE DEF f3
  <2> QED
    BY <2>1, <2>4, <2>5, <2>6, <2>7
<1> QED
  BY <1>1, <1>3, <1>4, <1>5 DEF Entries

(* A header with other blocks unused and other entries. *)
Changed(h, u, c, v) == [h EXCEPT !.unused = u, !.num = c, !.dev = v]

LEMMA ChangedIs ==
    ASSUME NEW h \in Headers, NEW u \in SUBSET Blocks, NEW c \in 0..FreeNum,
           NEW v \in [Slots -> EntryType \cup {Nothing}]
    PROVE  \E g \in Headers :
              /\ g = Changed(h, u, c, v)
              /\ g.sync = h.sync /\ g.num = c /\ g.unused = u /\ g.dev = v
<1> DEFINE g1 == [h EXCEPT !.unused = u]
           g2 == [g1 EXCEPT !.num = c]
           g3 == [g2 EXCEPT !.dev = v]
<1>1. g1 \in Headers
  BY DEF Headers
<1>2. g2 \in Headers
  BY <1>1 DEF Headers
<1>3. g3 \in Headers
  BY <1>2 DEF Headers
<1>4. Changed(h, u, c, v) = g3
  BY DEF Changed
<1>5. g3.sync = h.sync /\ g3.num = c /\ g3.unused = u /\ g3.dev = v
  BY <1>1, <1>2, <1>3 DEF Headers
<1> HIDE DEF g3
<1> QED
  BY <1>3, <1>4, <1>5

LEMMA FreshSound == Sound(Fresh)
  BY BlanksAre, FreshBlocks DEF Sound, Lengths, Unique, Apart, Whole

LEMMA GoodIsTyped ==
    ASSUME NEW h, Good(h)
    PROVE  h \in Headers
  BY BlanksAre DEF Good, Sound

LEMMA GoodBlank == Good(Blank) /\ Good(Old)
  BY BlanksAre DEF Good

(* Fewer unused blocks than there are. *)
LEMMA NumIs ==
    ASSUME NEW S \in SUBSET Below(Blocks, FreeNum)
    PROVE  S \in SUBSET Blocks /\ IsFiniteSet(S) /\ Cardinality(S) \in 0..FreeNum
<1>1. Below(Blocks, FreeNum) \in SUBSET Blocks
  BY FreshBlocks
<1>2. Cardinality(S) <= FreeNum
  BY <1>1, BlocksAre, FreshBlocks, FS_Subset
<1> QED
  BY <1>1, <1>2, BlocksAre, FreshBlocks

-----------------------------------------------------------------------------
(* An entry is freed. *)
LEMMA FreedIs ==
    ASSUME NEW h, Sound(h), NEW s \in Entries(h)
    PROVE  /\ CanFree(h, s)
           /\ Sound(Freed(h, s))
           /\ Freed(h, s).dev = [h.dev EXCEPT ![s] = Nothing]
           /\ Entries(Freed(h, s)) = Entries(h) \ {s}
<1> DEFINE u == h.unused \cup h.dev[s].used
           c == h.num + Cardinality(h.dev[s].used)
           v == [h.dev EXCEPT ![s] = Nothing]
<1>1. h \in Headers /\ h.sync = "ok" /\ s \in Slots
  BY DEF Sound, Entries
<1>2. h.dev[s].used \cap h.unused = {}
  BY DEF Sound, Apart
<1>3. u \in SUBSET Below(Blocks, FreeNum)
  BY DEF Sound, Whole
<1>4. c = Cardinality(u)
  <2>1. /\ IsFiniteSet(h.unused) /\ Cardinality(h.unused) = h.num
        /\ IsFiniteSet(h.dev[s].used) /\ Cardinality(h.dev[s].used) \in Nat
        /\ h.num \in Nat
    BY <1>1, NumIs DEF Sound, Whole
  <2>2. Cardinality(h.unused \cap h.dev[s].used) = 0
    BY <1>2, FS_EmptySet
  <2>3. Cardinality(u) = Cardinality(h.unused) + Cardinality(h.dev[s].used)
                            - Cardinality(h.unused \cap h.dev[s].used)
    BY <2>1, FS_Union
  <2> HIDE DEF u
  <2> QED
    BY <2>1, <2>2, <2>3
<1>5. c \in 0..FreeNum /\ u \in SUBSET Blocks
  BY <1>3, <1>4, NumIs
<1>6. v \in [Slots -> EntryType \cup {Nothing}]
  BY <1>1 DEF Headers
<1>7. Freed(h, s) = Changed(h, u, c, v)
  BY <1>1 DEF Freed, Changed
<1> HIDE DEF c, u, v
<1>8. PICK g \in Headers :
         g = Freed(h, s) /\ g.sync = "ok" /\ g.num = c /\ g.unused = u /\ g.dev = v
  <2>1. PICK x \in Headers :
           /\ x = Changed(h, u, c, v)
           /\ x.sync = h.sync /\ x.num = c /\ x.unused = u /\ x.dev = v
    BY <1>1, <1>5, <1>6, ChangedIs
  <2>2. x = Freed(h, s)
    BY <1>7, <2>1
  <2> QED
    BY <1>1, <2>1, <2>2, Zenon
<1>9. /\ g \in Headers /\ g.sync = "ok" /\ g.num = c /\ g.unused = u /\ g.dev = v
      /\ \A r \in Slots : r # s => g.dev[r] = h.dev[r]
      /\ g.dev[s] = Nothing
  <2>1. \A r \in Slots : v[r] = IF r = s THEN Nothing ELSE h.dev[r]
    BY <1>1 DEF Headers, v
  <2> QED
    BY <1>1, <1>8, <2>1
<1>10. Entries(g) = Entries(h) \ {s}
  BY <1>9 DEF Entries
<1>11. \A r \in Entries(g) : r \in Entries(h) /\ r # s /\ g.dev[r] = h.dev[r]
  BY <1>9, <1>10 DEF Entries
<1>12. Lengths(g) /\ Unique(g)
  BY <1>11 DEF Sound, Lengths, Unique
<1>13. Apart(g)
  BY <1>9, <1>11 DEF Sound, Apart, u
<1>14. Whole(g)
  <2>1. \A b \in Below(Blocks, FreeNum) :
           b \in u \/ \E r \in Entries(g) : b \in g.dev[r].used
    BY <1>10, <1>11 DEF Sound, Whole, u
  <2> QED
    BY <1>3, <1>4, <1>9, <1>11, <2>1 DEF Sound, Whole
<1>15. Sound(g)
  BY <1>9, <1>12, <1>13, <1>14 DEF Sound
<1>16. CanFree(h, s)
  BY <1>2 DEF CanFree
<1> QED
  BY <1>8, <1>10, <1>15, <1>16 DEF v

(* The first free entry, which exists when there is one at all. *)
LEMMA FirstFreeIs ==
    ASSUME NEW h, FreeSlots(h) # {}
    PROVE  FirstFree(h) \in FreeSlots(h)
<1>1. FreeSlots(h) \in SUBSET Nat /\ IsFiniteSet(FreeSlots(h))
  <2>1. IsFiniteSet(Slots) /\ Slots \subseteq Nat /\ FreeSlots(h) \subseteq Slots
    BY FS_Interval, SizesAssumption DEF Slots, FreeSlots
  <2> QED
    BY <2>1, FS_Subset
<1>2. 1 \in 1..Cardinality(FreeSlots(h))
  BY <1>1, FS_EmptySet, FS_CardinalityType
<1> QED
  BY <1>1, <1>2, NthIs DEF FirstFree

(* A count of blocks as a byte is a count of blocks. *)
LEMMA ByteIs ==
    ASSUME NEW r \in Nat
    PROVE  Byte(r) \in Nat
  BY DEF Byte

(* An entry is made of the lowest unused blocks. *)
LEMMA AllocatedIs ==
    ASSUME NEW h, Sound(h), NEW d \in Devs, NEW t \in Tables, NEW r \in Nat,
           ~Has(h, d), FreeSlots(h) # {}, Byte(r) + Size[t] <= h.num
    PROVE  /\ Sound(Allocated(h, d, t, r))
           /\ \E e \in EntryType :
                 /\ e.addr = d /\ e.svc = t /\ e.cccdNum = Byte(r) /\ e.cccdLen = r
                 /\ e.cccd = Nothing /\ e.gatt = Nothing
                 /\ Allocated(h, d, t, r).dev = [h.dev EXCEPT ![FirstFree(h)] = e]
           /\ FirstFree(h) \in Slots \ Entries(h)
<1>1. h \in Headers /\ h.sync = "ok" /\ h.num = Cardinality(h.unused)
  BY DEF Sound, Whole
<1>2. PICK s \in Slots : s = FirstFree(h) /\ h.dev[s] = Nothing /\ s \notin Entries(h)
  BY FirstFreeIs DEF FreeSlots, Entries
<1>3. PICK k \in 0..Cardinality(h.unused) : k = Byte(r) + Size[t]
  BY <1>1, ByteIs, LengthsAssumption DEF Values, Headers
<1>4. h.unused \in SUBSET Blocks /\ h.unused \in SUBSET Nat /\ IsFiniteSet(h.unused)
  BY <1>1, BlocksAre DEF Headers
<1>5. PICK u : u = Lowest(h.unused, k) /\ u \subseteq h.unused /\ Cardinality(u) = k
  BY <1>4, LowestCard
<1>6. u \in SUBSET Blocks /\ h.unused \ u \in SUBSET Below(Blocks, FreeNum)
  BY <1>4, <1>5 DEF Sound, Whole
<1>7. PICK e \in EntryType :
         /\ e = [NewEntry(d, t, r) EXCEPT !.used = u]
         /\ e.addr = d /\ e.svc = t /\ e.cccdNum = Byte(r) /\ e.cccdLen = r
         /\ e.cccd = Nothing /\ e.gatt = Nothing /\ e.used = u
  <2>1. [addr |-> d, svc |-> t, cccdNum |-> Byte(r), cccdLen |-> r, cccd |-> Nothing,
         gatt |-> Nothing, used |-> u] \in EntryType
    BY <1>6, ByteIs DEF EntryType
  <2>2. [NewEntry(d, t, r) EXCEPT !.used = u]
           = [addr |-> d, svc |-> t, cccdNum |-> Byte(r), cccdLen |-> r, cccd |-> Nothing,
              gatt |-> Nothing, used |-> u]
    BY DEF NewEntry
  <2> QED
    BY <2>1, <2>2
<1>8. PICK c \in 0..FreeNum : c = h.num - k /\ c = Cardinality(h.unused \ u)
  <2>1. u \cap h.unused = u /\ h.unused \cap u = u
    BY <1>5
  <2>2. Cardinality(h.unused \ u) = Cardinality(h.unused) - Cardinality(h.unused \cap u)
    BY <1>4, FS_Difference
  <2>3. Cardinality(h.unused \ u) = h.num - k
    BY <1>1, <1>5, <2>1, <2>2
  <2>4. Cardinality(h.unused \ u) \in 0..FreeNum
    BY <1>6, NumIs
  <2> QED
    BY <2>3, <2>4
<1> DEFINE v == [h.dev EXCEPT ![s] = e]
<1>9. v \in [Slots -> EntryType \cup {Nothing}]
  BY <1>1 DEF Headers
<1>10. Allocated(h, d, t, r) = Changed(h, h.unused \ u, c, v)
  <2>1. Allocated(h, d, t, r) =
           [h EXCEPT !.unused = @ \ u, !.num = @ - k,
                     !.dev[s] = [NewEntry(d, t, r) EXCEPT !.used = u]]
    BY <1>2, <1>3, <1>5 DEF Allocated, Assigned
  <2>2. Allocated(h, d, t, r) = [h EXCEPT !.unused = @ \ u, !.num = @ - k, !.dev[s] = e]
    BY <2>1, <1>7
  <2> QED
    BY <1>1, <1>8, <2>2 DEF Headers, Changed
<1> HIDE DEF v
<1>11. h.unused \ u \in SUBSET Blocks
  BY <1>4
<1>12. PICK g \in Headers :
         /\ g = Allocated(h, d, t, r) /\ g.sync = "ok" /\ g.num = c
         /\ g.unused = h.unused \ u /\ g.dev = v
  <2> DEFINE w == h.unused \ u
  <2>1. w \in SUBSET Blocks /\ h \in Headers /\ c \in 0..FreeNum
    BY <1>1, <1>11
  <2> HIDE DEF w
  <2>2. PICK x \in Headers :
           /\ x = Changed(h, w, c, v)
           /\ x.sync = h.sync /\ x.num = c /\ x.unused = w /\ x.dev = v
    BY <1>9, <2>1, ChangedIs
  <2>3. x = Allocated(h, d, t, r)
    BY <1>10, <2>2 DEF w
  <2> QED
    BY <1>1, <2>2, <2>3, Zenon DEF w
<1>13. /\ \A i \in Slots : i # s => g.dev[i] = h.dev[i]
       /\ g.dev[s] = e
  BY <1>1, <1>12 DEF Headers, v
<1>14. Entries(g) = Entries(h) \cup {s}
  BY <1>2, <1>13, EntryIsSome DEF Entries
<1>15. \A i \in Entries(g) : i # s => i \in Entries(h) /\ g.dev[i] = h.dev[i]
  BY <1>13, <1>14 DEF Entries
<1>16. Lengths(g)
  <2>1. Cardinality(e.used) = e.cccdNum + Size[e.svc] /\ e.cccd = Nothing
    BY <1>3, <1>5, <1>7
  <2> HIDE DEF Entries
  <2> QED
    BY <1>13, <1>15, <2>1 DEF Sound, Lengths
<1>17. Unique(g)
  <2>1. \A i \in Entries(h) : h.dev[i].addr # d
    BY DEF Has, SlotsOf, Entries
  <2>2. \A i \in Entries(g) : i # s => g.dev[i].addr # e.addr
    BY <1>7, <1>15, <2>1
  <2> QED
    BY <1>13, <1>15, <2>2 DEF Sound, Unique
<1>18. Apart(g)
  <2>1. \A i \in Entries(h) : h.dev[i].used \cap u = {}
    BY <1>5 DEF Sound, Apart
  <2>2. ASSUME NEW i \in Entries(g) PROVE g.dev[i].used \cap g.unused = {}
    BY <1>5, <1>7, <1>12, <1>13, <1>15 DEF Sound, Apart
  <2>3. ASSUME NEW i \in Entries(g), NEW j \in Entries(g), i # j
        PROVE  g.dev[i].used \cap g.dev[j].used = {}
    BY <1>7, <1>13, <1>15, <2>1, <2>3 DEF Sound, Apart
  <2> QED
    BY <2>2, <2>3 DEF Apart
<1>19. Whole(g)
  <2>1. ASSUME NEW b \in Below(Blocks, FreeNum)
        PROVE  b \in g.unused \/ \E i \in Entries(g) : b \in g.dev[i].used
    BY <1>2, <1>7, <1>12, <1>13, <1>14, <1>15 DEF Sound, Whole
  <2>2. \A i \in Entries(g) : g.dev[i].used \subseteq Below(Blocks, FreeNum)
    BY <1>5, <1>7, <1>13, <1>15 DEF Sound, Whole
  <2> QED
    BY <1>6, <1>8, <1>12, <2>1, <2>2 DEF Whole
<1>20. Sound(g)
  BY <1>12, <1>16, <1>17, <1>18, <1>19 DEF Sound
<1> QED
  BY <1>2, <1>7, <1>12, <1>20 DEF v

-----------------------------------------------------------------------------
(* What a header claims of each device, and how a change of one entry       *)
(* shows in it.                                                              *)
Row(e) == [table |-> e.svc, cccd |-> e.cccd, gatt |-> e.gatt]

ClaimIn(h, d) == IF Has(h, d) THEN Row(EntryOf(h, d)) ELSE Nothing

CacheOf(h) == [d \in Devs |-> ClaimIn(h, d)]

LEMMA FoundIs ==
    ASSUME NEW h, Unique(h), NEW d, Has(h, d)
    PROVE  \E s \in Entries(h) :
              /\ (CHOOSE i \in SlotsOf(h, d) : TRUE) = s
              /\ EntryOf(h, d) = h.dev[s]
              /\ h.dev[s].addr = d
<1>1. PICK s : s = CHOOSE i \in SlotsOf(h, d) : TRUE
  OBVIOUS
<1>2. s \in SlotsOf(h, d)
  BY <1>1 DEF Has
<1> QED
  BY <1>1, <1>2 DEF SlotsOf, Entries, EntryOf

LEMMA ClaimOfEntry ==
    ASSUME NEW h \in Headers, Unique(h), NEW s \in Entries(h)
    PROVE  ClaimIn(h, h.dev[s].addr) = Row(h.dev[s])
<1> DEFINE d == h.dev[s].addr
<1>1. Has(h, d)
  BY DEF Has, SlotsOf, Entries
<1> HIDE DEF d
<1>2. PICK i \in Entries(h) : EntryOf(h, d) = h.dev[i] /\ h.dev[i].addr = d
  BY <1>1, FoundIs
<1>3. i = s
  BY <1>2 DEF Unique, d
<1> QED
  BY <1>1, <1>2, <1>3 DEF ClaimIn, d

LEMMA ClaimOfNone ==
    ASSUME NEW h, NEW d, \A s \in Entries(h) : h.dev[s].addr # d
    PROVE  ClaimIn(h, d) = Nothing
  BY DEF ClaimIn, Has, SlotsOf, Entries

LEMMA RowIsSome ==
    ASSUME NEW e \in EntryType
    PROVE  Row(e) \in ClaimType /\ Row(e) # Nothing
<1>1. Row(e) \in ClaimType
  BY DEF Row, EntryType, ClaimType
<1> QED
  BY <1>1, NothingAssumption

(* One slot changes, which before and after belongs to d or to nobody.      *)
LEMMA CacheChanges ==
    ASSUME NEW h \in Headers, NEW g \in Headers, Unique(h), Unique(g),
           NEW s \in Slots, NEW d \in Devs, NEW x,
           \A i \in Slots : i # s => g.dev[i] = h.dev[i],
           \A i \in Entries(h) : i = s <=> h.dev[i].addr = d,
           s \in Entries(g) => g.dev[s].addr = d /\ x = Row(g.dev[s]),
           s \notin Entries(g) => x = Nothing
    PROVE  CacheOf(g) = [CacheOf(h) EXCEPT ![d] = x]
<1>1. ClaimIn(g, d) = x
  <2>1. CASE s \in Entries(g)
    BY <2>1, ClaimOfEntry
  <2>2. CASE s \notin Entries(g)
    <3>1. \A i \in Entries(g) : g.dev[i].addr # d
      BY <2>2 DEF Entries
    <3> QED
      BY <2>2, <3>1, ClaimOfNone
  <2> QED
    BY <2>1, <2>2
<1>2. ASSUME NEW c \in Devs, c # d
      PROVE  ClaimIn(g, c) = ClaimIn(h, c)
  <2>1. CASE \E i \in Entries(h) : h.dev[i].addr = c
    <3>1. PICK i \in Entries(h) : h.dev[i].addr = c
      BY <2>1
    <3>2. i # s /\ i \in Entries(g) /\ g.dev[i] = h.dev[i]
      BY <1>2, <3>1 DEF Entries
    <3>3. ClaimIn(h, c) = Row(h.dev[i])
      BY <3>1, ClaimOfEntry
    <3>4. ClaimIn(g, c) = Row(g.dev[i])
      BY <3>1, <3>2, ClaimOfEntry
    <3> QED
      BY <3>2, <3>3, <3>4
  <2>2. CASE ~\E i \in Entries(h) : h.dev[i].addr = c
    <3>1. \A i \in Entries(g) : g.dev[i].addr # c
      BY <1>2, <2>2 DEF Entries
    <3> QED
      BY <2>2, <3>1, ClaimOfNone
  <2> QED
    BY <2>1, <2>2
<1>3. \A c \in Devs : CacheOf(h)[c] = ClaimIn(h, c) /\ CacheOf(g)[c] = ClaimIn(g, c)
  BY DEF CacheOf
<1>4. ASSUME NEW c \in Devs
      PROVE  CacheOf(g)[c] = [CacheOf(h) EXCEPT ![d] = x][c]
  <2>1. [CacheOf(h) EXCEPT ![d] = x][c] = IF c = d THEN x ELSE CacheOf(h)[c]
    BY DEF CacheOf
  <2> QED
    BY <1>1, <1>2, <1>3, <2>1
<1> QED
  BY <1>4 DEF CacheOf

LEMMA CacheOfBlank ==
    ASSUME NEW h, Entries(h) = {}
    PROVE  CacheOf(h) = [d \in Devs |-> Nothing]
  BY ClaimOfNone DEF CacheOf

LEMMA CacheOfFreed ==
    ASSUME NEW h, Sound(h), NEW s \in Entries(h)
    PROVE  CacheOf(Freed(h, s)) = [CacheOf(h) EXCEPT ![h.dev[s].addr] = Nothing]
<1>1. PICK g : g = Freed(h, s) /\ Sound(g) /\ g.dev = [h.dev EXCEPT ![s] = Nothing]
               /\ Entries(g) = Entries(h) \ {s}
  BY FreedIs
<1>2. PICK d \in Devs : d = h.dev[s].addr
  BY EntryIs DEF Sound
<1>3. /\ h \in Headers /\ g \in Headers /\ Unique(h) /\ Unique(g)
      /\ s \in Slots /\ s \notin Entries(g)
  BY <1>1 DEF Sound, Entries
<1>4. \A i \in Slots : i # s => g.dev[i] = h.dev[i]
  BY <1>1, <1>3 DEF Headers
<1>5. \A i \in Entries(h) : i = s <=> h.dev[i].addr = d
  BY <1>2, <1>3 DEF Unique
<1>6. CacheOf(g) = [CacheOf(h) EXCEPT ![d] = Nothing]
  BY <1>3, <1>4, <1>5, CacheChanges
<1> QED
  BY <1>1, <1>2, <1>6

LEMMA CacheOfAllocated ==
    ASSUME NEW h, Sound(h), NEW d \in Devs, NEW t \in Tables, NEW r \in Nat,
           ~Has(h, d), FreeSlots(h) # {}, Byte(r) + Size[t] <= h.num
    PROVE  CacheOf(Allocated(h, d, t, r)) = [CacheOf(h) EXCEPT ![d] = Cache!Fresh(t)]
<1>1. PICK s, g : s = FirstFree(h) /\ g = Allocated(h, d, t, r)
  OBVIOUS
<1>2. /\ Sound(g) /\ s \in Slots \ Entries(h)
      /\ \E e \in EntryType :
            /\ e.addr = d /\ e.svc = t /\ e.cccd = Nothing /\ e.gatt = Nothing
            /\ g.dev = [h.dev EXCEPT ![s] = e]
  BY <1>1, AllocatedIs
<1>3. PICK e \in EntryType :
         /\ e.addr = d /\ e.svc = t /\ e.cccd = Nothing /\ e.gatt = Nothing
         /\ g.dev = [h.dev EXCEPT ![s] = e]
  BY <1>2
<1>4. h \in Headers /\ g \in Headers /\ Unique(h) /\ Unique(g)
  BY <1>2 DEF Sound
<1>5. g.dev[s] = e /\ \A i \in Slots : i # s => g.dev[i] = h.dev[i]
  BY <1>2, <1>3, <1>4 DEF Headers
<1>6. s \in Entries(g)
  BY <1>2, <1>5, EntryIsSome DEF Entries
<1>7. \A i \in Entries(h) : i # s /\ h.dev[i].addr # d
  BY <1>2 DEF Has, SlotsOf, Entries
<1>8. Row(e) = Cache!Fresh(t)
  BY <1>3 DEF Row, Cache!Fresh
<1>9. PICK x : x = Row(e)
  OBVIOUS
<1>10. CacheOf(g) = [CacheOf(h) EXCEPT ![d] = x]
  <2>1. g.dev[s].addr = d /\ x = Row(g.dev[s]) /\ s \in Slots
    BY <1>2, <1>3, <1>5, <1>9
  <2>2. \A i \in Entries(h) : i = s <=> h.dev[i].addr = d
    BY <1>7
  <2>3. \A i \in Slots : i # s => g.dev[i] = h.dev[i]
    BY <1>5
  <2>4. /\ s \in Entries(g) => g.dev[s].addr = d /\ x = Row(g.dev[s])
        /\ s \notin Entries(g) => x = Nothing
    BY <1>6, <2>1
  <2> QED
    BY <1>4, <2>1, <2>2, <2>3, <2>4, CacheChanges
<1> QED
  BY <1>1, <1>8, <1>9, <1>10

-----------------------------------------------------------------------------
(***************************************************************************)
(* What a call makes of the header: nothing is claimed that was not, an     *)
(* entry is lost, or a table is stored.                                      *)
(***************************************************************************)
FlashType == [Blocks -> {Nothing} \cup (Values \X Nat)]

Same(h) == Good(h) /\ CacheOf(h) = CacheOf(header)

Lost(h, d) == Good(h) /\ CacheOf(h) = [CacheOf(header) EXCEPT ![d] = Nothing]

Stored(h, d, t) ==
    /\ Good(h)
    /\ \/ CacheOf(h) = [CacheOf(header) EXCEPT ![d] = Cache!Fresh(t)]
       \/ CacheOf(h) = [c \in Devs |-> IF c = d THEN Cache!Fresh(t) ELSE Nothing]

LEMMA SameNow == Good(header) => Same(header)
  BY DEF Same

LEMMA OpenedIs == Good(header) /\ Opened => Sound(header)
  BY DEF Good, Opened

LEMMA ClearedIs ==
    ASSUME Good(header), NEW h \in Cleared
    PROVE  Same(h)
<1>1. CASE h = header
  BY <1>1, SameNow
<1>2. CASE h # header
  <2>1. header.sync = "old" /\ h = Blank
    BY <1>2 DEF Cleared
  <2>2. header \in {Blank, Old}
    BY <2>1 DEF Good
  <2>3. Entries(header) = {} /\ Entries(h) = {}
    BY <2>1, <2>2, BlanksAre
  <2> QED
    BY <2>1, <2>3, CacheOfBlank, GoodBlank DEF Same
<1> QED
  BY <1>1, <1>2

LEMMA RefusedIs ==
    ASSUME Good(header), NEW d, Refused(d)
    PROVE  Same(header') /\ reply' = Nothing /\ flash' = flash
  BY ClearedIs, SameNow DEF Refused

LEMMA RemoveIs ==
    ASSUME Sound(header), NEW d, Has(header, d), RemoveDev(d)
    PROVE  Same(header') \/ Lost(header', d)
<1>1. PICK s \in Entries(header) :
         (CHOOSE i \in SlotsOf(header, d) : TRUE) = s /\ header.dev[s].addr = d
  BY FoundIs DEF Sound
<1>2. header' = header \/ header' = Freed(header, s)
  BY <1>1 DEF RemoveDev, SaveHeader
<1>3. Good(header)
  BY DEF Good, Sound
<1>4. Good(Freed(header, s))
  BY FreedIs DEF Good, Sound
<1>5. CacheOf(Freed(header, s)) = [CacheOf(header) EXCEPT ![d] = Nothing]
  BY <1>1, CacheOfFreed
<1> QED
  BY <1>2, <1>3, <1>4, <1>5 DEF Same, Lost

LEMMA BaseIs ==
    ASSUME Good(header), NEW h \in Bases
    PROVE  /\ Sound(h)
           /\ \/ CacheOf(h) = CacheOf(header)
              \/ CacheOf(h) = [d \in Devs |-> Nothing]
<1>1. (h = header /\ Opened) \/ h = Fresh
  BY DEF Bases
<1>2. Sound(Fresh) /\ CacheOf(Fresh) = [d \in Devs |-> Nothing]
  BY FreshSound, BlanksAre, CacheOfBlank
<1> QED
  BY <1>1, <1>2, OpenedIs

LEMMA WithoutIs ==
    ASSUME NEW h, Sound(h), NEW d \in Devs
    PROVE  /\ Sound(Without(h, d)) /\ ~Has(Without(h, d), d)
           /\ CacheOf(Without(h, d)) = [CacheOf(h) EXCEPT ![d] = Nothing]
<1>1. CASE Has(h, d)
  <2>1. PICK s \in Entries(h) :
           (CHOOSE i \in SlotsOf(h, d) : TRUE) = s /\ h.dev[s].addr = d
    BY <1>1, FoundIs DEF Sound
  <2>2. PICK g : g = Without(h, d) /\ g = Freed(h, s)
    <3>1. Without(h, d) = Freed(h, CHOOSE i \in SlotsOf(h, d) : TRUE)
      BY <1>1, Zenon DEF Without
    <3> QED
      BY <2>1, <3>1, Zenon
  <2>3. /\ Sound(g) /\ g.dev = [h.dev EXCEPT ![s] = Nothing]
        /\ Entries(g) = Entries(h) \ {s}
    BY <2>2, FreedIs
  <2>4. \A i \in Slots : i # s => g.dev[i] = h.dev[i]
    BY <2>3 DEF Sound, Headers
  <2>5. ~Has(g, d)
    <3>1. \A i \in Entries(g) : i \in Entries(h) /\ i # s /\ g.dev[i] = h.dev[i]
      BY <2>3, <2>4 DEF Entries
    <3>2. \A i \in Entries(g) : g.dev[i].addr # d
      BY <2>1, <3>1 DEF Sound, Unique
    <3> QED
      BY <3>2 DEF Has, SlotsOf, Entries
  <2>6. CacheOf(g) = [CacheOf(h) EXCEPT ![d] = Nothing]
    BY <2>1, <2>2, CacheOfFreed
  <2> QED
    BY <2>2, <2>3, <2>5, <2>6
<1>2. CASE ~Has(h, d)
  <2>1. Without(h, d) = h
    BY <1>2 DEF Without
  <2>2. ClaimIn(h, d) = Nothing
    BY <1>2 DEF ClaimIn
  <2>3. CacheOf(h) = [CacheOf(h) EXCEPT ![d] = Nothing]
    BY <2>2 DEF CacheOf
  <2> QED
    BY <1>2, <2>1, <2>3
<1> QED
  BY <1>1, <1>2

LEMMA WrittenIs ==
    ASSUME flash \in FlashType, NEW e, NEW start, NEW v \in Values, NEW n \in Nat
    PROVE  Written(e, start, v, n) \in FlashType
<1>1. ASSUME NEW b \in Blocks, \E k \in 1..n : CellOf(e, start + k) = b
      PROVE  <<v, CHOOSE k \in 1..n : CellOf(e, start + k) = b>> \in Values \X Nat
  <2>1. PICK i : i = CHOOSE k \in 1..n : CellOf(e, start + k) = b
    OBVIOUS
  <2>2. i \in 1..n
    BY <1>1, <2>1
  <2>3. <<v, i>> \in Values \X Nat
    BY <2>2
  <2> QED
    BY <2>1, <2>3, Zenon
<1> QED
  BY <1>1 DEF Written, FlashType

LEMMA WriteThenSaveIs ==
    ASSUME flash \in FlashType, NEW h, NEW e, NEW start, NEW v \in Values, NEW L,
           WriteThenSave(h, e, start, v, L)
    PROVE  flash' \in FlashType /\ (header' = h \/ header' \in L)
<1>1. Size[v] \in Nat /\ 0..Size[v] \subseteq Nat
  BY LengthsAssumption
<1> QED
  BY <1>1, WrittenIs DEF WriteThenSave

LEMMA AddIs ==
    ASSUME Good(header), flash \in FlashType, NEW d \in Devs, NEW t \in Tables,
           NEW r \in Nat, AddDev(d, t, r)
    PROVE  flash' \in FlashType /\ (Same(header') \/ Stored(header', d, t))
<1>1. PICK h \in Bases :
         IF Has(h, d) /\ EntryOf(h, d).svc = t
         THEN UNCHANGED <<header, flash>>
         ELSE LET g == Without(h, d)
              IN  IF /\ CanReplace(h, d)
                     /\ FreeSlots(g) # {}
                     /\ Byte(r) + Size[t] <= g.num
                  THEN LET a == Allocated(g, d, t, r)
                       IN  WriteThenSave(a, a.dev[FirstFree(g)], Byte(r), t, Cleared)
                  ELSE header' \in Cleared /\ UNCHANGED flash
  BY DEF AddDev
<1>2. CASE UNCHANGED <<header, flash>>
  BY <1>2, SameNow
<1>3. CASE header' \in Cleared /\ UNCHANGED flash
  BY <1>3, ClearedIs
<1>4. ASSUME NEW g, g = Without(h, d), FreeSlots(g) # {}, Byte(r) + Size[t] <= g.num,
             NEW a, a = Allocated(g, d, t, r),
             WriteThenSave(a, a.dev[FirstFree(g)], Byte(r), t, Cleared)
      PROVE  flash' \in FlashType /\ (Same(header') \/ Stored(header', d, t))
  <2>1. t \in Values
    BY DEF Values
  <2>2. flash' \in FlashType /\ (header' = a \/ header' \in Cleared)
    BY <1>4, <2>1, WriteThenSaveIs
  <2>3. Sound(g) /\ ~Has(g, d) /\ CacheOf(g) = [CacheOf(h) EXCEPT ![d] = Nothing]
    BY <1>4, BaseIs, WithoutIs
  <2>4. Sound(a) /\ CacheOf(a) = [CacheOf(g) EXCEPT ![d] = Cache!Fresh(t)]
    <3>1. /\ Sound(Allocated(g, d, t, r))
          /\ CacheOf(Allocated(g, d, t, r)) = [CacheOf(g) EXCEPT ![d] = Cache!Fresh(t)]
      <4>1. FreeSlots(g) # {} /\ Byte(r) + Size[t] <= g.num
        BY <1>4
      <4>2. Sound(g) /\ ~Has(g, d)
        BY <2>3
      <4>3. Sound(Allocated(g, d, t, r))
        BY <4>1, <4>2, AllocatedIs
      <4>4. CacheOf(Allocated(g, d, t, r)) = [CacheOf(g) EXCEPT ![d] = Cache!Fresh(t)]
        BY <4>1, <4>2, CacheOfAllocated
      <4> QED
        BY <4>3, <4>4
    <3> QED
      BY <1>4, <3>1, Zenon
  <2>5. \/ CacheOf(h) = CacheOf(header)
        \/ CacheOf(h) = [c \in Devs |-> Nothing]
    BY BaseIs
  <2>6. PICK x : x = Cache!Fresh(t)
    OBVIOUS
  <2>7. CacheOf(a) = [CacheOf(h) EXCEPT ![d] = x]
    BY <2>3, <2>4, <2>6 DEF CacheOf
  <2>8. \/ CacheOf(a) = [CacheOf(header) EXCEPT ![d] = x]
        \/ CacheOf(a) = [c \in Devs |-> IF c = d THEN x ELSE Nothing]
    BY <2>5, <2>7
  <2>9. Stored(a, d, t)
    BY <2>4, <2>6, <2>8 DEF Stored, Good, Sound
  <2> QED
    BY <2>2, <2>9, ClearedIs
<1> QED
  BY <1>1, <1>2, <1>3, <1>4

(* An entry is changed in place, its blocks and lengths kept.               *)
Edited(h, s, e) == [h EXCEPT !.dev = [h.dev EXCEPT ![s] = e]]

LEMMA EditedIs ==
    ASSUME NEW h, Sound(h), NEW s \in Entries(h), NEW e \in EntryType,
           e.addr = h.dev[s].addr, e.svc = h.dev[s].svc, e.used = h.dev[s].used,
           e.cccdNum = h.dev[s].cccdNum,
           e.cccd # Nothing => e.cccdLen <= e.cccdNum
    PROVE  /\ Sound(Edited(h, s, e))
           /\ CacheOf(Edited(h, s, e)) = [CacheOf(h) EXCEPT ![e.addr] = Row(e)]
<1> DEFINE v == [h.dev EXCEPT ![s] = e]
<1>1. h \in Headers /\ h.sync = "ok" /\ s \in Slots
  BY DEF Sound, Entries
<1>2. v \in [Slots -> EntryType \cup {Nothing}]
      /\ \A i \in Slots : v[i] = IF i = s THEN e ELSE h.dev[i]
  BY <1>1 DEF Headers
<1> HIDE DEF v
<1>3. PICK g \in Headers :
         /\ g = Edited(h, s, e) /\ g.sync = h.sync /\ g.num = h.num
         /\ g.unused = h.unused /\ g.dev = v
  <2> DEFINE f == [h EXCEPT !.dev = v]
  <2>1. f \in Headers
    BY <1>1, <1>2 DEF Headers
  <2>2. f.sync = h.sync /\ f.num = h.num /\ f.unused = h.unused /\ f.dev = v
    BY <1>1, <2>1 DEF Headers
  <2>3. f = Edited(h, s, e)
    BY DEF Edited, v
  <2> HIDE DEF f
  <2> QED
    BY <2>1, <2>2, <2>3
<1>4. Entries(g) = Entries(h)
  BY <1>1, <1>2, <1>3, EntryIsSome DEF Entries
<1>5. /\ g.dev[s] = e
      /\ \A i \in Slots : i # s => g.dev[i] = h.dev[i]
  BY <1>1, <1>2, <1>3
<1>6. \A i \in Entries(h) :
         /\ g.dev[i].addr = h.dev[i].addr /\ g.dev[i].svc = h.dev[i].svc
         /\ g.dev[i].used = h.dev[i].used /\ g.dev[i].cccdNum = h.dev[i].cccdNum
         /\ g.dev[i].cccd # Nothing => g.dev[i].cccdLen <= g.dev[i].cccdNum
  BY <1>1, <1>5 DEF Sound, Lengths, Entries
<1>7. Lengths(g) /\ Unique(g) /\ Apart(g)
  BY <1>3, <1>4, <1>6 DEF Sound, Lengths, Unique, Apart
<1>8. Whole(g)
  BY <1>3, <1>4, <1>6 DEF Sound, Whole
<1>9. Sound(g)
  BY <1>1, <1>3, <1>7, <1>8 DEF Sound
<1>10. CacheOf(g) = [CacheOf(h) EXCEPT ![e.addr] = Row(e)]
  <2>1. PICK d, x : d \in Devs /\ d = e.addr /\ x = Row(e)
    BY DEF EntryType
  <2>2. \A i \in Entries(h) : i = s <=> h.dev[i].addr = d
    BY <2>1 DEF Sound, Unique
  <2>3. /\ s \in Entries(g) => g.dev[s].addr = d /\ x = Row(g.dev[s])
        /\ s \notin Entries(g) => x = Nothing
    BY <1>4, <1>5, <2>1
  <2>4. Unique(h) /\ d \in Devs
    BY <2>1 DEF Sound
  <2>5. CacheOf(g) = [CacheOf(h) EXCEPT ![d] = x]
    BY <1>1, <1>5, <1>7, <2>2, <2>3, <2>4, CacheChanges
  <2> QED
    BY <2>1, <2>5
<1> QED
  BY <1>3, <1>9, <1>10

-----------------------------------------------------------------------------
(***************************************************************************)
(* Every call keeps the header good, and is a step of the cache.            *)
(***************************************************************************)
LEMMA Mapped == [d \in Devs |-> Claim(d)] = CacheOf(header)
<1>1. ASSUME NEW d \in Devs PROVE Claim(d) = ClaimIn(header, d)
  BY DEF Claim, ClaimIn, Row
<1> QED
  BY <1>1 DEF CacheOf

LEMMA MappedNext == [d \in Devs |-> Claim(d)]' = CacheOf(header')
<1>1. ASSUME NEW d \in Devs PROVE Claim(d)' = ClaimIn(header', d)
  BY DEF Claim, ClaimIn, Row, Has, EntryOf, SlotsOf
<1> QED
  BY <1>1 DEF CacheOf

LEMMA CacheRefuses ==
    ASSUME reply' = Nothing,
           \/ CacheOf(header') = CacheOf(header)
           \/ CacheOf(header') = [d \in Devs |-> Nothing]
           \/ \E d \in Devs : CacheOf(header') = [CacheOf(header) EXCEPT ![d] = Nothing]
    PROVE  Cache!Next
<1>1. ASSUME NEW d \in Devs, CacheOf(header)[d] = Nothing
      PROVE  [CacheOf(header) EXCEPT ![d] = Nothing] = CacheOf(header)
  BY <1>1 DEF CacheOf
<1>2. \/ CacheOf(header') = CacheOf(header)
      \/ CacheOf(header') = [d \in Devs |-> Nothing]
      \/ \E d \in Devs :
            /\ CacheOf(header)[d] # Nothing
            /\ CacheOf(header') = [CacheOf(header) EXCEPT ![d] = Nothing]
  BY <1>1
<1>3. Cache!Refuse
  BY <1>2, Mapped, MappedNext DEF Cache!Refuse, Cache!Known
<1> QED
  BY <1>3 DEF Cache!Next

LEMMA CacheStores ==
    ASSUME NEW d \in Devs, NEW t, Stored(header', d, t)
    PROVE  Cache!Stored(d, t)
  BY Mapped, MappedNext DEF Stored, Cache!Stored

LEMMA RefuseStep ==
    ASSUME reply' = Nothing, flash' \in FlashType,
           Same(header') \/ \E d \in Devs : Lost(header', d)
    PROVE  IInv' /\ Cache!Next
<1>1. Good(header')
  BY DEF Same, Lost
<1>2. \/ CacheOf(header') = CacheOf(header)
      \/ \E d \in Devs : CacheOf(header') = [CacheOf(header) EXCEPT ![d] = Nothing]
  BY DEF Same, Lost
<1> QED
  BY <1>1, <1>2, CacheRefuses DEF IInv, FlashType

LEMMA ClearStep ==
    ASSUME IInv, Clear
    PROVE  IInv' /\ Cache!Next
<1>1. header' = Blank \/ header' = header
  BY DEF Clear, SaveHeader
<1>2. CacheOf(Blank) = [d \in Devs |-> Nothing]
  BY BlanksAre, CacheOfBlank
<1>3. reply' = Nothing /\ flash' = flash
  BY DEF Clear
<1>4. Cache!Next
  BY <1>1, <1>2, <1>3, CacheRefuses
<1> QED
  BY <1>1, <1>3, <1>4, GoodBlank DEF IInv

LEMMA RemoveStep ==
    ASSUME IInv, NEW d \in Devs, Remove(d)
    PROVE  IInv' /\ Cache!Next
<1>1. reply' = Nothing /\ flash' \in FlashType
  BY DEF Remove, Idle, IInv, FlashType
<1>2. CASE Found(d) /\ RemoveDev(d)
  BY <1>1, <1>2, OpenedIs, RemoveIs, RefuseStep DEF IInv, Found
<1>3. CASE Idle
  BY <1>1, <1>3, SameNow, RefuseStep DEF Idle, IInv
<1> QED
  BY <1>2, <1>3 DEF Remove

LEMMA SetTableStep ==
    ASSUME IInv, NEW d \in Devs, NEW t \in Tables, SetTable(d, t)
    PROVE  IInv' /\ Cache!Next
<1>1. reply' = Nothing /\ AddDev(d, t, CccdSize[t]) /\ CccdSize[t] \in Nat
  BY LengthsAssumption DEF SetTable
<1>2. flash' \in FlashType /\ (Same(header') \/ Stored(header', d, t))
  BY <1>1, AddIs DEF IInv, FlashType
<1>3. CASE Same(header')
  BY <1>1, <1>2, <1>3, RefuseStep
<1>4. CASE Stored(header', d, t)
  <2>1. Cache!Store(d, t)
    BY <1>1, <1>4, CacheStores DEF Cache!Store
  <2>2. Good(header')
    BY <1>4 DEF Stored
  <2> QED
    BY <1>2, <2>1, <2>2 DEF IInv, FlashType, Cache!Next
<1> QED
  BY <1>2, <1>3, <1>4

(* What the cache says of a device that is found. *)
LEMMA FoundClaims ==
    ASSUME Good(header), NEW d \in Devs, Found(d)
    PROVE  \E s \in Entries(header) :
              /\ Sound(header)
              /\ (CHOOSE i \in SlotsOf(header, d) : TRUE) = s
              /\ EntryOf(header, d) = header.dev[s]
              /\ header.dev[s].addr = d /\ header.dev[s] \in EntryType
              /\ CacheOf(header)[d] = Row(header.dev[s])
<1>1. Sound(header) /\ Has(header, d)
  BY OpenedIs DEF Found
<1>2. header \in Headers /\ Unique(header)
  BY <1>1 DEF Sound
<1>3. PICK s \in Entries(header) :
         /\ (CHOOSE i \in SlotsOf(header, d) : TRUE) = s
         /\ EntryOf(header, d) = header.dev[s]
         /\ header.dev[s].addr = d
  BY <1>1, <1>2, FoundIs
<1>4. ClaimIn(header, d) = Row(header.dev[s])
  BY <1>2, <1>3, ClaimOfEntry
<1> QED
  BY <1>1, <1>2, <1>3, <1>4, EntryIs DEF CacheOf

LEMMA RowIs ==
    ASSUME NEW e
    PROVE  Row(e).table = e.svc /\ Row(e).cccd = e.cccd /\ Row(e).gatt = e.gatt
  BY DEF Row

(* The table of an entry is looked up, for d. *)
LEMMA LookUpIs ==
    ASSUME Sound(header), NEW s \in Entries(header), NEW d,
           LookUp(d, header.dev[s])
    PROVE  /\ flash' = flash
           /\ \/ /\ reply' = Nothing
                 /\ Same(header') \/ Lost(header', header.dev[s].addr)
              \/ /\ TableGood(header.dev[s])
                 /\ reply' = [dev |-> d, data |-> Image(header.dev[s].svc)]
                 /\ Same(header')
<1>1. Good(header) /\ Has(header, header.dev[s].addr)
  BY DEF Sound, Good, Has, SlotsOf, Entries
<1>2. CASE LoadFails /\ Idle
  BY <1>1, <1>2, SameNow DEF Idle
<1>3. CASE /\ TableGood(header.dev[s])
           /\ Gives(d, TableData(header.dev[s]))
           /\ UNCHANGED <<header, flash>>
  <2>1. reply' = [dev |-> d, data |-> Image(header.dev[s].svc)]
    BY <1>3 DEF TableGood, Gives
  <2> QED
    BY <1>1, <1>3, <2>1, SameNow
<1>4. CASE /\ RemoveDev(header.dev[s].addr)
           /\ reply' = Nothing
           /\ UNCHANGED flash
  BY <1>1, <1>4, RemoveIs
<1> QED
  BY <1>2, <1>3, <1>4 DEF LookUp

LEMMA GetTableStep ==
    ASSUME IInv, NEW d \in Devs, GetTable(d)
    PROVE  IInv' /\ Cache!Next
<1>1. Good(header) /\ flash \in FlashType
  BY DEF IInv, FlashType
<1>2. CASE Refused(d)
  BY <1>1, <1>2, RefusedIs, RefuseStep
<1>3. CASE Found(d) /\ LookUp(d, EntryOf(header, d))
  <2>1. PICK s \in Entries(header) :
           /\ Sound(header) /\ EntryOf(header, d) = header.dev[s]
           /\ header.dev[s].addr = d /\ header.dev[s] \in EntryType
           /\ CacheOf(header)[d] = Row(header.dev[s])
    BY <1>1, <1>3, FoundClaims
  <2>2. PICK e : e = header.dev[s]
    OBVIOUS
  <2>3. /\ flash' = flash
        /\ \/ reply' = Nothing /\ (Same(header') \/ Lost(header', d))
           \/ reply' = [dev |-> d, data |-> Image(e.svc)] /\ Same(header')
    <3>1. LookUp(d, header.dev[s])
      BY <1>3, <2>1
    <3> QED
      BY <2>1, <2>2, <3>1, LookUpIs
  <2>4. CASE reply' = Nothing /\ (Same(header') \/ Lost(header', d))
    BY <1>1, <2>3, <2>4, RefuseStep
  <2>5. CASE reply' = [dev |-> d, data |-> Image(e.svc)] /\ Same(header')
    <3>1. CacheOf(header)[d].table = e.svc /\ CacheOf(header)[d] # Nothing
      BY <2>1, <2>2, RowIs, RowIsSome
    <3>2. CacheOf(header') = CacheOf(header) /\ Good(header')
      BY <2>5 DEF Same
    <3>3. Cache!GetTable(d)
      BY <2>5, <3>1, <3>2, Mapped, MappedNext
         DEF Cache!GetTable, Cache!Known, Cache!Answered
    <3> QED
      BY <1>1, <2>3, <3>2, <3>3 DEF IInv, FlashType, Cache!Next
  <2> QED
    BY <2>3, <2>4, <2>5
<1> QED
  BY <1>2, <1>3 DEF GetTable

LEMMA GetCccdStep ==
    ASSUME IInv, NEW d \in Devs, GetCccd(d)
    PROVE  IInv' /\ Cache!Next
<1>1. Good(header) /\ flash \in FlashType
  BY DEF IInv, FlashType
<1>2. CASE Refused(d)
  BY <1>1, <1>2, RefusedIs, RefuseStep
<1>3. CASE Idle
  BY <1>1, <1>3, SameNow, RefuseStep DEF Idle
<1>4. ASSUME NEW e, e = EntryOf(header, d), Found(d),
             e.cccd # Nothing, CccdData(e) = Image(e.cccd),
             Gives(d, CccdData(e)), UNCHANGED <<header, flash>>
      PROVE  IInv' /\ Cache!Next
  <2>1. PICK s \in Entries(header) :
           /\ EntryOf(header, d) = header.dev[s] /\ header.dev[s] \in EntryType
           /\ CacheOf(header)[d] = Row(header.dev[s])
    BY <1>1, <1>4, FoundClaims
  <2>2. CacheOf(header)[d].cccd = e.cccd /\ CacheOf(header)[d] # Nothing
    BY <1>4, <2>1, RowIs, RowIsSome
  <2>3. reply' = [dev |-> d, data |-> Image(e.cccd)]
    BY <1>4 DEF Gives
  <2>4. CacheOf(header') = CacheOf(header)
    BY <1>4
  <2>5. Cache!GetCccd(d)
    BY <1>4, <2>2, <2>3, <2>4, Mapped, MappedNext
       DEF Cache!GetCccd, Cache!Known, Cache!Answered
  <2> QED
    BY <1>1, <1>4, <2>5 DEF IInv, FlashType, Cache!Next
<1> QED
  BY <1>2, <1>3, <1>4 DEF GetCccd

LEMMA SetCccdStep ==
    ASSUME IInv, NEW d \in Devs, NEW c \in Cccds, SetCccd(d, c)
    PROVE  IInv' /\ Cache!Next
<1>1. Good(header) /\ flash \in FlashType /\ c \in Values
  BY DEF IInv, FlashType, Values
<1>2. CASE Refused(d)
  BY <1>1, <1>2, RefusedIs, RefuseStep
<1>3. CASE ~Refused(d)
  <2>1. Found(d)
    BY <1>3 DEF SetCccd
  <2>2. PICK s \in Entries(header) :
           /\ Sound(header)
           /\ (CHOOSE i \in SlotsOf(header, d) : TRUE) = s
           /\ EntryOf(header, d) = header.dev[s]
           /\ header.dev[s].addr = d /\ header.dev[s] \in EntryType
           /\ CacheOf(header)[d] = Row(header.dev[s])
    BY <1>1, <2>1, FoundClaims
  <2>3. CASE Idle
    BY <1>1, <2>3, SameNow, RefuseStep DEF Idle
  <2>4. ASSUME Fits(header.dev[s], c),
               WriteThenSave([header EXCEPT !.dev[s].cccdLen = Size[c],
                                            !.dev[s].cccd = c],
                             header.dev[s], 0, c, {header}),
               reply' = Nothing
        PROVE  IInv' /\ Cache!Next
    <3>1. PICK g : g = [header EXCEPT !.dev[s].cccdLen = Size[c], !.dev[s].cccd = c]
      OBVIOUS
    <3>2. flash' \in FlashType /\ (header' = g \/ header' = header)
      BY <1>1, <2>4, <3>1, WriteThenSaveIs
    <3>3. CASE header' = header
      BY <1>1, <2>4, <3>2, <3>3, SameNow, RefuseStep
    <3>4. CASE header' = g
      <4> DEFINE e == [header.dev[s] EXCEPT !.cccdLen = Size[c], !.cccd = c]
      <4>1. Size[c] \in Nat /\ Size[c] <= header.dev[s].cccdNum
        BY <1>1, <2>4, LengthsAssumption DEF Fits
      <4>2. e \in EntryType
        BY <2>2, <4>1 DEF EntryType
      <4>3. /\ e.addr = header.dev[s].addr /\ e.svc = header.dev[s].svc
            /\ e.used = header.dev[s].used /\ e.cccdNum = header.dev[s].cccdNum
            /\ e.cccdLen <= e.cccdNum /\ e.gatt = header.dev[s].gatt /\ e.cccd = c
        BY <2>2, <4>1, <4>2 DEF EntryType
      <4>4. g = Edited(header, s, e)
        <5> DEFINE w == [header.dev EXCEPT ![s].cccdLen = Size[c], ![s].cccd = c]
        <5>1. w = [header.dev EXCEPT ![s] = e]
          <6> DEFINE v == header.dev
                     f == [v[s] EXCEPT !.cccdLen = Size[c]]
                     v1 == [v EXCEPT ![s] = f]
          <6>1. v \in [Slots -> EntryType \cup {Nothing}] /\ s \in Slots
            BY <2>2 DEF Sound, Headers, Entries
          <6>2. w = [v1 EXCEPT ![s].cccd = c] /\ e = [f EXCEPT !.cccd = c]
            BY DEF e
          <6> HIDE DEF v, f, e
          <6>3. v1[s] = f
            BY <6>1
          <6>4. w = [v1 EXCEPT ![s] = e]
            BY <6>2, <6>3
          <6> QED
            BY <6>1, <6>4 DEF v
        <5>2. header \in Headers
          BY <2>2 DEF Sound
        <5>3. g = [header EXCEPT !.dev = w]
          BY <3>1, <5>2 DEF Headers
        <5> QED
          BY <5>1, <5>3 DEF Edited
      <4> HIDE DEF e
      <4>5. Sound(g) /\ CacheOf(g) = [CacheOf(header) EXCEPT ![d] = Row(e)]
        BY <2>2, <4>2, <4>3, <4>4, EditedIs
      <4>6. Row(e) = [Row(header.dev[s]) EXCEPT !.cccd = c]
        BY <4>3 DEF Row
      <4>7. CacheOf(g) = [CacheOf(header) EXCEPT ![d].cccd = c]
        BY <2>2, <4>5, <4>6
      <4>8. CacheOf(header)[d] # Nothing
        BY <2>2, RowIsSome
      <4>9. Cache!SetCccd(d, c)
        BY <2>4, <3>4, <4>7, <4>8, Mapped, MappedNext
           DEF Cache!SetCccd, Cache!Known
      <4>10. Good(header')
        BY <3>4, <4>5 DEF Good, Sound
      <4> QED
        BY <3>2, <4>9, <4>10 DEF IInv, FlashType, Cache!Next
    <3> QED
      BY <3>2, <3>3, <3>4
  <2> QED
    BY <1>3, <2>2, <2>3, <2>4 DEF SetCccd
<1> QED
  BY <1>2, <1>3

LEMMA SetGattStep ==
    ASSUME IInv, NEW d \in Devs, NEW h \in Hashes, SetGattData(d, h)
    PROVE  IInv' /\ Cache!Next
<1>1. Good(header) /\ flash \in FlashType
  BY DEF IInv, FlashType
<1>2. CASE Refused(d)
  BY <1>1, <1>2, RefusedIs, RefuseStep
<1>3. CASE ~Refused(d)
  <2>1. Found(d) /\ reply' = Nothing /\ flash' = flash
    BY <1>3 DEF SetGattData
  <2>2. PICK s \in Entries(header) :
           /\ Sound(header)
           /\ (CHOOSE i \in SlotsOf(header, d) : TRUE) = s
           /\ header.dev[s].addr = d /\ header.dev[s] \in EntryType
           /\ CacheOf(header)[d] = Row(header.dev[s])
    BY <1>1, <2>1, FoundClaims
  <2>3. PICK g : g = [header EXCEPT !.dev[s].gatt = h]
    OBVIOUS
  <2>4. header' = g \/ header' = header
    BY <1>3, <2>2, <2>3 DEF SetGattData, SaveHeader
  <2>5. CASE header' = header
    BY <1>1, <2>1, <2>5, SameNow, RefuseStep
  <2>6. CASE header' = g
    <3> DEFINE e == [header.dev[s] EXCEPT !.gatt = h]
    <3>1. e \in EntryType
      BY <2>2 DEF EntryType
    <3>2. /\ e.addr = header.dev[s].addr /\ e.svc = header.dev[s].svc
          /\ e.used = header.dev[s].used /\ e.cccdNum = header.dev[s].cccdNum
          /\ e.cccdLen = header.dev[s].cccdLen /\ e.cccd = header.dev[s].cccd
          /\ e.gatt = h
      BY <2>2, <3>1 DEF EntryType
    <3>3. g = Edited(header, s, e)
      BY <2>2, <2>3 DEF Edited, Sound, Headers, Entries
    <3> HIDE DEF e
    <3>4. e.cccd # Nothing => e.cccdLen <= e.cccdNum
      BY <2>2, <3>2 DEF Sound, Lengths
    <3>5. Sound(g) /\ CacheOf(g) = [CacheOf(header) EXCEPT ![d] = Row(e)]
      BY <2>2, <3>1, <3>2, <3>3, <3>4, EditedIs
    <3>6. Row(e) = [Row(header.dev[s]) EXCEPT !.gatt = h]
      BY <3>2 DEF Row
    <3>7. CacheOf(g) = [CacheOf(header) EXCEPT ![d].gatt = h]
      BY <2>2, <3>5, <3>6
    <3>8. CacheOf(header)[d] # Nothing
      BY <2>2, RowIsSome
    <3>9. Cache!SetGatt(d, h)
      BY <2>1, <2>6, <3>7, <3>8, Mapped, MappedNext DEF Cache!SetGatt, Cache!Known
    <3>10. Good(header')
      BY <2>6, <3>5 DEF Good, Sound
    <3> QED
      BY <1>1, <2>1, <3>9, <3>10 DEF IInv, FlashType, Cache!Next
  <2> QED
    BY <2>4, <2>5, <2>6
<1> QED
  BY <1>2, <1>3

LEMMA LargestSlot ==
    ASSUME NEW S \in SUBSET Slots, S # {}
    PROVE  \E s \in S : \A r \in S : r <= s
<1> DEFINE T == {t \in Nat : SlotNum - t \in S}
<1>1. \A s \in S : s \in Nat /\ SlotNum - s \in T /\ SlotNum - (SlotNum - s) = s
  BY SizesAssumption DEF Slots
<1>2. T \in SUBSET Nat /\ T # {}
  BY <1>1
<1>3. PICK t \in T : \A u \in T : t <= u
  BY <1>2, SmallestIn
<1>4. SlotNum - t \in S /\ t \in Nat
  OBVIOUS
<1>5. ASSUME NEW r \in S PROVE r <= SlotNum - t
  <2>1. r \in Nat /\ SlotNum - r \in Nat /\ t <= SlotNum - r
    BY <1>1, <1>3
  <2> QED
    BY <1>4, <2>1, SizesAssumption
<1> QED
  BY <1>4, <1>5

LEMMA LastMatchIs ==
    ASSUME Good(header), NEW h \in Hashes, Matching(h) # {}
    PROVE  \E s \in Entries(header) :
              LastMatch(h) = header.dev[s] /\ header.dev[s].gatt = h
<1>1. Matching(h) \in SUBSET Slots
  BY DEF Matching
<1>2. PICK s : s = CHOOSE i \in Matching(h) : \A r \in Matching(h) : r <= i
  OBVIOUS
<1>3. s \in Matching(h)
  BY <1>1, <1>2, LargestSlot
<1> QED
  BY <1>2, <1>3 DEF LastMatch, Matching, Entries

LEMMA GetTableByHashStep ==
    ASSUME IInv, NEW d \in Devs, NEW h \in Hashes, GetTableByHash(d, h)
    PROVE  IInv' /\ Cache!Next
<1>1. Good(header) /\ flash \in FlashType
  BY DEF IInv, FlashType
<1>2. CASE Refused(d)
  BY <1>1, <1>2, RefusedIs, RefuseStep
<1>3. CASE LoadFails /\ Idle
  BY <1>1, <1>3, SameNow, RefuseStep DEF Idle
<1>4. CASE Found(d) /\ LookUp(d, EntryOf(header, d))
  BY <1>4, GetTableStep DEF GetTable
<1>5. CASE Opened /\ ~Found(d) /\ Matching(h) # {}
  <2>1. Sound(header) /\ ~Has(header, d)
    BY <1>1, <1>5, OpenedIs DEF Found
  <2>2. PICK s \in Entries(header) :
           LastMatch(h) = header.dev[s] /\ header.dev[s].gatt = h
    BY <1>1, <1>5, LastMatchIs
  <2>3. PICK e \in EntryType : e = header.dev[s] /\ e.addr \in Devs
    BY <2>1, EntryIs DEF Sound
  <2>4. CacheOf(header)[e.addr] = Row(e) /\ CacheOf(header)[d] = Nothing
    <3>1. ClaimIn(header, e.addr) = Row(e)
      BY <2>1, <2>3, ClaimOfEntry DEF Sound
    <3>2. ClaimIn(header, d) = Nothing
      BY <2>1 DEF ClaimIn
    <3> QED
      BY <2>3, <3>1, <3>2 DEF CacheOf
  <2>5. CASE ~TableGood(LastMatch(h)) /\ LookUp(d, LastMatch(h))
    <3>1. LookUp(d, header.dev[s]) /\ ~TableGood(header.dev[s])
      BY <2>2, <2>5
    <3>2. /\ flash' = flash /\ reply' = Nothing
          /\ Same(header') \/ Lost(header', header.dev[s].addr)
      BY <2>1, <3>1, LookUpIs
    <3> QED
      BY <1>1, <2>3, <3>2, RefuseStep
  <2>6. ASSUME TableGood(LastMatch(h)), Gives(d, TableData(LastMatch(h))),
               NEW r \in CopiedRoom(LastMatch(h)), AddDev(d, LastMatch(h).svc, r)
        PROVE  IInv' /\ Cache!Next
    <3>1. PICK t \in Tables : t = e.svc
      BY DEF EntryType
    <3>2. r \in Nat
      BY <2>2, <2>3, LengthsAssumption DEF CopiedRoom, EntryType
    <3>3. AddDev(d, t, r)
      BY <2>2, <2>3, <2>6, <3>1
    <3>4. flash' \in FlashType /\ (Same(header') \/ Stored(header', d, t))
      BY <1>1, <3>2, <3>3, AddIs
    <3>5. reply' = [dev |-> d, data |-> Image(t)]
      BY <2>2, <2>3, <2>6, <3>1 DEF TableGood, Gives
    <3>6. /\ CacheOf(header)[e.addr] # Nothing
          /\ CacheOf(header)[e.addr].table = t
          /\ CacheOf(header)[e.addr].gatt # Nothing
      BY <2>2, <2>3, <2>4, <3>1, RowIs, RowIsSome, NothingAssumption
    <3>7. CacheOf(header') = CacheOf(header) \/ Cache!Stored(d, t)
      BY <3>4, CacheStores DEF Same
    <3>8. Cache!Borrow(d, e.addr)
      BY <2>4, <3>5, <3>6, <3>7, Mapped, MappedNext
         DEF Cache!Borrow, Cache!Known, Cache!Answered
    <3>9. Good(header')
      BY <3>4 DEF Same, Stored
    <3> QED
      BY <2>3, <3>4, <3>8, <3>9 DEF IInv, FlashType, Cache!Next
  <2> QED
    BY <1>2, <1>3, <1>4, <1>5, <2>5, <2>6 DEF GetTableByHash
<1> QED
  BY <1>2, <1>3, <1>4, <1>5 DEF GetTableByHash

LEMMA StoreStep ==
    ASSUME IInv, [Next]_vars
    PROVE  IInv' /\ [Cache!Next]_(Cache!vars)
<1>1. CASE Next
  BY <1>1, ClearStep, RemoveStep, GetTableStep, GetCccdStep, SetTableStep,
     SetCccdStep, GetTableByHashStep, SetGattStep DEF Next
<1>2. CASE UNCHANGED vars
  <2>1. header' = header /\ flash' = flash /\ reply' = reply
    BY <1>2 DEF vars
  <2>2. CacheOf(header') = CacheOf(header)
    BY <2>1
  <2>3. UNCHANGED Cache!vars
    BY <2>1, <2>2, Mapped, MappedNext DEF Cache!vars
  <2>4. IInv'
    BY <2>1 DEF IInv
  <2> QED
    BY <2>3, <2>4
<1> QED
  BY <1>1, <1>2

LEMMA StoreInit ==
    ASSUME Init
    PROVE  IInv /\ Cache!Init
<1>1. Good(header) /\ Entries(header) = {} /\ reply = Nothing
  BY BlanksAre, GoodBlank DEF Init
<1>2. flash \in FlashType
  BY DEF Init, FlashType
<1>3. CacheOf(header) = [d \in Devs |-> Nothing]
  BY <1>1, CacheOfBlank
<1> QED
  BY <1>1, <1>2, <1>3, Mapped DEF IInv, FlashType, Cache!Init

THEOREM Inductive == Spec => []IInv
<1>1. IInv /\ [Next]_vars => IInv'
  BY StoreStep
<1> QED
  BY <1>1, StoreInit, PTL DEF Spec

LEMMA NotOpened ==
    ASSUME IInv, ~Opened
    PROVE  header \in Headers /\ Entries(header) = {}
  BY BlanksAre DEF IInv, Good, Opened

(* Types, and the lengths of an entry: its blocks hold the table behind the *)
(* room for its CCCDs, and the setting stored fits into that room.          *)
THEOREM TypeCorrect == Spec => []TypeOK
<1>1. ASSUME IInv PROVE TypeOK
  <2>1. header \in Headers /\ Lengths(header)
    BY <1>1, OpenedIs, NotOpened DEF IInv, Sound, Lengths
  <2> QED
    BY <1>1, <2>1 DEF TypeOK, Headers, Lengths, IInv
<1> QED
  BY <1>1, Inductive, PTL

(* No block is lost or owned twice, wherever a change was cut short.        *)
THEOREM NoBlockLost == Spec => []BlocksPartitioned
<1>1. ASSUME IInv, Opened
      PROVE  BlocksPartitioned
  <2>1. Sound(header)
    BY <1>1, OpenedIs DEF IInv
  <2>2. ASSUME NEW b
        PROVE  b \in header.unused \cup UNION {header.dev[s].used : s \in Entries(header)}
                 <=> b \in header.unused \/ \E s \in Entries(header) : b \in header.dev[s].used
    BY Zenon
  <2>3. header.unused \cup UNION {header.dev[s].used : s \in Entries(header)}
           = Below(Blocks, FreeNum)
    <3>1. /\ header.unused \subseteq Below(Blocks, FreeNum)
          /\ \A s \in Entries(header) : header.dev[s].used \subseteq Below(Blocks, FreeNum)
          /\ \A b \in Below(Blocks, FreeNum) :
                b \in header.unused \/ \E s \in Entries(header) : b \in header.dev[s].used
      BY <2>1 DEF Sound, Whole
    <3> QED
      BY <2>2, <3>1, Zenon
  <2>4. /\ \A s \in Entries(header) : header.dev[s].used \cap header.unused = {}
        /\ \A r, s \in Entries(header) :
              r # s => header.dev[r].used \cap header.dev[s].used = {}
        /\ header.num = Cardinality(header.unused)
    BY <2>1 DEF Sound, Apart, Whole
  <2> QED
    BY <2>3, <2>4, Zenon DEF BlocksPartitioned
<1>2. IInv => BlocksPartitioned
  BY <1>1 DEF BlocksPartitioned
<1> QED
  BY <1>2, Inductive, PTL

(* gattc_tbl_storage_find_dev takes the first entry of a device: there is   *)
(* no other.                                                                *)
THEOREM EntriesAreUnique == Spec => []OneEntryPerDevice
<1>1. IInv => OneEntryPerDevice
  BY OpenedIs, NotOpened DEF IInv, Sound, Unique, OneEntryPerDevice
<1> QED
  BY <1>1, Inductive, PTL

(* Whatever fails and wherever power is lost, an answer is what was stored  *)
(* for that device, or for one with the same database hash.                 *)
THEOREM StoreIsCache == Spec => ImplementsCache
<1>1. Init => Cache!Init
  BY StoreInit
<1>2. IInv /\ [Next]_vars => [Cache!Next]_(Cache!vars)
  BY StoreStep
<1> QED
  BY <1>1, <1>2, Inductive, PTL DEF Spec, ImplementsCache, Cache!Spec

-----------------------------------------------------------------------------
(***************************************************************************)
(* The data blocks of an entry.  However block_idx counts, it counts up     *)
(* from one block of an entry to the next, so that they are all different.  *)
(***************************************************************************)
Counted(S) ==
    {m \in Blocks : \E x \in S : x \div Width = m \div Width /\ m <= x}

LEMMA CellIs ==
    ASSUME NEW S \in SUBSET Blocks, NEW n
    PROVE  Cell(S, n) = Cardinality(Below(Counted(S), n))
<1>1. {m \in Below(Blocks, n) : \E x \in S : x \div Width = m \div Width /\ m <= x}
         = Below(Counted(S), n)
  BY Zenon DEF Below, Counted
<1> QED
  BY <1>1 DEF Cell

LEMMA CellOrder ==
    ASSUME NEW S \in SUBSET Blocks, NEW m \in S, NEW n \in S, m < n
    PROVE  Cell(S, m) < Cell(S, n)
<1>1. /\ Counted(S) \in SUBSET Nat /\ IsFiniteSet(Counted(S))
  BY BlocksAre DEF Counted
<1>2. \A x \in S : x \in Blocks /\ x <= x
  BY BlocksAre
<1>3. m \in Counted(S) /\ n \in Counted(S)
  BY <1>2, Zenon DEF Counted
<1> QED
  BY <1>1, <1>3, CellIs, BelowGrows

LEMMA CellIsBlock ==
    ASSUME NEW S \in SUBSET Blocks, NEW n \in S
    PROVE  Cell(S, n) \in Blocks
<1>1. PICK N \in Nat : N = ByteNum * Width
  BY SizesAssumption
<1>2. Blocks = 0..N - 1 /\ n \in Nat /\ n < N
  BY <1>1 DEF Blocks
<1>3. /\ Counted(S) \in SUBSET Nat /\ IsFiniteSet(Counted(S))
  BY BlocksAre DEF Counted
<1>4. Below(Counted(S), n) \subseteq 0..n - 1
  BY <1>2, <1>3 DEF Below
<1>5. Cardinality(0..n - 1) = n /\ IsFiniteSet(0..n - 1)
  <2>1. 0 \in Int /\ n - 1 \in Int /\ (0 > n - 1 <=> n = 0)
    BY <1>2
  <2>2. /\ IsFiniteSet(0..n - 1)
        /\ Cardinality(0..n - 1) = IF 0 > n - 1 THEN 0 ELSE (n - 1) - 0 + 1
    BY <2>1, FS_Interval
  <2> QED
    BY <1>2, <2>2
<1>6. Cardinality(Below(Counted(S), n)) \in Nat /\ Cardinality(Below(Counted(S), n)) <= n
  BY <1>3, <1>4, <1>5, FS_Subset, BelowType
<1> QED
  BY <1>2, <1>6, CellIs

LEMMA NthOrder ==
    ASSUME NEW S \in SUBSET Blocks, NEW i \in 1..Cardinality(S),
           NEW j \in 1..Cardinality(S), i < j
    PROVE  Nth(S, i) \in S /\ Nth(S, j) \in S /\ Nth(S, i) < Nth(S, j)
<1>1. S \in SUBSET Nat /\ IsFiniteSet(S) /\ Cardinality(S) \in Nat
  BY BlocksAre
<1>2. PICK m \in S, n \in S :
         /\ m = Nth(S, i) /\ n = Nth(S, j)
         /\ Cardinality(Below(S, m)) = i - 1 /\ Cardinality(Below(S, n)) = j - 1
  BY <1>1, NthIs
<1>3. m # n /\ ~(n < m)
  BY <1>1, <1>2, BelowGrows
<1> QED
  BY <1>1, <1>2, <1>3

LEMMA CellsDiffer ==
    ASSUME NEW e, e.used \in SUBSET Blocks, NEW i \in 1..Cardinality(e.used),
           NEW j \in 1..Cardinality(e.used), i < j
    PROVE  CellOf(e, i) # CellOf(e, j) /\ CellOf(e, i) \in Blocks /\ CellOf(e, j) \in Blocks
<1>1. PICK S \in SUBSET Blocks : S = e.used
  OBVIOUS
<1>2. CellOf(e, i) = Cell(S, Nth(S, i)) /\ CellOf(e, j) = Cell(S, Nth(S, j))
  BY <1>1 DEF CellOf, CellsOf
<1>3. Nth(S, i) \in S /\ Nth(S, j) \in S /\ Nth(S, i) < Nth(S, j)
  BY <1>1, NthOrder
<1>4. PICK m \in S, n \in S : m = Nth(S, i) /\ n = Nth(S, j) /\ m < n
  BY <1>3
<1>5. Cell(S, m) < Cell(S, n) /\ Cell(S, m) \in Blocks /\ Cell(S, n) \in Blocks
  BY <1>4, CellOrder, CellIsBlock
<1>6. Cell(S, m) # Cell(S, n)
  <2>1. \A a, b \in Nat : a < b => a # b
    OBVIOUS
  <2>2. Cell(S, m) \in Nat /\ Cell(S, n) \in Nat
    BY <1>5, BlocksAre
  <2> QED
    BY <1>5, <2>1, <2>2
<1> QED
  BY <1>2, <1>4, <1>5, <1>6, Zenon

(* Its first blocks are written, the table behind them stays.               *)
LEMMA TableKept ==
    ASSUME NEW e \in EntryType, Cardinality(e.used) = e.cccdNum + Size[e.svc],
           NEW v, NEW n \in 0..e.cccdNum, flash \in FlashType,
           flash' = Written(e, 0, v, n)
    PROVE  \A k \in 1..Size[e.svc] :
              flash'[CellOf(e, e.cccdNum + k)] = flash[CellOf(e, e.cccdNum + k)]
<1> SUFFICES ASSUME NEW k \in 1..Size[e.svc]
             PROVE  flash'[CellOf(e, e.cccdNum + k)] = flash[CellOf(e, e.cccdNum + k)]
  OBVIOUS
<1>1. e.used \in SUBSET Blocks /\ e.cccdNum \in Nat /\ Size[e.svc] \in Nat
  BY LengthsAssumption DEF EntryType, Values
<1>2. PICK j \in 1..Cardinality(e.used) : j = e.cccdNum + k /\ n < j
  BY <1>1
<1>3. CellOf(e, j) \in Blocks
  <2>1. CASE j = 1
    <3>1. e.used \in SUBSET Nat /\ IsFiniteSet(e.used)
      BY <1>1, BlocksAre
    <3>2. Nth(e.used, j) \in e.used
      BY <3>1, NthIs
    <3>3. CellOf(e, j) = Cell(e.used, Nth(e.used, j))
      BY <1>1 DEF CellOf, CellsOf
    <3> QED
      BY <1>1, <3>2, <3>3, CellIsBlock
  <2>2. CASE j # 1
    <3>1. 1 \in 1..Cardinality(e.used) /\ 1 < j
      BY <1>1, <2>2
    <3> QED
      BY <1>1, <3>1, CellsDiffer
  <2> QED
    BY <2>1, <2>2
<1>4. ASSUME NEW i \in 1..n PROVE CellOf(e, 0 + i) # CellOf(e, j)
  <2>1. i \in 1..Cardinality(e.used) /\ i < j /\ 0 + i = i
    BY <1>1, <1>2
  <2> QED
    BY <1>1, <2>1, CellsDiffer
<1>5. flash'[CellOf(e, j)] = flash[CellOf(e, j)]
  <2>1. PICK b \in Blocks : b = CellOf(e, j)
    BY <1>3
  <2>2. ~\E i \in 1..n : CellOf(e, 0 + i) = b
    BY <1>4, <2>1
  <2>3. Written(e, 0, v, n)[b] = flash[b]
    BY <2>2 DEF Written
  <2> QED
    BY <2>1, <2>3
<1> QED
  BY <1>2, <1>5

(* A table is readable in the next state when its entry still names the     *)
(* same blocks and those of the table hold what they held.                  *)
LEMMA StaysReadable ==
    ASSUME NEW s \in Slots, Readable(s), header'.dev[s] # Nothing,
           header'.dev[s].svc = header.dev[s].svc,
           header'.dev[s].used = header.dev[s].used,
           header'.dev[s].cccdNum = header.dev[s].cccdNum,
           \A k \in 1..Size[header.dev[s].svc] :
              flash'[CellOf(header.dev[s], header.dev[s].cccdNum + k)]
                 = flash[CellOf(header.dev[s], header.dev[s].cccdNum + k)]
    PROVE  Readable(s)'
<1>1. PICK e, f : e = header.dev[s] /\ f = header'.dev[s]
  OBVIOUS
<1>2. \A k : CellOf(f, k) = CellOf(e, k)
  BY <1>1 DEF CellOf
<1>3. TableData(e) = Image(e.svc)
  BY <1>1 DEF Readable, TableGood
<1>4. [k \in 1..Size[e.svc] |-> flash'[CellOf(f, f.cccdNum + k)]]
         = [k \in 1..Size[e.svc] |-> flash[CellOf(e, e.cccdNum + k)]]
  BY <1>1, <1>2
<1>5. [k \in 1..Size[e.svc] |-> flash[CellOf(e, e.cccdNum + k)]] = Image(e.svc)
  BY <1>3 DEF TableData, Read
<1>6. [k \in 1..Size[f.svc] |-> flash'[CellOf(f, f.cccdNum + k)]] = Image(f.svc)
  BY <1>1, <1>4, <1>5
<1> QED
  BY <1>1, <1>6 DEF Readable, TableGood, TableData, Read

LEMMA SetCccdKeepsTable ==
    ASSUME IInv, NEW s \in Slots, flash' # flash, Readable(s),
           NEW c \in Cccds, SetCccd(header.dev[s].addr, c)
    PROVE  Readable(s)'
<1>1. Good(header) /\ flash \in FlashType
  BY DEF IInv, FlashType
<1>2. s \in Entries(header)
  BY DEF Readable, Entries
<1>3. PICK d : d = header.dev[s].addr
  OBVIOUS
<1>4. Found(d) /\ ~Idle /\ ~Refused(d)
  BY <1>3 DEF SetCccd, Refused, Idle
<1>5. Sound(header) /\ header.dev[s] \in EntryType /\ d \in Devs
  BY <1>1, <1>2, <1>3, <1>4, OpenedIs, EntryIs DEF Found, Sound
<1>6. (CHOOSE i \in SlotsOf(header, d) : TRUE) = s /\ EntryOf(header, d) = header.dev[s]
  <2>1. PICK i \in Entries(header) :
           /\ (CHOOSE j \in SlotsOf(header, d) : TRUE) = i
           /\ EntryOf(header, d) = header.dev[i] /\ header.dev[i].addr = d
    BY <1>1, <1>4, <1>5, FoundClaims
  <2>2. i = s
    BY <1>2, <1>3, <1>5, <2>1 DEF Sound, Unique
  <2> QED
    BY <2>1, <2>2
<1>7. PICK e \in EntryType : e = header.dev[s]
  BY <1>5
<1>8. /\ Fits(e, c)
      /\ WriteThenSave([header EXCEPT !.dev[s].cccdLen = Size[c], !.dev[s].cccd = c],
                       e, 0, c, {header})
  BY <1>3, <1>4, <1>6, <1>7 DEF SetCccd
<1>9. c \in Values /\ Size[c] \in Nat /\ Size[c] <= e.cccdNum /\ e.cccdNum \in Nat
  BY <1>8, LengthsAssumption DEF Fits, Values, EntryType
<1>10. PICK n \in 0..e.cccdNum : flash' = Written(e, 0, c, n)
  BY <1>8, <1>9 DEF WriteThenSave
<1>11. Cardinality(e.used) = e.cccdNum + Size[e.svc]
  BY <1>2, <1>5, <1>7 DEF Sound, Lengths
<1>12. \A k \in 1..Size[e.svc] :
          flash'[CellOf(e, e.cccdNum + k)] = flash[CellOf(e, e.cccdNum + k)]
  BY <1>1, <1>10, <1>11, TableKept
<1>13. /\ header'.dev[s] \in EntryType /\ header'.dev[s].svc = e.svc
       /\ header'.dev[s].used = e.used /\ header'.dev[s].cccdNum = e.cccdNum
  <2>1. CASE header' = header
    BY <1>7, <2>1
  <2>2. CASE header' = [header EXCEPT !.dev[s].cccdLen = Size[c], !.dev[s].cccd = c]
    <3> DEFINE f == [e EXCEPT !.cccdLen = Size[c]]
               g == [f EXCEPT !.cccd = c]
    <3>1. f \in EntryType /\ f.svc = e.svc /\ f.used = e.used /\ f.cccdNum = e.cccdNum
      BY <1>9 DEF EntryType
    <3> HIDE DEF f
    <3>2. g \in EntryType /\ g.svc = f.svc /\ g.used = f.used /\ g.cccdNum = f.cccdNum
      BY <3>1 DEF EntryType
    <3> HIDE DEF g
    <3>3. header'.dev[s] = g
      <4>1. header \in Headers
        BY <1>5 DEF Sound
      <4>2. header'.dev = [header.dev EXCEPT ![s].cccdLen = Size[c], ![s].cccd = c]
        BY <2>2, <4>1 DEF Headers
      <4>3. header.dev \in [Slots -> EntryType \cup {Nothing}]
        BY <4>1 DEF Headers
      <4>4. PICK v \in [Slots -> EntryType \cup {Nothing}] : v = header.dev /\ v[s] = e
        BY <1>7, <4>3
      <4>5. header'.dev = [v EXCEPT ![s].cccdLen = Size[c], ![s].cccd = c]
        BY <4>2, <4>4
      <4>6. header'.dev[s] = [[v[s] EXCEPT !.cccdLen = Size[c]] EXCEPT !.cccd = c]
        BY <4>5
      <4> QED
        BY <4>4, <4>6 DEF f, g
    <3> QED
      BY <3>1, <3>2, <3>3
  <2> QED
    BY <1>8, <2>1, <2>2 DEF WriteThenSave
<1>14. header'.dev[s] # Nothing
  BY <1>13, EntryIsSome
<1> QED
  BY <1>7, <1>12, <1>13, <1>14, StaysReadable

(* A setting never runs into the table behind it, also where the room was   *)
(* copied from another device, and wherever the write is cut short.         *)
THEOREM TableBehindCccdKept == Spec => CccdKeepsTable
<1>1. IInv /\ [Next]_vars
        => [\A s \in Slots :
               flash' # flash /\ Readable(s) /\ ~Readable(s)'
                  => \A c \in Cccds : ~SetCccd(header.dev[s].addr, c)]_vars
  BY SetCccdKeepsTable
<1> QED
  BY <1>1, Inductive, PTL DEF Spec, CccdKeepsTable
=============================================================================
