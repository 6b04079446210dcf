----------------------------- MODULE RingProofs -----------------------------
(***************************************************************************)
(* Lemmas about PacketRing, for rings of every size: what cutting packets   *)
(* off the head and storing one at the write index do to the ring, to the   *)
(* order of its packets and to the queue it represents.                     *)
(***************************************************************************)
EXTENDS PacketRing, TLAPS

(* The packets are in the c slots from r on, and w is the next one.         *)
Filled(sl, r, w, c) ==
    /\ c \in 0..QueueNo
    /\ w = Plus(r, c)
    /\ \A i \in Slot : sl[i] # None <=> Dist(r, i) < c

(* Older packets have smaller ids. *)
Ordered(sl, r) ==
    \A i, j \in Slot :
       sl[i] # None /\ sl[j] # None /\ Dist(r, i) < Dist(r, j)
          => sl[i].id < sl[j].id

Store(sl, w, p) == [sl EXCEPT ![w] = p]

(* The queue q has c packets; its rest after the first n; q and one more.   *)
IsQueue(q, c) == c \in Nat /\ q = [k \in 1..c |-> q[k]]

After(q, n) == SubSeq(q, n + 1, Len(q))

Joined(q, p) == Append(q, p)

-----------------------------------------------------------------------------
LEMMA NoneFields ==
    /\ None.id = 0
    /\ None.kind = "none"
    /\ None.link = "none"
    /\ None.event = "none"
  BY DEF None

(* Ring arithmetic. *)
LEMMA PlusType ==
    ASSUME NEW r \in Slot, NEW n \in 0..QueueNo
    PROVE  Plus(r, n) \in Slot
  BY QueueNoAssumption DEF Plus, Slot

LEMMA DistType ==
    ASSUME NEW r \in Slot, NEW i \in Slot
    PROVE  /\ Dist(r, i) \in Slot
           /\ Plus(r, Dist(r, i)) = i
           /\ Dist(r, i) = 0 <=> r = i
  BY QueueNoAssumption DEF Plus, Dist, Slot

LEMMA DistPlus ==
    ASSUME NEW r \in Slot, NEW n \in Slot
    PROVE  Plus(r, n) \in Slot /\ Dist(r, Plus(r, n)) = n
  BY QueueNoAssumption DEF Plus, Dist, Slot

(* Moving the origin of the ring by n slots. *)
LEMMA DistShift ==
    ASSUME NEW r \in Slot, NEW i \in Slot, NEW n \in 0..QueueNo
    PROVE  Dist(Plus(r, n), i) =
              IF Dist(r, i) >= n THEN Dist(r, i) - n
              ELSE Dist(r, i) - n + QueueNo
  BY QueueNoAssumption DEF Plus, Dist, Slot

LEMMA PlusWhole ==
    ASSUME NEW r \in Slot
    PROVE  Plus(r, QueueNo) = r /\ Plus(r, 0) = r
  BY QueueNoAssumption DEF Plus, Slot

-----------------------------------------------------------------------------
(* Contiguous says that the ring is filled from the read to the write index. *)
LEMMA ContiguousFilled ==
    ASSUME NEW sl, NEW r \in Slot, NEW w \in Slot, Contiguous(sl, r, w)
    PROVE  Filled(sl, r, w, LengthOf(sl, r, w))
<1>1. \A i \in Slot : Dist(r, i) \in 0..QueueNo - 1
  BY DistType DEF Slot
<1>2. CASE sl[r] = None
  BY <1>1, <1>2, PlusWhole, QueueNoAssumption
     DEF Contiguous, Filled, LengthOf
<1>3. CASE sl[r] # None /\ r = w
  BY <1>1, <1>3, PlusWhole, QueueNoAssumption
     DEF Contiguous, Filled, LengthOf
<1>4. CASE sl[r] # None /\ r # w
  BY <1>1, <1>4, DistType, QueueNoAssumption
     DEF Contiguous, Filled, LengthOf, Slot
<1> QED
  BY <1>2, <1>3, <1>4

LEMMA FilledContiguous ==
    ASSUME NEW sl, NEW r \in Slot, NEW w \in Slot, NEW c \in 0..QueueNo,
           Filled(sl, r, w, c)
    PROVE  Contiguous(sl, r, w)
<1>1. \A i \in Slot : Dist(r, i) \in 0..QueueNo - 1
  BY DistType DEF Slot
<1>2. Dist(r, r) = 0
  BY DistType
<1>3. CASE c = 0
  <2>1. w = r
    BY <1>3, PlusWhole DEF Filled
  <2> QED
    BY <1>1, <1>3, <2>1 DEF Contiguous, Filled
<1>4. CASE c = QueueNo
  <2>1. w = r
    BY <1>4, PlusWhole DEF Filled
  <2> QED
    BY <1>1, <1>2, <1>4, <2>1, QueueNoAssumption DEF Contiguous, Filled
<1>5. CASE c # 0 /\ c # QueueNo
  <2>1. c \in Slot
    BY <1>5, QueueNoAssumption DEF Slot
  <2>2. Dist(r, w) = c
    BY <2>1, DistPlus DEF Filled
  <2>3. sl[r] # None
    BY <1>2, <1>5 DEF Filled
  <2>4. r # w
    BY <1>2, <1>5, <2>2
  <2> QED
    BY <2>2, <2>3, <2>4 DEF Contiguous, Filled
<1> QED
  BY <1>3, <1>4, <1>5

(* A ring is filled in one way only. *)
LEMMA FilledOnce ==
    ASSUME NEW sl, NEW r \in Slot, NEW w, NEW v, NEW c, NEW d,
           Filled(sl, r, w, c), Filled(sl, r, v, d)
    PROVE  c = d
<1>1. c \in 0..QueueNo /\ d \in 0..QueueNo
  BY DEF Filled
<1>2. ASSUME NEW a \in 0..QueueNo - 1
      PROVE  a < c <=> a < d
  <2>1. a \in Slot
    BY DEF Slot
  <2>2. Plus(r, a) \in Slot /\ Dist(r, Plus(r, a)) = a
    BY <2>1, DistPlus
  <2> QED
    BY <2>2 DEF Filled
<1> QED
  BY <1>1, <1>2, QueueNoAssumption

(* The reader never runs past the last packet. *)
LEMMA HeadsAreFilled ==
    ASSUME NEW sl, NEW r \in Slot, NEW w, NEW c \in 0..QueueNo,
           Filled(sl, r, w, c), NEW n \in 0..QueueNo,
           \A i \in 0..n - 1 : sl[Plus(r, i)] # None
    PROVE  n <= c
<1> SUFFICES ASSUME c < n
             PROVE  FALSE
  BY QueueNoAssumption
<1>1. c \in 0..n - 1 /\ c \in Slot
  BY QueueNoAssumption DEF Slot
<1>2. Plus(r, c) \in Slot /\ Dist(r, Plus(r, c)) = c /\ sl[Plus(r, c)] # None
  BY <1>1, DistPlus
<1>3. sl[Plus(r, c)] # None <=> Dist(r, Plus(r, c)) < c
  BY <1>2 DEF Filled
<1> QED
  BY <1>2, <1>3, QueueNoAssumption

-----------------------------------------------------------------------------
(* Queues. *)
LEMMA AfterIs ==
    ASSUME NEW c \in Nat, NEW n \in 0..c, NEW q, q = [k \in 1..c |-> q[k]]
    PROVE  After(q, n) = [k \in 1..c - n |-> q[k + n]]
<1>1. Len(q) = c
  OBVIOUS
<1> QED
  BY <1>1 DEF After

LEMMA AppendIs ==
    ASSUME NEW c \in Nat, NEW q, NEW p, q = [k \in 1..c |-> q[k]]
    PROVE  Append(q, p) = [k \in 1..c + 1 |-> IF k <= c THEN q[k] ELSE p]
<1>1. Len(q) = c
  OBVIOUS
<1> QED
  BY <1>1

LEMMA AfterAfter ==
    ASSUME NEW c \in Nat, NEW n \in 0..c, NEW m \in 0..c - n,
           NEW q, IsQueue(q, c)
    PROVE  After(After(q, n), m) = After(q, n + m)
<1> USE DEF IsQueue
<1> DEFINE s == [k \in 1..c - n |-> q[k + n]]
<1>1. After(q, n) = s
  BY AfterIs
<1>2. After(s, m) = [k \in 1..c - n - m |-> s[k + m]]
  <2>1. c - n \in Nat /\ s = [k \in 1..c - n |-> s[k]]
    OBVIOUS
  <2> HIDE DEF s
  <2> QED
    BY <2>1, AfterIs
<1>3. After(q, n + m) = [k \in 1..c - (n + m) |-> q[k + (n + m)]]
  <2>1. n + m \in 0..c
    OBVIOUS
  <2> QED
    BY <2>1, AfterIs
<1>4. \A k \in 1..c - n - m : s[k + m] = q[k + (n + m)]
  OBVIOUS
<1>5. After(s, m) = After(q, n + m)
  <2>1. c - n - m = c - (n + m)
    OBVIOUS
  <2> HIDE DEF s
  <2> QED
    BY <1>2, <1>3, <1>4, <2>1
<1> QED
  BY <1>1, <1>5

LEMMA AfterNone ==
    ASSUME NEW c, NEW q, IsQueue(q, c)
    PROVE  After(q, 0) = q /\ Len(q) = c /\ c \in Nat
<1> USE DEF IsQueue
<1>1. After(q, 0) = [k \in 1..c |-> q[k]]
  BY AfterIs
<1> QED
  BY <1>1

-----------------------------------------------------------------------------
(* Cutting n packets off the ring takes the first n off the queue. *)
LEMMA CutQueue ==
    ASSUME NEW sl, NEW r \in Slot, NEW w, NEW c \in 0..QueueNo,
           Filled(sl, r, w, c), NEW n \in 0..c,
           NEW d \in Nat, d = c - n
    PROVE  /\ Filled(Without(sl, r, n), Plus(r, n), w, d)
           /\ QueueOf(Without(sl, r, n), Plus(r, n), d)
                 = After(QueueOf(sl, r, c), n)
<1> DEFINE s2 == Without(sl, r, n)
           r2 == Plus(r, n)
<1>1. c \in 0..QueueNo /\ n \in 0..QueueNo /\ c - n \in 0..QueueNo /\ r2 \in Slot
  BY PlusType, QueueNoAssumption DEF Filled
<1>2. w = Plus(r2, c - n)
  BY <1>1, QueueNoAssumption DEF Filled, Plus, Slot
<1>3. ASSUME NEW i \in Slot
      PROVE  s2[i] # None <=> Dist(r2, i) < c - n
  <2>1. Dist(r, i) \in 0..QueueNo - 1
    BY DistType DEF Slot
  <2>2. Dist(r2, i) = IF Dist(r, i) >= n THEN Dist(r, i) - n
                      ELSE Dist(r, i) - n + QueueNo
    BY <1>1, DistShift
  <2>3. s2[i] = IF Dist(r, i) < n THEN None ELSE sl[i]
    BY DEF Without
  <2>4. sl[i] # None <=> Dist(r, i) < c
    BY DEF Filled
  <2> QED
    BY <1>1, <2>1, <2>2, <2>3, <2>4, QueueNoAssumption
<1>4. ASSUME NEW k \in 1..c - n
      PROVE  s2[Plus(r2, k - 1)] = sl[Plus(r, k + n - 1)]
  <2>1. Plus(r2, k - 1) = Plus(r, k + n - 1)
    BY <1>1, QueueNoAssumption DEF Plus, Slot
  <2>2. k + n - 1 \in Slot /\ ~(k + n - 1 < n)
    BY <1>1, QueueNoAssumption DEF Slot
  <2>3. Plus(r, k + n - 1) \in Slot /\ Dist(r, Plus(r, k + n - 1)) = k + n - 1
    BY <2>2, DistPlus
  <2> QED
    BY <2>1, <2>2, <2>3 DEF Without
<1>5. QueueOf(s2, r2, c - n) = After(QueueOf(sl, r, c), n)
  <2>1. After(QueueOf(sl, r, c), n)
          = [k \in 1..c - n |-> QueueOf(sl, r, c)[k + n]]
    <3>1. QueueOf(sl, r, c) = [k \in 1..c |-> QueueOf(sl, r, c)[k]]
      BY DEF QueueOf
    <3>2. c \in Nat
      BY <1>1
    <3> QED
      BY <3>1, <3>2, AfterIs
  <2>2. \A k \in 1..c - n : QueueOf(sl, r, c)[k + n] = sl[Plus(r, k + n - 1)]
    BY <1>1 DEF QueueOf
  <2> HIDE DEF s2, r2
  <2> QED
    BY <1>4, <2>1, <2>2 DEF QueueOf
<1> QED
  BY <1>1, <1>2, <1>3, <1>5 DEF Filled

LEMMA CutContiguous ==
    ASSUME NEW sl, NEW r \in Slot, NEW w \in Slot, NEW n \in 0..QueueNo,
           Contiguous(sl, r, w),
           \A i \in 0..n - 1 : sl[Plus(r, i)] # None
    PROVE  Contiguous(Without(sl, r, n), Plus(r, n), w)
<1>1. PICK c \in 0..QueueNo : Filled(sl, r, w, c)
  BY ContiguousFilled DEF Filled
<1>2. n \in 0..c
  BY <1>1, HeadsAreFilled, QueueNoAssumption
<1>3. PICK d \in Nat : d = c - n /\ d \in 0..QueueNo
  BY <1>2, QueueNoAssumption
<1>4. Filled(Without(sl, r, n), Plus(r, n), w, d)
  BY <1>1, <1>2, <1>3, CutQueue
<1>5. Plus(r, n) \in Slot
  BY PlusType
<1> QED
  BY <1>3, <1>4, <1>5, FilledContiguous

LEMMA CutOrdered ==
    ASSUME NEW sl,
           NEW r \in Slot, NEW n \in 0..QueueNo,
           Ordered(sl, r)
    PROVE  Ordered(Without(sl, r, n), Plus(r, n))
<1> DEFINE s2 == Without(sl, r, n)
           r2 == Plus(r, n)
<1> SUFFICES ASSUME NEW i \in Slot, NEW j \in Slot,
                    s2[i] # None, s2[j] # None, Dist(r2, i) < Dist(r2, j)
             PROVE  s2[i].id < s2[j].id
  BY DEF Ordered
<1>1. /\ Dist(r, i) \in Int /\ Dist(r, j) \in Int /\ n \in Int
      /\ QueueNo \in Int
  BY DistType, QueueNoAssumption DEF Slot
<1>2. /\ ~(Dist(r, i) < n) /\ s2[i] = sl[i]
      /\ ~(Dist(r, j) < n) /\ s2[j] = sl[j]
  BY DEF Without
<1>3. Dist(r2, i) = Dist(r, i) - n /\ Dist(r2, j) = Dist(r, j) - n
  BY <1>1, <1>2, DistShift
<1>4. Dist(r, i) < Dist(r, j)
  BY <1>1, <1>3
<1> QED
  BY <1>2, <1>4 DEF Ordered

(* A packet stored at the write index joins the end of the queue. *)
LEMMA StoreQueue ==
    ASSUME NEW sl, NEW r \in Slot, NEW w \in Slot, NEW c \in 0..QueueNo,
           Filled(sl, r, w, c), NEW p, p # None, sl[w] = None,
           DOMAIN sl = Slot, NEW d \in Nat, d = c + 1
    PROVE  /\ c < QueueNo
           /\ Filled(Store(sl, w, p), r, Plus(w, 1), d)
           /\ QueueOf(Store(sl, w, p), r, d) = Joined(QueueOf(sl, r, c), p)
           /\ d \in 0..QueueNo
<1> DEFINE s2 == Store(sl, w, p)
<1>0. s2 = [sl EXCEPT ![w] = p]
  BY DEF Store
<1> HIDE DEF s2
<1>1. c \in 0..QueueNo /\ w = Plus(r, c)
  BY DEF Filled
<1>2. c < QueueNo /\ c \in Slot /\ Dist(r, w) = c
  <2>1. Dist(r, w) \in 0..QueueNo - 1 /\ ~(Dist(r, w) < c)
    BY DistType DEF Filled, Slot
  <2>2. c < QueueNo
    BY <1>1, <2>1, QueueNoAssumption
  <2>3. c \in Slot
    BY <1>1, <2>2, QueueNoAssumption DEF Slot
  <2> QED
    BY <1>1, <2>2, <2>3, DistPlus
<1>3. Plus(w, 1) = Plus(r, c + 1)
  BY <1>1, <1>2, QueueNoAssumption DEF Plus, Slot
<1>4. \A i \in Slot : Dist(r, i) = c <=> i = w
  BY <1>2, DistType
<1>5. ASSUME NEW i \in Slot
      PROVE  s2[i] # None <=> Dist(r, i) < c + 1
  <2>1. Dist(r, i) \in 0..QueueNo - 1
    BY DistType DEF Slot
  <2>2. sl[i] # None <=> Dist(r, i) < c
    BY DEF Filled
  <2> QED
    BY <1>0, <1>1, <1>4, <2>1, <2>2
<1>6. ASSUME NEW k \in 1..c
      PROVE  s2[Plus(r, k - 1)] = sl[Plus(r, k - 1)]
  <2>1. k - 1 \in Slot /\ k - 1 # c
    BY <1>1, QueueNoAssumption DEF Slot
  <2>2. Plus(r, k - 1) \in Slot /\ Plus(r, k - 1) # w
    BY <1>2, <2>1, DistPlus
  <2> QED
    BY <1>0, <2>2
<1>7. s2[Plus(r, c)] = p
  BY <1>0, <1>1
<1>8. QueueOf(s2, r, c + 1) = Append(QueueOf(sl, r, c), p)
  <2>1. c \in Nat
    BY <1>1
  <2>2. Append(QueueOf(sl, r, c), p)
          = [k \in 1..c + 1 |-> IF k <= c THEN QueueOf(sl, r, c)[k] ELSE p]
    <3>1. QueueOf(sl, r, c) = [k \in 1..c |-> QueueOf(sl, r, c)[k]]
      BY DEF QueueOf
    <3> QED
      BY <2>1, <3>1, AppendIs
  <2>3. ASSUME NEW k \in 1..c + 1
        PROVE  s2[Plus(r, k - 1)] = IF k <= c THEN QueueOf(sl, r, c)[k] ELSE p
    BY <1>1, <1>6, <1>7 DEF QueueOf
  <2> QED
    BY <2>2, <2>3 DEF QueueOf
<1>9. Filled(s2, r, Plus(w, 1), c + 1)
  <2>1. c + 1 \in 0..QueueNo
    BY <1>1, <1>2, QueueNoAssumption
  <2> QED
    BY <1>3, <1>5, <2>1 DEF Filled
<1>10. Filled(Store(sl, w, p), r, Plus(w, 1), d)
  BY <1>9 DEF s2
<1>11. QueueOf(Store(sl, w, p), r, d) = Joined(QueueOf(sl, r, c), p)
  BY <1>8, Zenon DEF Joined, s2
<1>12. d \in 0..QueueNo
  BY <1>1, <1>2, QueueNoAssumption
<1> QED
  BY <1>2, <1>10, <1>11, <1>12

LEMMA StoreContiguous ==
    ASSUME NEW sl, NEW r \in Slot, NEW w \in Slot, Contiguous(sl, r, w),
           NEW p, p # None, sl[w] = None, DOMAIN sl = Slot
    PROVE  Contiguous(Store(sl, w, p), r, Plus(w, 1))
<1>1. PICK c \in 0..QueueNo : Filled(sl, r, w, c)
  BY ContiguousFilled DEF Filled
<1>2. PICK d \in Nat : d = c + 1
  OBVIOUS
<1>3. Filled(Store(sl, w, p), r, Plus(w, 1), d) /\ d \in 0..QueueNo
  BY <1>1, <1>2, StoreQueue
<1>4. Plus(w, 1) \in Slot
  BY PlusType, QueueNoAssumption
<1> QED
  BY <1>3, <1>4, FilledContiguous

LEMMA StoreOrdered ==
    ASSUME NEW sl, NEW r \in Slot, NEW w \in Slot,
           Contiguous(sl, r, w), Ordered(sl, r),
           NEW p, sl[w] = None, DOMAIN sl = Slot,
           \A i \in Slot : sl[i] # None => sl[i].id < p.id
    PROVE  Ordered(Store(sl, w, p), r)
<1> DEFINE s2 == Store(sl, w, p)
<1>1. \A i \in Slot : s2[i] = IF i = w THEN p ELSE sl[i]
  BY DEF Store
<1> HIDE DEF s2
<1>2. ASSUME NEW i \in Slot, NEW j \in Slot,
             s2[i] # None, s2[j] # None, Dist(r, i) < Dist(r, j)
      PROVE  s2[i].id < s2[j].id
  <2>1. Dist(r, i) \in Int /\ Dist(r, j) \in Int
    BY DistType DEF Slot
  <2>2. i # j
    BY <1>2, <2>1
  <2>3. CASE j = w
    BY <1>1, <1>2, <2>2, <2>3
  <2>4. CASE i = w
    <3>1. sl[j] # None /\ w # j
      BY <1>1, <1>2, <2>2, <2>4
    <3>2. Dist(r, j) < Dist(r, w)
      <4>1. sl[r] # None
        BY <3>1 DEF Contiguous
      <4>2. r # w
        BY <4>1
      <4> QED
        BY <3>1, <4>1, <4>2 DEF Contiguous
    <3> QED
      BY <1>2, <2>1, <2>4, <3>2
  <2>5. CASE i # w /\ j # w
    BY <1>1, <1>2, <2>5 DEF Ordered
  <2> QED
    BY <2>3, <2>4, <2>5
<1> QED
  BY <1>2 DEF Ordered, s2
=============================================================================
