---------------------------- MODULE UartTxProofs ----------------------------
(***************************************************************************)
(* Safety of the UART transmit queue for every ring size, retry limit and   *)
(* number of packets, with acknowledgements as late as they like.           *)
(***************************************************************************)
EXTENDS UartTx, RingProofs, SequenceTheorems

(***************************************************************************)
(* What RetryBound needs besides itself: packets lie in the ring in the     *)
(* order of their ids; a packet behind the head was never written as an     *)
(* event; and the resend count is zero unless an ack timer runs.            *)
(***************************************************************************)
Untouched(sl, r) ==
    \A i \in Slot :
       sl[i] # None /\ (i = r => sl[i].kind # "event")
          => written[sl[i].id] = 0

Known(sl, p) == \A i \in Slot : sl[i] # None => sl[i].id <= p

Fresh ==
    /\ Ordered(slots, rIndex)
    /\ Untouched(slots, rIndex)
    /\ Known(slots, pushed)
    /\ \A k \in Ids : k > pushed => written[k] = 0
    /\ "ack" \notin timers => resend = 0

IInv == TypeOK /\ RingInv /\ NeverStuck /\ RetryBound /\ Fresh

-----------------------------------------------------------------------------
LEMMA PacketIsNotNone ==
    ASSUME NEW p \in Packet
    PROVE  p # None /\ p.id \in Ids /\ p.kind \in Kinds
  BY DEF Packet, None, Ids, Kinds

LEMMA CountOneMore ==
    ASSUME NEW f \in [Ids -> Nat], NEW k \in Ids,
           NEW g, g = [f EXCEPT ![k] = @ + 1]
    PROVE  /\ g \in [Ids -> Nat]
           /\ g[k] = f[k] + 1
           /\ \A j \in Ids : j # k => g[j] = f[j]
  OBVIOUS

LEMMA CountLimit ==
    ASSUME NEW x \in 0..ResendNum
    PROVE  x + 1 <= ResendNum + 1
  BY ResendNumAssumption

(***************************************************************************)
(* The invariant after app_pop_data_transfer_queue has run, from what must  *)
(* hold of the ring and the counters when it starts with no timer running.  *)
(***************************************************************************)
LEMMA DrainInv ==
    ASSUME NEW sl \in [Slot -> Packet \cup {None}],
           NEW r \in Slot, NEW rc \in 0..ResendNum, NEW ak \in Seq(Ids),
           wIndex' \in Slot, pushed' \in 0..MaxPush,
           written \in [Ids -> Nat], heard \in SUBSET Ids,
           Contiguous(sl, r, wIndex'),
           Ordered(sl, r), Untouched(sl, r), Known(sl, pushed'),
           \A k \in Ids : written[k] <= ResendNum + 1,
           \A k \in Ids : k > pushed' => written[k] = 0,
           sl[r].kind = "event" => written[sl[r].id] = rc,
           sl[r].kind # "event" => rc = 0,
           Drain(sl, r, rc, {}, FALSE, ak)
    PROVE  IInv'
<1>1. PICK n \in 0..QueueNo :
         /\ Passes(sl, r, n)
         /\ slots' = Without(sl, r, n)
         /\ rIndex' = Plus(r, n)
         /\ resend' = IF n = 0 THEN rc ELSE 0
         /\ \/ /\ Stopped({}, FALSE) \/ Refused({}, FALSE) \/ AwaitAck({})
               /\ acks' = ak
            \/ /\ AwaitAck({})
               /\ acks' = Append(ak, First'.id)
         /\ \/ heard' = heard \cup
                    {p.id : p \in {q \in Gone(sl, r, n) : q.kind = "once"}}
            \/ /\ AwaitAck({})
               /\ heard' = heard \cup
                    {p.id : p \in {q \in Gone(sl, r, n) : q.kind = "once"}}
                    \cup {First'.id}
  BY DEF Drain
<1>2. slots' \in [Slot -> Packet \cup {None}]
  BY <1>1 DEF Without
<1>3. rIndex' \in Slot
  BY <1>1, PlusType
<1>4. resend' \in 0..ResendNum
  BY <1>1, ResendNumAssumption
<1>5. Contiguous(slots', rIndex', wIndex')
  <2>1. \A i \in 0..n - 1 : sl[Plus(r, i)] # None
    BY <1>1, NoneFields DEF Passes
  <2> QED
    BY <1>1, <2>1, CutContiguous
<1>6. Ordered(slots', rIndex')
  BY <1>1, CutOrdered
<1>7. Known(slots', pushed')
  BY <1>1 DEF Without, Known
<1>8. \A i \in Slot : slots'[i] # None => slots'[i] = sl[i] /\ (i = r => n = 0)
  <2> SUFFICES ASSUME NEW i \in Slot, slots'[i] # None
               PROVE  slots'[i] = sl[i] /\ (i = r => n = 0)
    OBVIOUS
  <2>1. ~(Dist(r, i) < n) /\ slots'[i] = sl[i]
    BY <1>1 DEF Without
  <2>2. i = r => Dist(r, i) = 0
    BY DistType
  <2> QED
    BY <2>1, <2>2, QueueNoAssumption
<1>9. n = 0 => rIndex' = r
  BY <1>1, PlusWhole
<1>10. Untouched(slots', rIndex')
  BY <1>8, <1>9 DEF Untouched
<1>11. First'.kind = "event" => written[First'.id] = resend'
  <2> SUFFICES ASSUME First'.kind = "event"
               PROVE  written[First'.id] = resend'
    OBVIOUS
  <2>1. First' = slots'[rIndex'] /\ First' # None
    BY DEF First, None
  <2>2. First' = sl[rIndex'] /\ (rIndex' = r => n = 0)
    BY <1>3, <1>8, <2>1
  <2>3. CASE n = 0
    BY <1>1, <1>9, <2>2, <2>3
  <2>4. CASE n # 0
    BY <1>1, <1>3, <2>1, <2>2, <2>4 DEF Untouched
  <2> QED
    BY <2>3, <2>4
<1>12. First'.kind # "event" => resend' = 0
  <2>1. CASE n = 0
    <3>1. First' = slots'[rIndex'] /\ rIndex' = r
      BY <1>9, <2>1 DEF First
    <3>2. ~(Dist(r, r) < n)
      BY <2>1, DistType DEF Slot
    <3>3. First' = sl[r]
      BY <1>1, <3>1, <3>2 DEF Without
    <3> QED
      BY <1>1, <2>1, <3>3
  <2> QED
    BY <1>1, <2>1
<1>13. First' = None \/ First' \in Packet
  BY <1>2, <1>3 DEF First
<1>14. heard' \in SUBSET Ids
  <2>1. \A p \in Gone(sl, r, n) : p.kind = "once" => p.id \in Ids
    <3> SUFFICES ASSUME NEW i \in 0..n - 1, sl[Plus(r, i)].kind = "once"
                 PROVE  sl[Plus(r, i)].id \in Ids
      BY DEF Gone
    <3>1. i \in 0..QueueNo
      BY QueueNoAssumption
    <3>2. sl[Plus(r, i)] \in Packet \cup {None}
      BY <3>1, PlusType
    <3> QED
      BY <3>2, PacketIsNotNone DEF None
  <2>2. AwaitAck({}) => First'.id \in Ids
    BY <1>13, PacketIsNotNone DEF AwaitAck, None
  <2> QED
    BY <1>1, <2>1, <2>2
<1>15. CASE Stopped({}, FALSE) /\ acks' = ak
  <2>1. /\ First' = None /\ status' = "idle" /\ timers' = {}
        /\ awake' = FALSE /\ written' = written
    BY <1>15 DEF Stopped
  <2>2. resend' = 0
    BY <1>12, <2>1 DEF None
  <2>3. TypeOK'
    BY <1>2, <1>3, <1>4, <1>14, <1>15, <2>1 DEF TypeOK
  <2>4. RingInv' /\ NeverStuck'
    BY <1>5, <2>1 DEF RingInv, NeverStuck
  <2>5. RetryBound'
    BY <2>1 DEF RetryBound
  <2>6. Fresh'
    BY <1>6, <1>7, <1>10, <2>1, <2>2 DEF Fresh, Untouched
  <2> QED
    BY <2>3, <2>4, <2>5, <2>6 DEF IInv
<1>16. CASE Refused({}, FALSE) /\ acks' = ak
  <2>1. /\ First'.kind = "once" /\ status' = "active" /\ timers' = {"comp"}
        /\ awake' = FALSE /\ written' = written
    BY <1>16 DEF Refused
  <2>2. resend' = 0
    BY <1>12, <2>1
  <2>3. TypeOK'
    BY <1>2, <1>3, <1>4, <1>14, <1>16, <2>1 DEF TypeOK
  <2>4. RingInv' /\ NeverStuck'
    BY <1>5, <2>1 DEF RingInv, NeverStuck, None
  <2>5. RetryBound'
    BY <2>1 DEF RetryBound
  <2>6. Fresh'
    BY <1>6, <1>7, <1>10, <2>1, <2>2 DEF Fresh, Untouched
  <2> QED
    BY <2>3, <2>4, <2>5, <2>6 DEF IInv
<1>17. CASE AwaitAck({})
  <2>1. /\ First'.kind = "event" /\ status' = "active" /\ timers' = {"ack"}
        /\ awake' = TRUE
        /\ written' = [written EXCEPT ![First'.id] = @ + 1]
    BY <1>17 DEF AwaitAck
  <2>2. First' \in Packet /\ First'.id \in Ids /\ First' # None
    BY <1>13, <2>1, PacketIsNotNone DEF None
  <2>3. written[First'.id] = resend'
    BY <1>11, <2>1
  <2>4. acks' \in Seq(Ids)
    <3>1. Append(ak, First'.id) \in Seq(Ids)
      BY <2>2, AppendProperties
    <3> QED
      BY <1>1, <3>1
  <2>5. written' \in [Ids -> Nat] /\ written'[First'.id] = resend' + 1
    BY <2>1, <2>2, <2>3, CountOneMore
  <2>6. TypeOK'
    BY <1>2, <1>3, <1>4, <1>14, <2>1, <2>4, <2>5 DEF TypeOK
  <2>7. RingInv' /\ NeverStuck'
    BY <1>5, <2>1, <2>2 DEF RingInv, NeverStuck
  <2>8. RetryBound'
    <3>1. \A k \in Ids : k # First'.id => written'[k] = written[k]
      BY <2>1, <2>2, CountOneMore
    <3>2. resend' + 1 <= ResendNum + 1
      BY <1>4, CountLimit, Zenon
    <3>3. \A k \in Ids : written'[k] <= ResendNum + 1
      BY <2>5, <3>1, <3>2, Zenon
    <3> QED
      BY <2>5, <3>3 DEF RetryBound
  <2>9. Untouched(slots, rIndex)'
    <3> SUFFICES ASSUME NEW i \in Slot, slots'[i] # None,
                        i = rIndex' => slots'[i].kind # "event"
                 PROVE  written'[slots'[i].id] = 0
      BY DEF Untouched
    <3>1. i # rIndex'
      BY <2>1 DEF First
    <3>2. Dist(rIndex', rIndex') = 0 /\ Dist(rIndex', i) \in Slot
          /\ Dist(rIndex', i) # 0
      BY <1>3, <3>1, DistType
    <3>3. First'.id < slots'[i].id
      BY <1>3, <1>6, <2>2, <3>2 DEF Ordered, First, Slot
    <3>4. slots'[i].id \in Ids /\ slots'[i].id # First'.id
      BY <1>2, <2>2, <3>3, PacketIsNotNone DEF Ids
    <3> QED
      BY <1>10, <2>1, <3>1, <3>4 DEF Untouched
  <2>10. \A k \in Ids : k > pushed' => written'[k] = 0
    <3>1. First'.id <= pushed'
      BY <1>3, <1>7, <2>2 DEF Known, First
    <3> QED
      BY <2>1, <2>2, <3>1, MaxPushAssumption DEF Ids
  <2>11. Fresh'
    BY <1>6, <1>7, <2>1, <2>9, <2>10 DEF Fresh
  <2> QED
    BY <2>6, <2>7, <2>8, <2>11 DEF IInv
<1> QED
  BY <1>1, <1>15, <1>16, <1>17

-----------------------------------------------------------------------------
LEMMA InitInv == Init => IInv
<1> SUFFICES ASSUME Init
             PROVE  IInv
  OBVIOUS
<1> USE DEF Init
<1>1. rIndex \in Slot /\ First = None
  BY QueueNoAssumption DEF Slot, First
<1>2. TypeOK
  BY <1>1, QueueNoAssumption, ResendNumAssumption, MaxPushAssumption
     DEF TypeOK, Slot, Ids
<1>3. RingInv /\ NeverStuck
  BY <1>1 DEF RingInv, Contiguous, NeverStuck, First
<1>4. RetryBound
  BY ResendNumAssumption DEF RetryBound
<1>5. Fresh
  BY DEF Fresh, Ordered, Untouched, Known
<1> QED
  BY <1>2, <1>3, <1>4, <1>5 DEF IInv

(* What popping the head does to the ring. *)
LEMMA HeadCut ==
    ASSUME IInv
    PROVE  LET n == IF First = None THEN 0 ELSE 1
               r == IF First = None THEN rIndex ELSE Plus(rIndex, 1)
           IN  /\ n \in 0..QueueNo
               /\ r = Plus(rIndex, n)
               /\ r \in Slot
               /\ [slots EXCEPT ![rIndex] = None] = Without(slots, rIndex, n)
<1> DEFINE sl == [slots EXCEPT ![rIndex] = None]
           r == IF First = None THEN rIndex ELSE Plus(rIndex, 1)
           n == IF First = None THEN 0 ELSE 1
<1>1. slots \in [Slot -> Packet \cup {None}] /\ rIndex \in Slot
  BY DEF IInv, TypeOK
<1>2. n \in 0..QueueNo /\ r = Plus(rIndex, n) /\ r \in Slot
  BY <1>1, PlusWhole, PlusType, QueueNoAssumption
<1>3. sl = Without(slots, rIndex, n)
  <2>1. \A i \in Slot : Dist(rIndex, i) \in 0..QueueNo - 1
                        /\ (Dist(rIndex, i) = 0 <=> rIndex = i)
    BY <1>1, DistType DEF Slot
  <2>2. \A i \in Slot : Dist(rIndex, i) < n <=> First # None /\ i = rIndex
    BY <2>1, QueueNoAssumption
  <2>3. \A i \in Slot : sl[i] = Without(slots, rIndex, n)[i]
    BY <1>1, <2>2 DEF Without, First
  <2> QED
    BY <1>1, <2>3 DEF Without
<1> QED
  BY <1>2, <1>3

(* Discarding the head and going on. *)
LEMMA PopNextInv ==
    ASSUME IInv, NEW ak \in Seq(Ids), PopNext(ak),
           UNCHANGED <<wIndex, pushed>>
    PROVE  IInv'
<1> DEFINE sl == [slots EXCEPT ![rIndex] = None]
           r == IF First = None THEN rIndex ELSE Plus(rIndex, 1)
           n == IF First = None THEN 0 ELSE 1
<1> USE DEF IInv
<1>1. /\ slots \in [Slot -> Packet \cup {None}]
      /\ rIndex \in Slot /\ wIndex \in Slot /\ pushed \in 0..MaxPush
      /\ written \in [Ids -> Nat] /\ heard \in SUBSET Ids
  BY DEF TypeOK
<1>2. n \in 0..QueueNo /\ r = Plus(rIndex, n) /\ r \in Slot
  BY HeadCut
<1>3. sl = Without(slots, rIndex, n)
  BY HeadCut
<1>4. \A i \in 0..n - 1 : slots[Plus(rIndex, i)] # None
  BY <1>1, PlusWhole DEF First
<1>5. Contiguous(sl, r, wIndex')
  BY <1>1, <1>2, <1>3, <1>4, CutContiguous DEF RingInv
<1>6. Ordered(sl, r)
  BY <1>1, <1>2, <1>3, CutOrdered DEF Fresh
<1>7. \A i \in Slot : sl[i] # None => i # rIndex /\ sl[i] = slots[i]
  BY <1>1
<1>8. Known(sl, pushed')
  BY <1>7 DEF Fresh, Known
<1>9. \A i \in Slot : sl[i] # None => written[sl[i].id] = 0
  BY <1>7 DEF Fresh, Untouched
<1>10. Untouched(sl, r)
  BY <1>9 DEF Untouched
<1>11. sl[r].kind = "event" => written[sl[r].id] = 0
  BY <1>2, <1>9 DEF None
<1>12. sl \in [Slot -> Packet \cup {None}]
  BY <1>1
<1>13. Drain(sl, r, 0, {}, FALSE, ak)
  BY DEF PopNext
<1>14. 0 \in 0..ResendNum
  BY ResendNumAssumption
<1>15. /\ wIndex' \in Slot /\ pushed' \in 0..MaxPush
       /\ \A k \in Ids : written[k] <= ResendNum + 1
       /\ \A k \in Ids : k > pushed' => written[k] = 0
  BY <1>1 DEF RetryBound, Fresh
<1> HIDE DEF sl, r, n, IInv
<1> QED
  BY <1>1, <1>2, <1>5, <1>6, <1>8, <1>10, <1>11, <1>12, <1>13, <1>14, <1>15,
     DrainInv

-----------------------------------------------------------------------------
LEMMA PushInv ==
    ASSUME IInv, NEW k \in Kinds, PushAccepted(k)
    PROVE  IInv'
<1> DEFINE p == [id |-> pushed + 1, kind |-> k]
           sl == [slots EXCEPT ![wIndex] = p]
<1>1. /\ slots \in [Slot -> Packet \cup {None}]
      /\ rIndex \in Slot /\ wIndex \in Slot /\ pushed \in 0..MaxPush
      /\ written \in [Ids -> Nat] /\ heard \in SUBSET Ids
      /\ resend \in 0..ResendNum /\ acks \in Seq(Ids)
  BY DEF IInv, TypeOK
<1>2. /\ slots[wIndex] = None
      /\ wIndex' = Plus(wIndex, 1)
      /\ pushed' = pushed + 1
      /\ pushed' \in 0..MaxPush
      /\ p \in Packet
  BY <1>1, MaxPushAssumption DEF PushAccepted, Packet, Ids
<1>3. wIndex' \in Slot
  BY <1>1, <1>2, PlusType, QueueNoAssumption
<1>4. sl \in [Slot -> Packet \cup {None}]
  BY <1>1, <1>2
<1>5. \A i \in Slot : slots[i] # None => slots[i].id < p.id
  <2> SUFFICES ASSUME NEW i \in Slot, slots[i] # None
               PROVE  slots[i].id < pushed + 1
    OBVIOUS
  <2>1. slots[i].id \in Ids
    BY <1>1, PacketIsNotNone
  <2>2. slots[i].id <= pushed
    BY DEF IInv, Fresh, Known
  <2> QED
    BY <1>1, <2>1, <2>2 DEF Ids
<1>6. Contiguous(sl, rIndex, wIndex') /\ Ordered(sl, rIndex)
  <2>1. p # None /\ DOMAIN slots = Slot
    BY <1>1, <1>2, PacketIsNotNone
  <2>2. Contiguous(slots, rIndex, wIndex) /\ Ordered(slots, rIndex)
    BY DEF IInv, RingInv, Fresh
  <2> HIDE DEF p
  <2>3. Contiguous(Store(slots, wIndex, p), rIndex, Plus(wIndex, 1))
    BY <1>1, <1>2, <2>1, <2>2, StoreContiguous
  <2>4. Ordered(Store(slots, wIndex, p), rIndex)
    BY <1>1, <1>2, <1>5, <2>1, <2>2, StoreOrdered
  <2> QED
    BY <1>2, <2>3, <2>4 DEF Store
<1>7. \A i \in Slot : sl[i] = IF i = wIndex THEN p ELSE slots[i]
  BY <1>1
<1>8. written[p.id] = 0
  BY <1>1, <1>2 DEF IInv, Fresh, Packet, Ids
<1>9. Untouched(sl, rIndex)
  BY <1>7, <1>8 DEF IInv, Fresh, Untouched
<1>10. Known(sl, pushed')
  <2> SUFFICES ASSUME NEW i \in Slot, sl[i] # None
               PROVE  sl[i].id <= pushed + 1
    BY <1>2 DEF Known
  <2>1. CASE i = wIndex
    BY <1>1, <1>7, <2>1
  <2>2. CASE i # wIndex
    <3>1. slots[i].id \in Ids /\ slots[i].id < pushed + 1
      BY <1>1, <1>5, <1>7, <2>2, PacketIsNotNone
    <3> QED
      BY <1>1, <1>7, <2>2, <3>1 DEF Ids
  <2> QED
    BY <2>1, <2>2
<1>11. /\ \A j \in Ids : written[j] <= ResendNum + 1
       /\ \A j \in Ids : j > pushed' => written[j] = 0
  BY <1>1, <1>2 DEF IInv, RetryBound, Fresh, Ids
<1>12. CASE status = "idle"
  <2>1. First = None /\ timers = {} /\ awake = FALSE /\ resend = 0
    BY <1>12 DEF IInv, NeverStuck, Fresh, TypeOK
  <2>2. rIndex = wIndex
    BY <2>1 DEF IInv, RingInv, Contiguous, First
  <2>3. sl[rIndex] = p
    BY <1>7, <1>1, <2>2
  <2>4. Drain(sl, rIndex, resend, {}, FALSE, acks)
    BY <1>12, <2>1 DEF PushAccepted
  <2> HIDE DEF sl
  <2> QED
    BY <1>1, <1>2, <1>3, <1>4, <1>6, <1>8, <1>9, <1>10, <1>11, <2>1, <2>3,
       <2>4, DrainInv
<1>13. CASE status # "idle"
  <2>1. /\ slots' = sl
        /\ UNCHANGED <<rIndex, resend, status, timers, awake, acks, written,
                       heard>>
    BY <1>13 DEF PushAccepted
  <2>2. First # None /\ rIndex # wIndex /\ First' = First
    BY <1>1, <1>2, <1>7, <1>13, <2>1 DEF IInv, NeverStuck, First
  <2>3. TypeOK'
    BY <1>2, <1>3, <1>4, <2>1 DEF IInv, TypeOK
  <2>4. RingInv'
    BY <1>6, <2>1 DEF RingInv
  <2>5. NeverStuck'
    BY <2>1, <2>2 DEF IInv, NeverStuck
  <2>6. RetryBound'
    BY <2>1, <2>2 DEF IInv, RetryBound
  <2>7. Fresh'
    <3>1. Ordered(slots, rIndex)'
      BY <1>6, <2>1
    <3>2. Untouched(slots, rIndex)'
      BY <1>9, <2>1 DEF Untouched
    <3>3. Known(slots, pushed)'
      BY <1>10, <2>1
    <3> QED
      BY <1>11, <2>1, <3>1, <3>2, <3>3 DEF IInv, Fresh
  <2> QED
    BY <2>3, <2>4, <2>5, <2>6, <2>7 DEF IInv
<1> QED
  BY <1>12, <1>13

LEMMA TimeoutInv ==
    ASSUME IInv, CompTimeout \/ AckTimeout
    PROVE  IInv'
<1>1. /\ slots \in [Slot -> Packet \cup {None}]
      /\ rIndex \in Slot /\ wIndex \in Slot /\ pushed \in 0..MaxPush
      /\ written \in [Ids -> Nat] /\ heard \in SUBSET Ids
      /\ resend \in 0..ResendNum /\ acks \in Seq(Ids)
  BY DEF IInv, TypeOK
<1>2. wIndex' = wIndex /\ pushed' = pushed
  BY DEF CompTimeout, AckTimeout
<1>3. /\ wIndex' \in Slot /\ pushed' \in 0..MaxPush
      /\ Contiguous(slots, rIndex, wIndex')
      /\ Ordered(slots, rIndex) /\ Untouched(slots, rIndex)
      /\ Known(slots, pushed')
      /\ \A k \in Ids : written[k] <= ResendNum + 1
      /\ \A k \in Ids : k > pushed' => written[k] = 0
  BY <1>1, <1>2 DEF IInv, RingInv, RetryBound, Fresh
<1>4. CASE CompTimeout
  <2>1. First # None /\ First.kind # "event" /\ timers = {"comp"}
    BY <1>4 DEF IInv, NeverStuck, CompTimeout
  <2>2. awake = FALSE /\ resend = 0
    BY <2>1 DEF IInv, NeverStuck, Fresh, TypeOK
  <2>3. Drain(slots, rIndex, resend, {}, FALSE, acks)
    BY <1>4, <2>1, <2>2 DEF CompTimeout
  <2> QED
    BY <1>1, <1>3, <2>1, <2>2, <2>3, DrainInv DEF First
<1>5. CASE AckTimeout /\ resend + 1 > ResendNum
  BY <1>1, <1>2, <1>5, PopNextInv DEF AckTimeout
<1>6. CASE AckTimeout /\ ~(resend + 1 > ResendNum)
  <2>1. /\ First # None /\ First.kind = "event" /\ timers = {"ack"}
        /\ written[First.id] = resend + 1
    BY <1>6 DEF IInv, NeverStuck, RetryBound, AckTimeout
  <2>2. Drain(slots, rIndex, resend + 1, {}, FALSE, acks)
    BY <1>6, <2>1 DEF AckTimeout
  <2>3. resend + 1 \in 0..ResendNum
    BY <1>1, <1>6, ResendNumAssumption
  <2> QED
    BY <1>1, <1>3, <2>1, <2>2, <2>3, DrainInv DEF First
<1> QED
  BY <1>4, <1>5, <1>6

LEMMA StepInv == IInv /\ [Next]_vars => IInv'
<1> SUFFICES ASSUME IInv, [Next]_vars
             PROVE  IInv'
  OBVIOUS
<1>1. ASSUME NEW k \in Kinds, PushAccepted(k)
      PROVE  IInv'
  BY <1>1, PushInv
<1>2. CASE UNCHANGED vars
  BY <1>2 DEF vars, queueVars, IInv, TypeOK, RingInv, NeverStuck, RetryBound,
              Fresh, Untouched, First
<1>3. CASE PushRefused
  BY <1>2, <1>3 DEF PushRefused
<1>4. CASE RecvAck
  <2>1. Tail(acks) \in Seq(Ids)
    BY <1>4, HeadTailProperties DEF RecvAck, IInv, TypeOK
  <2> QED
    BY <1>4, <2>1, PopNextInv DEF RecvAck
<1>5. CASE LoseAck
  <2>1. acks' \in Seq(Ids)
    BY <1>5, HeadTailProperties DEF LoseAck, IInv, TypeOK
  <2> QED
    BY <1>5, <2>1 DEF LoseAck, queueVars, IInv, TypeOK, RingInv, NeverStuck,
                      RetryBound, Fresh, Untouched, First
<1>6. CASE CompTimeout \/ AckTimeout
  BY <1>6, TimeoutInv
<1> QED
  BY <1>1, <1>2, <1>3, <1>4, <1>5, <1>6 DEF Next

(* The inductive invariant holds in every state of the queue. *)
THEOREM Inductive == Spec => []IInv
<1>1. Init => IInv
  BY InitInv
<1>2. IInv /\ [Next]_vars => IInv'
  BY StepInv
<1> QED
  BY <1>1, <1>2, PTL DEF Spec

(* Type correctness: in particular the indices never leave the ring and the *)
(* resend count never passes the limit.                                     *)
THEOREM TypeCorrect == Spec => []TypeOK
<1>1. IInv => TypeOK
  BY DEF IInv
<1> QED
  BY <1>1, Inductive, PTL

(* The active slots are always those from the read to the write index.      *)
THEOREM RingIsContiguous == Spec => []RingInv
<1>1. IInv => RingInv
  BY DEF IInv
<1> QED
  BY <1>1, Inductive, PTL

(* A waiting packet always has its timer, an empty queue never has one, and *)
(* deep sleep is blocked exactly while an acknowledgement is awaited.       *)
THEOREM QueueNeverStuck == Spec => []NeverStuck
<1>1. IInv => NeverStuck
  BY DEF IInv
<1> QED
  BY <1>1, Inductive, PTL

(* No event is written more often than the retry limit allows, however late *)
(* acknowledgements arrive and whichever packet they discard.               *)
THEOREM RetriesAreBounded == Spec => []RetryBound
<1>1. IInv => RetryBound
  BY DEF IInv
<1> QED
  BY <1>1, Inductive, PTL
-----------------------------------------------------------------------------
(***************************************************************************)
(* The ring implements the queue PacketFifo.                                *)
(***************************************************************************)
LEMMA QueueIs ==
    /\ Queue = QueueOf(slots, rIndex, LengthOf(slots, rIndex, wIndex))
    /\ Queue' = QueueOf(slots', rIndex', LengthOf(slots', rIndex', wIndex'))
  BY DEF Queue, QueueOf, LengthOf, Plus, Dist, None

(* Serving the ring lets packets go from its head. *)
LEMMA DrainQueue ==
    ASSUME NEW sl, NEW r \in Slot, NEW rc, NEW tm, NEW aw,
           NEW ak, NEW c \in 0..QueueNo, Filled(sl, r, wIndex', c), IInv',
           Drain(sl, r, rc, tm, aw, ak)
    PROVE  \E n \in 0..c : Queue' = After(QueueOf(sl, r, c), n)
<1>1. PICK n \in 0..QueueNo :
         /\ Passes(sl, r, n)
         /\ slots' = Without(sl, r, n)
         /\ rIndex' = Plus(r, n)
  BY DEF Drain
<1>2. n \in 0..c
  <2>1. \A i \in 0..n - 1 : sl[Plus(r, i)] # None
    BY <1>1, NoneFields DEF Passes
  <2> QED
    BY <1>1, <2>1, HeadsAreFilled, QueueNoAssumption
<1>3. PICK d \in Nat : d = c - n
  BY <1>2
<1>4. /\ Filled(slots', rIndex', wIndex', d)
      /\ QueueOf(slots', rIndex', d) = After(QueueOf(sl, r, c), n)
  BY <1>1, <1>2, <1>3, CutQueue
<1>5. rIndex' \in Slot /\ wIndex' \in Slot
      /\ Contiguous(slots', rIndex', wIndex')
  BY DEF IInv, TypeOK, RingInv
<1>6. d = LengthOf(slots', rIndex', wIndex')
  BY <1>4, <1>5, ContiguousFilled, FilledOnce
<1> QED
  BY <1>2, <1>4, <1>6, QueueIs

LEMMA QueueFilled ==
    ASSUME IInv
    PROVE  \E c \in 0..QueueNo :
              /\ Filled(slots, rIndex, wIndex, c)
              /\ Queue = QueueOf(slots, rIndex, c)
              /\ IsQueue(Queue, c)
<1>1. Filled(slots, rIndex, wIndex, LengthOf(slots, rIndex, wIndex))
  BY ContiguousFilled DEF IInv, TypeOK, RingInv
<1> QED
  BY <1>1, QueueIs, QueueNoAssumption DEF QueueOf, Filled, IsQueue

LEMMA PopNextQueue ==
    ASSUME IInv, IInv', NEW ak, PopNext(ak), UNCHANGED <<wIndex, pushed>>
    PROVE  Fifo!Leave
<1>1. PICK c \in 0..QueueNo :
         /\ Filled(slots, rIndex, wIndex, c)
         /\ Queue = QueueOf(slots, rIndex, c)
         /\ IsQueue(Queue, c)
  BY QueueFilled
<1>2. PICK n, r, sl, rc, tm, aw :
         /\ n \in 0..1 /\ r \in Slot
         /\ n = 1 => First # None
         /\ r = Plus(rIndex, n)
         /\ sl = Without(slots, rIndex, n)
         /\ Drain(sl, r, rc, tm, aw, ak)
  <2> DEFINE n0 == IF First = None THEN 0 ELSE 1
             r0 == IF First = None THEN rIndex ELSE Plus(rIndex, 1)
             sl0 == [slots EXCEPT ![rIndex] = None]
  <2>1. n0 \in 0..1 /\ r0 \in Slot /\ r0 = Plus(rIndex, n0)
        /\ sl0 = Without(slots, rIndex, n0)
    BY HeadCut
  <2>2. Drain(sl0, r0, 0, {}, FALSE, ak)
    BY DEF PopNext
  <2>3. n0 = 1 => First # None
    OBVIOUS
  <2> HIDE DEF n0, r0, sl0
  <2> QED
    BY <2>1, <2>2, <2>3, Zenon
<1>3. rIndex \in Slot /\ wIndex' = wIndex
  BY DEF IInv, TypeOK
<1>4. n \in 0..c
  <2>1. Dist(rIndex, rIndex) = 0
    BY <1>3, DistType
  <2> QED
    BY <1>1, <1>2, <1>3, <2>1 DEF Filled, First
<1>5. PICK d \in Nat : d = c - n /\ d \in 0..QueueNo
  BY <1>4, QueueNoAssumption
<1>6. /\ Filled(sl, r, wIndex', d)
      /\ QueueOf(sl, r, d) = After(Queue, n)
  <2>1. /\ Filled(Without(slots, rIndex, n), Plus(rIndex, n), wIndex, d)
        /\ QueueOf(Without(slots, rIndex, n), Plus(rIndex, n), d)
              = After(QueueOf(slots, rIndex, c), n)
    BY <1>1, <1>3, <1>4, <1>5, CutQueue
  <2> QED
    BY <1>1, <1>2, <1>3, <2>1
<1>7. PICK m \in 0..d : Queue' = After(After(Queue, n), m)
  <2>1. \E m \in 0..d : Queue' = After(QueueOf(sl, r, d), m)
    BY <1>2, <1>5, <1>6, DrainQueue
  <2> QED
    BY <1>6, <2>1
<1>8. Queue' = After(Queue, n + m) /\ Len(Queue) = c
  BY <1>1, <1>4, <1>5, <1>7, AfterAfter, AfterNone
<1>9. n + m \in 0..Len(Queue)
  BY <1>1, <1>4, <1>5, <1>8
<1> QED
  BY <1>8, <1>9 DEF Fifo!Leave, Fifo!Rest, After

LEMMA DrainLeaves ==
    ASSUME IInv, IInv', NEW rc, NEW tm, NEW aw, NEW ak,
           Drain(slots, rIndex, rc, tm, aw, ak), UNCHANGED <<wIndex, pushed>>
    PROVE  Fifo!Leave
<1>1. PICK c \in 0..QueueNo :
         /\ Filled(slots, rIndex, wIndex, c)
         /\ Queue = QueueOf(slots, rIndex, c)
         /\ IsQueue(Queue, c)
  BY QueueFilled
<1>2. PICK n \in 0..c : Queue' = After(Queue, n)
  <2>1. rIndex \in Slot /\ wIndex' = wIndex
    BY DEF IInv, TypeOK
  <2>2. Filled(slots, rIndex, wIndex', c)
    BY <1>1, <2>1
  <2>3. \E n \in 0..c : Queue' = After(QueueOf(slots, rIndex, c), n)
    BY <2>1, <2>2, DrainQueue
  <2> QED
    BY <1>1, <2>3
<1>3. Len(Queue) = c
  BY <1>1, AfterNone
<1> QED
  BY <1>2, <1>3 DEF Fifo!Leave, Fifo!Rest, After

LEMMA PushQueue ==
    ASSUME IInv, IInv', NEW k \in Kinds, PushAccepted(k)
    PROVE  Fifo!Put
<1>1. PICK c \in 0..QueueNo :
         /\ Filled(slots, rIndex, wIndex, c)
         /\ Queue = QueueOf(slots, rIndex, c)
         /\ IsQueue(Queue, c)
  BY QueueFilled
<1>2. /\ rIndex \in Slot /\ wIndex \in Slot /\ pushed \in 0..MaxPush
      /\ slots \in [Slot -> Packet \cup {None}]
  BY DEF IInv, TypeOK
<1>3. /\ slots[wIndex] = None
      /\ wIndex' = Plus(wIndex, 1)
      /\ pushed' = pushed + 1
  BY DEF PushAccepted
<1>4. PICK p \in Packet : p = [id |-> pushed + 1, kind |-> k]
  BY <1>2, MaxPushAssumption DEF PushAccepted, Packet, Ids
<1>5. p # None /\ p.id = pushed' /\ DOMAIN slots = Slot
  BY <1>2, <1>3, <1>4, PacketIsNotNone
<1>6. PICK d \in Nat : d = c + 1
  BY <1>1
<1>7. /\ c < QueueNo
      /\ Filled(Store(slots, wIndex, p), rIndex, wIndex', d)
      /\ QueueOf(Store(slots, wIndex, p), rIndex, d) = Joined(Queue, p)
      /\ d \in 0..QueueNo
  <2>1. p # None /\ DOMAIN slots = Slot
    BY <1>5
  <2> QED
    BY <1>1, <1>2, <1>3, <1>6, <2>1, StoreQueue
<1>8. Len(Queue) = c
  BY <1>1, AfterNone
<1>9. \E n \in 0..d : Queue' = After(Joined(Queue, p), n)
  <2>1. CASE status = "idle"
    <3>1. Drain(Store(slots, wIndex, p), rIndex, resend, timers, awake, acks)
      BY <1>4, <2>1 DEF PushAccepted, Store
    <3>2. \E n \in 0..d : Queue' = After(QueueOf(Store(slots, wIndex, p), rIndex, d), n)
      BY <1>2, <1>7, <3>1, DrainQueue
    <3> QED
      BY <1>7, <3>2
  <2>2. CASE status # "idle"
    <3>1. slots' = Store(slots, wIndex, p) /\ rIndex' = rIndex
      BY <1>4, <2>2 DEF PushAccepted, Store
    <3>2. d = LengthOf(slots', rIndex', wIndex')
      <4>1. Contiguous(slots', rIndex', wIndex') /\ wIndex' \in Slot
        BY DEF IInv, TypeOK, RingInv
      <4> QED
        BY <1>2, <1>7, <3>1, <4>1, ContiguousFilled, FilledOnce
    <3>3. Queue' = Joined(Queue, p)
      BY <1>7, <3>1, <3>2, QueueIs
    <3>4. IsQueue(Joined(Queue, p), d)
      BY <1>7 DEF QueueOf, IsQueue
    <3>5. After(Joined(Queue, p), 0) = Joined(Queue, p)
      BY <3>4, AfterNone
    <3> QED
      BY <1>6, <3>3, <3>5
  <2> QED
    BY <2>1, <2>2
<1> QED
  BY <1>3, <1>5, <1>6, <1>7, <1>8, <1>9 DEF Fifo!Put, Fifo!Rest, After, Joined

LEMMA InitQueue == Init => Fifo!Init
<1> SUFFICES ASSUME Init
             PROVE  Fifo!Init
  OBVIOUS
<1>1. LengthOf(slots, rIndex, wIndex) = 0
  BY QueueNoAssumption DEF Init, LengthOf, Slot
<1>2. QueueOf(slots, rIndex, 0) = <<>>
  BY DEF QueueOf
<1>3. Queue = <<>>
  BY <1>1, <1>2 DEF Queue
<1> QED
  BY <1>3 DEF Fifo!Init, Init

LEMMA StepQueue == IInv /\ IInv' /\ [Next]_vars => [Fifo!Next]_(Fifo!vars)
<1> SUFFICES ASSUME IInv, IInv', [Next]_vars
             PROVE  Fifo!Leave \/ Fifo!Put \/ UNCHANGED Fifo!vars
  BY DEF Fifo!Next
<1>1. ASSUME NEW k \in Kinds, PushAccepted(k)
      PROVE  Fifo!Put
  BY <1>1, PushQueue
<1>2. CASE UNCHANGED queueVars /\ UNCHANGED pushed
  BY <1>2, QueueIs DEF queueVars, Fifo!vars
<1>3. CASE UNCHANGED vars \/ PushRefused \/ LoseAck
  BY <1>2, <1>3 DEF vars, queueVars, PushRefused, LoseAck
<1>4. CASE RecvAck
  BY <1>4, PopNextQueue DEF RecvAck
<1>5. CASE CompTimeout
  BY <1>5, DrainLeaves DEF CompTimeout
<1>6. CASE AckTimeout
  BY <1>6, PopNextQueue, DrainLeaves DEF AckTimeout
<1> QED
  BY <1>1, <1>3, <1>4, <1>5, <1>6 DEF Next

(* The transmit queue is a queue: whatever the order of pushes, acks and    *)
(* timeouts, packets leave in the order in which they were pushed, and none *)
(* is put in over another.                                                  *)
THEOREM RingIsFifo == Spec => ImplementsFifo
<1>1. Init => Fifo!Init
  BY InitQueue
<1>2. IInv /\ IInv' /\ [Next]_vars => [Fifo!Next]_(Fifo!vars)
  BY StepQueue
<1> QED
  BY <1>1, <1>2, Inductive, PTL DEF Spec, ImplementsFifo, Fifo!Spec
-----------------------------------------------------------------------------
(***************************************************************************)
(* NoSilentLoss needs to know whose acknowledgement is under way.  When     *)
(* acknowledgements come before the timer, it is that of the head.          *)
(***************************************************************************)
AckIsForHead ==
    \/ acks = <<>>
    \/ /\ acks = <<First.id>>
       /\ First.kind = "event"
       /\ First.id \in heard

PromptInv == IInv /\ AckIsForHead

(* What leaves the ring while it is served was taken by the console.        *)
LEMMA DrainPrompt ==
    ASSUME NEW sl, NEW r \in Slot, NEW rc, NEW tm, NEW aw,
           Drain(sl, r, rc, tm, aw, <<>>)
    PROVE  /\ AckIsForHead'
           /\ \A i \in Slot : slots'[i] # sl[i] =>
                 sl[i].kind = "map" \/ sl[i].id \in heard'
<1>1. PICK n \in 0..QueueNo :
         /\ Passes(sl, r, n)
         /\ slots' = [i \in Slot |-> IF Dist(r, i) < n THEN None ELSE sl[i]]
         /\ \/ /\ acks' = <<>>
               /\ heard' = heard \cup
                    {p.id : p \in {q \in Gone(sl, r, n) : q.kind = "once"}}
            \/ /\ First'.kind = "event"
               /\ acks' = Append(<<>>, First'.id)
               /\ heard' = heard \cup
                    {p.id : p \in {q \in Gone(sl, r, n) : q.kind = "once"}}
                    \cup {First'.id}
  BY DEF Drain, AwaitAck, Without
<1>2. AckIsForHead'
  <2>1. Append(<<>>, First'.id) = <<First'.id>>
    OBVIOUS
  <2> QED
    BY <1>1, <2>1 DEF AckIsForHead
<1>3. ASSUME NEW i \in Slot, slots'[i] # sl[i]
      PROVE  sl[i].kind = "map" \/ sl[i].id \in heard'
  <2>1. Dist(r, i) < n
    BY <1>1, <1>3
  <2>2. Dist(r, i) \in 0..n - 1 /\ sl[Plus(r, Dist(r, i))] = sl[i]
    <3>1. /\ Dist(r, i) \in 0..QueueNo - 1
          /\ Plus(r, Dist(r, i)) = i
      BY DistType DEF Slot
    <3> QED
      BY <2>1, <3>1, QueueNoAssumption
  <2>3. sl[i].kind \in {"once", "map"}
    BY <1>1, <2>2 DEF Passes
  <2>4. sl[i] \in Gone(sl, r, n)
    BY <2>2 DEF Gone
  <2>5. sl[i].kind = "once" => sl[i].id \in heard'
    BY <1>1, <2>4
  <2> QED
    BY <2>3, <2>5
<1> QED
  BY <1>2, <1>3

Loss == \A i \in Slot : slots[i] # None /\ slots'[i] # slots[i]
           => Justified(slots[i], heard', written)

(* Discarding the head is a loss unless it was heard or has no retries left. *)
LEMMA PopNextPrompt ==
    ASSUME IInv, PopNext(<<>>), heard \subseteq heard',
           First # None => Justified(First, heard', written)
    PROVE  AckIsForHead' /\ Loss
<1> DEFINE sl == [slots EXCEPT ![rIndex] = None]
           r == IF First = None THEN rIndex ELSE Plus(rIndex, 1)
<1>1. r \in Slot
  BY HeadCut
<1>2. Drain(sl, r, 0, {}, FALSE, <<>>)
  BY DEF PopNext
<1>3. \A i \in Slot : i # rIndex => sl[i] = slots[i]
  BY DEF IInv, TypeOK
<1> HIDE DEF sl, r
<1>4. /\ AckIsForHead'
      /\ \A i \in Slot : slots'[i] # sl[i] =>
            sl[i].kind = "map" \/ sl[i].id \in heard'
  BY <1>1, <1>2, DrainPrompt, Zenon
<1>5. ASSUME NEW i \in Slot, slots[i] # None, slots'[i] # slots[i]
      PROVE  Justified(slots[i], heard', written)
  <2>1. CASE i = rIndex
    BY <1>5, <2>1 DEF First
  <2>2. CASE i # rIndex
    BY <1>3, <1>4, <1>5, <2>2 DEF Justified
  <2> QED
    BY <2>1, <2>2
<1> QED
  BY <1>4, <1>5 DEF Loss

LEMMA HeardGrows == IInv /\ [Next]_vars => heard \subseteq heard'
<1> SUFFICES ASSUME IInv, [Next]_vars
             PROVE  heard \subseteq heard'
  OBVIOUS
<1>1. ASSUME NEW sl, NEW r, NEW rc, NEW tm, NEW aw, NEW ak,
             Drain(sl, r, rc, tm, aw, ak)
      PROVE  heard \subseteq heard'
  BY <1>1 DEF Drain
<1>2. ASSUME NEW k \in Kinds, PushAccepted(k)
      PROVE  heard \subseteq heard'
  BY <1>1, <1>2, Zenon DEF PushAccepted
<1>3. ASSUME NEW ak, PopNext(ak)
      PROVE  heard \subseteq heard'
  BY <1>1, <1>3, Zenon DEF PopNext
<1>4. CASE RecvAck \/ CompTimeout \/ AckTimeout
  BY <1>1, <1>3, <1>4, Zenon DEF RecvAck, CompTimeout, AckTimeout
<1>5. CASE PushRefused \/ LoseAck \/ UNCHANGED vars
  BY <1>5 DEF PushRefused, LoseAck, vars
<1> QED
  BY <1>2, <1>4, <1>5 DEF Next

LEMMA StepPrompt ==
    ASSUME LateAcks = FALSE, PromptInv, [Next]_vars
    PROVE  AckIsForHead' /\ Loss
<1> USE DEF PromptInv
<1>1. heard \subseteq heard'
  BY HeardGrows
<1>2. First = slots[rIndex] /\ rIndex \in Slot
  BY DEF First, IInv, TypeOK
<1>3. ASSUME NEW rc, NEW tm, NEW aw, Drain(slots, rIndex, rc, tm, aw, <<>>)
      PROVE  AckIsForHead' /\ Loss
  <2>1. /\ AckIsForHead'
        /\ \A i \in Slot : slots'[i] # slots[i] =>
              slots[i].kind = "map" \/ slots[i].id \in heard'
    BY <1>2, <1>3, DrainPrompt, Zenon
  <2> QED
    BY <2>1 DEF Loss, Justified
<1>4. ASSUME NEW k \in Kinds, PushAccepted(k)
      PROVE  AckIsForHead' /\ Loss
  <2>1. PICK p : p = [id |-> pushed + 1, kind |-> k]
    OBVIOUS
  <2>2. slots[wIndex] = None /\ wIndex \in Slot
        /\ slots \in [Slot -> Packet \cup {None}]
    BY <1>4 DEF PushAccepted, IInv, TypeOK
  <2>3. \A i \in Slot : slots[i] # None => Store(slots, wIndex, p)[i] = slots[i]
    BY <2>2 DEF Store
  <2>4. CASE status = "idle"
    <3>1. acks = <<>>
      <4>1. First = None
        BY <2>4 DEF IInv, NeverStuck
      <4> QED
        BY <4>1 DEF AckIsForHead, None
    <3>2. Drain(Store(slots, wIndex, p), rIndex, resend, timers, awake, <<>>)
      BY <1>4, <2>1, <2>4, <3>1 DEF PushAccepted, Store
    <3>3. /\ AckIsForHead'
          /\ \A i \in Slot : slots'[i] # Store(slots, wIndex, p)[i] =>
                \/ Store(slots, wIndex, p)[i].kind = "map"
                \/ Store(slots, wIndex, p)[i].id \in heard'
      BY <1>2, <3>2, DrainPrompt, Zenon
    <3> QED
      BY <2>3, <3>3 DEF Loss, Justified
  <2>5. CASE status # "idle"
    <3>1. slots' = Store(slots, wIndex, p)
          /\ UNCHANGED <<rIndex, acks, heard>>
      BY <1>4, <2>1, <2>5 DEF PushAccepted, Store
    <3>2. First # None
      BY <2>5 DEF IInv, NeverStuck
    <3>3. First' = First
      BY <1>2, <2>3, <3>1, <3>2 DEF First
    <3> QED
      BY <2>3, <3>1, <3>3 DEF Loss, AckIsForHead
  <2> QED
    BY <2>4, <2>5
<1>5. CASE RecvAck
  <2>1. /\ acks = <<First.id>> /\ First.kind = "event" /\ First.id \in heard
    BY <1>5 DEF RecvAck, AckIsForHead
  <2>2. Tail(acks) = <<>>
    BY <2>1
  <2>3. PopNext(<<>>)
    BY <1>5, <2>2 DEF RecvAck
  <2>4. Justified(First, heard', written)
    BY <1>1, <2>1 DEF Justified
  <2> QED
    BY <1>1, <2>3, <2>4, PopNextPrompt
<1>6. CASE LoseAck
  <2>1. acks = <<First.id>>
    BY <1>6 DEF LoseAck, AckIsForHead
  <2>2. acks' = <<>>
    BY <1>6, <2>1 DEF LoseAck
  <2>3. slots' = slots
    BY <1>6 DEF LoseAck, queueVars
  <2> QED
    BY <2>2, <2>3 DEF Loss, AckIsForHead
<1>7. CASE CompTimeout
  <2>1. First.kind # "event"
    BY <1>7 DEF CompTimeout, IInv, NeverStuck, None
  <2>2. acks = <<>>
    BY <2>1 DEF AckIsForHead
  <2> QED
    BY <1>3, <1>7, <2>2, Zenon DEF CompTimeout
<1>8. CASE AckTimeout
  <2>1. acks = <<>>
    BY <1>8 DEF AckTimeout
  <2>2. CASE resend + 1 > ResendNum
    <3>1. written[First.id] > ResendNum /\ (First # None => First.kind = "event")
      BY <1>8, <2>2 DEF AckTimeout, IInv, RetryBound, NeverStuck
    <3>2. PopNext(<<>>)
      BY <1>8, <2>1, <2>2 DEF AckTimeout
    <3> QED
      BY <1>1, <3>1, <3>2, PopNextPrompt DEF Justified
  <2>3. CASE ~(resend + 1 > ResendNum)
    BY <1>3, <1>8, <2>1, <2>3, Zenon DEF AckTimeout
  <2> QED
    BY <2>2, <2>3
<1>9. CASE PushRefused \/ UNCHANGED vars
  BY <1>9 DEF PushRefused, vars, queueVars, Loss, AckIsForHead, First
<1> QED
  BY <1>4, <1>5, <1>6, <1>7, <1>8, <1>9 DEF Next

(* When acknowledgements come before their timer, a packet leaves the ring  *)
(* only when the host heard it, the console took it, or its retries are     *)
(* used up, as app_transfer.h promises.  (With late ones TLC shows that it  *)
(* does not hold.)                                                          *)
THEOREM PromptAcksLoseNothing ==
    ASSUME LateAcks = FALSE
    PROVE  Spec => NoSilentLoss
<1>1. Init => AckIsForHead
  BY DEF Init, AckIsForHead
<1>2. PromptInv /\ [Next]_vars => AckIsForHead' /\ Loss
  BY StepPrompt
<1>3. IInv /\ AckIsForHead /\ [Next]_vars => AckIsForHead' /\ [Loss]_vars
  BY <1>2 DEF PromptInv
<1> QED
  BY <1>1, <1>3, Inductive, PTL DEF Spec, NoSilentLoss, Loss
=============================================================================
