------------------------- MODULE DataTransferProofs -------------------------
(***************************************************************************)
(* Safety of the data transfer ring for every ring size, resend limit and   *)
(* set of links: types with everything the surroundings may do, order and   *)
(* progress with all but pushes into a full ring, and that no packet is     *)
(* lost unsent when they are calm.                                          *)
(***************************************************************************)
EXTENDS DataTransfer, RingProofs, FiniteSetTheorems, SequenceTheorems,
        WellFoundedInduction

(***************************************************************************)
(* The variables that a handler changes step by step, as one record; and    *)
(* what holds of it throughout, whatever is put into the ring: an ack timer *)
(* runs only for a waiting transmitter, which always has a packet.          *)
(***************************************************************************)
Rec == [slots : [Slot -> Packet \cup {None}],
        r : Slot,
        resend : 0..ResendNum - 1,
        status : {"idle", "active"},
        timer : {"off", "send", "ack"},
        credit : [SppLinks -> 0..MaxCredit],
        handed : [LeLinks -> Seq(Ids)],
        answers : [Links -> Seq(Events)],
        sent : [Ids -> Nat]]

Waits(q) ==
    /\ q.timer = "ack" => q.status = "active"
    /\ q.status = "active" => HeadOf(q) # None

TypeInv == TypeOK /\ Waits(Now)

-----------------------------------------------------------------------------
LEMMA PacketIs ==
    ASSUME NEW p \in Packet
    PROVE  /\ p # None
           /\ p.id \in Ids /\ p.link \in Links /\ p.event \in Kinds
  BY NoneFields DEF Packet, Ids

LEMMA NoneIsNowhere ==
    /\ None \notin Packet
    /\ None.link \notin SppLinks
    /\ None.link \notin LeLinks
    /\ None.event \notin Kinds
  BY NoneFields, PacketIs, LinksAssumption, EventsAssumption DEF Kinds

LEMMA HeadIs ==
    ASSUME NEW q \in Rec
    PROVE  HeadOf(q) = None \/ HeadOf(q) \in Packet
  BY DEF Rec, HeadOf

LEMMA NowIs ==
    ASSUME NEW q \in Rec, Becomes(q)
    PROVE  Now' = q
  BY DEF Rec, Becomes, Now

LEMMA NowTyped == TypeOK => Now \in Rec
  BY DEF TypeOK, Now, Rec

(* The head leaves. *)
LEMMA DropIs ==
    ASSUME NEW q \in Rec
    PROVE  /\ Drop(q) \in Rec
           /\ Drop(q).slots = Without(q.slots, q.r, 1)
           /\ Drop(q).r = Plus(q.r, 1)
           /\ Drop(q).resend = q.resend /\ Drop(q).status = q.status
           /\ Drop(q).timer = q.timer /\ Drop(q).credit = q.credit
           /\ Drop(q).handed = q.handed /\ Drop(q).answers = q.answers
           /\ Drop(q).sent = q.sent
<1>1. q.slots \in [Slot -> Packet \cup {None}] /\ q.r \in Slot
  BY DEF Rec
<1>2. Plus(q.r, 1) \in Slot
  BY <1>1, PlusType, QueueNoAssumption
<1>3. [q.slots EXCEPT ![q.r] = None] = Without(q.slots, q.r, 1)
  <2>1. \A i \in Slot : Dist(q.r, i) < 1 <=> i = q.r
    <3> SUFFICES ASSUME NEW i \in Slot
                 PROVE  Dist(q.r, i) < 1 <=> i = q.r
      OBVIOUS
    <3>1. Dist(q.r, i) \in Slot /\ (Dist(q.r, i) = 0 <=> q.r = i)
      BY <1>1, DistType
    <3> QED
      BY <3>1 DEF Slot
  <2> QED
    BY <1>1, <2>1 DEF Without
<1>4. Without(q.slots, q.r, 1) \in [Slot -> Packet \cup {None}]
  BY <1>1 DEF Without
<1>5. PICK sl, r : /\ sl \in [Slot -> Packet \cup {None}] /\ r \in Slot
                   /\ sl = Without(q.slots, q.r, 1) /\ r = Plus(q.r, 1)
  BY <1>2, <1>4, Zenon
<1> DEFINE d == [q EXCEPT !.slots = sl, !.r = r]
<1>6. /\ d \in Rec
      /\ d.slots = sl /\ d.r = r
      /\ d.resend = q.resend /\ d.status = q.status
      /\ d.timer = q.timer /\ d.credit = q.credit
      /\ d.handed = q.handed /\ d.answers = q.answers
      /\ d.sent = q.sent
  BY <1>5 DEF Rec
<1>7. Drop(q) = [q EXCEPT !.slots = [q.slots EXCEPT ![q.r] = None],
                          !.r = Plus(q.r, 1)]
  BY DEF Drop
<1> QED
  BY <1>3, <1>5, <1>6, <1>7, Zenon

(* A packet is taken. *)
LEMMA CountOneMore ==
    ASSUME NEW f \in [Ids -> Nat], NEW k \in Ids
    PROVE  \E g \in [Ids -> Nat] :
              /\ g = [f EXCEPT ![k] = f[k] + 1]
              /\ g[k] = f[k] + 1
              /\ \A j \in Ids : j # k => g[j] = f[j]
<1> DEFINE g == [f EXCEPT ![k] = f[k] + 1]
<1>1. /\ g \in [Ids -> Nat]
      /\ g[k] = f[k] + 1
      /\ \A j \in Ids : j # k => g[j] = f[j]
  OBVIOUS
<1> QED
  BY <1>1

Paid(q, l, i) == [q EXCEPT !.credit[l] = @ - 1, !.sent[i] = @ + 1]

LEMMA PaidIs ==
    ASSUME NEW q \in Rec, NEW l \in SppLinks, NEW i \in Ids, q.credit[l] > 0
    PROVE  /\ Paid(q, l, i) \in Rec
           /\ Paid(q, l, i).slots = q.slots /\ Paid(q, l, i).r = q.r
           /\ Paid(q, l, i).resend = q.resend
           /\ Paid(q, l, i).status = q.status
           /\ Paid(q, l, i).timer = q.timer
           /\ Paid(q, l, i).sent[i] = q.sent[i] + 1
           /\ \A j \in Ids : j # i => Paid(q, l, i).sent[j] = q.sent[j]
<1>1. q.credit \in [SppLinks -> 0..MaxCredit] /\ q.sent \in [Ids -> Nat]
  BY DEF Rec
<1>2. PICK c \in [SppLinks -> 0..MaxCredit] :
         c = [q.credit EXCEPT ![l] = q.credit[l] - 1]
  <2>1. q.credit[l] - 1 \in 0..MaxCredit
    <3>1. q.credit[l] \in 0..MaxCredit
      BY <1>1
    <3> QED
      BY <3>1, BoundsAssumption
  <2> QED
    BY <1>1, <2>1
<1>3. PICK s \in [Ids -> Nat] :
         /\ s = [q.sent EXCEPT ![i] = q.sent[i] + 1]
         /\ s[i] = q.sent[i] + 1
         /\ \A j \in Ids : j # i => s[j] = q.sent[j]
  BY <1>1, CountOneMore
<1>4. [q EXCEPT !.credit[l] = @ - 1, !.sent[i] = @ + 1]
         = [q EXCEPT !.credit = c, !.sent = s]
  BY <1>2, <1>3 DEF Rec
<1> DEFINE paid == [q EXCEPT !.credit = c, !.sent = s]
<1>5. /\ paid \in Rec
      /\ paid.slots = q.slots /\ paid.r = q.r
      /\ paid.resend = q.resend /\ paid.status = q.status
      /\ paid.timer = q.timer
      /\ paid.sent = s
  BY DEF Rec
<1>6. Paid(q, l, i) = paid
  BY <1>4 DEF Paid
<1> HIDE DEF paid
<1> QED
  BY <1>3, <1>5, <1>6

-----------------------------------------------------------------------------
(***************************************************************************)
(* What serving the head may do to q, an idle transmitter's record: the     *)
(* head stays and the transmitter waits with the ack timer running, stays   *)
(* until the LE stack completes an EVENT_ACK, stays and is tried again      *)
(* later, or leaves.                                                        *)
(***************************************************************************)
Stays(q, q2) ==
    /\ q2.slots = q.slots /\ q2.r = q.r /\ q2.resend = q.resend
    /\ HeadOf(q) \in Packet
    /\ \A i \in Ids : i # HeadOf(q).id => q2.sent[i] = q.sent[i]

AwaitsAck(q, q2) ==
    /\ Stays(q, q2)
    /\ q2.status = "active" /\ q2.timer = "ack"
    /\ q2.sent[HeadOf(q).id] \in {q.sent[HeadOf(q).id], q.sent[HeadOf(q).id] + 1}

AwaitsCompletion(q, q2) ==
    /\ Stays(q, q2)
    /\ q2.status = "active" /\ q2.timer = q.timer
    /\ HeadOf(q).event = "ack" /\ HeadOf(q).link \in LeLinks
    /\ \E k \in DOMAIN q2.handed[HeadOf(q).link] :
          q2.handed[HeadOf(q).link][k] = HeadOf(q).id

TriesAgain(q, q2) ==
    /\ Stays(q, q2)
    /\ q2.status = q.status /\ q2.timer = "send" /\ q2.sent = q.sent

Leaves(q, q2) ==
    /\ HeadOf(q) \in Packet
    /\ q2.slots = Without(q.slots, q.r, 1) /\ q2.r = Plus(q.r, 1)
    /\ q2.resend \in {q.resend, 0}
    /\ q2.status = q.status /\ q2.timer = "send"
    /\ \A i \in Ids : i # HeadOf(q).id => q2.sent[i] = q.sent[i]

Gone(q) ==
    \/ HeadOf(q) = None
    \/ HeadOf(q).link \in SppLinks /\ ~Up(HeadOf(q).link)

Served(q, q2) ==
    \/ q2 = q /\ Gone(q)
    \/ AwaitsAck(q, q2)
    \/ AwaitsCompletion(q, q2)
    \/ TriesAgain(q, q2)
    \/ Leaves(q, q2)

LEMMA TimerIs ==
    ASSUME NEW q \in Rec, NEW st \in {"idle", "active"},
           NEW tm \in {"off", "send", "ack"}
    PROVE  LET q2 == [q EXCEPT !.status = st, !.timer = tm]
           IN  /\ q2 \in Rec
               /\ q2.slots = q.slots /\ q2.r = q.r /\ q2.resend = q.resend
               /\ q2.status = st /\ q2.timer = tm /\ q2.sent = q.sent
               /\ q2.handed = q.handed /\ q2.answers = q.answers
               /\ q2.credit = q.credit
  BY DEF Rec

Answered(q, l, e) == [q EXCEPT !.answers[l] = Append(@, e)]

LEMMA AnswerIs ==
    ASSUME NEW q \in Rec, NEW l \in Links, NEW e \in Events
    PROVE  \E q2 \in Rec :
              /\ q2 = Answered(q, l, e)
              /\ q2.slots = q.slots /\ q2.r = q.r /\ q2.resend = q.resend
              /\ q2.status = q.status /\ q2.timer = q.timer
              /\ q2.sent = q.sent
              /\ q2.handed = q.handed /\ q2.credit = q.credit
<1>1. q.answers \in [Links -> Seq(Events)]
  BY DEF Rec
<1>2. PICK a \in [Links -> Seq(Events)] :
         a = [q.answers EXCEPT ![l] = Append(@, e)]
  <2>1. Append(q.answers[l], e) \in Seq(Events)
    BY <1>1
  <2> QED
    BY <1>1, <2>1
<1> DEFINE q2 == [q EXCEPT !.answers = a]
<1>3. q2 = Answered(q, l, e)
  BY <1>2 DEF Answered
<1>4. /\ q2 \in Rec
      /\ q2.slots = q.slots /\ q2.r = q.r /\ q2.resend = q.resend
      /\ q2.status = q.status /\ q2.timer = q.timer
      /\ q2.sent = q.sent
      /\ q2.handed = q.handed /\ q2.credit = q.credit
  BY DEF Rec
<1> HIDE DEF q2
<1> QED
  BY <1>3, <1>4, Zenon

LEMMA ServeRest ==
    ASSUME NEW q \in Rec, Rest(q)
    PROVE  \E q2 \in Rec : Becomes(q2) /\ Served(q, q2)
  BY DEF Rest, Served, Gone

LEMMA ServeAwaitCredit ==
    ASSUME NEW q \in Rec, AwaitCredit(q)
    PROVE  \E q2 \in Rec : Becomes(q2) /\ Served(q, q2)
<1> DEFINE q2 == [q EXCEPT !.status = "active", !.timer = "ack"]
<1>1. HeadOf(q) \in Packet
  BY HeadIs, NoneIsNowhere DEF AwaitCredit
<1>2. /\ q2 \in Rec
      /\ q2.slots = q.slots /\ q2.r = q.r /\ q2.resend = q.resend
      /\ q2.status = "active" /\ q2.timer = "ack" /\ q2.sent = q.sent
  BY DEF Rec
<1>3. Becomes(q2)
  BY DEF AwaitCredit
<1> HIDE DEF q2
<1>4. AwaitsAck(q, q2)
  BY <1>1, <1>2 DEF AwaitsAck, Stays
<1> QED
  BY <1>2, <1>3, <1>4 DEF Served

(* The head leaves q1, which differs from q in what was paid for it. *)
LEMMA ServeLeaves ==
    ASSUME NEW q \in Rec, NEW q1 \in Rec, HeadOf(q) \in Packet,
           q1.slots = q.slots, q1.r = q.r,
           q1.resend \in {q.resend, 0}, q1.status = q.status,
           \A i \in Ids : i # HeadOf(q).id => q1.sent[i] = q.sent[i]
    PROVE  LET q2 == [Drop(q1) EXCEPT !.timer = "send"]
           IN  q2 \in Rec /\ Leaves(q, q2)
<1>1. /\ Drop(q1) \in Rec
      /\ Drop(q1).slots = Without(q.slots, q.r, 1)
      /\ Drop(q1).r = Plus(q.r, 1)
      /\ Drop(q1).resend = q1.resend /\ Drop(q1).status = q1.status
      /\ Drop(q1).sent = q1.sent
  BY DropIs
<1> DEFINE d == Drop(q1)
           q2 == [d EXCEPT !.timer = "send"]
<1> HIDE DEF d
<1>2. /\ d \in Rec
      /\ d.slots = Without(q.slots, q.r, 1)
      /\ d.r = Plus(q.r, 1)
      /\ d.resend = q1.resend /\ d.status = q1.status
      /\ d.sent = q1.sent
  BY <1>1 DEF d
<1>3. /\ q2 \in Rec /\ q2.timer = "send"
      /\ q2.slots = d.slots /\ q2.r = d.r /\ q2.resend = d.resend
      /\ q2.status = d.status /\ q2.sent = d.sent
  BY <1>2 DEF Rec
<1> HIDE DEF q2
<1>4. q2 \in Rec /\ Leaves(q, q2)
  BY <1>2, <1>3 DEF Leaves
<1> QED
  BY <1>4 DEF q2, d

LEMMA ServeSppTaken ==
    ASSUME NEW q \in Rec, SppTaken(q)
    PROVE  \E q2 \in Rec : Becomes(q2) /\ Served(q, q2)
<1> DEFINE p == HeadOf(q)
           paid == Paid(q, p.link, p.id)
           waits == [paid EXCEPT !.status = "active", !.timer = "ack"]
<1>1. /\ p \in Packet /\ p.link \in SppLinks /\ q.credit[p.link] > 0
      /\ p.id \in Ids /\ p.link \in Links
  BY HeadIs, NoneIsNowhere, PacketIs DEF SppTaken
<1>2. \/ Becomes([Drop(paid) EXCEPT !.timer = "send"])
      \/ Becomes(waits)
      \/ /\ p.event \in Events
         /\ Becomes(Answered(waits, p.link, p.event))
  BY Zenon DEF SppTaken, Paid, Answered
<1>3. /\ paid \in Rec
      /\ paid.slots = q.slots /\ paid.r = q.r
      /\ paid.resend = q.resend /\ paid.status = q.status
      /\ paid.sent[p.id] = q.sent[p.id] + 1
      /\ \A j \in Ids : j # p.id => paid.sent[j] = q.sent[j]
  <2> HIDE DEF p
  <2> QED
    BY <1>1, PaidIs
<1> HIDE DEF paid
<1>4. /\ waits \in Rec
      /\ waits.slots = q.slots /\ waits.r = q.r /\ waits.resend = q.resend
      /\ waits.status = "active" /\ waits.timer = "ack"
      /\ waits.sent = paid.sent
  BY <1>3 DEF Rec
<1> HIDE DEF waits
<1>5. CASE Becomes([Drop(paid) EXCEPT !.timer = "send"])
  <2>1. LET q2 == [Drop(paid) EXCEPT !.timer = "send"]
        IN  q2 \in Rec /\ Leaves(q, q2)
    BY <1>1, <1>3, ServeLeaves
  <2> QED
    BY <1>5, <2>1, Zenon DEF Served
<1>6. CASE Becomes(waits)
  <2>1. AwaitsAck(q, waits)
    BY <1>1, <1>3, <1>4 DEF AwaitsAck, Stays
  <2> QED
    BY <1>4, <1>6, <2>1 DEF Served
<1>7. CASE /\ p.event \in Events
           /\ Becomes(Answered(waits, p.link, p.event))
  <2>1. PICK q2 \in Rec :
           /\ q2 = Answered(waits, p.link, p.event)
           /\ q2.slots = waits.slots /\ q2.r = waits.r
           /\ q2.resend = waits.resend /\ q2.status = waits.status
           /\ q2.timer = waits.timer /\ q2.sent = waits.sent
    <3> HIDE DEF p
    <3> QED
      BY <1>1, <1>4, <1>7, AnswerIs, Zenon
  <2>2. AwaitsAck(q, q2)
    BY <1>1, <1>3, <1>4, <2>1 DEF AwaitsAck, Stays
  <2>3. Becomes(q2)
    BY <1>7, <2>1, Zenon
  <2> QED
    BY <2>1, <2>2, <2>3 DEF Served
<1> QED
  BY <1>2, <1>5, <1>6, <1>7

Due(q, l, i) == \E k \in DOMAIN q.handed[l] : q.handed[l][k] = i

OnlyOne(q, q2, i) == \A j \in Ids : j # i => q2.sent[j] = q.sent[j]

HandedOver(q, l, i, tm) ==
    [q EXCEPT !.status = "active", !.timer = tm,
              !.handed[l] = Append(@, i), !.sent[i] = @ + 1]

LEMMA HandedOverIs ==
    ASSUME NEW q \in Rec, NEW l \in LeLinks, NEW i \in Ids,
           NEW tm \in {"off", "send", "ack"}
    PROVE  \E h \in Rec :
              /\ h = HandedOver(q, l, i, tm)
              /\ h.slots = q.slots /\ h.r = q.r /\ h.resend = q.resend
              /\ h.status = "active" /\ h.timer = tm
              /\ h.sent[i] = q.sent[i] + 1
              /\ OnlyOne(q, h, i) /\ Due(h, l, i)
<1>1. q.handed \in [LeLinks -> Seq(Ids)] /\ q.sent \in [Ids -> Nat]
  BY DEF Rec
<1>2. PICK a \in [LeLinks -> Seq(Ids)] :
         /\ a = [q.handed EXCEPT ![l] = Append(q.handed[l], i)]
         /\ \E k \in DOMAIN a[l] : a[l][k] = i
  <2> DEFINE b == Append(q.handed[l], i)
             a == [q.handed EXCEPT ![l] = b]
  <2>1. q.handed[l] \in Seq(Ids)
    BY <1>1
  <2>2. b \in Seq(Ids) /\ Len(q.handed[l]) + 1 \in DOMAIN b
        /\ b[Len(q.handed[l]) + 1] = i
    BY <2>1
  <2>3. \E k \in DOMAIN b : b[k] = i
    BY <2>2
  <2> HIDE DEF b
  <2>4. a \in [LeLinks -> Seq(Ids)] /\ a[l] = b
    BY <1>1, <2>2
  <2> HIDE DEF a
  <2>5. \E k \in DOMAIN a[l] : a[l][k] = i
    BY <2>3, <2>4
  <2>6. a = [q.handed EXCEPT ![l] = Append(q.handed[l], i)]
    BY DEF a, b
  <2> QED
    BY <2>4, <2>5, <2>6
<1>3. PICK s \in [Ids -> Nat] :
         /\ s = [q.sent EXCEPT ![i] = q.sent[i] + 1]
         /\ s[i] = q.sent[i] + 1
         /\ \A j \in Ids : j # i => s[j] = q.sent[j]
  BY <1>1, CountOneMore
<1> DEFINE g == [q EXCEPT !.status = "active", !.timer = tm,
                          !.handed = a, !.sent = s]
<1>4. HandedOver(q, l, i, tm) = g
  BY <1>2, <1>3 DEF Rec, HandedOver
<1>5. /\ g \in Rec
      /\ g.slots = q.slots /\ g.r = q.r /\ g.resend = q.resend
      /\ g.status = "active" /\ g.timer = tm
      /\ g.handed = a /\ g.sent = s
  BY DEF Rec
<1> HIDE DEF g
<1>6. /\ g.sent[i] = q.sent[i] + 1
      /\ OnlyOne(q, g, i) /\ Due(g, l, i)
  BY <1>2, <1>3, <1>5 DEF OnlyOne, Due
<1> QED
  BY <1>4, <1>5, <1>6, Zenon

LEMMA ServeLeTaken ==
    ASSUME NEW q \in Rec, LeTaken(q)
    PROVE  \E q2 \in Rec : Becomes(q2) /\ Served(q, q2)
<1> DEFINE p == HeadOf(q)
<1>1. PICK tm \in {"off", "send", "ack"} :
         tm = IF p.event = "ack" THEN q.timer ELSE "ack"
  BY DEF Rec
<1>2. PICK l, i : l = p.link /\ i = p.id
  OBVIOUS
<1>3. /\ p \in Packet /\ l \in LeLinks
      /\ i \in Ids /\ l \in Links /\ p.event \in Kinds
  BY <1>2, HeadIs, NoneIsNowhere, PacketIs DEF LeTaken
<1>4. PICK waits \in Rec :
         /\ waits = HandedOver(q, l, i, tm)
         /\ waits.slots = q.slots /\ waits.r = q.r /\ waits.resend = q.resend
         /\ waits.status = "active" /\ waits.timer = tm
         /\ waits.sent[i] = q.sent[i] + 1
         /\ OnlyOne(q, waits, i) /\ Due(waits, l, i)
  <2> HIDE DEF p
  <2> QED
    <3>1. tm \in {"off", "send", "ack"} /\ l \in LeLinks /\ i \in Ids
      BY <1>1, <1>3
    <3> QED
      BY <3>1, HandedOverIs
<1>5. \/ Becomes(waits)
      \/ /\ p.event \in Events
         /\ Becomes(Answered(waits, l, p.event))
  BY <1>4, <1>1, <1>2, Zenon DEF LeTaken, HandedOver, Answered
<1>6. ASSUME NEW q2 \in Rec,
             q2.slots = waits.slots, q2.r = waits.r, q2.resend = waits.resend,
             q2.status = waits.status, q2.timer = waits.timer,
             q2.sent = waits.sent, q2.handed = waits.handed
      PROVE  Served(q, q2)
  <2>1. CASE p.event = "ack"
    BY <1>1, <1>2, <1>3, <1>4, <1>6, <2>1
       DEF Served, AwaitsCompletion, Stays, OnlyOne, Due
  <2>2. CASE p.event # "ack"
    BY <1>1, <1>2, <1>3, <1>4, <1>6, <2>2 DEF Served, AwaitsAck, Stays, OnlyOne
  <2> QED
    BY <2>1, <2>2
<1>7. CASE Becomes(waits)
  BY <1>4, <1>6, <1>7
<1>8. CASE /\ p.event \in Events
           /\ Becomes(Answered(waits, l, p.event))
  <2>1. PICK q2 \in Rec :
           /\ q2 = Answered(waits, l, p.event)
           /\ q2.slots = waits.slots /\ q2.r = waits.r
           /\ q2.resend = waits.resend /\ q2.status = waits.status
           /\ q2.timer = waits.timer /\ q2.sent = waits.sent
           /\ q2.handed = waits.handed
    <3> HIDE DEF p
    <3> QED
      BY <1>3, <1>4, <1>8, AnswerIs, Zenon
  <2>2. Becomes(q2)
    BY <1>8, <2>1, Zenon
  <2> QED
    BY <1>6, <2>1, <2>2
<1> QED
  BY <1>5, <1>7, <1>8

LEMMA ServeRefused ==
    ASSUME NEW q \in Rec, Refused(q)
    PROVE  \E q2 \in Rec : Becomes(q2) /\ Served(q, q2)
<1> DEFINE q2 == [q EXCEPT !.timer = "send"]
<1>1. HeadOf(q) \in Packet
  BY HeadIs, NoneIsNowhere DEF Refused
<1>2. /\ q2 \in Rec
      /\ q2.slots = q.slots /\ q2.r = q.r /\ q2.resend = q.resend
      /\ q2.status = q.status /\ q2.timer = "send" /\ q2.sent = q.sent
  BY DEF Rec
<1>3. Becomes(q2)
  BY DEF Refused
<1> HIDE DEF q2
<1>4. TriesAgain(q, q2)
  BY <1>1, <1>2 DEF TriesAgain, Stays
<1> QED
  BY <1>2, <1>3, <1>4 DEF Served

LEMMA ServeLeGone ==
    ASSUME NEW q \in Rec, LeGone(q)
    PROVE  \E q2 \in Rec : Becomes(q2) /\ Served(q, q2)
<1>1. HeadOf(q) \in Packet
  BY HeadIs, NoneIsNowhere DEF LeGone
<1>2. PICK q1 \in Rec :
         /\ q1 = [q EXCEPT !.resend = 0]
         /\ q1.slots = q.slots /\ q1.r = q.r /\ q1.resend = 0
         /\ q1.status = q.status /\ q1.sent = q.sent
  <2>1. PICK z \in 0..ResendNum - 1 : z = 0
    BY ResendNumAssumption
  <2> DEFINE q1 == [q EXCEPT !.resend = z]
  <2>2. /\ q1 \in Rec
        /\ q1.slots = q.slots /\ q1.r = q.r /\ q1.resend = z
        /\ q1.status = q.status /\ q1.sent = q.sent
    BY DEF Rec
  <2>3. q1 = [q EXCEPT !.resend = 0]
    BY <2>1
  <2> HIDE DEF q1
  <2> QED
    BY <2>1, <2>2, <2>3, Zenon
<1>3. LET q2 == [Drop(q1) EXCEPT !.timer = "send"]
      IN  q2 \in Rec /\ Leaves(q, q2)
  BY <1>1, <1>2, ServeLeaves
<1>4. Becomes([Drop(q1) EXCEPT !.timer = "send"])
  <2>1. [Drop(q) EXCEPT !.resend = 0, !.timer = "send"]
          = [Drop(q1) EXCEPT !.timer = "send"]
    BY <1>2 DEF Drop, Rec
  <2> QED
    BY <2>1, Zenon DEF LeGone
<1> QED
  BY <1>3, <1>4, Zenon DEF Served

LEMMA ServeIs ==
    ASSUME NEW q \in Rec, Serve(q)
    PROVE  \E q2 \in Rec : Becomes(q2) /\ Served(q, q2)
  BY ServeRest, ServeAwaitCredit, ServeSppTaken, ServeLeTaken, ServeRefused,
     ServeLeGone, Zenon DEF Serve

-----------------------------------------------------------------------------
(***************************************************************************)
(* The packets that pass before: each costs a credit, and no credit is      *)
(* spent twice.                                                             *)
(***************************************************************************)
LEMMA LargestIn ==
    ASSUME NEW n \in Nat, NEW S \in SUBSET (0..n), S # {}
    PROVE  \E k \in S : \A j \in S : j <= k
<1> DEFINE T == {t \in Nat : n - t \in S}
<1>0. \A j \in S : j \in 0..n /\ n - j \in T
  <2> SUFFICES ASSUME NEW j \in S PROVE j \in 0..n /\ n - j \in T
    OBVIOUS
  <2>1. j \in 0..n /\ n - j \in Nat /\ n - (n - j) = j
    OBVIOUS
  <2> QED
    BY <2>1
<1>1. T \subseteq Nat /\ T # {}
  BY <1>0
<1>2. PICK t \in T : \A u \in T : ~(<<u, t>> \in OpToRel(<, Nat))
  BY <1>1, NatLessThanWellFounded, WFMin
<1>3. n - t \in S /\ t \in Nat
  OBVIOUS
<1>4. ASSUME NEW j \in S PROVE j <= n - t
  <2>1. n - j \in T /\ n - j \in Nat /\ j \in 0..n
    BY <1>0, <1>1
  <2>2. ~(n - j < t)
    BY <1>2, <1>3, <2>1 DEF OpToRel
  <2> HIDE DEF T
  <2> QED
    BY <1>3, <2>1, <2>2
<1> QED
  BY <1>3, <1>4

LEMMA LeftBound ==
    ASSUME NEW q \in Rec, NEW n \in 0..QueueNo, NEW took \in SUBSET (0..n - 1),
           Passes(q, n, took), NEW l \in SppLinks
    PROVE  Left(q, took, n, l) \in 0..MaxCredit
<1> DEFINE S(m) == {j \in took : j < m /\ At(q, j).link = l}
<1>1. n \in Nat /\ q.credit[l] \in 0..MaxCredit /\ MaxCredit \in Nat
  BY QueueNoAssumption, BoundsAssumption DEF Rec
<1>2. IsFiniteSet(S(n)) /\ Cardinality(S(n)) \in Nat
  <2>1. IsFiniteSet(0..n - 1)
    BY <1>1, FS_Interval
  <2>2. S(n) \in SUBSET (0..n - 1)
    OBVIOUS
  <2>3. IsFiniteSet(S(n))
    BY <2>1, <2>2, FS_Subset
  <2> QED
    BY <2>3, FS_CardinalityType
<1>3. Left(q, took, n, l) = q.credit[l] - Cardinality(S(n))
  BY DEF Left
<1>4. CASE S(n) = {}
  <2>1. Cardinality(S(n)) = 0
    BY <1>2, <1>4, FS_EmptySet
  <2> QED
    BY <1>1, <1>3, <2>1
<1>5. CASE S(n) # {}
  <2>1. S(n) \in SUBSET (0..n)
    <3>1. took \subseteq 0..n - 1 /\ 0..n - 1 \subseteq 0..n
      BY <1>1
    <3> QED
      BY <3>1
  <2>2. PICK k \in S(n) : \A j \in S(n) : j <= k
    BY <1>1, <1>5, <2>1, LargestIn
  <2>3. S(n) \ {k} = S(k)
    <3>1. k \in took /\ k < n /\ At(q, k).link = l
      OBVIOUS
    <3>2. \A j \in took : j \in 0..n - 1
      OBVIOUS
    <3>3. ASSUME NEW j \in took
          PROVE  j \in S(n) \ {k} <=> j \in S(k)
      <4>1. j \in 0..n - 1 /\ k \in 0..n - 1
        BY <3>1, <3>2
      <4>2. j \in S(n) => j <= k
        BY <2>2
      <4> QED
        BY <1>1, <3>1, <4>1, <4>2
    <3> QED
      BY <3>3
  <2>4. Cardinality(S(k)) = Cardinality(S(n)) - 1
    <3> HIDE DEF S
    <3> QED
      BY <1>2, <2>2, <2>3, FS_RemoveElement
  <2>5. Left(q, took, k, l) > 0
    <3>1. k \in 0..n - 1 /\ At(q, k).link = l
      OBVIOUS
    <3> QED
      BY <3>1 DEF Passes
  <2>6. Left(q, took, k, l) = q.credit[l] - Cardinality(S(k))
    BY DEF Left
  <2> HIDE DEF S
  <2> QED
    BY <1>1, <1>2, <1>3, <2>4, <2>5, <2>6
<1> QED
  BY <1>4, <1>5

PassedTo(q, n, q1) ==
    /\ q1.slots = Without(q.slots, q.r, n) /\ q1.r = Plus(q.r, n)
    /\ q1.status = q.status
    /\ q1.handed = q.handed /\ q1.answers = q.answers
    /\ \A k \in 0..n - 1 : At(q, k) # None
    /\ n = 0 => q1 = q
    /\ n # 0 => q1.resend = 0 /\ q1.timer = "off"
    /\ \A i \in Ids :
          (\A k \in 0..n - 1 : At(q, k).id # i) => q1.sent[i] = q.sent[i]

LEMMA PassedIs ==
    ASSUME NEW q \in Rec, NEW n \in 0..QueueNo, NEW took \in SUBSET (0..n - 1),
           Passes(q, n, took)
    PROVE  Passed(q, n, took) \in Rec /\ PassedTo(q, n, Passed(q, n, took))
<1>1. /\ q.slots \in [Slot -> Packet \cup {None}] /\ q.r \in Slot
      /\ q.sent \in [Ids -> Nat]
  BY DEF Rec
<1>2. \A k \in 0..n - 1 : At(q, k) # None
  BY NoneIsNowhere DEF Passes
<1>3. CASE n = 0
  <2>1. Passed(q, n, took) = q
    BY <1>3 DEF Passed
  <2>2. Without(q.slots, q.r, n) = q.slots
    <3>1. \A i \in Slot : ~(Dist(q.r, i) < 0)
      BY <1>1, DistType DEF Slot
    <3> QED
      BY <1>1, <1>3, <3>1 DEF Without
  <2>3. Plus(q.r, n) = q.r
    BY <1>1, <1>3, PlusWhole
  <2> QED
    BY <1>2, <1>3, <2>1, <2>2, <2>3 DEF PassedTo
<1>4. CASE n # 0
  <2>1. PICK sl \in [Slot -> Packet \cup {None}] : sl = Without(q.slots, q.r, n)
    BY <1>1 DEF Without
  <2>2. PICK r \in Slot : r = Plus(q.r, n)
    BY <1>1, PlusType
  <2>3. PICK c \in [SppLinks -> 0..MaxCredit] :
           c = [l \in SppLinks |-> Left(q, took, n, l)]
    BY LeftBound
  <2>4. PICK s \in [Ids -> Nat] :
           /\ s = [i \in Ids |-> IF \E k \in took : At(q, k).id = i
                                  THEN q.sent[i] + 1 ELSE q.sent[i]]
           /\ \A i \in Ids :
                 (\A k \in 0..n - 1 : At(q, k).id # i) => s[i] = q.sent[i]
    <3> DEFINE s == [i \in Ids |-> IF \E k \in took : At(q, k).id = i
                                   THEN q.sent[i] + 1 ELSE q.sent[i]]
    <3>1. s \in [Ids -> Nat]
      BY <1>1
    <3>2. \A i \in Ids :
             (\A k \in 0..n - 1 : At(q, k).id # i) => s[i] = q.sent[i]
      OBVIOUS
    <3> QED
      BY <3>1, <3>2
  <2>5. PICK z \in 0..ResendNum - 1 : z = 0
    BY ResendNumAssumption
  <2> DEFINE g == [q EXCEPT !.slots = sl, !.r = r, !.resend = z,
                            !.timer = "off", !.credit = c, !.sent = s]
  <2>6. Passed(q, n, took) = g
    BY <1>4, <2>1, <2>2, <2>3, <2>4, <2>5 DEF Passed, Rec
  <2>7. /\ g \in Rec
        /\ g.slots = sl /\ g.r = r /\ g.resend = z /\ g.timer = "off"
        /\ g.status = q.status /\ g.handed = q.handed
        /\ g.answers = q.answers /\ g.sent = s
    BY DEF Rec
  <2> HIDE DEF g
  <2>8. PassedTo(q, n, g)
    BY <1>2, <1>4, <2>1, <2>2, <2>4, <2>5, <2>7 DEF PassedTo
  <2> QED
    BY <2>6, <2>7, <2>8
<1> QED
  BY <1>3, <1>4

(* app_pop_data_transfer_queue, by an idle transmitter. *)
PopTo(q, n, q1, q2) == PassedTo(q, n, q1) /\ Served(q1, q2) /\ Becomes(q2)

LEMMA PopIs ==
    ASSUME NEW q \in Rec, q.status = "idle", Pop(q)
    PROVE  \E n \in 0..QueueNo, q1 \in Rec, q2 \in Rec : PopTo(q, n, q1, q2)
<1>0. PICK n \in 0..QueueNo : \E took \in SUBSET (0..n - 1) :
         Passes(q, n, took) /\ Serve(Passed(q, n, took))
  BY DEF Pop
<1>1. PICK took \in SUBSET (0..n - 1) :
         Passes(q, n, took) /\ Serve(Passed(q, n, took))
  BY <1>0
<1>2. PICK q1 \in Rec : q1 = Passed(q, n, took) /\ PassedTo(q, n, q1)
  BY <1>1, PassedIs
<1>3. Serve(q1)
  BY <1>1, <1>2, Zenon
<1>4. PICK q2 \in Rec : Becomes(q2) /\ Served(q1, q2)
  BY <1>3, ServeIs
<1> QED
  BY <1>2, <1>4 DEF PopTo

(* The same with the head discarded first. *)
Discarded(q) ==
    [Drop(q) EXCEPT !.timer = "off", !.resend = 0, !.status = "idle"]

LEMMA DiscardIs ==
    ASSUME NEW q \in Rec
    PROVE  \E d \in Rec :
              /\ d = Discarded(q)
              /\ d.slots = Without(q.slots, q.r, 1) /\ d.r = Plus(q.r, 1)
              /\ d.resend = 0 /\ d.status = "idle" /\ d.timer = "off"
              /\ d.sent = q.sent
<1>1. PICK g \in Rec :
         /\ g = Drop(q)
         /\ g.slots = Without(q.slots, q.r, 1) /\ g.r = Plus(q.r, 1)
         /\ g.sent = q.sent
  BY DropIs
<1>2. PICK z \in 0..ResendNum - 1 : z = 0
  BY ResendNumAssumption
<1> DEFINE d == [g EXCEPT !.timer = "off", !.resend = z, !.status = "idle"]
<1>3. /\ d \in Rec
      /\ d.slots = g.slots /\ d.r = g.r /\ d.resend = z
      /\ d.status = "idle" /\ d.timer = "off" /\ d.sent = g.sent
  BY DEF Rec
<1>4. d = Discarded(q)
  BY <1>1, <1>2, Zenon DEF Discarded
<1> HIDE DEF d
<1>5. d.slots = Without(q.slots, q.r, 1) /\ d.r = Plus(q.r, 1)
      /\ d.resend = 0 /\ d.sent = q.sent
  BY <1>1, <1>2, <1>3, Zenon
<1> QED
  BY <1>3, <1>4, <1>5, Zenon

LEMMA PopNextIs ==
    ASSUME NEW q \in Rec, PopNext(q)
    PROVE  \/ /\ HeadOf(q) = None
              /\ \E q2 \in Rec :
                    /\ q2.slots = q.slots /\ q2.r = q.r /\ q2.sent = q.sent
                    /\ q2.resend = q.resend /\ q2.status = q.status
                    /\ q2.timer = "off"
                    /\ Becomes(q2)
           \/ HeadOf(q) \in Packet /\ Pop(Discarded(q))
<1>1. CASE HeadOf(q) = None
  <2> DEFINE q2 == [q EXCEPT !.timer = "off"]
  <2>1. Becomes(q2)
    BY <1>1, Zenon DEF PopNext
  <2>2. /\ q2 \in Rec
        /\ q2.slots = q.slots /\ q2.r = q.r /\ q2.sent = q.sent
        /\ q2.resend = q.resend /\ q2.status = q.status /\ q2.timer = "off"
    BY DEF Rec
  <2> HIDE DEF q2
  <2> QED
    BY <1>1, <2>1, <2>2
<1>2. CASE HeadOf(q) # None
  BY <1>2, HeadIs, Zenon DEF PopNext, Discarded
<1> QED
  BY <1>1, <1>2

-----------------------------------------------------------------------------
(***************************************************************************)
(* What each handler makes of the present values before it calls pop.       *)
(***************************************************************************)
SameRing(q) ==
    q.slots = slots /\ q.r = rIdx /\ q.sent = sent /\ q.resend = resend

SameTimer(q) == q.status = status /\ q.timer = timer

SameLines(q) == q.credit = credit /\ q.answers = answers

LEMMA NowSame ==
    ASSUME TypeOK
    PROVE  /\ Now \in Rec /\ SameRing(Now) /\ SameTimer(Now)
           /\ Now.handed = handed /\ SameLines(Now)
  BY NowTyped DEF Now, SameRing, SameTimer, SameLines

LEMMA RecvAckIs ==
    ASSUME TypeOK, NEW l \in Links, RecvAck(l)
    PROVE  \E q \in Rec : /\ SameRing(q) /\ SameTimer(q) /\ q.handed = handed
                          /\ q.credit = credit
                          /\ q.answers = [answers EXCEPT ![l] = Tail(@)]
                          /\ \/ PopNext(q)
                             \/ First.event # answers[l][1] /\ Pop(q)
<1>1. PICK n \in Rec :
         n = Now /\ SameRing(n) /\ SameTimer(n) /\ n.handed = handed
         /\ SameLines(n)
  BY NowSame
<1>2. n.answers = answers /\ n.credit = credit
  BY <1>1 DEF SameLines
<1>3. PICK a \in [Links -> Seq(Events)] : a = [answers EXCEPT ![l] = Tail(@)]
  <2>1. answers \in [Links -> Seq(Events)] /\ answers[l] # <<>>
    BY DEF TypeOK, RecvAck
  <2>2. Tail(answers[l]) \in Seq(Events)
    BY <2>1
  <2> QED
    BY <2>1, <2>2
<1> DEFINE q == [n EXCEPT !.answers = a]
<1>4. q \in Rec /\ SameRing(q) /\ SameTimer(q) /\ q.handed = handed
      /\ q.credit = credit /\ q.answers = a
  BY <1>1, <1>2 DEF Rec, SameRing, SameTimer
<1>5. q = [n EXCEPT !.answers[l] = Tail(@)]
  BY <1>2, <1>3
<1>6. PopNext(q) \/ (First.event # answers[l][1] /\ Pop(q))
  <2> HIDE DEF q
  <2> QED
    BY <1>1, <1>5, Zenon DEF RecvAck
<1> HIDE DEF q
<1> QED
  BY <1>3, <1>4, <1>6

LEMMA SendCompleteIs ==
    ASSUME TypeOK, NEW l \in LeLinks, SendComplete(l)
    PROVE  \E q \in Rec : /\ SameRing(q) /\ SameTimer(q) /\ SameLines(q)
                          /\ q.handed = [handed EXCEPT ![l] = Tail(@)]
                          /\ PopNext(q)
<1>1. PICK n \in Rec : n = Now /\ SameRing(n) /\ SameTimer(n) /\ SameLines(n)
  BY NowSame
<1>2. n.handed = handed
  BY <1>1 DEF Now
<1>3. PICK a \in [LeLinks -> Seq(Ids)] : a = [handed EXCEPT ![l] = Tail(@)]
  <2>1. handed \in [LeLinks -> Seq(Ids)] /\ handed[l] # <<>>
    BY DEF TypeOK, SendComplete
  <2>2. Tail(handed[l]) \in Seq(Ids)
    BY <2>1
  <2> QED
    BY <2>1, <2>2
<1> DEFINE q == [n EXCEPT !.handed = a]
<1>4. q \in Rec /\ SameRing(q) /\ SameTimer(q) /\ SameLines(q) /\ q.handed = a
  BY <1>1 DEF Rec, SameRing, SameTimer, SameLines
<1>5. q = [n EXCEPT !.handed[l] = Tail(@)]
  BY <1>2, <1>3
<1> HIDE DEF q
<1>6. PopNext(q)
  BY <1>1, <1>5, Zenon DEF SendComplete
<1> QED
  BY <1>3, <1>4, <1>6

LEMMA SppConnectIs ==
    ASSUME TypeOK, NEW l \in SppLinks, SppConnect(l)
    PROVE  \E q \in Rec : /\ SameRing(q) /\ SameTimer(q) /\ q.handed = handed
                          /\ q.answers = answers
                          /\ \A m \in SppLinks :
                                m # l => q.credit[m] = credit[m]
                          /\ "starve" \notin Inputs => q.credit[l] = MaxCredit
                          /\ Becomes(q) \/ Pop(q)
<1>1. PICK n \in Rec :
         n = Now /\ SameRing(n) /\ SameTimer(n) /\ n.handed = handed
         /\ SameLines(n)
  BY NowSame
<1>2. n.credit = credit /\ n.answers = answers
  BY <1>1 DEF SameLines
<1>3. PICK c \in 0..MaxCredit :
         /\ "starve" \notin Inputs => c = MaxCredit
         /\ Becomes([n EXCEPT !.credit[l] = c])
            \/ Pop([n EXCEPT !.credit[l] = c])
  BY <1>1, Zenon DEF SppConnect
<1>4. PICK a \in [SppLinks -> 0..MaxCredit] : a = [credit EXCEPT ![l] = c]
  BY DEF TypeOK
<1> DEFINE q == [n EXCEPT !.credit = a]
<1>5. q \in Rec /\ SameRing(q) /\ SameTimer(q) /\ q.handed = handed
      /\ q.answers = answers /\ q.credit = a
  BY <1>1, <1>2 DEF Rec, SameRing, SameTimer
<1>6. q = [n EXCEPT !.credit[l] = c]
  BY <1>2, <1>4
<1> HIDE DEF q
<1>7. Becomes(q) \/ Pop(q)
  BY <1>3, <1>6, Zenon
<1>8. a[l] = c /\ \A m \in SppLinks : m # l => a[m] = credit[m]
  BY <1>4 DEF TypeOK
<1> QED
  BY <1>3, <1>5, <1>7, <1>8

Stopped(n) == [n EXCEPT !.timer = "off", !.status = "idle"]

LEMMA TimeoutIs ==
    ASSUME TypeInv, Timeout
    PROVE  \E q \in Rec :
              /\ q.slots = slots /\ q.r = rIdx /\ q.sent = sent
              /\ q.timer = "off" /\ q.status = "idle"
              /\ SameLines(q) /\ q.handed = handed
              /\ \/ timer = "send" /\ q.resend = resend /\ Pop(q)
                 \/ timer = "ack" /\ q.resend = resend + 1 /\ Pop(q)
                 \/ /\ timer = "ack"
                    /\ HeadOf(q) \in Packet /\ Pop(Discarded(q))
<1>1. PICK n \in Rec : /\ n = Now /\ SameRing(n) /\ SameTimer(n)
                       /\ SameLines(n) /\ n.handed = handed
  BY NowSame DEF TypeInv
<1>2. PICK q \in Rec :
         /\ q = Stopped(n)
         /\ q.slots = slots /\ q.r = rIdx /\ q.sent = sent
         /\ q.resend = resend /\ q.timer = "off" /\ q.status = "idle"
         /\ SameLines(q) /\ q.handed = handed
  <2> DEFINE q == Stopped(n)
  <2>1. /\ q \in Rec
        /\ q.slots = slots /\ q.r = rIdx /\ q.sent = sent
        /\ q.resend = resend /\ q.timer = "off" /\ q.status = "idle"
        /\ SameLines(q) /\ q.handed = handed
    BY <1>1 DEF Rec, SameRing, SameLines, Stopped
  <2> HIDE DEF q
  <2> QED
    BY <2>1 DEF q
<1>3. \/ timer = "send" /\ Pop(q)
      \/ /\ timer = "ack" /\ resend + 1 < ResendNum
         /\ Pop([q EXCEPT !.resend = @ + 1])
      \/ timer = "ack" /\ PopNext([q EXCEPT !.resend = @ + 1])
  <2>1. /\ timer \in {"send", "ack"}
        /\ resend + 1 < ResendNum \/ resend + 1 >= ResendNum
    BY ResendNumAssumption DEF TypeInv, TypeOK, Timeout
  <2>0. /\ timer = "ack" => timer # "send"
        /\ resend + 1 >= ResendNum => ~(resend + 1 < ResendNum)
    BY ResendNumAssumption DEF TypeInv, TypeOK
  <2>2. timer = "send" => Pop(q)
    BY <1>1, <1>2, Zenon DEF Timeout, Stopped
  <2>3. timer = "ack" /\ resend + 1 < ResendNum
           => Pop([q EXCEPT !.resend = @ + 1])
    BY <1>1, <1>2, <2>0, Zenon DEF Timeout, Stopped
  <2>4. timer = "ack" /\ resend + 1 >= ResendNum
           => PopNext([q EXCEPT !.resend = @ + 1])
    BY <1>1, <1>2, <2>0, Zenon DEF Timeout, Stopped
  <2> QED
    BY <2>1, <2>2, <2>3, <2>4
<1>4. CASE timer = "send" /\ Pop(q)
  BY <1>2, <1>4
<1>5. CASE /\ timer = "ack" /\ resend + 1 < ResendNum
           /\ Pop([q EXCEPT !.resend = @ + 1])
  <2>1. PICK m \in 0..ResendNum - 1 : m = resend + 1
    BY <1>5, ResendNumAssumption DEF TypeInv, TypeOK
  <2> DEFINE g == [q EXCEPT !.resend = m]
  <2>2. /\ g \in Rec
        /\ g.slots = slots /\ g.r = rIdx /\ g.sent = sent
        /\ g.resend = m /\ g.timer = "off" /\ g.status = "idle"
        /\ SameLines(g) /\ g.handed = handed
    BY <1>2 DEF Rec, SameLines
  <2>3. g = [q EXCEPT !.resend = @ + 1]
    BY <1>2, <2>1
  <2> HIDE DEF g
  <2>4. Pop(g)
    BY <1>5, <2>3, Zenon
  <2> QED
    BY <1>5, <2>1, <2>2, <2>4
<1>6. CASE timer = "ack" /\ PopNext([q EXCEPT !.resend = @ + 1])
  <2>1. HeadOf(q) \in Packet
    <3>1. n.timer = "ack" => HeadOf(n) # None
      BY <1>1 DEF TypeInv, Waits
    <3>2. HeadOf(n) = HeadOf(q)
      BY <1>1, <1>2 DEF HeadOf, SameRing
    <3> QED
      BY <1>1, <1>6, <3>1, <3>2, HeadIs DEF SameTimer
  <2> DEFINE h == [q EXCEPT !.resend = @ + 1]
  <2>2. HeadOf(h) = HeadOf(q)
    BY DEF HeadOf, Rec
  <2>3. Discarded(h) = Discarded(q)
    BY DEF Discarded, Drop, Rec
  <2> HIDE DEF h
  <2>4. PopNext(h)
    BY <1>6 DEF h
  <2>5. Pop(Discarded(h))
    BY <2>1, <2>2, <2>4, PacketIs, Zenon DEF PopNext, Discarded
  <2>6. Pop(Discarded(q))
    BY <2>3, <2>5, Zenon
  <2> QED
    BY <1>2, <1>6, <2>1, <2>6
<1> QED
  BY <1>3, <1>4, <1>5, <1>6

LEMMA PushIs ==
    ASSUME TypeOK, NEW l \in Links, NEW e \in Kinds, Push(l, e)
    PROVE  \E q \in Rec, p \in Packet :
              /\ p = [id |-> pushed + 1, link |-> l, event |-> e]
              /\ q.slots = Store(slots, wIdx, p) /\ q.r = rIdx /\ q.sent = sent
              /\ IF slots[wIdx] = None
                 THEN /\ q.resend = resend /\ SameTimer(q)
                      /\ q.handed = handed /\ SameLines(q)
                 ELSE /\ q.timer = "off" /\ q.status = "idle"
                      /\ "full" \in Inputs
              /\ Pop(q)
<1>1. PICK n \in Rec :
         n = Now /\ SameRing(n) /\ SameTimer(n) /\ n.handed = handed
         /\ SameLines(n)
  BY NowSame
<1>2. PICK p \in Packet : p = [id |-> pushed + 1, link |-> l, event |-> e]
  <2>1. pushed + 1 \in Ids
    BY BoundsAssumption DEF TypeOK, Push, Ids
  <2> QED
    BY <2>1 DEF Packet
<1>3. PICK sl \in [Slot -> Packet \cup {None}] : sl = Store(slots, wIdx, p)
  BY DEF TypeOK, Store
<1>4. PICK n2 \in Rec :
         /\ n2 = IF slots[wIdx] = None THEN n
                 ELSE [n EXCEPT !.timer = "off", !.resend = 0, !.status = "idle"]
         /\ n2.slots = slots /\ n2.r = rIdx /\ n2.sent = sent
         /\ slots[wIdx] = None
               => /\ n2.resend = resend /\ SameTimer(n2)
                  /\ n2.handed = handed /\ SameLines(n2)
         /\ slots[wIdx] # None
               => n2.timer = "off" /\ n2.status = "idle"
  <2>1. CASE slots[wIdx] = None
    BY <1>1, <2>1 DEF SameRing
  <2>2. CASE slots[wIdx] # None
    <3>1. PICK z \in 0..ResendNum - 1 : z = 0
      BY ResendNumAssumption
    <3> DEFINE g == [n EXCEPT !.timer = "off", !.resend = z, !.status = "idle"]
    <3>2. /\ g \in Rec
          /\ g.slots = slots /\ g.r = rIdx /\ g.sent = sent
          /\ g.timer = "off" /\ g.status = "idle"
      BY <1>1 DEF Rec, SameRing
    <3>3. g = [n EXCEPT !.timer = "off", !.resend = 0, !.status = "idle"]
      BY <3>1
    <3> HIDE DEF g
    <3> QED
      BY <2>2, <3>2, <3>3, Zenon
  <2> QED
    BY <2>1, <2>2
<1> DEFINE q == [n2 EXCEPT !.slots = sl]
<1>5. /\ q \in Rec
      /\ q.slots = sl /\ q.r = n2.r /\ q.sent = n2.sent
      /\ q.resend = n2.resend /\ q.timer = n2.timer /\ q.status = n2.status
      /\ q.handed = n2.handed /\ q.credit = n2.credit /\ q.answers = n2.answers
  BY DEF Rec
<1>6. q = [n2 EXCEPT !.slots[wIdx] = p]
  BY <1>3, <1>4 DEF Store
<1> HIDE DEF q
<1>7. Pop(q)
  <2>1. Pop([n2 EXCEPT !.slots[wIdx] = p])
    BY <1>1, <1>2, <1>4, Zenon DEF Push
  <2> QED
    BY <1>6, <2>1, Zenon
<1>8. slots[wIdx] # None => "full" \in Inputs
  BY DEF Push
<1>9. slots[wIdx] = None
         => /\ q.resend = resend /\ SameTimer(q)
            /\ q.handed = handed /\ SameLines(q)
  BY <1>4, <1>5 DEF SameTimer, SameLines
<1>10. slots[wIdx] # None => q.timer = "off" /\ q.status = "idle"
  BY <1>4, <1>5
<1>11. q.slots = Store(slots, wIdx, p) /\ q.r = rIdx /\ q.sent = sent
  BY <1>3, <1>4, <1>5, Zenon
<1> QED
  BY <1>2, <1>5, <1>7, <1>8, <1>9, <1>10, <1>11, Zenon

(* app_transfer_queue_reset empties the ring. *)
Empty(q) ==
    /\ q.slots = [i \in Slot |-> None] /\ q.r = 0 /\ q.resend = 0
    /\ q.status = "idle" /\ q.timer = "off" /\ q.sent = sent

LEMMA ResetIs ==
    ASSUME NEW n \in Rec, n.sent = sent, Reset(n)
    PROVE  \E q \in Rec : Empty(q) /\ Becomes(q) /\ wIdx' = 0
<1>1. PICK sl \in [Slot -> Packet \cup {None}] : sl = [i \in Slot |-> None]
  OBVIOUS
<1>2. PICK z \in 0..ResendNum - 1 : z = 0 /\ z \in Slot
  BY ResendNumAssumption, QueueNoAssumption DEF Slot
<1> DEFINE q == [n EXCEPT !.slots = sl, !.r = z, !.resend = z,
                          !.status = "idle", !.timer = "off"]
<1>3. /\ q \in Rec
      /\ q.slots = sl /\ q.r = z /\ q.resend = z
      /\ q.status = "idle" /\ q.timer = "off" /\ q.sent = sent
  BY <1>2 DEF Rec
<1>4. Becomes(q)
  BY <1>1, <1>2, Zenon DEF Reset
<1> HIDE DEF q
<1>5. Empty(q)
  BY <1>1, <1>2, <1>3, Zenon DEF Empty
<1>6. wIdx' = 0
  BY DEF Reset
<1> QED
  BY <1>3, <1>4, <1>5, <1>6

LEMMA SppDisconnectIs ==
    ASSUME TypeOK, NEW l \in SppLinks, SppDisconnect(l)
    PROVE  \E q \in Rec : Empty(q) /\ Becomes(q) /\ wIdx' = 0
<1>1. PICK n \in Rec : n = Now /\ SameRing(n)
  BY NowSame
<1>2. n.credit = credit /\ n.answers = answers
  BY <1>1 DEF Now
<1>3. PICK c \in [SppLinks -> 0..MaxCredit] : c = [credit EXCEPT ![l] = 0]
  <2>1. PICK z \in 0..MaxCredit : z = 0
    BY BoundsAssumption
  <2>2. [credit EXCEPT ![l] = z] \in [SppLinks -> 0..MaxCredit]
    BY DEF TypeOK
  <2> QED
    BY <2>1, <2>2
<1>4. PICK a \in [Links -> Seq(Events)] : a = [answers EXCEPT ![l] = <<>>]
  <2>1. <<>> \in Seq(Events)
    OBVIOUS
  <2> QED
    BY <2>1 DEF TypeOK
<1> DEFINE m == [n EXCEPT !.credit = c, !.answers = a]
<1>5. m \in Rec /\ m.sent = sent
  BY <1>1 DEF Rec, SameRing
<1>6. m = [n EXCEPT !.credit[l] = 0, !.answers[l] = <<>>]
  BY <1>2, <1>3, <1>4
<1> HIDE DEF m
<1>7. Reset(m)
  BY <1>1, <1>6, Zenon DEF SppDisconnect
<1> QED
  BY <1>5, <1>7, ResetIs

LEMMA LeDisconnectIs ==
    ASSUME TypeOK, NEW l \in LeLinks, LeDisconnect(l)
    PROVE  \E q \in Rec : Empty(q) /\ Becomes(q) /\ wIdx' = 0
<1>1. PICK n \in Rec : n = Now /\ SameRing(n)
  BY NowSame
<1>2. n.handed = handed /\ n.answers = answers
  BY <1>1 DEF Now
<1>3. PICK h \in [LeLinks -> Seq(Ids)] : h = [handed EXCEPT ![l] = <<>>]
  <2>1. <<>> \in Seq(Ids)
    OBVIOUS
  <2> QED
    BY <2>1 DEF TypeOK
<1>4. PICK a \in [Links -> Seq(Events)] : a = [answers EXCEPT ![l] = <<>>]
  <2>1. <<>> \in Seq(Events)
    OBVIOUS
  <2> QED
    BY <2>1 DEF TypeOK
<1> DEFINE m == [n EXCEPT !.handed = h, !.answers = a]
<1>5. m \in Rec /\ m.sent = sent
  BY <1>1 DEF Rec, SameRing
<1>6. m = [n EXCEPT !.handed[l] = <<>>, !.answers[l] = <<>>]
  BY <1>2, <1>3, <1>4
<1> HIDE DEF m
<1>7. Reset(m)
  BY <1>1, <1>6, Zenon DEF LeDisconnect
<1> QED
  BY <1>5, <1>7, ResetIs

-----------------------------------------------------------------------------
(***************************************************************************)
(* Type correctness, with whatever the surroundings may do.                 *)
(***************************************************************************)
Goes(q) == Becomes(q) /\ Waits(q)

Idles(q) == q.status = "idle" /\ q.timer # "ack"

LEMMA PopWaits ==
    ASSUME NEW q \in Rec, Waits(q) \/ Idles(q), Pop(q)
    PROVE  \E q2 \in Rec : Goes(q2)
<1>1. CASE q.status = "active"
  BY <1>1 DEF Pop, Goes, Idles
<1>2. CASE q.status # "active"
  <2>1. q.status = "idle" /\ q.timer # "ack"
    BY <1>2 DEF Rec, Waits, Idles
  <2>2. PICK n \in 0..QueueNo, q1 \in Rec, q2 \in Rec : PopTo(q, n, q1, q2)
    BY <2>1, PopIs
  <2>3. q1.status = "idle" /\ q1.timer # "ack"
    BY <2>1, <2>2 DEF PopTo, PassedTo
  <2>4. Waits(q2)
    <3>1. CASE q2 = q1
      BY <2>3, <3>1 DEF Waits
    <3>2. CASE Stays(q1, q2)
      <4>1. HeadOf(q2) # None
        BY <3>2, PacketIs DEF Stays, HeadOf
      <4> QED
        BY <2>2, <2>3, <3>2, <4>1
           DEF Waits, PopTo, Served, AwaitsAck, AwaitsCompletion, TriesAgain,
               Leaves
    <3>3. CASE Leaves(q1, q2)
      BY <2>3, <3>3 DEF Leaves, Waits
    <3> QED
      BY <2>2, <3>1, <3>2, <3>3
         DEF PopTo, Served, AwaitsAck, AwaitsCompletion, TriesAgain
  <2> QED
    BY <2>2, <2>4 DEF PopTo, Goes
<1> QED
  BY <1>1, <1>2

LEMMA DiscardWaits ==
    ASSUME NEW q \in Rec, Pop(Discarded(q))
    PROVE  \E q2 \in Rec : Goes(q2)
<1>1. PICK d \in Rec : d = Discarded(q) /\ d.status = "idle" /\ d.timer = "off"
  BY DiscardIs
<1>2. Pop(d)
  BY <1>1, Zenon
<1>3. Idles(d)
  BY <1>1 DEF Idles
<1> QED
  BY <1>2, <1>3, PopWaits

LEMMA PopNextWaits ==
    ASSUME NEW q \in Rec, Waits(q), PopNext(q)
    PROVE  \E q2 \in Rec : Goes(q2)
<1>1. CASE HeadOf(q) = None /\
             \E q2 \in Rec :
                /\ q2.slots = q.slots /\ q2.r = q.r /\ q2.sent = q.sent
                /\ q2.resend = q.resend /\ q2.status = q.status
                /\ q2.timer = "off"
                /\ Becomes(q2)
  BY <1>1 DEF Waits, Goes, HeadOf
<1>2. CASE Pop(Discarded(q))
  BY <1>2, DiscardWaits
<1> QED
  BY <1>1, <1>2, PopNextIs

LEMMA SameWaits ==
    ASSUME Waits(Now), NEW q \in Rec, SameRing(q), SameTimer(q)
    PROVE  Waits(q)
  BY DEF Waits, Now, SameRing, SameTimer, HeadOf

LEMMA TypeStep == TypeInv /\ [Next]_vars => TypeInv'
<1> SUFFICES ASSUME TypeInv, [Next]_vars
             PROVE  TypeInv'
  OBVIOUS
<1> DEFINE Others ==
      /\ wIdx' \in Slot
      /\ state' \in [Links -> {"up", "leaving", "down"}]
      /\ ready' \in [LeLinks -> BOOLEAN]
      /\ pushed' \in 0..MaxPush
<1>0. ASSUME \E q2 \in Rec : Goes(q2), Others
      PROVE  TypeInv'
  <2>1. PICK q2 \in Rec : Becomes(q2) /\ Waits(q2)
    BY <1>0 DEF Goes
  <2>2. Waits(Now)'
    <3>1. Now' = q2
      BY <2>1, NowIs
    <3> QED
      BY <2>1, <3>1, Zenon DEF Waits, HeadOf
  <2>3. TypeOK'
    BY <1>0, <2>1 DEF TypeOK, Becomes, Rec
  <2> QED
    BY <2>2, <2>3 DEF TypeInv
<1>1. /\ TypeOK /\ Waits(Now)
      /\ wIdx \in Slot /\ pushed \in 0..MaxPush
      /\ state \in [Links -> {"up", "leaving", "down"}]
      /\ ready \in [LeLinks -> BOOLEAN]
      /\ 0 \in Slot
  BY QueueNoAssumption DEF TypeInv, TypeOK, Slot
<1>2. Plus(wIdx, 1) \in Slot
  BY <1>1, PlusType, QueueNoAssumption
<1>3. ASSUME NEW l \in Links, NEW e \in Kinds, Push(l, e)
      PROVE  TypeInv'
  <2>1. PICK q \in Rec, p \in Packet :
           /\ q.slots = Store(slots, wIdx, p) /\ q.r = rIdx
           /\ slots[wIdx] = None => SameTimer(q)
           /\ slots[wIdx] # None => q.timer = "off" /\ q.status = "idle"
           /\ Pop(q)
    BY <1>1, <1>3, PushIs
  <2>2. Waits(q) \/ Idles(q)
    <3>1. HeadOf(Now) # None => HeadOf(q) # None
      BY <1>1, <2>1, PacketIs DEF HeadOf, Now, Store, TypeOK
    <3>2. Now.timer = timer /\ Now.status = status
      BY DEF Now
    <3> QED
      BY <1>1, <2>1, <3>1, <3>2 DEF Waits, SameTimer, Idles
  <2>3. Others
    BY <1>1, <1>2, <1>3, BoundsAssumption DEF Push, linkVars
  <2> QED
    BY <1>0, <2>1, <2>2, <2>3, PopWaits
<1>4. ASSUME NEW l \in Links, RecvAck(l)
      PROVE  TypeInv'
  <2>1. PICK q \in Rec : SameRing(q) /\ SameTimer(q) /\ (PopNext(q) \/ Pop(q))
    BY <1>1, <1>4, RecvAckIs
  <2>2. Others
    BY <1>1, <1>4 DEF RecvAck, linkVars
  <2>3. Waits(q)
    BY <1>1, <2>1, SameWaits
  <2>4. \E q2 \in Rec : Goes(q2)
    BY <2>1, <2>3, PopWaits, PopNextWaits
  <2> QED
    BY <1>0, <2>2, <2>4
<1>5. ASSUME NEW l \in LeLinks, SendComplete(l)
      PROVE  TypeInv'
  <2>1. PICK q \in Rec : SameRing(q) /\ SameTimer(q) /\ PopNext(q)
    BY <1>1, <1>5, SendCompleteIs
  <2>2. Others
    BY <1>1, <1>5 DEF SendComplete, linkVars
  <2> QED
    BY <1>0, <1>1, <2>1, <2>2, SameWaits, PopNextWaits
<1>6. CASE Timeout
  <2>1. PICK q \in Rec : /\ q.timer = "off" /\ q.status = "idle"
                         /\ Pop(q) \/ Pop(Discarded(q))
    BY <1>6, TimeoutIs
  <2>2. Others
    BY <1>1, <1>6 DEF Timeout, linkVars
  <2>3. Idles(q)
    BY <2>1 DEF Idles
  <2> QED
    BY <1>0, <2>1, <2>2, <2>3, PopWaits, DiscardWaits
<1>7. ASSUME NEW l \in SppLinks, SppConnect(l)
      PROVE  TypeInv'
  <2>1. PICK q \in Rec : SameRing(q) /\ SameTimer(q) /\ (Becomes(q) \/ Pop(q))
    BY <1>1, <1>7, SppConnectIs
  <2>2. Others
    BY <1>1, <1>7 DEF SppConnect
  <2>3. Waits(q)
    BY <1>1, <2>1, SameWaits
  <2>4. \E q2 \in Rec : Goes(q2)
    <3>1. Becomes(q) => Goes(q)
      BY <2>3 DEF Goes
    <3> QED
      BY <2>1, <2>3, <3>1, PopWaits
  <2> QED
    BY <1>0, <2>2, <2>4
<1>8. ASSUME \E q \in Rec : Empty(q) /\ Becomes(q) /\ wIdx' = 0,
             pushed' = pushed,
             state' \in [Links -> {"up", "leaving", "down"}],
             ready' \in [LeLinks -> BOOLEAN]
      PROVE  TypeInv'
  <2>1. PICK q \in Rec : Empty(q) /\ Becomes(q) /\ wIdx' = 0
    BY <1>8
  <2>2. Goes(q)
    BY <2>1 DEF Goes, Waits, Empty
  <2>3. Others
    BY <1>1, <1>8, <2>1
  <2> QED
    BY <1>0, <2>2, <2>3
<1>9. ASSUME NEW l \in SppLinks, SppDisconnect(l)
      PROVE  TypeInv'
  <2>1. \E q \in Rec : Empty(q) /\ Becomes(q) /\ wIdx' = 0
    BY <1>1, <1>9, SppDisconnectIs
  <2> QED
    BY <1>1, <1>8, <1>9, <2>1 DEF SppDisconnect
<1>10. ASSUME NEW l \in LeLinks, LeDisconnect(l)
       PROVE  TypeInv'
  <2>1. \E q \in Rec : Empty(q) /\ Becomes(q) /\ wIdx' = 0
    BY <1>1, <1>10, LeDisconnectIs
  <2> QED
    BY <1>1, <1>8, <1>10, <2>1 DEF LeDisconnect
<1>11. ASSUME NEW l \in SppLinks, CreditRcvd(l)
       PROVE  TypeInv'
  <2>1. credit' \in [SppLinks -> 0..MaxCredit]
    <3>1. PICK c \in credit[l] + 1..MaxCredit : credit' = [credit EXCEPT ![l] = c]
      BY <1>11 DEF CreditRcvd
    <3>2. credit[l] \in 0..MaxCredit /\ credit \in [SppLinks -> 0..MaxCredit]
      BY <1>1 DEF TypeOK
    <3>3. c \in 0..MaxCredit
      BY <3>1, <3>2, BoundsAssumption
    <3> QED
      BY <3>1, <3>2, <3>3
  <2>2. TypeOK'
    BY <1>1, <1>11, <2>1 DEF CreditRcvd, TypeOK, linkVars
  <2>3. Waits(Now)'
    BY <1>1, <1>11 DEF CreditRcvd, Waits, Now, HeadOf
  <2> QED
    BY <2>2, <2>3 DEF TypeInv
<1>12. ASSUME NEW l \in LeLinks,
              LeConnect(l) \/ LeDisconnecting(l) \/ LeReady(l)
       PROVE  TypeInv'
  <2>1. UNCHANGED popVars /\ wIdx' = wIdx /\ pushed' = pushed
    BY <1>12 DEF LeConnect, LeDisconnecting, LeReady
  <2>2. Now' = Now
    BY <2>1 DEF popVars, Now
  <2>3. /\ state' \in [Links -> {"up", "leaving", "down"}]
        /\ ready' \in [LeLinks -> BOOLEAN]
    <3>1. CASE LeConnect(l)
      BY <1>1, <3>1 DEF LeConnect
    <3>2. CASE LeDisconnecting(l)
      BY <1>1, <3>2 DEF LeDisconnecting
    <3>3. CASE LeReady(l)
      BY <1>1, <3>3 DEF LeReady
    <3> QED
      BY <1>12, <3>1, <3>2, <3>3
  <2>4. TypeOK'
    BY <1>1, <2>1, <2>3 DEF TypeOK, popVars
  <2>5. Waits(Now)'
    BY <1>1, <2>2, Zenon DEF Waits, HeadOf
  <2> QED
    BY <2>4, <2>5 DEF TypeInv
<1>13. CASE UNCHANGED vars
  <2>1. Now' = Now
    BY <1>13 DEF vars, popVars, Now
  <2>2. TypeOK'
    BY <1>1, <1>13 DEF TypeOK, vars, popVars, linkVars
  <2>3. Waits(Now)'
    BY <1>1, <2>1, Zenon DEF Waits, HeadOf
  <2> QED
    BY <2>2, <2>3 DEF TypeInv
<1> HIDE DEF Others
<1> QED
  BY <1>3, <1>4, <1>5, <1>6, <1>7, <1>9, <1>10, <1>11, <1>12, <1>13 DEF Next

LEMMA TypeInit == Init => TypeInv
<1> SUFFICES ASSUME Init
             PROVE  TypeInv
  OBVIOUS
<1>1. 0 \in Slot /\ 0 \in 0..ResendNum - 1 /\ 0 \in 0..MaxCredit
      /\ 0 \in 0..MaxPush
  BY QueueNoAssumption, ResendNumAssumption, BoundsAssumption DEF Slot
<1>2. <<>> \in Seq(Ids) /\ <<>> \in Seq(Events)
  OBVIOUS
<1>3. TypeOK
  BY <1>1, <1>2 DEF Init, TypeOK
<1>4. Waits(Now)
  BY DEF Init, Waits, Now
<1> QED
  BY <1>3, <1>4 DEF TypeInv

(* Whatever the surroundings do, and even when packets are reported into a  *)
(* full ring: the indices of app_transfer.c stay in the ring, the resend    *)
(* count below dt_resend_num, and no link's credits fall below zero.        *)
THEOREM TypeCorrect == Spec => []TypeOK
<1>1. TypeInv => TypeOK
  BY DEF TypeInv
<1> QED
  BY <1>1, TypeInit, TypeStep, PTL DEF Spec

-----------------------------------------------------------------------------
(***************************************************************************)
(* The invariant of a ring into which packets are reported only while there *)
(* is room.  Packets lie in the order of their ids, only the head has been  *)
(* tried, and an SPP packet's link is up; an idle transmitter has counted   *)
(* every try of its head, a waiting one is one behind; and something makes  *)
(* it look at the ring again.                                               *)
(***************************************************************************)
Known(q, p) == \A i \in Slot : q.slots[i] # None => q.slots[i].id <= p

Untried(q, p) ==
    /\ \A i \in Slot :
          q.slots[i] # None /\ i # q.r => q.sent[q.slots[i].id] = 0
    /\ \A k \in Ids : k > p => q.sent[k] = 0

LinksUp(q, st) ==
    \A i \in Slot :
       q.slots[i] # None /\ q.slots[i].link \in SppLinks
          => st[q.slots[i].link] = "up"

Ring(q, w, p, st) ==
    /\ Contiguous(q.slots, q.r, w)
    /\ Ordered(q.slots, q.r)
    /\ Known(q, p)
    /\ Untried(q, p)
    /\ LinksUp(q, st)

Counted(q) ==
    HeadOf(q) # None /\ HeadOf(q).event # "ack" =>
       /\ q.status = "active" =>
             q.timer = "ack" /\ q.sent[HeadOf(q).id] <= q.resend + 1
       /\ q.status = "idle" => q.sent[HeadOf(q).id] <= q.resend

Woken(q) ==
    HeadOf(q) # None =>
       \/ q.timer # "off"
       \/ /\ q.status = "active"
          /\ HeadOf(q).link \in LeLinks
          /\ Due(q, HeadOf(q).link, HeadOf(q).id)

SafeInv ==
    /\ TypeInv
    /\ Ring(Now, wIdx, pushed, state)
    /\ Counted(Now)
    /\ Woken(Now)

-----------------------------------------------------------------------------
LEMMA SlotIsInt == \A i \in Slot : i \in Int
  BY QueueNoAssumption DEF Slot

(* Packets with different places have different ids.                        *)
LEMMA IdsDiffer ==
    ASSUME NEW q \in Rec, Ordered(q.slots, q.r), NEW i \in Slot, NEW j \in Slot,
           q.slots[i] # None, q.slots[j] # None, i # j
    PROVE  q.slots[i].id # q.slots[j].id
<1>1. /\ q.r \in Slot
      /\ q.slots[i] \in Packet /\ q.slots[j] \in Packet
  BY DEF Rec
<1>2. q.slots[i].id \in Int /\ q.slots[j].id \in Int
  BY <1>1, PacketIs DEF Ids
<1>3. Dist(q.r, i) \in Int /\ Dist(q.r, j) \in Int
      /\ Plus(q.r, Dist(q.r, i)) = i /\ Plus(q.r, Dist(q.r, j)) = j
  BY <1>1, DistType, SlotIsInt
<1>4. Dist(q.r, i) < Dist(q.r, j) \/ Dist(q.r, j) < Dist(q.r, i)
  BY <1>3
<1> QED
  BY <1>2, <1>4 DEF Ordered

(* The head is tried. *)
LEMMA StaysRing ==
    ASSUME NEW q \in Rec, NEW q2 \in Rec, NEW w \in Slot, NEW p \in Nat, NEW st,
           Ring(q, w, p, st), Stays(q, q2)
    PROVE  Ring(q2, w, p, st) /\ HeadOf(q2) = HeadOf(q)
<1>1. q2.slots = q.slots /\ q2.r = q.r /\ q.r \in Slot
  BY DEF Stays, Rec
<1>2. /\ HeadOf(q) = q.slots[q.r] /\ HeadOf(q) # None
      /\ HeadOf(q).id \in Ids /\ HeadOf(q).id <= p
  BY <1>1, PacketIs DEF Stays, HeadOf, Ring, Known
<1>3. ASSUME NEW i \in Slot, q.slots[i] # None, i # q.r
      PROVE  q2.sent[q.slots[i].id] = 0
  <2>1. q.slots[i].id # HeadOf(q).id
    BY <1>1, <1>2, <1>3, IdsDiffer DEF Ring
  <2>2. q.slots[i].id \in Ids
    BY <1>3, PacketIs DEF Rec
  <2>3. q.sent[q.slots[i].id] = 0
    BY <1>3 DEF Ring, Untried
  <2> QED
    BY <2>1, <2>2, <2>3 DEF Stays
<1>4. ASSUME NEW k \in Ids, k > p
      PROVE  q2.sent[k] = 0
  <2>1. k # HeadOf(q).id
    BY <1>2, <1>4 DEF Ids
  <2> QED
    BY <1>4, <2>1 DEF Stays, Ring, Untried
<1>5. Untried(q2, p)
  BY <1>1, <1>3, <1>4 DEF Untried
<1>6. Known(q2, p) /\ LinksUp(q2, st)
  BY <1>1 DEF Ring, Known, LinksUp
<1> QED
  BY <1>1, <1>5, <1>6 DEF Ring, HeadOf

(* The first n packets leave. *)
LEMMA CutRing ==
    ASSUME NEW q \in Rec, NEW q2 \in Rec, NEW w \in Slot, NEW p \in Nat, NEW st,
           Ring(q, w, p, st), NEW n \in 0..QueueNo,
           q2.slots = Without(q.slots, q.r, n), q2.r = Plus(q.r, n),
           \A k \in 0..n - 1 : At(q, k) # None,
           \A i \in Ids :
              (\A k \in 0..n - 1 : At(q, k).id # i) => q2.sent[i] = q.sent[i]
    PROVE  /\ Ring(q2, w, p, st)
           /\ n # 0 /\ HeadOf(q2) # None => q2.sent[HeadOf(q2).id] = 0
<1>1. q.r \in Slot /\ q.slots \in [Slot -> Packet \cup {None}] /\ q2.r \in Slot
  BY DEF Rec
<1>2. ASSUME NEW k \in 0..n - 1
      PROVE  /\ Plus(q.r, k) \in Slot /\ Dist(q.r, Plus(q.r, k)) = k
             /\ q.slots[Plus(q.r, k)] # None
             /\ At(q, k) = q.slots[Plus(q.r, k)]
  <2>1. k \in Slot
    BY QueueNoAssumption DEF Slot
  <2> QED
    BY <1>1, <2>1, DistPlus DEF At
<1>3. Contiguous(q2.slots, q2.r, w)
  <2>1. \A i \in 0..n - 1 : q.slots[Plus(q.r, i)] # None
    BY <1>2
  <2>2. Contiguous(Without(q.slots, q.r, n), Plus(q.r, n), w)
    BY <1>1, <2>1, CutContiguous DEF Ring
  <2> QED
    BY <2>2
<1>4. Ordered(q2.slots, q2.r)
  <2>1. Ordered(Without(q.slots, q.r, n), Plus(q.r, n))
    BY <1>1, CutOrdered DEF Ring
  <2> QED
    BY <2>1
<1>5. ASSUME NEW i \in Slot, q2.slots[i] # None
      PROVE  q.slots[i] = q2.slots[i] /\ Dist(q.r, i) >= n
  <2>1. q2.slots[i] = IF Dist(q.r, i) < n THEN None ELSE q.slots[i]
    BY DEF Without
  <2>2. Dist(q.r, i) \in Int /\ n \in Int
    BY <1>1, DistType, SlotIsInt
  <2> QED
    BY <1>5, <2>1, <2>2
<1>6. ASSUME NEW i \in Slot, q2.slots[i] # None
      PROVE  q2.sent[q2.slots[i].id] = q.sent[q2.slots[i].id]
  <2>1. q.slots[i] = q2.slots[i] /\ Dist(q.r, i) >= n
    BY <1>5, <1>6
  <2>2. ASSUME NEW k \in 0..n - 1
        PROVE  At(q, k).id # q.slots[i].id
    <3>1. Plus(q.r, k) # i
      BY <1>2, <2>1
    <3> QED
      BY <1>2, <1>6, <2>1, <3>1, IdsDiffer DEF Ring
  <2>3. q.slots[i].id \in Ids
    BY <1>1, <1>6, <2>1, PacketIs
  <2> QED
    BY <2>1, <2>2, <2>3
<1>7. ASSUME n # 0, NEW i \in Slot, q2.slots[i] # None
      PROVE  q2.sent[q2.slots[i].id] = 0
  <2>1. q.slots[i] = q2.slots[i] /\ Dist(q.r, i) >= n
    BY <1>5, <1>7
  <2>2. i # q.r
    BY <1>1, <1>7, <2>1, DistType
  <2> QED
    BY <1>6, <1>7, <2>1, <2>2 DEF Ring, Untried
<1>8. Untried(q2, p)
  <2>1. ASSUME NEW i \in Slot, q2.slots[i] # None, i # q2.r
        PROVE  q2.sent[q2.slots[i].id] = 0
    <3>1. CASE n # 0
      BY <1>7, <2>1, <3>1
    <3>2. CASE n = 0
      <4>1. q2.r = q.r
        BY <1>1, <3>2, PlusWhole
      <4> QED
        BY <1>5, <1>6, <2>1, <4>1 DEF Ring, Untried
    <3> QED
      BY <3>1, <3>2
  <2>2. ASSUME NEW k \in Ids, k > p
        PROVE  q2.sent[k] = 0
    <3>1. ASSUME NEW j \in 0..n - 1
          PROVE  At(q, j).id # k
      <4>1. At(q, j).id <= p /\ At(q, j).id \in Ids
        BY <1>1, <1>2, PacketIs DEF Ring, Known
      <4> QED
        BY <2>2, <4>1 DEF Ids
    <3> QED
      BY <2>2, <3>1 DEF Ring, Untried
  <2> QED
    BY <2>1, <2>2 DEF Untried
<1>9. Known(q2, p) /\ LinksUp(q2, st)
  BY <1>5 DEF Ring, Known, LinksUp
<1> QED
  BY <1>1, <1>3, <1>4, <1>7, <1>8, <1>9 DEF Ring, HeadOf

-----------------------------------------------------------------------------
Safe(q, w, p, st) ==
    Waits(q) /\ Ring(q, w, p, st) /\ Counted(q) /\ Woken(q)

LEMMA PassedSafe ==
    ASSUME NEW q \in Rec, NEW q1 \in Rec, NEW n \in 0..QueueNo,
           NEW w \in Slot, NEW p \in Nat, NEW st,
           Idles(q), Ring(q, w, p, st), Counted(q), PassedTo(q, n, q1)
    PROVE  Idles(q1) /\ Ring(q1, w, p, st) /\ Counted(q1)
<1>1. Idles(q1)
  BY DEF Idles, PassedTo
<1>2. CASE n = 0
  BY <1>1, <1>2 DEF PassedTo
<1>3. CASE n # 0
  <2>1. /\ Ring(q1, w, p, st)
        /\ HeadOf(q1) # None => q1.sent[HeadOf(q1).id] = 0
    BY <1>3, CutRing DEF PassedTo
  <2>2. q1.resend = 0 /\ q1.status = "idle"
    BY <1>1, <1>3 DEF PassedTo, Idles
  <2>3. Counted(q1)
    BY <2>1, <2>2 DEF Counted
  <2> QED
    BY <1>1, <2>1, <2>3
<1> QED
  BY <1>2, <1>3

LEMMA StaysSafe ==
    ASSUME NEW q \in Rec, NEW q2 \in Rec,
           NEW w \in Slot, NEW p \in Nat, NEW st,
           Idles(q), Ring(q, w, p, st), Counted(q),
           AwaitsAck(q, q2) \/ AwaitsCompletion(q, q2) \/ TriesAgain(q, q2)
    PROVE  Safe(q2, w, p, st)
<1>1. Stays(q, q2)
  BY DEF AwaitsAck, AwaitsCompletion, TriesAgain
<1>2. Ring(q2, w, p, st) /\ HeadOf(q2) = HeadOf(q)
  BY <1>1, StaysRing
<1>3. /\ q.status = "idle" /\ q.timer # "ack"
      /\ HeadOf(q) # None /\ HeadOf(q).id \in Ids
      /\ q2.resend = q.resend
  BY <1>1, PacketIs DEF Idles, Stays
<1>4. /\ HeadOf(q).event # "ack" => q.sent[HeadOf(q).id] <= q.resend
      /\ q.sent[HeadOf(q).id] \in Nat /\ q.resend \in Nat
  BY <1>3, ResendNumAssumption DEF Counted, Rec
<1>5. CASE AwaitsAck(q, q2)
  <2>1. q2.status = "active" /\ q2.timer = "ack"
    BY <1>5 DEF AwaitsAck
  <2>2. HeadOf(q).event # "ack" => q2.sent[HeadOf(q).id] <= q2.resend + 1
    BY <1>3, <1>4, <1>5 DEF AwaitsAck
  <2> QED
    BY <1>2, <1>3, <2>1, <2>2 DEF Safe, Waits, Counted, Woken
<1>6. CASE AwaitsCompletion(q, q2)
  <2>1. /\ q2.status = "active" /\ q2.timer # "ack"
        /\ HeadOf(q).event = "ack" /\ HeadOf(q).link \in LeLinks
        /\ Due(q2, HeadOf(q).link, HeadOf(q).id)
    BY <1>3, <1>6 DEF AwaitsCompletion, Due
  <2> QED
    BY <1>2, <1>3, <2>1 DEF Safe, Waits, Counted, Woken
<1>7. CASE TriesAgain(q, q2)
  BY <1>2, <1>3, <1>4, <1>7 DEF Safe, Waits, Counted, Woken, TriesAgain
<1> QED
  BY <1>5, <1>6, <1>7

LEMMA LeavesSafe ==
    ASSUME NEW q \in Rec, NEW q2 \in Rec,
           NEW w \in Slot, NEW p \in Nat, NEW st,
           Idles(q), Ring(q, w, p, st), Leaves(q, q2)
    PROVE  Safe(q2, w, p, st)
<1>1. q.r \in Slot /\ q2.resend \in Nat
  BY ResendNumAssumption DEF Rec
<1>2. PICK n \in 0..QueueNo : n = 1
  BY QueueNoAssumption
<1>3. /\ q2.slots = Without(q.slots, q.r, n) /\ q2.r = Plus(q.r, n)
      /\ q2.status = "idle" /\ q2.timer = "send"
  BY <1>2 DEF Leaves, Idles
<1>4. \A k \in 0..n - 1 : At(q, k) = HeadOf(q)
  BY <1>1, <1>2, PlusWhole DEF At, HeadOf
<1>5. 0 \in 0..n - 1 /\ HeadOf(q) # None
  BY <1>2, PacketIs DEF Leaves
<1>6. /\ \A k \in 0..n - 1 : At(q, k) # None
      /\ \A i \in Ids :
            (\A k \in 0..n - 1 : At(q, k).id # i) => q2.sent[i] = q.sent[i]
  BY <1>4, <1>5 DEF Leaves
<1>7. /\ Ring(q2, w, p, st)
      /\ n # 0 /\ HeadOf(q2) # None => q2.sent[HeadOf(q2).id] = 0
  BY <1>3, <1>6, CutRing
<1> QED
  BY <1>1, <1>2, <1>3, <1>7 DEF Safe, Waits, Counted, Woken

(* app_pop_data_transfer_queue keeps the ring safe. *)
LEMMA PopSafe ==
    ASSUME NEW q \in Rec, NEW w \in Slot, NEW p \in Nat,
           Idles(q) \/ Safe(q, w, p, state'),
           Ring(q, w, p, state'), Counted(q), Pop(q)
    PROVE  \E q2 \in Rec : Becomes(q2) /\ Safe(q2, w, p, state')
<1>1. CASE q.status = "active"
  <2>1. Becomes(q)
    BY <1>1 DEF Pop
  <2>2. Safe(q, w, p, state')
    BY <1>1 DEF Idles
  <2> QED
    BY <2>1, <2>2
<1>2. CASE q.status # "active"
  <2>1. Idles(q) /\ q.status = "idle"
    BY <1>2 DEF Rec, Safe, Waits, Idles
  <2>2. PICK n \in 0..QueueNo, q1 \in Rec, q2 \in Rec : PopTo(q, n, q1, q2)
    BY <2>1, PopIs
  <2>3. Idles(q1) /\ Ring(q1, w, p, state') /\ Counted(q1)
    BY <2>1, <2>2, PassedSafe DEF PopTo
  <2>4. CASE q2 = q1 /\ Gone(q1)
    <3>1. HeadOf(q1) = None
      <4>1. q1.r \in Slot
        BY DEF Rec
      <4> QED
        BY <2>3, <2>4, <4>1 DEF Gone, Ring, LinksUp, HeadOf, Up
    <3> QED
      BY <2>2, <2>3, <2>4, <3>1
         DEF Safe, Waits, Woken, Idles, PopTo
  <2>5. CASE \/ AwaitsAck(q1, q2) \/ AwaitsCompletion(q1, q2)
             \/ TriesAgain(q1, q2)
    <3>1. Safe(q2, w, p, state')
      BY <2>3, <2>5, StaysSafe
    <3> QED
      BY <2>2, <3>1 DEF PopTo
  <2>6. CASE Leaves(q1, q2)
    <3>1. Safe(q2, w, p, state')
      BY <2>3, <2>6, LeavesSafe
    <3> QED
      BY <2>2, <3>1 DEF PopTo
  <2> QED
    BY <2>2, <2>4, <2>5, <2>6 DEF PopTo, Served
<1> QED
  BY <1>1, <1>2

LEMMA DiscardSafe ==
    ASSUME NEW q \in Rec, NEW w \in Slot, NEW p \in Nat,
           Ring(q, w, p, state'), HeadOf(q) \in Packet, Pop(Discarded(q))
    PROVE  \E q2 \in Rec : Becomes(q2) /\ Safe(q2, w, p, state')
<1>1. PICK d \in Rec :
         /\ d = Discarded(q)
         /\ d.slots = Without(q.slots, q.r, 1) /\ d.r = Plus(q.r, 1)
         /\ d.resend = 0 /\ d.status = "idle" /\ d.timer = "off"
         /\ d.sent = q.sent
  BY DiscardIs
<1>2. Pop(d)
  BY <1>1, Zenon
<1>3. PICK n \in 0..QueueNo : n = 1
  BY QueueNoAssumption
<1>4. /\ Ring(d, w, p, state')
      /\ n # 0 /\ HeadOf(d) # None => d.sent[HeadOf(d).id] = 0
  <2>1. d.slots = Without(q.slots, q.r, n) /\ d.r = Plus(q.r, n)
    BY <1>1, <1>3, Zenon
  <2>2. q.r \in Slot
    BY DEF Rec
  <2>3. \A k \in 0..n - 1 : At(q, k) = HeadOf(q)
    BY <1>3, <2>2, PlusWhole DEF At, HeadOf
  <2>4. \A k \in 0..n - 1 : At(q, k) # None
    BY <2>3, PacketIs
  <2>5. \A i \in Ids : d.sent[i] = q.sent[i]
    BY <1>1
  <2> QED
    BY <2>1, <2>4, <2>5, CutRing
<1>5. Counted(d) /\ Idles(d)
  BY <1>1, <1>3, <1>4 DEF Counted, Idles
<1> QED
  BY <1>2, <1>4, <1>5, PopSafe

LEMMA PopNextSafe ==
    ASSUME NEW q \in Rec, NEW w \in Slot, NEW p \in Nat,
           Ring(q, w, p, state'), Waits(q), PopNext(q)
    PROVE  \E q2 \in Rec : Becomes(q2) /\ Safe(q2, w, p, state')
<1>1. CASE /\ HeadOf(q) = None
           /\ \E q2 \in Rec :
                 /\ q2.slots = q.slots /\ q2.r = q.r /\ q2.sent = q.sent
                 /\ q2.resend = q.resend /\ q2.status = q.status
                 /\ q2.timer = "off"
                 /\ Becomes(q2)
  <2>1. PICK q2 \in Rec :
           /\ q2.slots = q.slots /\ q2.r = q.r /\ q2.sent = q.sent
           /\ q2.resend = q.resend /\ q2.status = q.status
           /\ q2.timer = "off"
           /\ Becomes(q2)
    BY <1>1
  <2>2. HeadOf(q2) = None /\ q2.status # "active"
    BY <1>1, <2>1 DEF HeadOf, Waits
  <2>3. Ring(q2, w, p, state')
    BY <2>1 DEF Ring, Known, Untried, LinksUp
  <2>4. Safe(q2, w, p, state')
    BY <2>1, <2>2, <2>3 DEF Safe, Waits, Counted, Woken
  <2> QED
    BY <2>1, <2>4
<1>2. CASE HeadOf(q) \in Packet /\ Pop(Discarded(q))
  BY <1>2, DiscardSafe
<1> QED
  BY <1>1, <1>2, PopNextIs

-----------------------------------------------------------------------------
LEMMA NowFields ==
    /\ Now.slots = slots /\ Now.r = rIdx /\ Now.sent = sent
    /\ Now.resend = resend /\ Now.status = status /\ Now.timer = timer
    /\ Now.handed = handed
  BY DEF Now

LEMMA SafeNow ==
    ASSUME SafeInv
    PROVE  /\ TypeOK /\ Waits(Now) /\ Safe(Now, wIdx, pushed, state)
           /\ wIdx \in Slot /\ rIdx \in Slot /\ pushed \in Nat
           /\ Now \in Rec
  BY NowTyped, BoundsAssumption DEF SafeInv, TypeInv, TypeOK, Safe

LEMMA BecomesSafe ==
    ASSUME TypeInv', NEW q \in Rec, Becomes(q),
           Safe(q, wIdx', pushed', state')
    PROVE  SafeInv'
<1>1. Now' = q
  BY NowIs
<1>2. /\ Ring(Now', wIdx', pushed', state')
      /\ Counted(Now') /\ Woken(Now')
  BY <1>1, Zenon DEF Safe
<1>3. /\ Ring(Now, wIdx, pushed, state)'
      /\ Counted(Now)' /\ Woken(Now)'
  BY <1>2, Zenon
     DEF Ring, Known, Untried, LinksUp, Counted, Woken, HeadOf, Due, Ordered,
         Contiguous
<1> QED
  BY <1>3 DEF SafeInv

LEMMA SameSafe ==
    ASSUME SafeInv, NEW q \in Rec, SameRing(q), SameTimer(q)
    PROVE  /\ Ring(q, wIdx, pushed, state) /\ Waits(q) /\ Counted(q)
           /\ q.handed = handed => Safe(q, wIdx, pushed, state)
<1>1. PICK n \in Rec : n = Now /\ Safe(n, wIdx, pushed, state)
  BY SafeNow
<1>2. /\ q.slots = n.slots /\ q.r = n.r /\ q.sent = n.sent
      /\ q.resend = n.resend /\ q.status = n.status /\ q.timer = n.timer
      /\ n.handed = handed
  BY <1>1, NowFields DEF SameRing, SameTimer
<1>3. HeadOf(q) = HeadOf(n)
  BY <1>2 DEF HeadOf
<1>4. Ring(q, wIdx, pushed, state)
  BY <1>1, <1>2 DEF Safe, Ring, Known, Untried, LinksUp
<1>5. Waits(q) /\ Counted(q)
  BY <1>1, <1>2, <1>3 DEF Safe, Waits, Counted
<1>6. q.handed = handed => Woken(q)
  BY <1>1, <1>2, <1>3 DEF Safe, Woken, Due
<1> QED
  BY <1>4, <1>5, <1>6 DEF Safe

(* A packet is reported, while there is room.  It is the head of an empty   *)
(* ring and leaves another head as it is.                                   *)
Reported(q, p) ==
    /\ q.slots = Store(slots, wIdx, p) /\ q.r = rIdx /\ q.sent = sent
    /\ q.resend = resend /\ SameTimer(q) /\ q.handed = handed
    /\ SameLines(q)
    /\ slots[wIdx] = None
    /\ Pop(q)

LEMMA PushReady ==
    ASSUME SafeInv, "full" \notin Inputs,
           NEW l \in Links, NEW e \in Kinds, Push(l, e)
    PROVE  \E q \in Rec, p \in Packet :
              /\ Reported(q, p)
              /\ Ring(q, wIdx', pushed', state')
              /\ Waits(q) /\ Counted(q)
              /\ First = None => Idles(q) /\ HeadOf(q) = p /\ sent[p.id] = 0
              /\ First # None => Woken(q) /\ HeadOf(q) = First
<1>1. PICK q \in Rec, p \in Packet :
         /\ p = [id |-> pushed + 1, link |-> l, event |-> e]
         /\ q.slots = Store(slots, wIdx, p) /\ q.r = rIdx /\ q.sent = sent
         /\ q.resend = resend /\ SameTimer(q) /\ q.handed = handed
         /\ SameLines(q)
         /\ slots[wIdx] = None
         /\ Pop(q)
  BY SafeNow, PushIs
<1>2. p # None /\ p.id = pushed + 1 /\ p.link = l /\ p.id \in Ids
  BY <1>1, PacketIs
<1>3. /\ pushed' = pushed + 1 /\ wIdx' = Plus(wIdx, 1) /\ state' = state
      /\ state[l] = "up"
  BY DEF Push, linkVars
<1>4. PICK w, c : w = Plus(wIdx, 1) /\ c = pushed + 1
  OBVIOUS
<1>5. /\ wIdx \in Slot /\ rIdx \in Slot /\ pushed \in Nat
      /\ w \in Slot /\ c \in Nat
      /\ slots \in [Slot -> Packet \cup {None}]
      /\ sent \in [Ids -> Nat] /\ resend \in Nat
  BY <1>4, SafeNow, PlusType, QueueNoAssumption, ResendNumAssumption DEF TypeOK
<1>6. /\ Contiguous(slots, rIdx, wIdx) /\ Ordered(slots, rIdx)
      /\ Waits(Now) /\ Counted(Now) /\ Woken(Now)
      /\ Known(Now, pushed) /\ Untried(Now, pushed) /\ LinksUp(Now, state)
  BY SafeNow, NowFields DEF Safe, Ring
<1>7. \A i \in Slot :
         /\ i = wIdx => q.slots[i] = p
         /\ i # wIdx => q.slots[i] = slots[i]
  BY <1>1, <1>5 DEF Store
<1>8. \A i \in Slot : slots[i] # None => slots[i].id <= pushed /\ slots[i].id \in Ids
  BY <1>5, <1>6, NowFields, PacketIs DEF Known
<1>9. Contiguous(q.slots, q.r, w)
  <2>1. Contiguous(Store(slots, wIdx, p), rIdx, Plus(wIdx, 1))
    BY <1>1, <1>2, <1>5, <1>6, StoreContiguous
  <2> QED
    BY <1>1, <1>4, <2>1, Zenon
<1>10. Ordered(q.slots, q.r)
  <2>1. \A i \in Slot : slots[i] # None => slots[i].id < p.id
    BY <1>2, <1>5, <1>8 DEF Ids
  <2>2. Ordered(Store(slots, wIdx, p), rIdx)
    BY <1>1, <1>5, <1>6, <2>1, StoreOrdered
  <2> QED
    BY <1>1, <2>2, Zenon
<1>11. Known(q, c)
  BY <1>2, <1>4, <1>5, <1>7, <1>8 DEF Known, Ids
<1>12. Untried(q, c)
  <2>1. ASSUME NEW i \in Slot, q.slots[i] # None, i # q.r
        PROVE  q.sent[q.slots[i].id] = 0
    <3>1. CASE i = wIdx
      BY <1>1, <1>2, <1>5, <1>6, <1>7, <2>1, <3>1, NowFields DEF Untried
    <3>2. CASE i # wIdx
      BY <1>1, <1>6, <1>7, <2>1, <3>2, NowFields DEF Untried
    <3> QED
      BY <3>1, <3>2
  <2>2. ASSUME NEW k \in Ids, k > c
        PROVE  q.sent[k] = 0
    <3>1. k > pushed
      BY <1>4, <1>5, <2>2 DEF Ids
    <3> QED
      BY <1>1, <1>6, <3>1, NowFields DEF Untried
  <2> QED
    BY <2>1, <2>2 DEF Untried
<1>13. LinksUp(q, state')
  BY <1>2, <1>3, <1>6, <1>7, NowFields DEF LinksUp
<1>14. Ring(q, w, c, state')
  BY <1>9, <1>10, <1>11, <1>12, <1>13 DEF Ring
<1>15. Ring(q, wIdx', pushed', state')
  BY <1>3, <1>4, <1>14
<1>16. Reported(q, p)
  BY <1>1 DEF Reported
<1>17. CASE First = None
  <2>1. wIdx = rIdx /\ HeadOf(Now) = None
    BY <1>6, <1>17, NowFields DEF First, Contiguous, HeadOf
  <2>2. HeadOf(q) = p
    BY <1>1, <1>5, <1>7, <2>1 DEF HeadOf
  <2>3. status = "idle" /\ Idles(q)
    BY <1>1, <1>6, <2>1, NowFields, SafeNow DEF Waits, Idles, SameTimer, TypeOK
  <2>4. sent[p.id] = 0
    BY <1>2, <1>5, <1>6, NowFields DEF Untried
  <2>5. Counted(q)
    BY <1>1, <1>5, <2>2, <2>3, <2>4 DEF Counted, Idles
  <2>6. Waits(q)
    BY <2>3 DEF Waits, Idles
  <2> QED
    BY <1>15, <1>16, <1>17, <2>2, <2>3, <2>4, <2>5, <2>6
<1>18. CASE First # None
  <2>1. HeadOf(q) = HeadOf(Now) /\ HeadOf(Now) = First
    BY <1>1, <1>5, <1>7, <1>18, NowFields DEF First, HeadOf
  <2>2. Waits(q) /\ Counted(q) /\ Woken(q)
    <3>1. /\ q.status = Now.status /\ q.timer = Now.timer
          /\ q.sent = Now.sent /\ q.resend = Now.resend
          /\ q.handed = Now.handed
      BY <1>1, NowFields DEF SameTimer
    <3> QED
      BY <1>6, <2>1, <3>1 DEF Waits, Counted, Woken, Due
  <2> QED
    BY <1>15, <1>16, <1>18, <2>1, <2>2
<1> QED
  BY <1>17, <1>18

LEMMA PushSafe ==
    ASSUME SafeInv, TypeInv', "full" \notin Inputs,
           NEW l \in Links, NEW e \in Kinds, Push(l, e)
    PROVE  SafeInv'
<1>1. PICK q \in Rec, p \in Packet :
         /\ Reported(q, p)
         /\ Ring(q, wIdx', pushed', state')
         /\ Waits(q) /\ Counted(q)
         /\ Idles(q) \/ Woken(q)
  BY PushReady
<1>2. Safe(q, wIdx', pushed', state') \/ Idles(q)
  BY <1>1 DEF Safe
<1>3. wIdx' \in Slot /\ pushed' \in Nat
  BY BoundsAssumption DEF TypeInv, TypeOK
<1>4. PICK q2 \in Rec : Becomes(q2) /\ Safe(q2, wIdx', pushed', state')
  BY <1>1, <1>2, <1>3, PopSafe DEF Reported
<1> QED
  BY <1>4, BecomesSafe

LEMMA RecvAckSafe ==
    ASSUME SafeInv, TypeInv', NEW l \in Links, RecvAck(l)
    PROVE  SafeInv'
<1>1. PICK q \in Rec : /\ SameRing(q) /\ SameTimer(q) /\ q.handed = handed
                       /\ PopNext(q) \/ Pop(q)
  BY SafeNow, RecvAckIs
<1>2. wIdx' = wIdx /\ pushed' = pushed /\ state' = state
  BY DEF RecvAck, linkVars
<1>3. /\ Ring(q, wIdx', pushed', state') /\ Waits(q) /\ Counted(q)
      /\ Safe(q, wIdx', pushed', state')
      /\ wIdx' \in Slot /\ pushed' \in Nat
  BY <1>1, <1>2, SameSafe, SafeNow
<1>4. \E q2 \in Rec : Becomes(q2) /\ Safe(q2, wIdx', pushed', state')
  BY <1>1, <1>3, PopSafe, PopNextSafe
<1> QED
  BY <1>4, BecomesSafe

LEMMA SendCompleteSafe ==
    ASSUME SafeInv, TypeInv', NEW l \in LeLinks, SendComplete(l)
    PROVE  SafeInv'
<1>1. PICK q \in Rec : SameRing(q) /\ SameTimer(q) /\ PopNext(q)
  BY SafeNow, SendCompleteIs
<1>2. wIdx' = wIdx /\ pushed' = pushed /\ state' = state
  BY DEF SendComplete, linkVars
<1>3. /\ Ring(q, wIdx', pushed', state') /\ Waits(q)
      /\ wIdx' \in Slot /\ pushed' \in Nat
  BY <1>1, <1>2, SameSafe, SafeNow
<1>4. \E q2 \in Rec : Becomes(q2) /\ Safe(q2, wIdx', pushed', state')
  BY <1>1, <1>3, PopNextSafe
<1> QED
  BY <1>4, BecomesSafe

LEMMA TimeoutSafe ==
    ASSUME SafeInv, TypeInv', Timeout
    PROVE  SafeInv'
<1>1. PICK q \in Rec :
         /\ q.slots = slots /\ q.r = rIdx /\ q.sent = sent
         /\ q.timer = "off" /\ q.status = "idle"
         /\ \/ timer = "send" /\ q.resend = resend /\ Pop(q)
            \/ timer = "ack" /\ q.resend = resend + 1 /\ Pop(q)
            \/ HeadOf(q) \in Packet /\ Pop(Discarded(q))
  BY TimeoutIs DEF SafeInv
<1>2. wIdx' = wIdx /\ pushed' = pushed /\ state' = state
  BY DEF Timeout, linkVars
<1>3. /\ Waits(Now) /\ Counted(Now) /\ Ring(Now, wIdx, pushed, state)
      /\ wIdx' \in Slot /\ pushed' \in Nat /\ status \in {"idle", "active"}
  BY <1>2, SafeNow DEF Safe, TypeOK
<1>4. Ring(q, wIdx', pushed', state') /\ HeadOf(q) = HeadOf(Now)
  BY <1>1, <1>2, <1>3, NowFields DEF Ring, Known, Untried, LinksUp, HeadOf
<1>5. Idles(q)
  BY <1>1 DEF Idles
<1>6. CASE HeadOf(q) \in Packet /\ Pop(Discarded(q))
  <2>1. \E q2 \in Rec : Becomes(q2) /\ Safe(q2, wIdx', pushed', state')
    BY <1>3, <1>4, <1>6, DiscardSafe
  <2> QED
    BY <2>1, BecomesSafe
<1>7. CASE /\ Pop(q)
           /\ \/ timer = "send" /\ q.resend = resend
              \/ timer = "ack" /\ q.resend = resend + 1
  <2>1. Counted(q)
    BY <1>1, <1>3, <1>4, <1>7, NowFields DEF Counted, Waits
  <2>2. \E q2 \in Rec : Becomes(q2) /\ Safe(q2, wIdx', pushed', state')
    BY <1>3, <1>4, <1>5, <1>7, <2>1, PopSafe
  <2> QED
    BY <2>2, BecomesSafe
<1> QED
  BY <1>1, <1>6, <1>7

LEMMA SppConnectSafe ==
    ASSUME SafeInv, TypeInv', NEW l \in SppLinks, SppConnect(l)
    PROVE  SafeInv'
<1>1. PICK q \in Rec : /\ SameRing(q) /\ SameTimer(q) /\ q.handed = handed
                       /\ Becomes(q) \/ Pop(q)
  BY SafeNow, SppConnectIs
<1>2. /\ wIdx' = wIdx /\ pushed' = pushed
      /\ state' = [state EXCEPT ![l] = "up"]
      /\ state \in [Links -> {"up", "leaving", "down"}]
  BY SafeNow DEF SppConnect, TypeOK
<1>3. Safe(q, wIdx, pushed, state) /\ wIdx \in Slot /\ pushed \in Nat
  BY <1>1, SameSafe, SafeNow
<1>4. LinksUp(q, state')
  <2>1. \A k \in SppLinks : state[k] = "up" => state'[k] = "up"
    BY <1>2 DEF Links
  <2> QED
    BY <1>3, <2>1 DEF Safe, Ring, LinksUp
<1>5. Ring(q, wIdx', pushed', state') /\ Safe(q, wIdx', pushed', state')
  BY <1>2, <1>3, <1>4 DEF Safe, Ring
<1>6. \E q2 \in Rec : Becomes(q2) /\ Safe(q2, wIdx', pushed', state')
  <2>1. CASE Becomes(q)
    BY <1>5, <2>1
  <2>2. CASE Pop(q)
    <3>1. Counted(q) /\ wIdx' \in Slot /\ pushed' \in Nat
      BY <1>2, <1>3 DEF Safe
    <3> QED
      BY <1>5, <2>2, <3>1, PopSafe
  <2> QED
    BY <1>1, <2>1, <2>2
<1> QED
  BY <1>6, BecomesSafe

LEMMA ResetSafe ==
    ASSUME SafeInv, TypeInv', pushed' = pushed,
           \E q \in Rec : Empty(q) /\ Becomes(q) /\ wIdx' = 0
    PROVE  SafeInv'
<1>1. PICK q \in Rec : Empty(q) /\ Becomes(q) /\ wIdx' = 0
  OBVIOUS
<1>2. \A i \in Slot : q.slots[i] = None
  BY <1>1 DEF Empty
<1>3. 0 \in Slot /\ q.r = 0 /\ q.sent = sent /\ q.status = "idle"
      /\ q.timer = "off"
  BY <1>1, QueueNoAssumption DEF Slot, Empty
<1>4. HeadOf(q) = None
  BY <1>2, <1>3 DEF HeadOf
<1>5. \A k \in Ids : k > pushed => sent[k] = 0
  BY SafeNow, NowFields DEF Safe, Ring, Untried
<1>6. Ring(q, wIdx', pushed', state')
  BY <1>1, <1>2, <1>3, <1>5
     DEF Ring, Contiguous, Ordered, Known, Untried, LinksUp
<1>7. Safe(q, wIdx', pushed', state')
  BY <1>3, <1>4, <1>6 DEF Safe, Waits, Counted, Woken
<1> QED
  BY <1>1, <1>7, BecomesSafe

(* The ring is untouched, and only LE links change. *)
LEMMA LinkSafe ==
    ASSUME SafeInv, TypeInv', NEW q \in Rec, Becomes(q),
           SameRing(q), SameTimer(q), q.handed = handed,
           wIdx' = wIdx, pushed' = pushed,
           \A k \in SppLinks : state'[k] = state[k]
    PROVE  SafeInv'
<1>1. Safe(q, wIdx, pushed, state)
  BY SameSafe
<1>2. LinksUp(q, state')
  BY <1>1 DEF Safe, Ring, LinksUp
<1>3. Safe(q, wIdx', pushed', state')
  BY <1>1, <1>2 DEF Safe, Ring
<1> QED
  BY <1>3, BecomesSafe

LEMMA CreditRcvdSafe ==
    ASSUME SafeInv, TypeInv', NEW l \in SppLinks, CreditRcvd(l)
    PROVE  SafeInv'
<1>1. PICK n \in Rec : n = Now /\ SameRing(n) /\ SameTimer(n) /\ n.handed = handed
  BY NowSame, SafeNow
<1>2. PICK c \in [SppLinks -> 0..MaxCredit] : c = credit'
  BY DEF TypeInv, TypeOK
<1> DEFINE q == [n EXCEPT !.credit = c]
<1>3. /\ q \in Rec /\ SameRing(q) /\ SameTimer(q) /\ q.handed = handed
      /\ q.credit = credit' /\ q.answers = n.answers
  BY <1>1, <1>2 DEF Rec, SameRing, SameTimer
<1> HIDE DEF q
<1>4. n.answers = answers
  BY <1>1 DEF Now
<1>5. Becomes(q)
  BY <1>3, <1>4 DEF CreditRcvd, Becomes, SameRing, SameTimer
<1>6. /\ wIdx' = wIdx /\ pushed' = pushed
      /\ \A k \in SppLinks : state'[k] = state[k]
  BY DEF CreditRcvd, linkVars
<1> QED
  BY <1>3, <1>5, <1>6, LinkSafe

LEMMA LeLinkSafe ==
    ASSUME SafeInv, TypeInv', UNCHANGED popVars, wIdx' = wIdx, pushed' = pushed,
           \A k \in SppLinks : state'[k] = state[k]
    PROVE  SafeInv'
<1>1. PICK n \in Rec : n = Now /\ SameRing(n) /\ SameTimer(n) /\ n.handed = handed
  BY NowSame, SafeNow
<1>2. Becomes(n)
  BY <1>1 DEF Becomes, Now, popVars
<1> QED
  BY <1>1, <1>2, LinkSafe

LEMMA SafeStep ==
    ASSUME "full" \notin Inputs, SafeInv, [Next]_vars
    PROVE  SafeInv'
<1>1. TypeInv'
  BY TypeStep DEF SafeInv
<1>2. \A k \in SppLinks, l \in LeLinks : k \in Links /\ k # l
  BY LinksAssumption DEF Links
<1>3. state \in [Links -> {"up", "leaving", "down"}]
  BY SafeNow DEF TypeOK
<1>4. ASSUME NEW l \in SppLinks, SppDisconnect(l)
      PROVE  SafeInv'
  <2>1. \E q \in Rec : Empty(q) /\ Becomes(q) /\ wIdx' = 0
    BY <1>4, SafeNow, SppDisconnectIs
  <2>2. pushed' = pushed
    BY <1>4 DEF SppDisconnect
  <2> QED
    BY <1>1, <2>1, <2>2, ResetSafe
<1>5. ASSUME NEW l \in LeLinks, LeDisconnect(l)
      PROVE  SafeInv'
  <2>1. \E q \in Rec : Empty(q) /\ Becomes(q) /\ wIdx' = 0
    BY <1>5, SafeNow, LeDisconnectIs
  <2>2. pushed' = pushed
    BY <1>5 DEF LeDisconnect
  <2> QED
    BY <1>1, <2>1, <2>2, ResetSafe
<1>6. ASSUME NEW l \in LeLinks,
             LeConnect(l) \/ LeDisconnecting(l) \/ LeReady(l)
      PROVE  SafeInv'
  <2>1. UNCHANGED popVars /\ wIdx' = wIdx /\ pushed' = pushed
    BY <1>6 DEF LeConnect, LeDisconnecting, LeReady
  <2>2. \A k \in SppLinks : state'[k] = state[k]
    <3>1. PICK v : state' = state \/ state' = [state EXCEPT ![l] = v]
      BY <1>6 DEF LeConnect, LeDisconnecting, LeReady
    <3> QED
      BY <1>2, <1>3, <3>1
  <2> QED
    BY <1>1, <2>1, <2>2, LeLinkSafe
<1>7. CASE UNCHANGED vars
  <2>1. UNCHANGED popVars /\ wIdx' = wIdx /\ pushed' = pushed /\ state' = state
    BY <1>7 DEF vars, linkVars
  <2> QED
    BY <1>1, <2>1, LeLinkSafe
<1> QED
  BY <1>1, <1>4, <1>5, <1>6, <1>7, PushSafe, RecvAckSafe, SendCompleteSafe,
     TimeoutSafe, SppConnectSafe, CreditRcvdSafe DEF Next

LEMMA SafeInit == Init => SafeInv
<1> SUFFICES ASSUME Init
             PROVE  SafeInv
  OBVIOUS
<1>1. TypeInv
  BY TypeInit
<1>2. 0 \in Slot
  BY QueueNoAssumption DEF Slot
<1>3. \A i \in Slot : Now.slots[i] = None
  BY NowFields DEF Init
<1>4. Now.r = 0 /\ wIdx = 0 /\ HeadOf(Now) = None
  BY <1>2, <1>3, NowFields DEF Init, HeadOf
<1>5. \A k \in Ids : Now.sent[k] = 0
  BY NowFields DEF Init
<1>6. Ring(Now, wIdx, pushed, state)
  BY <1>2, <1>3, <1>4, <1>5
     DEF Ring, Contiguous, Ordered, Known, Untried, LinksUp
<1> QED
  BY <1>1, <1>4, <1>6 DEF SafeInv, Counted, Woken

THEOREM Inductive ==
    ASSUME "full" \notin Inputs
    PROVE  Spec => []SafeInv
<1>1. SafeInv /\ [Next]_vars => SafeInv'
  BY SafeStep
<1> QED
  BY <1>1, SafeInit, PTL DEF Spec

(* Read index, write index and active flags never disagree, as long as the  *)
(* packets reported find room.                                              *)
THEOREM RingIsContiguous ==
    ASSUME "full" \notin Inputs
    PROVE  Spec => []RingInv
<1>1. SafeInv => RingInv
  BY SafeNow, NowFields DEF RingInv, Safe, Ring
<1> QED
  BY <1>1, Inductive, PTL

(* A waiting packet is never forgotten: the timer runs, or the completion   *)
(* of an LE EVENT_ACK is outstanding.                                       *)
THEOREM RingNeverStuck ==
    ASSUME "full" \notin Inputs
    PROVE  Spec => []NeverStuck
<1>1. ASSUME SafeInv
      PROVE  NeverStuck
  <2>1. Woken(Now) /\ Contiguous(slots, rIdx, wIdx)
    BY <1>1, SafeNow, NowFields DEF Safe, Ring
  <2>2. HeadOf(Now) = First
    BY NowFields DEF HeadOf, First
  <2>3. First # None => timer # "off" \/ (status = "active" /\ CompletionDue)
    <3>1. First # None =>
             \/ timer # "off"
             \/ /\ status = "active" /\ First.link \in LeLinks
                /\ Due(Now, First.link, First.id)
      BY <2>1, <2>2, NowFields DEF Woken
    <3>2. First.link \in LeLinks /\ Due(Now, First.link, First.id)
             => CompletionDue
      BY NowFields DEF Due, CompletionDue
    <3> QED
      BY <3>1, <3>2
  <2>4. First = None => \A i \in Slot : slots[i] = None
    BY <2>1 DEF First, Contiguous
  <2> QED
    BY <2>3, <2>4 DEF NeverStuck
<1> QED
  BY <1>1, Inductive, PTL

(* A peer hears the same event at most dt_resend_num times.                 *)
THEOREM SendsAreBounded ==
    ASSUME "full" \notin Inputs
    PROVE  Spec => []SendBound
<1>1. ASSUME SafeInv
      PROVE  SendBound
  <2>1. /\ Counted(Now) /\ Untried(Now, pushed)
        /\ resend \in 0..ResendNum - 1 /\ status \in {"idle", "active"}
        /\ slots \in [Slot -> Packet \cup {None}] /\ sent \in [Ids -> Nat]
    BY <1>1, SafeNow DEF Safe, Ring, TypeOK
  <2>2. ASSUME NEW i \in Slot, slots[i] # None, slots[i].event # "ack"
        PROVE  sent[slots[i].id] <= ResendNum
    <3>1. slots[i].id \in Ids
      BY <2>1, <2>2, PacketIs
    <3>2. CASE i = rIdx
      <4>1. HeadOf(Now) = slots[i]
        BY <3>2, NowFields DEF HeadOf
      <4>2. \/ sent[slots[i].id] <= resend
            \/ sent[slots[i].id] <= resend + 1
        BY <2>1, <2>2, <4>1, NowFields DEF Counted
      <4>3. sent[slots[i].id] \in Nat
        BY <2>1, <3>1
      <4> QED
        BY <2>1, <4>2, <4>3, ResendNumAssumption
    <3>3. CASE i # rIdx
      BY <2>1, <2>2, <3>3, NowFields, ResendNumAssumption DEF Untried
    <3> QED
      BY <3>2, <3>3
  <2> QED
    BY <2>2 DEF SendBound
<1> QED
  BY <1>1, Inductive, PTL

-----------------------------------------------------------------------------
(***************************************************************************)
(* The ring implements PacketFifo: a handler lets packets go from the head  *)
(* of the queue that the ring represents.                                   *)
(***************************************************************************)
Cut(q, q2, w, c, n, d) ==
    /\ d = c - n
    /\ Filled(q2.slots, q2.r, w, d)
    /\ QueueOf(q2.slots, q2.r, d) = After(QueueOf(q.slots, q.r, c), n)

Shrinks(q, q2, w) ==
    \A c \in 0..QueueNo :
       Filled(q.slots, q.r, w, c) =>
          \E n \in 0..c, d \in 0..QueueNo : Cut(q, q2, w, c, n, d)

LEMMA QueueOfIs ==
    ASSUME NEW sl, NEW r, NEW c \in 0..QueueNo
    PROVE  IsQueue(QueueOf(sl, r, c), c) /\ Len(QueueOf(sl, r, c)) = c
<1>1. IsQueue(QueueOf(sl, r, c), c)
  BY QueueNoAssumption DEF IsQueue, QueueOf
<1> QED
  BY <1>1, AfterNone

LEMMA ShrinksSame ==
    ASSUME NEW q, NEW q2, NEW w, q2.slots = q.slots, q2.r = q.r
    PROVE  Shrinks(q, q2, w)
<1> SUFFICES ASSUME NEW c \in 0..QueueNo, Filled(q.slots, q.r, w, c)
             PROVE  \E n \in 0..c, d \in 0..QueueNo : Cut(q, q2, w, c, n, d)
  BY DEF Shrinks
<1>1. PICK n \in 0..c : n = 0
  BY QueueNoAssumption
<1>2. After(QueueOf(q.slots, q.r, c), n) = QueueOf(q.slots, q.r, c)
  BY <1>1, QueueOfIs, AfterNone
<1>3. c = c - n
  BY <1>1, QueueNoAssumption
<1>4. Cut(q, q2, w, c, n, c)
  BY <1>2, <1>3, Zenon DEF Cut
<1> QED
  BY <1>4

LEMMA ShrinksCut ==
    ASSUME NEW q \in Rec, NEW q2 \in Rec, NEW w, NEW n \in 0..QueueNo,
           q2.slots = Without(q.slots, q.r, n), q2.r = Plus(q.r, n),
           \A k \in 0..n - 1 : At(q, k) # None
    PROVE  Shrinks(q, q2, w)
<1> SUFFICES ASSUME NEW c \in 0..QueueNo, Filled(q.slots, q.r, w, c)
             PROVE  \E m \in 0..c, d \in 0..QueueNo : Cut(q, q2, w, c, m, d)
  BY DEF Shrinks
<1>1. q.r \in Slot
  BY DEF Rec
<1>2. n \in 0..c
  <2>1. \A i \in 0..n - 1 : q.slots[Plus(q.r, i)] # None
    BY DEF At
  <2>2. n <= c
    BY <1>1, <2>1, HeadsAreFilled
  <2> QED
    BY <2>2, QueueNoAssumption
<1>3. PICK d \in Nat : d = c - n /\ d \in 0..QueueNo
  BY <1>2, QueueNoAssumption
<1>4. /\ Filled(Without(q.slots, q.r, n), Plus(q.r, n), w, d)
      /\ QueueOf(Without(q.slots, q.r, n), Plus(q.r, n), d)
            = After(QueueOf(q.slots, q.r, c), n)
  BY <1>1, <1>2, <1>3, CutQueue
<1>5. Cut(q, q2, w, c, n, d)
  BY <1>3, <1>4, Zenon DEF Cut
<1> QED
  BY <1>2, <1>3, <1>5

LEMMA ShrinksTwice ==
    ASSUME NEW q, NEW q1, NEW q2, NEW w, Shrinks(q, q1, w), Shrinks(q1, q2, w)
    PROVE  Shrinks(q, q2, w)
<1> SUFFICES ASSUME NEW c \in 0..QueueNo, Filled(q.slots, q.r, w, c)
             PROVE  \E n \in 0..c, d \in 0..QueueNo : Cut(q, q2, w, c, n, d)
  BY DEF Shrinks
<1>1. PICK n \in 0..c, d \in 0..QueueNo : Cut(q, q1, w, c, n, d)
  BY DEF Shrinks
<1>2. /\ d = c - n /\ Filled(q1.slots, q1.r, w, d)
      /\ QueueOf(q1.slots, q1.r, d) = After(QueueOf(q.slots, q.r, c), n)
  BY <1>1 DEF Cut
<1>3. PICK m \in 0..d, e \in 0..QueueNo : Cut(q1, q2, w, d, m, e)
  BY <1>2 DEF Shrinks
<1>4. /\ e = d - m /\ Filled(q2.slots, q2.r, w, e)
      /\ QueueOf(q2.slots, q2.r, e) = After(QueueOf(q1.slots, q1.r, d), m)
  BY <1>3 DEF Cut
<1>5. PICK k \in 0..c : k = n + m /\ e = c - k /\ m \in 0..c - n
  BY <1>2, <1>4, QueueNoAssumption
<1>6. After(After(QueueOf(q.slots, q.r, c), n), m)
        = After(QueueOf(q.slots, q.r, c), n + m)
  BY <1>5, QueueOfIs, AfterAfter, QueueNoAssumption
<1>7. Cut(q, q2, w, c, k, e)
  BY <1>2, <1>4, <1>5, <1>6, Zenon DEF Cut
<1> QED
  BY <1>7

LEMMA ShrinksHead ==
    ASSUME NEW q \in Rec, NEW q2 \in Rec, NEW w, HeadOf(q) \in Packet,
           q2.slots = Without(q.slots, q.r, 1), q2.r = Plus(q.r, 1)
    PROVE  Shrinks(q, q2, w)
<1>1. PICK n \in 0..QueueNo : n = 1
  BY QueueNoAssumption
<1>2. q.r \in Slot
  BY DEF Rec
<1>3. \A k \in 0..n - 1 : At(q, k) # None
  BY <1>1, <1>2, PlusWhole, PacketIs DEF At, HeadOf
<1>4. q2.slots = Without(q.slots, q.r, n) /\ q2.r = Plus(q.r, n)
  BY <1>1, Zenon
<1> QED
  BY <1>3, <1>4, ShrinksCut

LEMMA PopShrinks ==
    ASSUME NEW q \in Rec, NEW w, Pop(q)
    PROVE  \E q2 \in Rec : Becomes(q2) /\ Shrinks(q, q2, w)
<1>1. CASE q.status = "active"
  BY <1>1, ShrinksSame DEF Pop
<1>2. CASE q.status # "active"
  <2>1. q.status = "idle"
    BY <1>2 DEF Rec
  <2>2. PICK n \in 0..QueueNo, q1 \in Rec, q2 \in Rec : PopTo(q, n, q1, q2)
    BY <2>1, PopIs
  <2>3. Shrinks(q, q1, w)
    BY <2>2, ShrinksCut DEF PopTo, PassedTo
  <2>4. Shrinks(q1, q2, w)
    <3>1. CASE q2 = q1 \/ Stays(q1, q2)
      BY <3>1, ShrinksSame DEF Stays
    <3>2. CASE Leaves(q1, q2)
      BY <3>2, ShrinksHead DEF Leaves
    <3> QED
      BY <2>2, <3>1, <3>2
         DEF PopTo, Served, AwaitsAck, AwaitsCompletion, TriesAgain
  <2>5. Shrinks(q, q2, w)
    BY <2>3, <2>4, ShrinksTwice
  <2> QED
    BY <2>2, <2>5 DEF PopTo
<1> QED
  BY <1>1, <1>2

LEMMA DiscardShrinks ==
    ASSUME NEW q \in Rec, NEW w, HeadOf(q) \in Packet, Pop(Discarded(q))
    PROVE  \E q2 \in Rec : Becomes(q2) /\ Shrinks(q, q2, w)
<1>1. PICK d \in Rec :
         /\ d = Discarded(q)
         /\ d.slots = Without(q.slots, q.r, 1) /\ d.r = Plus(q.r, 1)
  BY DiscardIs
<1>2. Pop(d)
  BY <1>1, Zenon
<1>3. Shrinks(q, d, w)
  BY <1>1, ShrinksHead
<1>4. PICK q2 \in Rec : Becomes(q2) /\ Shrinks(d, q2, w)
  BY <1>2, PopShrinks
<1> QED
  BY <1>3, <1>4, ShrinksTwice

LEMMA PopNextShrinks ==
    ASSUME NEW q \in Rec, NEW w, PopNext(q)
    PROVE  \E q2 \in Rec : Becomes(q2) /\ Shrinks(q, q2, w)
<1>1. CASE /\ HeadOf(q) = None
           /\ \E q2 \in Rec :
                 /\ q2.slots = q.slots /\ q2.r = q.r /\ q2.sent = q.sent
                 /\ q2.resend = q.resend /\ q2.status = q.status
                 /\ q2.timer = "off"
                 /\ Becomes(q2)
  BY <1>1, ShrinksSame
<1>2. CASE HeadOf(q) \in Packet /\ Pop(Discarded(q))
  BY <1>2, DiscardShrinks
<1> QED
  BY <1>1, <1>2, PopNextIs

-----------------------------------------------------------------------------
LEMMA QueueFilled ==
    ASSUME SafeInv
    PROVE  \E c \in 0..QueueNo :
              /\ Filled(slots, rIdx, wIdx, c)
              /\ Queue = QueueOf(slots, rIdx, c)
<1>1. Contiguous(slots, rIdx, wIdx) /\ rIdx \in Slot /\ wIdx \in Slot
  BY SafeNow, NowFields DEF Safe, Ring
<1>2. Filled(slots, rIdx, wIdx, LengthOf(slots, rIdx, wIdx))
  BY <1>1, ContiguousFilled
<1>3. LengthOf(slots, rIdx, wIdx) \in 0..QueueNo
  BY <1>2 DEF Filled
<1> QED
  BY <1>2, <1>3 DEF Queue

LEMMA QueueNext ==
    ASSUME SafeInv', NEW d, Filled(slots', rIdx', wIdx', d)
    PROVE  Queue' = QueueOf(slots', rIdx', d)
<1>1. /\ Contiguous(slots', rIdx', wIdx')
      /\ rIdx' \in Slot /\ wIdx' \in Slot
  BY DEF SafeInv, TypeInv, TypeOK, Ring, Now
<1>2. d = LengthOf(slots', rIdx', wIdx')
  BY <1>1, ContiguousFilled, FilledOnce
<1> QED
  BY <1>2 DEF Queue, QueueOf, LengthOf, Plus, Dist

LEMMA LeaveStep ==
    ASSUME SafeInv, SafeInv', NEW q \in Rec, q.slots = slots, q.r = rIdx,
           UNCHANGED <<wIdx, pushed>>,
           \E q2 \in Rec : Becomes(q2) /\ Shrinks(q, q2, wIdx)
    PROVE  Fifo!Leave
<1>1. PICK c \in 0..QueueNo :
         Filled(slots, rIdx, wIdx, c) /\ Queue = QueueOf(slots, rIdx, c)
  BY QueueFilled
<1>2. PICK q2 \in Rec : Becomes(q2) /\ Shrinks(q, q2, wIdx)
  OBVIOUS
<1>3. PICK n \in 0..c, d \in 0..QueueNo : Cut(q, q2, wIdx, c, n, d)
  BY <1>1, <1>2 DEF Shrinks
<1>4. /\ Filled(slots', rIdx', wIdx', d)
      /\ QueueOf(slots', rIdx', d) = After(Queue, n)
  BY <1>1, <1>2, <1>3 DEF Cut, Becomes
<1>5. Queue' = After(Queue, n)
  BY <1>4, QueueNext
<1>6. Len(Queue) = c
  BY <1>1, QueueOfIs
<1> QED
  BY <1>5, <1>6 DEF Fifo!Leave, Fifo!Rest, After

LEMMA ResetLeaves ==
    ASSUME SafeInv, SafeInv', pushed' = pushed,
           \E q \in Rec : Empty(q) /\ Becomes(q) /\ wIdx' = 0
    PROVE  Fifo!Leave
<1>1. PICK c \in 0..QueueNo :
         Filled(slots, rIdx, wIdx, c) /\ Queue = QueueOf(slots, rIdx, c)
  BY QueueFilled
<1>2. PICK q \in Rec : Empty(q) /\ Becomes(q) /\ wIdx' = 0
  OBVIOUS
<1>3. /\ 0 \in Slot /\ 0 \in 0..QueueNo
      /\ slots' = [i \in Slot |-> None] /\ rIdx' = 0 /\ wIdx' = 0
  BY <1>2, QueueNoAssumption DEF Empty, Becomes, Slot
<1>4. \A i \in Slot : slots'[i] = None /\ Dist(0, i) \in Slot
  BY <1>3, DistType
<1>5. \A i \in Slot : ~(Dist(0, i) < 0)
  BY <1>4 DEF Slot
<1>6. Filled(slots', rIdx', wIdx', 0)
  BY <1>3, <1>4, <1>5, PlusWhole DEF Filled
<1>7. Queue' = QueueOf(slots', rIdx', 0)
  BY <1>6, QueueNext
<1>8. Queue' = <<>>
  BY <1>7 DEF QueueOf
<1>9. Len(Queue) = c /\ IsQueue(Queue, c) /\ c \in 0..c
  BY <1>1, QueueOfIs, QueueNoAssumption
<1>10. After(Queue, c) = <<>>
  BY <1>9, AfterIs DEF IsQueue
<1> QED
  BY <1>8, <1>9, <1>10 DEF Fifo!Leave, Fifo!Rest, After

LEMMA PushPuts ==
    ASSUME SafeInv, SafeInv', "full" \notin Inputs,
           NEW l \in Links, NEW e \in Kinds, Push(l, e)
    PROVE  Fifo!Put
<1>1. PICK c \in 0..QueueNo :
         Filled(slots, rIdx, wIdx, c) /\ Queue = QueueOf(slots, rIdx, c)
  BY QueueFilled
<1>2. PICK q \in Rec, p \in Packet :
         /\ p = [id |-> pushed + 1, link |-> l, event |-> e]
         /\ q.slots = Store(slots, wIdx, p) /\ q.r = rIdx
         /\ slots[wIdx] = None
         /\ Pop(q)
  BY SafeNow, PushIs
<1>3. /\ p # None /\ p.id = pushed'
      /\ pushed' = pushed + 1 /\ wIdx' = Plus(wIdx, 1)
  BY <1>2, PacketIs DEF Push
<1>4. wIdx \in Slot /\ rIdx \in Slot /\ DOMAIN slots = Slot
  BY SafeNow DEF TypeOK
<1>5. PICK d \in Nat : d = c + 1
  BY QueueNoAssumption
<1>6. /\ c < QueueNo
      /\ Filled(Store(slots, wIdx, p), rIdx, Plus(wIdx, 1), d)
      /\ QueueOf(Store(slots, wIdx, p), rIdx, d) = Joined(QueueOf(slots, rIdx, c), p)
      /\ d \in 0..QueueNo
  BY <1>1, <1>2, <1>3, <1>4, <1>5, StoreQueue
<1>7. PICK q2 \in Rec : Becomes(q2) /\ Shrinks(q, q2, wIdx')
  BY <1>2, PopShrinks
<1>8. Filled(q.slots, q.r, wIdx', d) /\ QueueOf(q.slots, q.r, d) = Joined(Queue, p)
  BY <1>1, <1>2, <1>3, <1>6, Zenon
<1>9. PICK n \in 0..d, b \in 0..QueueNo : Cut(q, q2, wIdx', d, n, b)
  BY <1>6, <1>7, <1>8 DEF Shrinks
<1>10. /\ Filled(slots', rIdx', wIdx', b)
       /\ QueueOf(slots', rIdx', b) = After(Joined(Queue, p), n)
  BY <1>7, <1>8, <1>9 DEF Cut, Becomes
<1>11. Queue' = After(Joined(Queue, p), n)
  BY <1>10, QueueNext
<1>12. Len(Queue) = c
  BY <1>1, QueueOfIs
<1> QED
  BY <1>3, <1>5, <1>6, <1>11, <1>12 DEF Fifo!Put, Fifo!Rest, After, Joined

LEMMA QueueInit == Init => Fifo!Init
<1> SUFFICES ASSUME Init
             PROVE  Fifo!Init
  OBVIOUS
<1>1. LengthOf(slots, rIdx, wIdx) = 0
  BY QueueNoAssumption DEF Init, LengthOf, Slot
<1>2. QueueOf(slots, rIdx, 0) = <<>>
  BY DEF QueueOf
<1>3. Queue = <<>>
  BY <1>1, <1>2 DEF Queue
<1> QED
  BY <1>3 DEF Fifo!Init, Init

LEMMA QueueStep ==
    ASSUME "full" \notin Inputs, SafeInv, SafeInv', [Next]_vars
    PROVE  [Fifo!Next]_(Fifo!vars)
<1> SUFFICES Fifo!Leave \/ Fifo!Put \/ UNCHANGED Fifo!vars
  BY DEF Fifo!Next
<1>1. TypeOK
  BY SafeNow
<1>2. ASSUME NEW l \in Links, NEW e \in Kinds, Push(l, e)
      PROVE  Fifo!Put
  BY <1>2, PushPuts
<1>3. ASSUME NEW l \in Links, RecvAck(l)
      PROVE  Fifo!Leave
  <2>1. PICK q \in Rec : SameRing(q) /\ (PopNext(q) \/ Pop(q))
    BY <1>1, <1>3, RecvAckIs
  <2>2. \E q2 \in Rec : Becomes(q2) /\ Shrinks(q, q2, wIdx)
    BY <2>1, PopShrinks, PopNextShrinks
  <2>3. q.slots = slots /\ q.r = rIdx /\ UNCHANGED <<wIdx, pushed>>
    BY <1>3, <2>1 DEF SameRing, RecvAck
  <2> QED
    BY <2>2, <2>3, LeaveStep
<1>4. ASSUME NEW l \in LeLinks, SendComplete(l)
      PROVE  Fifo!Leave
  <2>1. PICK q \in Rec : SameRing(q) /\ PopNext(q)
    BY <1>1, <1>4, SendCompleteIs
  <2>2. \E q2 \in Rec : Becomes(q2) /\ Shrinks(q, q2, wIdx)
    BY <2>1, PopNextShrinks
  <2>3. q.slots = slots /\ q.r = rIdx /\ UNCHANGED <<wIdx, pushed>>
    BY <1>4, <2>1 DEF SameRing, SendComplete
  <2> QED
    BY <2>2, <2>3, LeaveStep
<1>5. CASE Timeout
  <2>1. PICK q \in Rec :
           /\ q.slots = slots /\ q.r = rIdx
           /\ Pop(q) \/ (HeadOf(q) \in Packet /\ Pop(Discarded(q)))
    BY <1>5, TimeoutIs DEF SafeInv
  <2>2. \E q2 \in Rec : Becomes(q2) /\ Shrinks(q, q2, wIdx)
    BY <2>1, PopShrinks, DiscardShrinks
  <2>3. UNCHANGED <<wIdx, pushed>>
    BY <1>5 DEF Timeout
  <2> QED
    BY <2>1, <2>2, <2>3, LeaveStep
<1>6. ASSUME NEW l \in SppLinks, SppConnect(l)
      PROVE  Fifo!Leave
  <2>1. PICK q \in Rec : SameRing(q) /\ (Becomes(q) \/ Pop(q))
    BY <1>1, <1>6, SppConnectIs
  <2>2. \E q2 \in Rec : Becomes(q2) /\ Shrinks(q, q2, wIdx)
    BY <2>1, PopShrinks, ShrinksSame
  <2>3. q.slots = slots /\ q.r = rIdx /\ UNCHANGED <<wIdx, pushed>>
    BY <1>6, <2>1 DEF SameRing, SppConnect
  <2> QED
    BY <2>2, <2>3, LeaveStep
<1>7. ASSUME NEW l \in SppLinks, SppDisconnect(l)
      PROVE  Fifo!Leave
  <2>1. \E q \in Rec : Empty(q) /\ Becomes(q) /\ wIdx' = 0
    BY <1>1, <1>7, SppDisconnectIs
  <2>2. pushed' = pushed
    BY <1>7 DEF SppDisconnect
  <2> QED
    BY <2>1, <2>2, ResetLeaves
<1>8. ASSUME NEW l \in LeLinks, LeDisconnect(l)
      PROVE  Fifo!Leave
  <2>1. \E q \in Rec : Empty(q) /\ Becomes(q) /\ wIdx' = 0
    BY <1>1, <1>8, LeDisconnectIs
  <2>2. pushed' = pushed
    BY <1>8 DEF LeDisconnect
  <2> QED
    BY <2>1, <2>2, ResetLeaves
<1>9. CASE UNCHANGED <<slots, rIdx, wIdx, pushed>>
  BY <1>9 DEF Queue, QueueOf, LengthOf, Plus, Dist, Fifo!vars
<1>10. ASSUME NEW l \in SppLinks, CreditRcvd(l)
       PROVE  UNCHANGED <<slots, rIdx, wIdx, pushed>>
  BY <1>10 DEF CreditRcvd
<1>11. ASSUME NEW l \in LeLinks,
              LeConnect(l) \/ LeDisconnecting(l) \/ LeReady(l)
       PROVE  UNCHANGED <<slots, rIdx, wIdx, pushed>>
  BY <1>11 DEF LeConnect, LeDisconnecting, LeReady, popVars
<1>12. CASE UNCHANGED vars
  BY <1>9, <1>12 DEF vars, popVars
<1> QED
  BY <1>2, <1>3, <1>4, <1>5, <1>6, <1>7, <1>8, <1>9, <1>10, <1>11, <1>12 DEF Next

(* The data transfer ring is a queue: whichever links its packets are for,  *)
(* whatever acks, completions, refusals and disconnections come in whatever *)
(* order, packets leave in the order in which they were reported.           *)
THEOREM RingIsFifo ==
    ASSUME "full" \notin Inputs
    PROVE  Spec => ImplementsFifo
<1>1. Init => Fifo!Init
  BY QueueInit
<1>2. SafeInv /\ SafeInv' /\ [Next]_vars => [Fifo!Next]_(Fifo!vars)
  BY QueueStep
<1> QED
  BY <1>1, <1>2, Inductive, PTL DEF Spec, ImplementsFifo, Fifo!Spec

-----------------------------------------------------------------------------
(***************************************************************************)
(* Nothing leaves unsent in calm surroundings: answers and completions beat *)
(* the timer, LE peers do not answer twice, links stay, and a connected SPP *)
(* link has credits for all that can be sent.                               *)
(*                                                                          *)
(* What is under way then belongs to the head, which the stack took (Line), *)
(* and a link has credits for dt_resend_num tries of every packet in the    *)
(* ring or still to come, but for those the head has used (Rationed).       *)
(***************************************************************************)
Budget(n) == ResendNum * n

Calm ==
    /\ Inputs \subseteq {"refuse"}
    /\ SppLinks # {} => Budget(MaxPush) <= MaxCredit

Line(q) ==
    /\ q.status = "active" => q.sent[HeadOf(q).id] > 0
    /\ \A l \in Links : q.answers[l] # <<>> =>
          /\ q.status = "active"
          /\ l \in SppLinks /\ l = HeadOf(q).link
          /\ q.answers[l][1] = HeadOf(q).event /\ Tail(q.answers[l]) = <<>>
    /\ \A l \in LeLinks : q.handed[l] # <<>> =>
          /\ q.status = "active"
          /\ l = HeadOf(q).link
          /\ Tail(q.handed[l]) = <<>>
    /\ HeadOf(q).link \in SppLinks /\ HeadOf(q).event = "ack"
          => q.sent[HeadOf(q).id] = 0

Spent(q, l) == IF HeadOf(q).link = l THEN q.sent[HeadOf(q).id] ELSE 0

Rationed(q, w, p, st) ==
    \A c \in 0..QueueNo : Filled(q.slots, q.r, w, c) =>
       /\ c <= p
       /\ \A l \in SppLinks : st[l] = "up" =>
             q.credit[l] + Spent(q, l) >= Budget(MaxPush - p + c)

(* What leaves q for q2 may do so. *)
Kept(q, q2) ==
    /\ \A k \in Ids : q2.sent[k] >= q.sent[k]
    /\ \A i \in Slot :
          q.slots[i] # None /\ q2.slots[i] # q.slots[i]
             => Justified(q.slots[i], state', q2.sent)

(* An idle transmitter about to serve its head, and what it makes of it.    *)
CalmIdle(q, w, p) ==
    /\ Idles(q) /\ Line(q) /\ Counted(q)
    /\ Ring(q, w, p, state') /\ Rationed(q, w, p, state')

CalmTo(q, q2, w, p) ==
    Becomes(q2) /\ Line(q2) /\ Rationed(q2, w, p, state') /\ Kept(q, q2)

-----------------------------------------------------------------------------
(* A budget is shared out among packets, at least one try for each.         *)
LEMMA BudgetIs ==
    ASSUME NEW m \in Nat, NEW n \in Nat
    PROVE  /\ Budget(m) \in Nat /\ Budget(0) = 0 /\ Budget(1) = ResendNum
           /\ Budget(m + n) = Budget(m) + Budget(n)
           /\ n >= 1 => Budget(n) >= ResendNum + n - 1
<1>1. \A r \in Nat \ {0} : r * m \in Nat /\ r * 0 = 0 /\ r * 1 = r
  OBVIOUS
<1>2. \A r \in Nat \ {0} : r * (m + n) = r * m + r * n
  OBVIOUS
<1>3. ASSUME NEW r \in Nat \ {0}, n >= 1
      PROVE  r * n >= r + n - 1
  <2>1. r - 1 \in Nat /\ n - 1 \in Nat
    BY <1>3
  <2>2. \A a, b \in Nat : (a + 1) * (b + 1) >= a + b + 1
    <3> SUFFICES ASSUME NEW a \in Nat, NEW b \in Nat
                 PROVE  (a + 1) * (b + 1) >= a + b + 1
      OBVIOUS
    <3>1. (a + 1) * (b + 1) = a * b + a + b + 1 /\ a * b \in Nat
      OBVIOUS
    <3> QED
      BY <3>1
  <2>3. ((r - 1) + 1) * ((n - 1) + 1) >= (r - 1) + (n - 1) + 1
    BY <2>1, <2>2
  <2>4. (r - 1) + 1 = r /\ (n - 1) + 1 = n /\ (r - 1) + (n - 1) + 1 = r + n - 1
    OBVIOUS
  <2> QED
    BY <2>3, <2>4
<1> QED
  BY <1>1, <1>2, <1>3, ResendNumAssumption DEF Budget

(* What the head of the ring has cost its link.                             *)
LEMMA SpentIs ==
    ASSUME NEW q \in Rec, NEW l \in SppLinks
    PROVE  /\ Spent(q, l) \in Nat /\ q.credit[l] \in Nat
           /\ HeadOf(q) = None => Spent(q, l) = 0
<1>1. HeadOf(q) = None \/ HeadOf(q) \in Packet
  BY HeadIs
<1>2. CASE HeadOf(q) = None
  <2>1. HeadOf(q).link # l
    BY <1>2, NoneIsNowhere
  <2> QED
    BY <2>1, BoundsAssumption DEF Spent, Rec
<1>3. CASE HeadOf(q) \in Packet
  <2>1. HeadOf(q).id \in Ids /\ HeadOf(q) # None
    BY <1>3, PacketIs
  <2>2. q.sent[HeadOf(q).id] \in Nat /\ q.credit[l] \in Nat
    BY <2>1, BoundsAssumption DEF Rec
  <2> QED
    BY <2>1, <2>2 DEF Spent
<1> QED
  BY <1>1, <1>2, <1>3

(* Nothing is under way for an idle transmitter.                            *)
LEMMA IdleLine ==
    ASSUME NEW q, q.status = "idle", Line(q)
    PROVE  /\ \A l \in Links : q.answers[l] = <<>>
           /\ \A l \in LeLinks : q.handed[l] = <<>>
  BY DEF Line

(* How often the head was tried on an SPP link.                             *)
LEMMA HeadTried ==
    ASSUME NEW q \in Rec, Counted(q), Line(q), HeadOf(q).link \in SppLinks
    PROVE  /\ HeadOf(q) \in Packet /\ HeadOf(q).id \in Ids
           /\ q.sent[HeadOf(q).id] \in 0..ResendNum
           /\ q.status = "idle" => q.sent[HeadOf(q).id] \in 0..ResendNum - 1
<1>1. HeadOf(q) \in Packet
  BY HeadIs, NoneIsNowhere
<1>2. HeadOf(q) # None /\ HeadOf(q).id \in Ids
  BY <1>1, PacketIs
<1>3. /\ q.sent[HeadOf(q).id] \in Nat
      /\ q.resend \in 0..ResendNum - 1 /\ q.status \in {"idle", "active"}
  BY <1>2 DEF Rec
<1>4. CASE HeadOf(q).event = "ack"
  <2>1. q.sent[HeadOf(q).id] = 0
    BY <1>4 DEF Line
  <2> QED
    BY <1>1, <1>2, <2>1, ResendNumAssumption
<1>5. CASE HeadOf(q).event # "ack"
  <2>1. /\ q.status = "active" => q.sent[HeadOf(q).id] <= q.resend + 1
        /\ q.status = "idle" => q.sent[HeadOf(q).id] <= q.resend
    BY <1>2, <1>5 DEF Counted
  <2> QED
    BY <1>1, <1>2, <1>3, <2>1, ResendNumAssumption
<1> QED
  BY <1>4, <1>5

(* What leaves in two goes. *)
LEMMA KeptTwice ==
    ASSUME NEW q \in Rec, NEW q1 \in Rec, NEW q2 \in Rec,
           Kept(q, q1), Kept(q1, q2)
    PROVE  Kept(q, q2)
<1>1. \A k \in Ids : /\ q.sent[k] \in Nat /\ q1.sent[k] \in Nat /\ q2.sent[k] \in Nat
                     /\ q1.sent[k] >= q.sent[k] /\ q2.sent[k] >= q1.sent[k]
  BY DEF Rec, Kept
<1>2. \A k \in Ids : q2.sent[k] >= q.sent[k]
  BY <1>1
<1>3. ASSUME NEW i \in Slot, q.slots[i] # None, q2.slots[i] # q.slots[i]
      PROVE  Justified(q.slots[i], state', q2.sent)
  <2>1. q.slots[i].id \in Ids
    BY <1>3, PacketIs DEF Rec
  <2>2. CASE q1.slots[i] # q.slots[i]
    <3>1. Justified(q.slots[i], state', q1.sent)
      BY <1>3, <2>2 DEF Kept
    <3>2. q1.sent[q.slots[i].id] > 0 => q2.sent[q.slots[i].id] > 0
      BY <1>1, <2>1
    <3> QED
      BY <3>1, <3>2 DEF Justified
  <2>3. CASE q1.slots[i] = q.slots[i]
    BY <1>3, <2>3 DEF Kept
  <2> QED
    BY <2>2, <2>3
<1> QED
  BY <1>2, <1>3 DEF Kept

(* Nothing leaves. *)
LEMMA KeptSame ==
    ASSUME NEW q \in Rec, NEW q2 \in Rec, q2.slots = q.slots, q2.sent = q.sent
    PROVE  Kept(q, q2)
<1>1. \A k \in Ids : q.sent[k] \in Nat
  BY DEF Rec
<1> QED
  BY <1>1 DEF Kept

(* The head leaves. *)
LEMMA KeptHead ==
    ASSUME NEW q \in Rec, NEW q2 \in Rec,
           q2.slots = Without(q.slots, q.r, 1),
           \A k \in Ids : q2.sent[k] >= q.sent[k],
           Justified(HeadOf(q), state', q2.sent)
    PROVE  Kept(q, q2)
<1> SUFFICES ASSUME NEW i \in Slot, q.slots[i] # None, q2.slots[i] # q.slots[i]
             PROVE  i = q.r
  BY DEF Kept, HeadOf
<1>1. q.r \in Slot
  BY DEF Rec
<1>2. Dist(q.r, i) < 1
  BY DEF Without
<1> QED
  BY <1>1, <1>2, DistType DEF Slot

(***************************************************************************)
(* The credits of what is left: as long as the tries that n packets leave   *)
(* unused cover what is paid, the next packets have theirs.                 *)
(***************************************************************************)
Pays(q, q2, b) ==
    \A l \in SppLinks :
       q2.credit[l] + Spent(q2, l) + b >= q.credit[l] + Spent(q, l)

LEMMA RationCut ==
    ASSUME NEW q \in Rec, NEW q2 \in Rec, NEW w \in Slot, NEW p \in 0..MaxPush,
           NEW st, Contiguous(q.slots, q.r, w), Rationed(q, w, p, st),
           NEW n \in 0..QueueNo,
           q2.slots = Without(q.slots, q.r, n), q2.r = Plus(q.r, n),
           \A k \in 0..n - 1 : At(q, k) # None,
           Pays(q, q2, Budget(n))
    PROVE  Rationed(q2, w, p, st)
<1>1. q.r \in Slot /\ q2.r \in Slot
  BY DEF Rec
<1>2. PICK c \in 0..QueueNo : Filled(q.slots, q.r, w, c)
  BY <1>1, ContiguousFilled DEF Filled
<1>3. n \in 0..c
  <2>1. \A i \in 0..n - 1 : q.slots[Plus(q.r, i)] # None
    BY DEF At
  <2>2. n <= c
    BY <1>1, <1>2, <2>1, HeadsAreFilled
  <2> QED
    BY <2>2, QueueNoAssumption
<1>4. PICK d \in Nat : d = c - n
  BY <1>2, <1>3, QueueNoAssumption
<1>5. Filled(q2.slots, q2.r, w, d)
  <2>1. Filled(Without(q.slots, q.r, n), Plus(q.r, n), w, d)
    BY <1>1, <1>2, <1>3, <1>4, CutQueue
  <2> QED
    BY <2>1
<1>6. c <= p /\ \A l \in SppLinks : st[l] = "up" =>
                   q.credit[l] + Spent(q, l) >= Budget(MaxPush - p + c)
  BY <1>2 DEF Rationed
<1>7. PICK m \in Nat : m = MaxPush - p + d
  BY <1>4, BoundsAssumption
<1>8. MaxPush - p + c = m + n /\ n \in Nat
  BY <1>3, <1>4, <1>7, BoundsAssumption, QueueNoAssumption
<1>9. /\ Budget(m + n) = Budget(m) + Budget(n)
      /\ Budget(m) \in Nat /\ Budget(n) \in Nat
  BY <1>8, BudgetIs
<1>10. ASSUME NEW l \in SppLinks, st[l] = "up"
       PROVE  q2.credit[l] + Spent(q2, l) >= Budget(m)
  <2>1. /\ q.credit[l] \in Nat /\ Spent(q, l) \in Nat
        /\ q2.credit[l] \in Nat /\ Spent(q2, l) \in Nat
    BY SpentIs
  <2>2. q.credit[l] + Spent(q, l) >= Budget(m) + Budget(n)
    BY <1>6, <1>8, <1>9, <1>10
  <2>3. q2.credit[l] + Spent(q2, l) + Budget(n) >= q.credit[l] + Spent(q, l)
    BY DEF Pays
  <2> QED
    BY <1>9, <2>1, <2>2, <2>3
<1>11. ASSUME NEW e \in 0..QueueNo, Filled(q2.slots, q2.r, w, e)
       PROVE  e = d
  BY <1>1, <1>5, <1>11, FilledOnce
<1>12. d <= p
  BY <1>3, <1>4, <1>6, QueueNoAssumption
<1> QED
  BY <1>7, <1>10, <1>11, <1>12 DEF Rationed

LEMMA RationSame ==
    ASSUME NEW q \in Rec, NEW q2 \in Rec, NEW w, NEW p \in 0..MaxPush, NEW st,
           Rationed(q, w, p, st),
           q2.slots = q.slots, q2.r = q.r, Pays(q, q2, 0)
    PROVE  Rationed(q2, w, p, st)
<1> SUFFICES ASSUME NEW c \in 0..QueueNo, Filled(q2.slots, q2.r, w, c)
             PROVE  /\ c <= p
                    /\ \A l \in SppLinks : st[l] = "up" =>
                          q2.credit[l] + Spent(q2, l) >= Budget(MaxPush - p + c)
  BY DEF Rationed
<1>1. c <= p /\ \A l \in SppLinks : st[l] = "up" =>
                   q.credit[l] + Spent(q, l) >= Budget(MaxPush - p + c)
  BY DEF Rationed
<1>2. MaxPush - p + c \in Nat
  BY BoundsAssumption, QueueNoAssumption
<1>3. Budget(MaxPush - p + c) \in Nat
  BY <1>2, BudgetIs
<1>4. ASSUME NEW l \in SppLinks, st[l] = "up"
      PROVE  q2.credit[l] + Spent(q2, l) >= Budget(MaxPush - p + c)
  <2>1. /\ q.credit[l] \in Nat /\ Spent(q, l) \in Nat
        /\ q2.credit[l] \in Nat /\ Spent(q2, l) \in Nat
    BY SpentIs
  <2>2. q2.credit[l] + Spent(q2, l) + 0 >= q.credit[l] + Spent(q, l)
    BY DEF Pays
  <2>3. q.credit[l] + Spent(q, l) >= Budget(MaxPush - p + c)
    BY <1>1, <1>4
  <2> QED
    BY <1>3, <2>1, <2>2, <2>3
<1> QED
  BY <1>1, <1>4

(* A head on an SPP link that is up has a credit left to be sent with.      *)
LEMMA HeadHasCredit ==
    ASSUME NEW q \in Rec, NEW w \in Slot, NEW p \in 0..MaxPush,
           CalmIdle(q, w, p), HeadOf(q).link \in SppLinks, Up(HeadOf(q).link)
    PROVE  q.credit[HeadOf(q).link] > 0
<1>1. /\ HeadOf(q) \in Packet /\ HeadOf(q).id \in Ids
      /\ q.sent[HeadOf(q).id] \in 0..ResendNum - 1
  BY HeadTried DEF CalmIdle, Idles
<1>2. q.r \in Slot /\ Contiguous(q.slots, q.r, w)
  BY DEF Rec, CalmIdle, Ring
<1>3. PICK c \in 0..QueueNo : Filled(q.slots, q.r, w, c)
  BY <1>2, ContiguousFilled DEF Filled
<1>4. c >= 1
  <2>1. PICK n \in 0..QueueNo : n = 1
    BY QueueNoAssumption
  <2>2. \A i \in 0..n - 1 : q.slots[Plus(q.r, i)] # None
    BY <1>1, <1>2, <2>1, PlusWhole, PacketIs DEF HeadOf
  <2>3. n <= c
    BY <1>2, <1>3, <2>2, HeadsAreFilled
  <2> QED
    BY <2>1, <2>3
<1>5. PICK m \in Nat : MaxPush - p + c = m + 1
  <2>1. MaxPush - p + c - 1 \in Nat
    BY <1>4, BoundsAssumption, QueueNoAssumption
  <2>2. MaxPush - p + c = (MaxPush - p + c - 1) + 1
    BY <1>3, BoundsAssumption, QueueNoAssumption
  <2> QED
    BY <2>1, <2>2
<1>6. /\ Budget(m + 1) = Budget(m) + ResendNum
      /\ Budget(m) \in Nat
  BY BudgetIs
<1>7. PICK l \in SppLinks : l = HeadOf(q).link
  OBVIOUS
<1>8. q.credit[l] + Spent(q, l) >= Budget(m + 1)
  BY <1>3, <1>5, <1>7 DEF CalmIdle, Rationed, Up
<1>9. Spent(q, l) \in 0..ResendNum - 1 /\ q.credit[l] \in Nat
  BY <1>1, <1>7, SpentIs DEF Spent
<1>10. q.credit[l] > 0
  BY <1>6, <1>8, <1>9, ResendNumAssumption
<1> QED
  BY <1>7, <1>10

-----------------------------------------------------------------------------
(***************************************************************************)
(* Serving the head in calm surroundings.                                   *)
(***************************************************************************)
Grows(q, q2) == \A k \in Ids : q2.sent[k] >= q.sent[k]

(* The head stays. *)
LEMMA CalmStays ==
    ASSUME NEW q \in Rec, NEW q2 \in Rec, NEW w \in Slot, NEW p \in 0..MaxPush,
           CalmIdle(q, w, p), Becomes(q2),
           q2.slots = q.slots, q2.r = q.r, Grows(q, q2),
           Pays(q, q2, 0), Line(q2)
    PROVE  CalmTo(q, q2, w, p)
<1>1. Rationed(q2, w, p, state')
  BY RationSame DEF CalmIdle
<1>2. Kept(q, q2)
  BY DEF Kept, Grows
<1> QED
  BY <1>1, <1>2 DEF CalmTo

(* The head leaves, and the next is untried. *)
LEMMA CalmLeaves ==
    ASSUME NEW q \in Rec, NEW q2 \in Rec, NEW w \in Slot, NEW p \in 0..MaxPush,
           CalmIdle(q, w, p), Becomes(q2), Leaves(q, q2),
           q2.answers = q.answers, q2.handed = q.handed, Grows(q, q2),
           Justified(HeadOf(q), state', q2.sent),
           Pays(q, q2, ResendNum)
    PROVE  CalmTo(q, q2, w, p)
<1>1. q.r \in Slot /\ p \in Nat
  BY BoundsAssumption DEF Rec
<1>2. PICK n \in 0..QueueNo : n = 1
  BY QueueNoAssumption
<1>3. /\ q2.slots = Without(q.slots, q.r, n) /\ q2.r = Plus(q.r, n)
      /\ q2.status = "idle"
  BY <1>2 DEF Leaves, CalmIdle, Idles
<1>4. \A k \in 0..n - 1 : At(q, k) = HeadOf(q)
  BY <1>1, <1>2, PlusWhole DEF At, HeadOf
<1>5. 0 \in 0..n - 1 /\ HeadOf(q) # None
  BY <1>2, PacketIs DEF Leaves
<1>6. /\ \A k \in 0..n - 1 : At(q, k) # None
      /\ \A i \in Ids :
            (\A k \in 0..n - 1 : At(q, k).id # i) => q2.sent[i] = q.sent[i]
  BY <1>4, <1>5 DEF Leaves
<1>7. HeadOf(q2) # None => q2.sent[HeadOf(q2).id] = 0
  BY <1>1, <1>2, <1>3, <1>6, CutRing DEF CalmIdle
<1>8. Budget(n) = ResendNum
  BY <1>2, BudgetIs
<1>9. Rationed(q2, w, p, state')
  BY <1>3, <1>6, <1>8, RationCut DEF CalmIdle, Ring
<1>10. /\ \A l \in Links : q2.answers[l] = <<>>
       /\ \A l \in LeLinks : q2.handed[l] = <<>>
  BY IdleLine DEF CalmIdle, Idles
<1>11. Line(q2)
  BY <1>3, <1>7, <1>10, NoneIsNowhere DEF Line
<1>12. Kept(q, q2)
  BY <1>2, <1>3, KeptHead DEF Grows
<1> QED
  BY <1>9, <1>11, <1>12 DEF CalmTo

(* Only timers change. *)
LEMMA SameCosts ==
    ASSUME NEW q \in Rec, NEW q2 \in Rec, NEW b \in Nat,
           q2.slots = q.slots, q2.r = q.r, q2.credit = q.credit, Grows(q, q2)
    PROVE  Pays(q, q2, b)
<1> SUFFICES ASSUME NEW l \in SppLinks
             PROVE  q2.credit[l] + Spent(q2, l) + b >= q.credit[l] + Spent(q, l)
  BY DEF Pays
<1>1. /\ q.credit[l] \in Nat /\ Spent(q, l) \in Nat /\ Spent(q2, l) \in Nat
  BY SpentIs
<1>2. HeadOf(q2) = HeadOf(q)
  BY DEF HeadOf
<1>3. Spent(q2, l) >= Spent(q, l)
  <2>1. CASE HeadOf(q).link = l
    <3>1. HeadOf(q) \in Packet
      BY <2>1, HeadIs, NoneIsNowhere
    <3>2. HeadOf(q).id \in Ids
      BY <3>1, PacketIs
    <3> QED
      BY <1>2, <2>1, <3>2 DEF Spent, Grows
  <2>2. CASE HeadOf(q).link # l
    BY <1>2, <2>2 DEF Spent
  <2> QED
    BY <2>1, <2>2
<1> QED
  BY <1>1, <1>3

LEMMA CalmRest ==
    ASSUME NEW q \in Rec, NEW w \in Slot, NEW p \in 0..MaxPush,
           CalmIdle(q, w, p), Rest(q)
    PROVE  \E q2 \in Rec : CalmTo(q, q2, w, p)
<1>1. Kept(q, q)
  BY KeptSame
<1> QED
  BY <1>1 DEF CalmTo, CalmIdle, Rest

LEMMA CalmRefused ==
    ASSUME NEW q \in Rec, NEW w \in Slot, NEW p \in 0..MaxPush,
           CalmIdle(q, w, p), Refused(q)
    PROVE  \E q2 \in Rec : CalmTo(q, q2, w, p)
<1> DEFINE q2 == [q EXCEPT !.timer = "send"]
<1>1. /\ q2 \in Rec
      /\ q2.slots = q.slots /\ q2.r = q.r /\ q2.status = q.status
      /\ q2.sent = q.sent /\ q2.credit = q.credit
      /\ q2.answers = q.answers /\ q2.handed = q.handed
  BY DEF Rec
<1>2. Becomes(q2)
  BY DEF Refused
<1> HIDE DEF q2
<1>3. \A k \in Ids : q.sent[k] \in Nat
  BY DEF Rec
<1>4. Grows(q, q2)
  BY <1>1, <1>3 DEF Grows
<1>5. Pays(q, q2, 0)
  BY <1>1, <1>4, SameCosts
<1>6. HeadOf(q2) = HeadOf(q)
  BY <1>1 DEF HeadOf
<1>7. Line(q2)
  BY <1>1, <1>6 DEF Line, CalmIdle
<1>8. CalmTo(q, q2, w, p)
  BY <1>1, <1>2, <1>4, <1>5, <1>7, CalmStays
<1> QED
  BY <1>1, <1>8

(* What a paid packet leaves alone. *)
LEMMA PaidRest ==
    ASSUME NEW q \in Rec, NEW l \in SppLinks, NEW i \in Ids, q.credit[l] > 0
    PROVE  /\ Paid(q, l, i).answers = q.answers
           /\ Paid(q, l, i).handed = q.handed
           /\ Paid(q, l, i).credit[l] = q.credit[l] - 1
           /\ \A m \in SppLinks : m # l => Paid(q, l, i).credit[m] = q.credit[m]
           /\ Grows(q, Paid(q, l, i))
<1>1. q.credit \in [SppLinks -> 0..MaxCredit] /\ q.sent \in [Ids -> Nat]
  BY DEF Rec
<1>2. PICK c : c = [q.credit EXCEPT ![l] = q.credit[l] - 1]
  OBVIOUS
<1>3. PICK s \in [Ids -> Nat] :
         /\ s = [q.sent EXCEPT ![i] = q.sent[i] + 1]
         /\ s[i] = q.sent[i] + 1
         /\ \A j \in Ids : j # i => s[j] = q.sent[j]
  BY <1>1, CountOneMore
<1>4. c[l] = q.credit[l] - 1 /\ \A m \in SppLinks : m # l => c[m] = q.credit[m]
  BY <1>1, <1>2
<1>5. Paid(q, l, i) = [q EXCEPT !.credit = c, !.sent = s]
  BY <1>2, <1>3 DEF Paid, Rec
<1> DEFINE g == [q EXCEPT !.credit = c, !.sent = s]
<1>6. g.answers = q.answers /\ g.handed = q.handed /\ g.credit = c /\ g.sent = s
  BY DEF Rec
<1> HIDE DEF g
<1>7. Paid(q, l, i) = g
  BY <1>5 DEF g
<1>8. \A k \in Ids : s[k] >= q.sent[k]
  <2> SUFFICES ASSUME NEW k \in Ids PROVE s[k] >= q.sent[k]
    OBVIOUS
  <2>1. q.sent[k] \in Nat
    BY <1>1
  <2>2. s[k] = q.sent[k] \/ s[k] = q.sent[k] + 1
    BY <1>3
  <2> QED
    BY <2>1, <2>2
<1> QED
  BY <1>4, <1>6, <1>7, <1>8 DEF Grows

(* What the head leaves behind. *)
LEMMA DropRest ==
    ASSUME NEW q \in Rec
    PROVE  LET q2 == [Drop(q) EXCEPT !.timer = "send"]
           IN  /\ q2.answers = q.answers /\ q2.handed = q.handed
               /\ q2.credit = q.credit /\ q2.sent = q.sent
<1>1. PICK d \in Rec :
         /\ d = Drop(q)
         /\ d.answers = q.answers /\ d.handed = q.handed
         /\ d.credit = q.credit /\ d.sent = q.sent
  BY DropIs
<1> DEFINE q2 == [d EXCEPT !.timer = "send"]
<1>2. /\ q2.answers = d.answers /\ q2.handed = d.handed
      /\ q2.credit = d.credit /\ q2.sent = d.sent
  BY DEF Rec
<1>3. q2 = [Drop(q) EXCEPT !.timer = "send"]
  BY <1>1, Zenon
<1> HIDE DEF q2
<1>4. /\ q2.answers = q.answers /\ q2.handed = q.handed
      /\ q2.credit = q.credit /\ q2.sent = q.sent
  BY <1>1, <1>2, Zenon
<1> QED
  BY <1>3, <1>4, Zenon

LEMMA CalmLeGone ==
    ASSUME NEW q \in Rec, NEW w \in Slot, NEW p \in 0..MaxPush,
           CalmIdle(q, w, p), LeGone(q)
    PROVE  \E q2 \in Rec : CalmTo(q, q2, w, p)
<1>1. HeadOf(q) \in Packet /\ HeadOf(q).link \in LeLinks
  BY HeadIs, NoneIsNowhere DEF LeGone
<1>2. PICK z \in 0..ResendNum - 1 : z = 0
  BY ResendNumAssumption
<1> DEFINE q1 == [q EXCEPT !.resend = z]
<1>3. /\ q1 \in Rec
      /\ q1.slots = q.slots /\ q1.r = q.r /\ q1.resend = 0
      /\ q1.status = q.status /\ q1.sent = q.sent
      /\ q1.answers = q.answers /\ q1.handed = q.handed /\ q1.credit = q.credit
  BY <1>2 DEF Rec
<1>4. q1 = [q EXCEPT !.resend = 0]
  BY <1>2
<1> HIDE DEF q1
<1>5. PICK q2 \in Rec :
         /\ q2 = [Drop(q1) EXCEPT !.timer = "send"]
         /\ Leaves(q, q2)
         /\ q2.answers = q1.answers /\ q2.handed = q1.handed
         /\ q2.credit = q1.credit /\ q2.sent = q1.sent
  BY <1>1, <1>3, ServeLeaves, DropRest
<1>6. Becomes(q2)
  <2>1. [Drop(q) EXCEPT !.resend = 0, !.timer = "send"]
          = [Drop(q1) EXCEPT !.timer = "send"]
    BY <1>4 DEF Drop, Rec
  <2> QED
    BY <1>5, <2>1, Zenon DEF LeGone
<1>7. \A k \in Ids : q.sent[k] \in Nat
  BY DEF Rec
<1>8. Grows(q, q2)
  BY <1>3, <1>5, <1>7 DEF Grows
<1>9. Pays(q, q2, ResendNum)
  <2> SUFFICES ASSUME NEW l \in SppLinks
               PROVE  q2.credit[l] + Spent(q2, l) + ResendNum
                         >= q.credit[l] + Spent(q, l)
    BY DEF Pays
  <2>1. Spent(q, l) = 0
    BY <1>1, LinksAssumption DEF Spent
  <2>2. /\ q2.credit[l] = q.credit[l] /\ q.credit[l] \in Nat
        /\ Spent(q2, l) \in Nat
    BY <1>3, <1>5, SpentIs
  <2> QED
    BY <2>1, <2>2, ResendNumAssumption
<1>10. Justified(HeadOf(q), state', q2.sent)
  BY DEF LeGone, Justified, Up
<1>11. CalmTo(q, q2, w, p)
  BY <1>3, <1>5, <1>6, <1>8, <1>9, <1>10, CalmLeaves
<1> QED
  BY <1>11

(* A try costs a credit, which it counts. *)
LEMMA TryCosts ==
    ASSUME NEW q \in Rec, NEW q2 \in Rec, HeadOf(q) \in Packet,
           q2.slots = q.slots, q2.r = q.r,
           q2.sent[HeadOf(q).id] = q.sent[HeadOf(q).id] + 1,
           \A l \in SppLinks :
              /\ l = HeadOf(q).link => q2.credit[l] = q.credit[l] - 1
              /\ l # HeadOf(q).link => q2.credit[l] = q.credit[l]
    PROVE  Pays(q, q2, 0)
<1> SUFFICES ASSUME NEW l \in SppLinks
             PROVE  q2.credit[l] + Spent(q2, l) + 0 >= q.credit[l] + Spent(q, l)
  BY DEF Pays
<1>1. q.credit[l] \in Nat /\ q2.credit[l] \in Nat
  BY SpentIs
<1>2. HeadOf(q2) = HeadOf(q) /\ HeadOf(q).id \in Ids
  BY PacketIs DEF HeadOf
<1>3. CASE l = HeadOf(q).link
  <2>1. q.sent[HeadOf(q).id] \in Nat
    BY <1>2 DEF Rec
  <2>2. /\ Spent(q, l) = q.sent[HeadOf(q).id]
        /\ Spent(q2, l) = q.sent[HeadOf(q).id] + 1
        /\ q2.credit[l] = q.credit[l] - 1
    BY <1>2, <1>3 DEF Spent
  <2> QED
    BY <1>1, <2>1, <2>2
<1>4. CASE l # HeadOf(q).link
  <2>1. Spent(q, l) = 0 /\ Spent(q2, l) = 0 /\ q2.credit[l] = q.credit[l]
    BY <1>2, <1>4 DEF Spent
  <2> QED
    BY <1>1, <2>1
<1> QED
  BY <1>3, <1>4

(* The line after a try on SPP, with the peer's answer on it or without.    *)
LEMMA TryLine ==
    ASSUME NEW q \in Rec, NEW q2 \in Rec, NEW w, NEW p, CalmIdle(q, w, p),
           HeadOf(q) \in Packet, HeadOf(q).link \in SppLinks,
           HeadOf(q).event \in Events,
           q2.slots = q.slots, q2.r = q.r, q2.status = "active",
           q2.sent[HeadOf(q).id] > 0, q2.handed = q.handed,
           \A l \in Links :
              \/ q2.answers[l] = q.answers[l]
              \/ /\ l = HeadOf(q).link
                 /\ q2.answers[l] = Append(q.answers[l], HeadOf(q).event)
    PROVE  Line(q2)
<1>1. HeadOf(q2) = HeadOf(q) /\ HeadOf(q).event # "ack"
  BY EventsAssumption DEF HeadOf
<1>2. /\ \A l \in Links : q.answers[l] = <<>>
      /\ \A l \in LeLinks : q.handed[l] = <<>>
  BY IdleLine DEF CalmIdle, Idles
<1>3. \A e \in Events : Append(<<>>, e)[1] = e /\ Tail(Append(<<>>, e)) = <<>>
  OBVIOUS
<1>4. \A l \in Links : q2.answers[l] # <<>> =>
         /\ l = HeadOf(q).link
         /\ q2.answers[l][1] = HeadOf(q).event /\ Tail(q2.answers[l]) = <<>>
  BY <1>2, <1>3
<1>5. \A l \in LeLinks : q2.handed[l] = <<>>
  BY <1>2
<1> QED
  BY <1>1, <1>4, <1>5 DEF Line

LEMMA CalmSppTaken ==
    ASSUME NEW q \in Rec, NEW w \in Slot, NEW p \in 0..MaxPush,
           CalmIdle(q, w, p), SppTaken(q)
    PROVE  \E q2 \in Rec : CalmTo(q, q2, w, p)
<1>1. PICK h : h = HeadOf(q)
  OBVIOUS
<1>2. PICK l, i, e : l = h.link /\ i = h.id /\ e = h.event
  OBVIOUS
<1>3. /\ h \in Packet /\ l \in SppLinks /\ q.credit[l] > 0
      /\ i \in Ids /\ l \in Links
  BY <1>1, <1>2, HeadIs, NoneIsNowhere, PacketIs DEF SppTaken
<1> DEFINE paid == Paid(q, l, i)
           waits == [paid EXCEPT !.status = "active", !.timer = "ack"]
<1>4. \/ e = "ack" /\ Becomes([Drop(paid) EXCEPT !.timer = "send"])
      \/ e \in Events /\ Becomes(waits)
      \/ e \in Events /\ Becomes(Answered(waits, l, e))
  BY <1>1, <1>2, Zenon DEF SppTaken, Paid, Answered
<1>5. /\ paid \in Rec
      /\ paid.slots = q.slots /\ paid.r = q.r
      /\ paid.resend = q.resend /\ paid.status = q.status
      /\ paid.sent[i] = q.sent[i] + 1
      /\ \A j \in Ids : j # i => paid.sent[j] = q.sent[j]
      /\ paid.answers = q.answers /\ paid.handed = q.handed
      /\ paid.credit[l] = q.credit[l] - 1
      /\ \A m \in SppLinks : m # l => paid.credit[m] = q.credit[m]
      /\ Grows(q, paid)
  BY <1>3, PaidIs, PaidRest
<1> HIDE DEF paid
<1>6. /\ waits \in Rec
      /\ waits.slots = q.slots /\ waits.r = q.r
      /\ waits.status = "active"
      /\ waits.sent = paid.sent /\ waits.credit = paid.credit
      /\ waits.answers = q.answers /\ waits.handed = q.handed
  BY <1>5, TimerIs
<1> HIDE DEF waits
<1>7. q.sent[i] \in Nat
  BY <1>3 DEF Rec
<1>8. CASE e = "ack" /\ Becomes([Drop(paid) EXCEPT !.timer = "send"])
  <2>1. HeadOf(q) \in Packet /\ \A j \in Ids : j # HeadOf(q).id => paid.sent[j] = q.sent[j]
    BY <1>1, <1>2, <1>3, <1>5
  <2>2. PICK q2 \in Rec :
           /\ q2 = [Drop(paid) EXCEPT !.timer = "send"]
           /\ Leaves(q, q2)
           /\ q2.answers = paid.answers /\ q2.handed = paid.handed
           /\ q2.credit = paid.credit /\ q2.sent = paid.sent
    BY <1>5, <2>1, ServeLeaves, DropRest
  <2>3. Becomes(q2)
    BY <1>8, <2>2, Zenon
  <2>4. Grows(q, q2)
    BY <1>5, <2>2 DEF Grows
  <2>5. Justified(HeadOf(q), state', q2.sent)
    BY <1>1, <1>2, <1>5, <1>7, <2>2 DEF Justified
  <2>6. Pays(q, q2, ResendNum)
    <3> SUFFICES ASSUME NEW m \in SppLinks
                 PROVE  q2.credit[m] + Spent(q2, m) + ResendNum
                           >= q.credit[m] + Spent(q, m)
      BY DEF Pays
    <3>1. Spent(q, m) = 0
      BY <1>1, <1>2, <1>3, <1>8 DEF Spent, CalmIdle, Line
    <3>2. q2.credit[m] = q.credit[m] \/ q2.credit[m] = q.credit[m] - 1
      BY <1>5, <2>2
    <3>3. q.credit[m] \in Nat /\ Spent(q2, m) \in Nat
      BY SpentIs
    <3> QED
      BY <3>1, <3>2, <3>3, ResendNumAssumption
  <2>7. q2.answers = q.answers /\ q2.handed = q.handed
    BY <1>5, <2>2, Zenon
  <2>8. CalmTo(q, q2, w, p)
    BY <2>2, <2>3, <2>4, <2>5, <2>6, <2>7, CalmLeaves
  <2> QED
    BY <2>8
<1>9. ASSUME NEW q2 \in Rec, Becomes(q2), e \in Events,
             q2.slots = q.slots, q2.r = q.r, q2.status = "active",
             q2.sent = paid.sent, q2.credit = paid.credit,
             q2.handed = q.handed,
             \A m \in Links :
                \/ q2.answers[m] = q.answers[m]
                \/ m = l /\ q2.answers[m] = Append(q.answers[m], e)
      PROVE  CalmTo(q, q2, w, p)
  <2>1. Grows(q, q2)
    BY <1>5, <1>9 DEF Grows
  <2>2. q2.sent[i] = q.sent[i] + 1 /\ q2.sent[i] > 0
    BY <1>5, <1>7, <1>9
  <2>3. \A m \in SppLinks :
           /\ m = l => q2.credit[m] = q.credit[m] - 1
           /\ m # l => q2.credit[m] = q.credit[m]
    BY <1>5, <1>9
  <2>4. Pays(q, q2, 0)
    BY <1>1, <1>2, <1>3, <1>9, <2>2, <2>3, TryCosts
  <2>5. Line(q2)
    BY <1>1, <1>2, <1>3, <1>9, <2>2, TryLine
  <2> QED
    BY <1>9, <2>1, <2>4, <2>5, CalmStays
<1>10. CASE e \in Events /\ Becomes(waits)
  <2>1. CalmTo(q, waits, w, p)
    BY <1>6, <1>9, <1>10
  <2> QED
    BY <1>6, <2>1
<1>11. CASE e \in Events /\ Becomes(Answered(waits, l, e))
  <2>1. PICK q2 \in Rec :
           /\ q2 = Answered(waits, l, e)
           /\ q2.slots = waits.slots /\ q2.r = waits.r
           /\ q2.status = waits.status /\ q2.sent = waits.sent
           /\ q2.handed = waits.handed /\ q2.credit = waits.credit
    BY <1>3, <1>6, <1>11, AnswerIs
  <2>2. \A m \in Links :
           \/ q2.answers[m] = q.answers[m]
           \/ m = l /\ q2.answers[m] = Append(q.answers[m], e)
    <3>1. PICK a : a = waits.answers
      OBVIOUS
    <3>2. a \in [Links -> Seq(Events)]
      BY <1>6, <3>1 DEF Rec
    <3>3. q2.answers = [a EXCEPT ![l] = Append(@, e)]
      BY <1>6, <2>1, <3>1 DEF Answered, Rec
    <3>4. a = q.answers
      BY <1>6, <3>1
    <3> QED
      BY <3>2, <3>3, <3>4
  <2>3. Becomes(q2)
    BY <1>11, <2>1, Zenon
  <2>4. CalmTo(q, q2, w, p)
    BY <1>6, <1>9, <1>11, <2>1, <2>2, <2>3
  <2> QED
    BY <2>4
<1> QED
  BY <1>4, <1>8, <1>10, <1>11

(* What a packet handed to the LE stack leaves alone. *)
LEMMA HandedOverRest ==
    ASSUME NEW q \in Rec, NEW l \in LeLinks, NEW i \in Ids, NEW tm
    PROVE  /\ HandedOver(q, l, i, tm).answers = q.answers
           /\ HandedOver(q, l, i, tm).credit = q.credit
           /\ HandedOver(q, l, i, tm).handed[l] = Append(q.handed[l], i)
           /\ \A m \in LeLinks : m # l =>
                 HandedOver(q, l, i, tm).handed[m] = q.handed[m]
<1>1. q.handed \in [LeLinks -> Seq(Ids)]
  BY DEF Rec
<1>2. PICK a : a = [q.handed EXCEPT ![l] = Append(q.handed[l], i)]
  OBVIOUS
<1>3. PICK s : s = [q.sent EXCEPT ![i] = q.sent[i] + 1]
  OBVIOUS
<1>4. a[l] = Append(q.handed[l], i) /\ \A m \in LeLinks : m # l => a[m] = q.handed[m]
  BY <1>1, <1>2
<1> DEFINE g == [q EXCEPT !.status = "active", !.timer = tm,
                          !.handed = a, !.sent = s]
<1>5. HandedOver(q, l, i, tm) = g
  BY <1>2, <1>3 DEF Rec, HandedOver
<1>6. g.answers = q.answers /\ g.credit = q.credit /\ g.handed = a
  BY DEF Rec
<1> HIDE DEF g
<1> QED
  BY <1>4, <1>5, <1>6

LEMMA CalmLeTaken ==
    ASSUME Calm, NEW q \in Rec, NEW w \in Slot, NEW p \in 0..MaxPush,
           CalmIdle(q, w, p), LeTaken(q)
    PROVE  \E q2 \in Rec : CalmTo(q, q2, w, p)
<1>1. PICK h : h = HeadOf(q)
  OBVIOUS
<1>2. PICK l, i : l = h.link /\ i = h.id
  OBVIOUS
<1>3. PICK tm \in {"off", "send", "ack"} :
         tm = IF h.event = "ack" THEN q.timer ELSE "ack"
  BY DEF Rec
<1>4. h \in Packet /\ l \in LeLinks /\ i \in Ids /\ l \in Links
  BY <1>1, <1>2, HeadIs, NoneIsNowhere, PacketIs DEF LeTaken
<1>5. PICK q2 \in Rec :
         /\ q2 = HandedOver(q, l, i, tm)
         /\ q2.slots = q.slots /\ q2.r = q.r
         /\ q2.status = "active"
         /\ q2.sent[i] = q.sent[i] + 1
         /\ OnlyOne(q, q2, i)
  BY <1>4, HandedOverIs
<1>6. /\ q2.answers = q.answers /\ q2.credit = q.credit
      /\ q2.handed[l] = Append(q.handed[l], i)
      /\ \A m \in LeLinks : m # l => q2.handed[m] = q.handed[m]
  BY <1>4, <1>5, HandedOverRest
<1>7. Becomes(q2)
  <2>1. "leack" \notin Inputs
    BY DEF Calm
  <2>2. Becomes(HandedOver(q, l, i, tm))
    BY <1>1, <1>2, <1>3, <2>1, Zenon DEF LeTaken, HandedOver
  <2> QED
    BY <1>5, <2>2, Zenon
<1>8. \A k \in Ids : q.sent[k] \in Nat
  BY DEF Rec
<1>9. Grows(q, q2) /\ q2.sent[i] > 0
  BY <1>4, <1>5, <1>8 DEF Grows, OnlyOne
<1>10. HeadOf(q2) = h /\ h.link \notin SppLinks
  BY <1>1, <1>2, <1>4, <1>5, LinksAssumption DEF HeadOf
<1>11. Line(q2)
  <2>1. /\ \A m \in Links : q.answers[m] = <<>>
        /\ \A m \in LeLinks : q.handed[m] = <<>>
    BY IdleLine DEF CalmIdle, Idles
  <2>2. Tail(Append(<<>>, i)) = <<>>
    OBVIOUS
  <2>3. \A m \in LeLinks : q2.handed[m] # <<>> =>
           m = l /\ Tail(q2.handed[m]) = <<>>
    BY <1>6, <2>1, <2>2
  <2> QED
    BY <1>2, <1>5, <1>6, <1>9, <1>10, <2>1, <2>3 DEF Line
<1>12. Pays(q, q2, 0)
  BY <1>5, <1>6, <1>9, SameCosts
<1>13. CalmTo(q, q2, w, p)
  BY <1>5, <1>7, <1>9, <1>11, <1>12, CalmStays
<1> QED
  BY <1>13

LEMMA CalmServe ==
    ASSUME Calm, NEW q \in Rec, NEW w \in Slot, NEW p \in 0..MaxPush,
           CalmIdle(q, w, p), Serve(q)
    PROVE  \E q2 \in Rec : CalmTo(q, q2, w, p)
<1>1. ~AwaitCredit(q)
  BY HeadHasCredit DEF AwaitCredit
<1> QED
  BY <1>1, CalmRest, CalmSppTaken, CalmLeTaken, CalmRefused, CalmLeGone DEF Serve

-----------------------------------------------------------------------------
(* The packets that pass before cost no more credits than there are of      *)
(* them, and SPP packets of their kinds may leave unsent.                   *)
LEMMA PassedRest ==
    ASSUME NEW q \in Rec, NEW n \in 0..QueueNo, NEW took \in SUBSET (0..n - 1),
           Passes(q, n, took), n # 0
    PROVE  /\ Grows(q, Passed(q, n, took))
           /\ \A l \in SppLinks :
                 q.credit[l] - Passed(q, n, took).credit[l] <= n
<1> DEFINE c == [l \in SppLinks |-> Left(q, took, n, l)]
           s == [i \in Ids |-> IF \E k \in took : At(q, k).id = i
                               THEN q.sent[i] + 1 ELSE q.sent[i]]
           g == [q EXCEPT !.slots = Without(q.slots, q.r, n), !.r = Plus(q.r, n),
                          !.resend = 0, !.timer = "off", !.credit = c, !.sent = s]
<1>1. \A k \in Ids : q.sent[k] \in Nat
  BY DEF Rec
<1>2. \A k \in Ids : s[k] >= q.sent[k]
  BY <1>1
<1>3. \A l \in SppLinks : q.credit[l] - c[l] <= n
  <2> SUFFICES ASSUME NEW l \in SppLinks PROVE q.credit[l] - Left(q, took, n, l) <= n
    OBVIOUS
  <2> DEFINE S == {j \in took : j < n /\ At(q, j).link = l}
  <2>1. n \in Nat /\ q.credit[l] \in Nat
    BY QueueNoAssumption, SpentIs
  <2>2. IsFiniteSet(0..n - 1) /\ Cardinality(0..n - 1) = n
    <3>1. PICK b \in Int : b = n - 1
      BY <2>1
    <3>2. /\ IsFiniteSet(0..b)
          /\ Cardinality(0..b) = IF 0 > b THEN 0 ELSE b - 0 + 1
      BY <3>1, FS_Interval
    <3>3. (IF 0 > b THEN 0 ELSE b - 0 + 1) = n
      BY <2>1, <3>1
    <3> QED
      BY <3>1, <3>2, <3>3
  <2>3. S \in SUBSET (0..n - 1)
    OBVIOUS
  <2>4. Cardinality(S) <= n /\ Cardinality(S) \in Nat
    <3> HIDE DEF S
    <3>1. IsFiniteSet(S) /\ Cardinality(S) <= Cardinality(0..n - 1)
      BY <2>2, <2>3, FS_Subset
    <3> QED
      BY <2>2, <3>1, FS_CardinalityType
  <2>5. Left(q, took, n, l) = q.credit[l] - Cardinality(S)
    BY DEF Left
  <2> HIDE DEF S
  <2> QED
    BY <2>1, <2>4, <2>5
<1> HIDE DEF c, s
<1>4. g.credit = c /\ g.sent = s
  BY DEF Rec
<1>5. Passed(q, n, took) = g
  BY DEF Passed, c, s
<1> HIDE DEF g
<1> QED
  BY <1>2, <1>3, <1>4, <1>5 DEF Grows

LEMMA CalmPassed ==
    ASSUME NEW q \in Rec, NEW w \in Slot, NEW p \in 0..MaxPush,
           CalmIdle(q, w, p),
           NEW n \in 0..QueueNo, NEW took \in SUBSET (0..n - 1),
           Passes(q, n, took)
    PROVE  \E q1 \in Rec : /\ q1 = Passed(q, n, took)
                           /\ CalmIdle(q1, w, p) /\ Kept(q, q1)
<1>1. PICK q1 \in Rec : q1 = Passed(q, n, took) /\ PassedTo(q, n, q1)
  BY PassedIs
<1>2. CASE n = 0
  <2>1. q1 = q /\ Kept(q, q)
    BY <1>1, <1>2, KeptSame DEF PassedTo
  <2> QED
    BY <1>1, <2>1
<1>3. CASE n # 0
  <2>1. /\ q.r \in Slot /\ p \in Nat /\ n \in Nat /\ n >= 1
    BY <1>3, BoundsAssumption, QueueNoAssumption DEF Rec
  <2>2. /\ Grows(q, q1)
        /\ \A l \in SppLinks : q.credit[l] - q1.credit[l] <= n
    BY <1>1, <1>3, PassedRest
  <2>3. Idles(q1) /\ Ring(q1, w, p, state') /\ Counted(q1)
    BY <1>1, <2>1, PassedSafe DEF CalmIdle
  <2>4. HeadOf(q1) # None => q1.sent[HeadOf(q1).id] = 0
    BY <1>1, <1>3, <2>1, CutRing DEF CalmIdle, PassedTo
  <2>5. /\ \A l \in Links : q1.answers[l] = <<>>
        /\ \A l \in LeLinks : q1.handed[l] = <<>>
    BY <1>1, IdleLine DEF CalmIdle, Idles, PassedTo
  <2>6. Line(q1)
    BY <2>3, <2>4, <2>5, NoneIsNowhere DEF Line, Idles
  <2>7. Pays(q, q1, Budget(n))
    <3> SUFFICES ASSUME NEW l \in SppLinks
                 PROVE  q1.credit[l] + Spent(q1, l) + Budget(n)
                           >= q.credit[l] + Spent(q, l)
      BY DEF Pays
    <3>1. Spent(q, l) \in 0..ResendNum - 1
      <4>1. CASE HeadOf(q).link = l
        BY <4>1, HeadTried DEF Spent, CalmIdle, Idles
      <4>2. CASE HeadOf(q).link # l
        BY <4>2, ResendNumAssumption DEF Spent
      <4> QED
        BY <4>1, <4>2
    <3>2. Budget(n) \in Nat /\ Budget(n) >= ResendNum + n - 1
      BY <2>1, BudgetIs
    <3>3. /\ q.credit[l] \in Nat /\ q1.credit[l] \in Nat
          /\ Spent(q1, l) \in Nat /\ q.credit[l] - q1.credit[l] <= n
      BY <2>2, SpentIs
    <3> QED
      BY <2>1, <3>1, <3>2, <3>3, ResendNumAssumption
  <2>8. Rationed(q1, w, p, state')
    BY <1>1, <2>7, RationCut DEF CalmIdle, Ring, PassedTo
  <2>9. Kept(q, q1)
    <3> SUFFICES ASSUME NEW i \in Slot, q.slots[i] # None,
                        q1.slots[i] # q.slots[i]
                 PROVE  Justified(q.slots[i], state', q1.sent)
      BY <2>2 DEF Kept, Grows
    <3>1. PICK k : k = Dist(q.r, i)
      OBVIOUS
    <3>2. k \in Slot /\ Plus(q.r, k) = i
      BY <2>1, <3>1, DistType
    <3>3. k < n
      BY <1>1, <3>1 DEF PassedTo, Without
    <3>4. k \in 0..n - 1
      BY <2>1, <3>2, <3>3, QueueNoAssumption DEF Slot
    <3>5. At(q, k) = q.slots[i]
      BY <3>2 DEF At
    <3>6. At(q, k).link \in SppLinks /\ At(q, k).event \in {"ack", "capture"}
      BY <3>4 DEF Passes
    <3> QED
      BY <3>5, <3>6 DEF Justified
  <2> QED
    BY <1>1, <2>3, <2>6, <2>8, <2>9 DEF CalmIdle
<1> QED
  BY <1>2, <1>3

(* app_pop_data_transfer_queue, by an idle transmitter.                     *)
LEMMA CalmPop ==
    ASSUME Calm, NEW q \in Rec, NEW w \in Slot, NEW p \in 0..MaxPush,
           CalmIdle(q, w, p), Pop(q)
    PROVE  \E q2 \in Rec : CalmTo(q, q2, w, p)
<1>1. q.status # "active"
  BY DEF CalmIdle, Idles
<1>2. PICK n \in 0..QueueNo : \E took \in SUBSET (0..n - 1) :
         Passes(q, n, took) /\ Serve(Passed(q, n, took))
  BY <1>1 DEF Pop
<1>3. PICK took \in SUBSET (0..n - 1) :
         Passes(q, n, took) /\ Serve(Passed(q, n, took))
  BY <1>2
<1>4. PICK q1 \in Rec : /\ q1 = Passed(q, n, took)
                        /\ CalmIdle(q1, w, p) /\ Kept(q, q1)
  BY <1>3, CalmPassed
<1>5. Serve(q1)
  BY <1>3, <1>4, Zenon
<1>6. PICK q2 \in Rec : CalmTo(q1, q2, w, p)
  BY <1>4, <1>5, CalmServe
<1>7. Kept(q, q2)
  BY <1>4, <1>6, KeptTwice DEF CalmTo
<1> QED
  BY <1>6, <1>7 DEF CalmTo

(* The same with the head discarded first, which was sent.                  *)
Delivered(q) ==
    /\ HeadOf(q) \in Packet
    /\ q.sent[HeadOf(q).id] > 0
    /\ HeadOf(q).link \in SppLinks => q.sent[HeadOf(q).id] <= ResendNum
    /\ \A l \in Links : q.answers[l] = <<>>
    /\ \A l \in LeLinks : q.handed[l] = <<>>

LEMMA CalmDiscard ==
    ASSUME Calm, NEW q \in Rec, NEW w \in Slot, NEW p \in 0..MaxPush,
           Ring(q, w, p, state'), Rationed(q, w, p, state'), Delivered(q),
           Pop(Discarded(q))
    PROVE  \E q2 \in Rec : CalmTo(q, q2, w, p)
<1>1. PICK d \in Rec :
         /\ d = Discarded(q)
         /\ d.slots = Without(q.slots, q.r, 1) /\ d.r = Plus(q.r, 1)
         /\ d.resend = 0 /\ d.status = "idle" /\ d.timer = "off"
         /\ d.sent = q.sent
  BY DiscardIs
<1>2. Pop(d)
  BY <1>1, Zenon
<1>3. /\ d.credit = q.credit /\ d.answers = q.answers /\ d.handed = q.handed
  <2>1. PICK g \in Rec :
           /\ g = Drop(q) /\ g.credit = q.credit
           /\ g.answers = q.answers /\ g.handed = q.handed
    BY DropIs
  <2> DEFINE f == [g EXCEPT !.timer = "off", !.resend = 0, !.status = "idle"]
  <2>2. f.credit = g.credit /\ f.answers = g.answers /\ f.handed = g.handed
    BY DEF Rec
  <2>3. d = f
    BY <1>1, <2>1, Zenon DEF Discarded
  <2> HIDE DEF f
  <2> QED
    BY <2>1, <2>2, <2>3, Zenon
<1>4. PICK n \in 0..QueueNo : n = 1
  BY QueueNoAssumption
<1>5. /\ q.r \in Slot /\ p \in Nat
      /\ d.slots = Without(q.slots, q.r, n) /\ d.r = Plus(q.r, n)
  BY <1>1, <1>4, BoundsAssumption DEF Rec
<1>6. /\ \A k \in 0..n - 1 : At(q, k) # None
      /\ \A i \in Ids : d.sent[i] = q.sent[i]
  BY <1>1, <1>4, <1>5, PlusWhole, PacketIs DEF At, HeadOf, Delivered
<1>7. /\ Ring(d, w, p, state')
      /\ HeadOf(d) # None => d.sent[HeadOf(d).id] = 0
  BY <1>4, <1>5, <1>6, CutRing
<1>8. Counted(d) /\ Idles(d) /\ Line(d)
  BY <1>1, <1>3, <1>7, NoneIsNowhere DEF Counted, Idles, Line, Delivered
<1>9. Pays(q, d, Budget(n))
  <2> SUFFICES ASSUME NEW l \in SppLinks
               PROVE  d.credit[l] + Spent(d, l) + Budget(n)
                         >= q.credit[l] + Spent(q, l)
    BY DEF Pays
  <2>1. Budget(n) = ResendNum
    BY <1>4, BudgetIs
  <2>2. Spent(q, l) <= ResendNum
    BY ResendNumAssumption DEF Spent, Delivered
  <2>3. /\ d.credit[l] = q.credit[l] /\ q.credit[l] \in Nat
        /\ Spent(d, l) \in Nat /\ Spent(q, l) \in Nat
    BY <1>3, SpentIs
  <2> QED
    BY <2>1, <2>2, <2>3, ResendNumAssumption
<1>10. Rationed(d, w, p, state')
  BY <1>5, <1>6, <1>9, RationCut DEF Ring
<1>11. Kept(q, d)
  <2>1. \A k \in Ids : q.sent[k] \in Nat
    BY DEF Rec
  <2>2. \A k \in Ids : d.sent[k] >= q.sent[k]
    BY <1>1, <2>1
  <2>3. Justified(HeadOf(q), state', d.sent)
    BY <1>1 DEF Justified, Delivered
  <2> QED
    BY <1>1, <2>2, <2>3, KeptHead
<1>12. CalmIdle(d, w, p)
  BY <1>7, <1>8, <1>10 DEF CalmIdle
<1>13. PICK q2 \in Rec : CalmTo(d, q2, w, p)
  BY <1>2, <1>12, CalmPop
<1>14. Kept(q, q2)
  BY <1>11, <1>13, KeptTwice DEF CalmTo
<1> QED
  BY <1>13, <1>14 DEF CalmTo

-----------------------------------------------------------------------------
(* The handlers. *)
CalmInv ==
    /\ SafeInv
    /\ Line(Now)
    /\ Rationed(Now, wIdx, pushed, state)

(* What a handler leads to. *)
CalmGoes ==
    \E n \in Rec, q2 \in Rec : n = Now /\ CalmTo(n, q2, wIdx', pushed')

LEMMA NowCalm ==
    ASSUME CalmInv
    PROVE  /\ pushed \in 0..MaxPush
           /\ \E n \in Rec :
                 /\ n = Now /\ SameRing(n) /\ SameTimer(n) /\ SameLines(n)
                 /\ n.handed = handed
                 /\ Safe(n, wIdx, pushed, state) /\ Line(n)
                 /\ Rationed(n, wIdx, pushed, state)
  BY SafeNow, NowSame DEF CalmInv, TypeOK

(* A handler that changes no ring and pays nothing goes on from there.      *)
LEMMA CalmFrom ==
    ASSUME NEW n \in Rec, n = Now, NEW q \in Rec, NEW q2 \in Rec,
           q.slots = n.slots, q.sent = n.sent,
           CalmTo(q, q2, wIdx', pushed')
    PROVE  CalmGoes
<1>1. Kept(n, q2)
  BY KeptSame, KeptTwice DEF CalmTo
<1> QED
  BY <1>1 DEF CalmGoes, CalmTo

LEMMA SameRation ==
    ASSUME NEW n \in Rec, NEW q \in Rec, NEW w, NEW p \in 0..MaxPush, NEW st,
           Rationed(n, w, p, st),
           q.slots = n.slots, q.r = n.r, q.sent = n.sent, q.credit = n.credit
    PROVE  Rationed(q, w, p, st)
<1>1. \A k \in Ids : n.sent[k] \in Nat
  BY DEF Rec
<1>2. Pays(n, q, 0)
  BY <1>1, SameCosts DEF Grows
<1> QED
  BY <1>2, RationSame

LEMMA CalmRecvAck ==
    ASSUME Calm, CalmInv, NEW l \in Links, RecvAck(l)
    PROVE  CalmGoes
<1>1. PICK n \in Rec :
         /\ n = Now /\ SameRing(n) /\ SameTimer(n) /\ SameLines(n)
         /\ n.handed = handed
         /\ Safe(n, wIdx, pushed, state) /\ Line(n)
         /\ Rationed(n, wIdx, pushed, state)
  BY NowCalm
<1>2. PICK q \in Rec :
         /\ SameRing(q) /\ SameTimer(q) /\ q.handed = handed
         /\ q.credit = credit
         /\ q.answers = [answers EXCEPT ![l] = Tail(@)]
         /\ \/ PopNext(q)
            \/ First.event # answers[l][1] /\ Pop(q)
  BY SafeNow, RecvAckIs DEF CalmInv
<1>3. /\ wIdx' = wIdx /\ pushed' = pushed /\ state' = state
      /\ answers[l] # <<>>
      /\ wIdx \in Slot /\ pushed \in 0..MaxPush
      /\ answers \in [Links -> Seq(Events)]
  BY SafeNow DEF RecvAck, linkVars, CalmInv, TypeOK
<1>4. /\ n.slots = q.slots /\ n.r = q.r /\ n.sent = q.sent
      /\ n.credit = q.credit /\ n.answers = answers /\ n.handed = handed
      /\ HeadOf(n) = HeadOf(q) /\ HeadOf(q) = First
  BY <1>1, <1>2 DEF SameRing, SameLines, HeadOf, First
<1>5. /\ n.status = "active"
      /\ l \in SppLinks /\ l = HeadOf(n).link
      /\ answers[l][1] = HeadOf(n).event /\ Tail(answers[l]) = <<>>
  BY <1>1, <1>3, <1>4 DEF Line
<1>6. /\ HeadOf(n) \in Packet
      /\ n.sent[HeadOf(n).id] \in 0..ResendNum
  BY <1>1, <1>5, HeadTried DEF Safe
<1>7. PopNext(q)
  BY <1>2, <1>4, <1>5
<1>8. Pop(Discarded(q))
  BY <1>4, <1>6, <1>7, PacketIs, PopNextIs
<1>9. Delivered(q)
  <2>1. \A m \in Links : q.answers[m] = <<>>
    <3>1. \A m \in Links : m # l => answers[m] = <<>>
      BY <1>1, <1>4, <1>5 DEF Line
    <3> QED
      BY <1>2, <1>3, <1>5, <3>1
  <2>2. \A m \in LeLinks : q.handed[m] = <<>>
    BY <1>1, <1>2, <1>5, LinksAssumption DEF Line
  <2>3. n.sent[HeadOf(n).id] > 0
    BY <1>1, <1>5 DEF Line
  <2> QED
    BY <1>4, <1>6, <2>1, <2>2, <2>3 DEF Delivered
<1>10. Ring(q, wIdx', pushed', state')
  BY <1>2, <1>3, SameSafe DEF CalmInv
<1>11. Rationed(q, wIdx', pushed', state')
  BY <1>1, <1>3, <1>4, SameRation
<1>12. \E q2 \in Rec : CalmTo(q, q2, wIdx', pushed')
  BY <1>3, <1>8, <1>9, <1>10, <1>11, CalmDiscard
<1> QED
  BY <1>1, <1>4, <1>12, CalmFrom

LEMMA CalmSendComplete ==
    ASSUME Calm, CalmInv, NEW l \in LeLinks, SendComplete(l)
    PROVE  CalmGoes
<1>1. PICK n \in Rec :
         /\ n = Now /\ SameRing(n) /\ SameTimer(n) /\ SameLines(n)
         /\ n.handed = handed
         /\ Safe(n, wIdx, pushed, state) /\ Line(n)
         /\ Rationed(n, wIdx, pushed, state)
  BY NowCalm
<1>2. PICK q \in Rec :
         /\ SameRing(q) /\ SameTimer(q) /\ SameLines(q)
         /\ q.handed = [handed EXCEPT ![l] = Tail(@)]
         /\ PopNext(q)
  BY SafeNow, SendCompleteIs DEF CalmInv
<1>3. /\ wIdx' = wIdx /\ pushed' = pushed /\ state' = state
      /\ handed[l] # <<>>
      /\ wIdx \in Slot /\ pushed \in 0..MaxPush
      /\ handed \in [LeLinks -> Seq(Ids)]
  BY SafeNow DEF SendComplete, linkVars, CalmInv, TypeOK
<1>4. /\ n.slots = q.slots /\ n.r = q.r /\ n.sent = q.sent
      /\ n.credit = q.credit /\ n.answers = q.answers
      /\ HeadOf(n) = HeadOf(q)
  BY <1>1, <1>2 DEF SameRing, SameLines, HeadOf
<1>5. /\ n.status = "active" /\ l = HeadOf(n).link /\ Tail(handed[l]) = <<>>
  BY <1>1, <1>3 DEF Line
<1>6. HeadOf(n) \in Packet /\ HeadOf(n).link \notin SppLinks
  BY <1>5, HeadIs, NoneIsNowhere, LinksAssumption
<1>7. Pop(Discarded(q))
  BY <1>2, <1>4, <1>6, PacketIs, PopNextIs
<1>8. Delivered(q)
  <2>1. \A m \in Links : q.answers[m] = <<>>
    BY <1>1, <1>4, <1>6 DEF Line
  <2>2. \A m \in LeLinks : q.handed[m] = <<>>
    <3>1. \A m \in LeLinks : m # l => handed[m] = <<>>
      BY <1>1, <1>5 DEF Line
    <3> QED
      BY <1>2, <1>3, <1>5, <3>1
  <2>3. n.sent[HeadOf(n).id] > 0
    BY <1>1, <1>5 DEF Line
  <2> QED
    BY <1>4, <1>6, <2>1, <2>2, <2>3 DEF Delivered
<1>9. Ring(q, wIdx', pushed', state')
  BY <1>2, <1>3, SameSafe DEF CalmInv
<1>10. Rationed(q, wIdx', pushed', state')
  BY <1>1, <1>3, <1>4, SameRation
<1>11. \E q2 \in Rec : CalmTo(q, q2, wIdx', pushed')
  BY <1>3, <1>7, <1>8, <1>9, <1>10, CalmDiscard
<1> QED
  BY <1>1, <1>4, <1>11, CalmFrom

LEMMA CalmTimeout ==
    ASSUME Calm, CalmInv, Timeout
    PROVE  CalmGoes
<1>1. PICK n \in Rec :
         /\ n = Now /\ SameRing(n) /\ SameTimer(n) /\ SameLines(n)
         /\ n.handed = handed
         /\ Safe(n, wIdx, pushed, state) /\ Line(n)
         /\ Rationed(n, wIdx, pushed, state)
  BY NowCalm
<1>2. PICK q \in Rec :
         /\ q.slots = slots /\ q.r = rIdx /\ q.sent = sent
         /\ q.timer = "off" /\ q.status = "idle"
         /\ SameLines(q) /\ q.handed = handed
         /\ \/ timer = "send" /\ q.resend = resend /\ Pop(q)
            \/ timer = "ack" /\ q.resend = resend + 1 /\ Pop(q)
            \/ /\ timer = "ack"
               /\ HeadOf(q) \in Packet /\ Pop(Discarded(q))
  BY TimeoutIs DEF CalmInv, SafeInv
<1>3. /\ wIdx' = wIdx /\ pushed' = pushed /\ state' = state
      /\ wIdx \in Slot /\ pushed \in 0..MaxPush
      /\ InTime /\ "late" \notin Inputs
  BY SafeNow DEF Timeout, linkVars, CalmInv, TypeOK, Calm
<1>4. /\ n.slots = q.slots /\ n.r = q.r /\ n.sent = q.sent
      /\ n.credit = q.credit /\ n.answers = q.answers /\ n.handed = q.handed
      /\ n.resend = resend /\ n.timer = timer
      /\ n.answers = answers
      /\ HeadOf(n) = HeadOf(q) /\ HeadOf(n) = First
  BY <1>1, <1>2 DEF SameRing, SameTimer, SameLines, HeadOf, First
<1>5. /\ \A m \in Links : q.answers[m] = <<>>
      /\ \A m \in LeLinks : q.handed[m] = <<>>
  <2>1. \A m \in Links : answers[m] # <<>> => m = First.link
    BY <1>1, <1>4 DEF Line
  <2>2. \A m \in LeLinks : handed[m] # <<>> => m = First.link
    BY <1>1, <1>4 DEF Line
  <2> QED
    BY <1>2, <1>3, <1>4, <2>1, <2>2 DEF InTime
<1>6. Ring(q, wIdx', pushed', state')
  BY <1>1, <1>3, <1>4 DEF Safe, Ring, Known, Untried, LinksUp
<1>7. Rationed(q, wIdx', pushed', state')
  BY <1>1, <1>3, <1>4, SameRation
<1>8. n.timer = "ack" => n.status = "active"
  BY <1>1 DEF Safe, Waits
<1>9. CASE /\ Pop(q)
           /\ \/ timer = "send" /\ q.resend = resend
              \/ timer = "ack" /\ q.resend = resend + 1
  <2>1. Counted(q)
    <3>1. Counted(n) /\ n.status \in {"idle", "active"}
      BY <1>1 DEF Safe, Rec
    <3> QED
      BY <1>2, <1>4, <1>8, <1>9, <3>1 DEF Counted
  <2>2. Line(q)
    BY <1>1, <1>2, <1>4, <1>5 DEF Line
  <2>3. Idles(q)
    BY <1>2 DEF Idles
  <2>4. CalmIdle(q, wIdx', pushed')
    BY <1>6, <1>7, <2>1, <2>2, <2>3 DEF CalmIdle
  <2>5. \E q2 \in Rec : CalmTo(q, q2, wIdx', pushed')
    BY <1>3, <1>9, <2>4, CalmPop
  <2> QED
    BY <1>1, <1>4, <2>5, CalmFrom
<1>10. CASE timer = "ack" /\ HeadOf(q) \in Packet /\ Pop(Discarded(q))
  <2>1. n.sent[HeadOf(n).id] > 0
    BY <1>1, <1>4, <1>8, <1>10 DEF Line
  <2>2. HeadOf(n).link \in SppLinks => n.sent[HeadOf(n).id] <= ResendNum
    BY <1>1, HeadTried, ResendNumAssumption DEF Safe
  <2>3. Delivered(q)
    BY <1>4, <1>5, <1>10, <2>1, <2>2 DEF Delivered
  <2>4. \E q2 \in Rec : CalmTo(q, q2, wIdx', pushed')
    BY <1>3, <1>6, <1>7, <1>10, <2>3, CalmDiscard
  <2> QED
    BY <1>1, <1>4, <2>4, CalmFrom
<1> QED
  BY <1>2, <1>9, <1>10

(* The ring is popped or left with the line as it is.                       *)
LEMMA CalmServed ==
    ASSUME Calm, NEW q \in Rec, NEW w \in Slot, NEW p \in 0..MaxPush,
           Waits(q), Ring(q, w, p, state'), Counted(q), Line(q),
           Rationed(q, w, p, state'), Becomes(q) \/ Pop(q)
    PROVE  \E q2 \in Rec : CalmTo(q, q2, w, p)
<1>1. CASE Becomes(q)
  BY <1>1, KeptSame DEF CalmTo
<1>2. CASE Pop(q) /\ q.status = "active"
  <2>1. Becomes(q)
    BY <1>2 DEF Pop
  <2> QED
    BY <2>1, KeptSame DEF CalmTo
<1>3. CASE Pop(q) /\ q.status # "active"
  <2>1. Idles(q)
    BY <1>3 DEF Idles, Waits, Rec
  <2>2. CalmIdle(q, w, p)
    BY <2>1 DEF CalmIdle
  <2> QED
    BY <1>3, <2>2, CalmPop
<1> QED
  BY <1>1, <1>2, <1>3

LEMMA CalmSppConnect ==
    ASSUME Calm, CalmInv, NEW l \in SppLinks, SppConnect(l)
    PROVE  CalmGoes
<1>1. PICK n \in Rec :
         /\ n = Now /\ SameRing(n) /\ SameTimer(n) /\ SameLines(n)
         /\ n.handed = handed
         /\ Safe(n, wIdx, pushed, state) /\ Line(n)
         /\ Rationed(n, wIdx, pushed, state)
  BY NowCalm
<1>2. PICK q \in Rec :
         /\ SameRing(q) /\ SameTimer(q) /\ q.handed = handed
         /\ q.answers = answers
         /\ \A m \in SppLinks : m # l => q.credit[m] = credit[m]
         /\ "starve" \notin Inputs => q.credit[l] = MaxCredit
         /\ Becomes(q) \/ Pop(q)
  BY SafeNow, SppConnectIs DEF CalmInv
<1>3. /\ wIdx' = wIdx /\ pushed' = pushed
      /\ state' = [state EXCEPT ![l] = "up"]
      /\ state \in [Links -> {"up", "leaving", "down"}]
      /\ wIdx \in Slot /\ pushed \in 0..MaxPush /\ pushed \in Nat
      /\ q.credit[l] = MaxCredit
  BY <1>2, SafeNow DEF SppConnect, CalmInv, TypeOK, Calm
<1>4. /\ \A m \in SppLinks : state[m] = "up" => state'[m] = "up"
      /\ \A m \in SppLinks : m # l => state'[m] = state[m]
  BY <1>3 DEF Links
<1>5. /\ n.slots = q.slots /\ n.r = q.r /\ n.sent = q.sent
      /\ n.answers = q.answers /\ n.handed = q.handed
      /\ n.status = q.status /\ n.credit = credit
      /\ HeadOf(n) = HeadOf(q)
  BY <1>1, <1>2 DEF SameRing, SameTimer, SameLines, HeadOf
<1>6. Safe(q, wIdx, pushed, state)
  BY <1>2, SameSafe DEF CalmInv
<1>7. Ring(q, wIdx', pushed', state')
  BY <1>3, <1>4, <1>6 DEF Safe, Ring, LinksUp
<1>8. Line(q)
  BY <1>1, <1>5 DEF Line
<1>9. Rationed(q, wIdx', pushed', state')
  <2> SUFFICES ASSUME NEW c \in 0..QueueNo, Filled(q.slots, q.r, wIdx, c)
               PROVE  /\ c <= pushed
                      /\ \A m \in SppLinks : state'[m] = "up" =>
                            q.credit[m] + Spent(q, m) >= Budget(MaxPush - pushed + c)
    BY <1>3 DEF Rationed
  <2>1. /\ c <= pushed
        /\ \A m \in SppLinks : state[m] = "up" =>
              n.credit[m] + Spent(n, m) >= Budget(MaxPush - pushed + c)
    BY <1>1, <1>5 DEF Rationed
  <2>2. ASSUME NEW m \in SppLinks, state'[m] = "up", m # l
        PROVE  q.credit[m] + Spent(q, m) >= Budget(MaxPush - pushed + c)
    <3>1. state[m] = "up" /\ q.credit[m] = n.credit[m] /\ Spent(q, m) = Spent(n, m)
      BY <1>2, <1>4, <1>5, <2>2 DEF Spent
    <3> QED
      BY <2>1, <3>1
  <2>3. q.credit[l] + Spent(q, l) >= Budget(MaxPush - pushed + c)
    <3>1. PICK m \in Nat, d \in Nat :
             m = MaxPush - pushed + c /\ d = pushed - c
      BY <1>3, <2>1, BoundsAssumption, QueueNoAssumption
    <3>2. MaxPush = m + d
      BY <1>3, <3>1, BoundsAssumption, QueueNoAssumption
    <3>3. /\ Budget(MaxPush) = Budget(m) + Budget(d)
          /\ Budget(m) \in Nat /\ Budget(d) \in Nat
      BY <3>2, BudgetIs
    <3>4. Spent(q, l) \in Nat /\ MaxCredit \in Nat /\ Budget(MaxPush) <= MaxCredit
      BY SpentIs, BoundsAssumption DEF Calm
    <3> QED
      BY <1>3, <3>1, <3>3, <3>4
  <2> QED
    BY <2>1, <2>2, <2>3
<1>10. \E q2 \in Rec : CalmTo(q, q2, wIdx', pushed')
  BY <1>2, <1>3, <1>6, <1>7, <1>8, <1>9, CalmServed DEF Safe
<1> QED
  BY <1>1, <1>5, <1>10, CalmFrom

(* Nothing but the credits and the links changes. *)
LEMMA CalmLink ==
    ASSUME CalmInv, NEW n \in Rec, n = Now, NEW q \in Rec, Becomes(q),
           SameRing(q), SameTimer(q), q.handed = handed, q.answers = answers,
           \A m \in SppLinks : q.credit[m] >= n.credit[m],
           wIdx' = wIdx, pushed' = pushed,
           \A m \in SppLinks : state'[m] = state[m]
    PROVE  CalmGoes
<1>1. /\ n.slots = q.slots /\ n.r = q.r /\ n.sent = q.sent
      /\ n.answers = q.answers /\ n.handed = q.handed
      /\ n.status = q.status
      /\ Line(n) /\ Rationed(n, wIdx, pushed, state)
      /\ pushed \in 0..MaxPush
  BY SafeNow DEF SameRing, SameTimer, Now, CalmInv, TypeOK
<1>2. HeadOf(n) = HeadOf(q)
  BY <1>1 DEF HeadOf
<1>3. Line(q)
  BY <1>1, <1>2 DEF Line
<1>4. Pays(n, q, 0)
  <2> SUFFICES ASSUME NEW m \in SppLinks
               PROVE  q.credit[m] + Spent(q, m) + 0 >= n.credit[m] + Spent(n, m)
    BY DEF Pays
  <2>1. Spent(q, m) = Spent(n, m)
    BY <1>1, <1>2 DEF Spent
  <2>2. q.credit[m] \in Nat /\ n.credit[m] \in Nat /\ Spent(n, m) \in Nat
        /\ q.credit[m] >= n.credit[m]
    BY SpentIs
  <2> QED
    BY <2>1, <2>2
<1>5. Rationed(q, wIdx, pushed, state)
  BY <1>1, <1>4, RationSame
<1>6. Rationed(q, wIdx', pushed', state')
  BY <1>5 DEF Rationed
<1>7. CalmTo(n, q, wIdx', pushed')
  BY <1>1, <1>3, <1>6, KeptSame DEF CalmTo
<1> QED
  BY <1>7 DEF CalmGoes

LEMMA CalmCreditRcvd ==
    ASSUME CalmInv, TypeOK', NEW l \in SppLinks, CreditRcvd(l)
    PROVE  CalmGoes
<1>1. PICK n \in Rec :
         /\ n = Now /\ SameRing(n) /\ SameTimer(n) /\ SameLines(n)
         /\ n.handed = handed
  BY NowCalm
<1>2. PICK c \in [SppLinks -> 0..MaxCredit] : c = credit'
  BY DEF TypeOK
<1> DEFINE q == [n EXCEPT !.credit = c]
<1>3. /\ q \in Rec /\ SameRing(q) /\ SameTimer(q) /\ q.handed = handed
      /\ q.credit = c /\ q.answers = answers
  BY <1>1, <1>2 DEF Rec, SameRing, SameTimer, SameLines
<1> HIDE DEF q
<1>4. Becomes(q)
  BY <1>2, <1>3 DEF CreditRcvd, Becomes, SameRing, SameTimer
<1>5. \A m \in SppLinks : q.credit[m] >= n.credit[m]
  <2>1. n.credit = credit /\ credit \in [SppLinks -> 0..MaxCredit]
    BY <1>1, SafeNow DEF SameLines, CalmInv, TypeOK
  <2>2. PICK d \in credit[l] + 1..MaxCredit : c = [credit EXCEPT ![l] = d]
    BY <1>2 DEF CreditRcvd
  <2>3. d >= credit[l]
    BY <2>1, <2>2, BoundsAssumption
  <2> QED
    BY <1>3, <2>1, <2>2, <2>3, BoundsAssumption
<1>6. /\ wIdx' = wIdx /\ pushed' = pushed
      /\ \A m \in SppLinks : state'[m] = state[m]
  BY DEF CreditRcvd, linkVars
<1> QED
  BY <1>1, <1>3, <1>4, <1>5, <1>6, CalmLink

LEMMA CalmLeLink ==
    ASSUME CalmInv, UNCHANGED popVars, wIdx' = wIdx, pushed' = pushed,
           \A m \in SppLinks : state'[m] = state[m]
    PROVE  CalmGoes
<1>1. PICK n \in Rec :
         /\ n = Now /\ SameRing(n) /\ SameTimer(n) /\ SameLines(n)
         /\ n.handed = handed
  BY NowCalm
<1>2. Becomes(n) /\ n.answers = answers
  BY <1>1 DEF Becomes, Now, popVars
<1>3. \A m \in SppLinks : n.credit[m] >= n.credit[m]
  BY SpentIs
<1> QED
  BY <1>1, <1>2, <1>3, CalmLink

(* What the credits of a link must cover stays as it is: one packet fewer   *)
(* is to come, and one more is in the ring.                                 *)
LEMMA PushRationed ==
    ASSUME CalmInv, NEW n \in Rec, n = Now, NEW q \in Rec, NEW p \in Packet,
           NEW w, w = Plus(wIdx, 1), NEW c, c = pushed + 1,
           q.slots = Store(slots, wIdx, p), q.r = rIdx, slots[wIdx] = None,
           \A l \in SppLinks :
              q.credit[l] = n.credit[l] /\ Spent(q, l) = Spent(n, l)
    PROVE  Rationed(q, w, c, state)
<1>1. /\ slots \in [Slot -> Packet \cup {None}]
      /\ rIdx \in Slot /\ wIdx \in Slot /\ pushed \in Nat
      /\ n.slots = slots /\ n.r = rIdx
      /\ Contiguous(slots, rIdx, wIdx) /\ Rationed(n, wIdx, pushed, state)
  BY SafeNow, NowFields DEF CalmInv, TypeOK, Safe, Ring
<1>2. PICK d \in 0..QueueNo : Filled(slots, rIdx, wIdx, d)
  BY <1>1, ContiguousFilled DEF Filled
<1>3. PICK e \in Nat : e = d + 1
  BY QueueNoAssumption
<1>4. Filled(q.slots, q.r, w, e)
  <2>1. Filled(Store(slots, wIdx, p), rIdx, Plus(wIdx, 1), e)
    BY <1>1, <1>2, <1>3, StoreQueue, PacketIs
  <2> QED
    BY <2>1, Zenon
<1>5. /\ d <= pushed
      /\ \A l \in SppLinks : state[l] = "up" =>
            n.credit[l] + Spent(n, l) >= Budget(MaxPush - pushed + d)
  BY <1>1, <1>2 DEF Rationed
<1>6. e <= c /\ MaxPush - c + e = MaxPush - pushed + d
  BY <1>1, <1>2, <1>3, <1>5, QueueNoAssumption, BoundsAssumption
<1>7. ASSUME NEW b \in 0..QueueNo, Filled(q.slots, q.r, w, b)
      PROVE  b = e
  <2>1. q.r \in Slot
    BY DEF Rec
  <2> QED
    BY <1>4, <1>7, <2>1, FilledOnce
<1>8. \A l \in SppLinks : state[l] = "up" =>
         q.credit[l] + Spent(q, l) >= Budget(MaxPush - c + e)
  BY <1>5, <1>6
<1> QED
  BY <1>6, <1>7, <1>8 DEF Rationed

LEMMA CalmPush ==
    ASSUME Calm, CalmInv, NEW l \in Links, NEW e \in Kinds, Push(l, e)
    PROVE  CalmGoes
<1>1. PICK n \in Rec :
         /\ n = Now /\ SameRing(n) /\ SameTimer(n) /\ SameLines(n)
         /\ n.handed = handed
         /\ Safe(n, wIdx, pushed, state) /\ Line(n)
         /\ Rationed(n, wIdx, pushed, state)
  BY NowCalm
<1>2. PICK q \in Rec, p \in Packet :
         /\ Reported(q, p)
         /\ Ring(q, wIdx', pushed', state')
         /\ Waits(q) /\ Counted(q)
         /\ First = None => Idles(q) /\ HeadOf(q) = p /\ sent[p.id] = 0
         /\ First # None => HeadOf(q) = First
  BY PushReady DEF CalmInv, Calm
<1>3. /\ pushed < MaxPush /\ state' = state
      /\ wIdx' = Plus(wIdx, 1) /\ pushed' = pushed + 1
      /\ wIdx \in Slot /\ pushed \in 0..MaxPush
      /\ slots \in [Slot -> Packet \cup {None}]
  BY SafeNow DEF Push, linkVars, CalmInv, TypeOK
<1>4. wIdx' \in Slot /\ pushed' \in 0..MaxPush
  BY <1>3, PlusType, QueueNoAssumption, BoundsAssumption
<1>5. /\ q.slots = Store(slots, wIdx, p) /\ n.slots = slots
      /\ q.r = rIdx /\ n.r = rIdx /\ slots[wIdx] = None
      /\ n.sent = q.sent /\ q.sent = sent /\ n.credit = q.credit
      /\ n.answers = q.answers /\ n.handed = q.handed
      /\ n.status = q.status /\ HeadOf(n) = First
  BY <1>1, <1>2
     DEF Reported, SameRing, SameTimer, SameLines, HeadOf, First
<1>6. Line(q)
  <2>1. CASE First = None
    <3>1. q.status = "idle" /\ n.status = "idle"
      BY <1>2, <1>5, <2>1 DEF Idles
    <3>2. /\ \A m \in Links : n.answers[m] = <<>>
          /\ \A m \in LeLinks : n.handed[m] = <<>>
      BY <1>1, <3>1, IdleLine
    <3> QED
      BY <1>2, <1>5, <2>1, <3>1, <3>2 DEF Line
  <2>2. CASE First # None
    BY <1>1, <1>2, <1>5, <2>2 DEF Line
  <2> QED
    BY <2>1, <2>2
<1>7. \A m \in SppLinks : Spent(q, m) = Spent(n, m)
  <2>1. CASE First = None
    BY <1>1, <1>2, <1>5, <2>1, SpentIs DEF Spent
  <2>2. CASE First # None
    BY <1>2, <1>5, <2>2 DEF Spent
  <2> QED
    BY <2>1, <2>2
<1>8. Rationed(q, wIdx', pushed', state')
  <2>1. Rationed(q, wIdx', pushed', state)
    BY <1>1, <1>3, <1>5, <1>7, PushRationed
  <2> QED
    BY <1>3, <2>1
<1>9. Kept(n, q)
  <2>1. \A k \in Ids : n.sent[k] \in Nat
    BY DEF Rec
  <2>2. \A i \in Slot : n.slots[i] # None => q.slots[i] = n.slots[i]
    BY <1>3, <1>5 DEF Store
  <2> QED
    BY <1>5, <2>1, <2>2 DEF Kept
<1>10. Pop(q)
  BY <1>2 DEF Reported
<1>11. PICK q2 \in Rec : CalmTo(q, q2, wIdx', pushed')
  BY <1>2, <1>4, <1>6, <1>8, <1>10, CalmServed
<1>12. Kept(n, q2)
  BY <1>9, <1>11, KeptTwice DEF CalmTo
<1> QED
  BY <1>1, <1>11, <1>12 DEF CalmGoes, CalmTo

-----------------------------------------------------------------------------
LEMMA CalmNext ==
    ASSUME Calm, CalmInv, TypeOK', [Next]_vars
    PROVE  CalmGoes
<1>1. "down" \notin Inputs
  BY DEF Calm
<1>2. ASSUME UNCHANGED popVars, wIdx' = wIdx, pushed' = pushed,
             NEW l \in LeLinks, NEW v,
             state' = state \/ state' = [state EXCEPT ![l] = v]
      PROVE  CalmGoes
  <2>1. \A k \in SppLinks : k \in Links /\ k # l
    BY LinksAssumption DEF Links
  <2>2. state \in [Links -> {"up", "leaving", "down"}]
    BY SafeNow DEF CalmInv, TypeOK
  <2>3. \A k \in SppLinks : state'[k] = state[k]
    BY <1>2, <2>1, <2>2
  <2> QED
    BY <1>2, <2>3, CalmLeLink
<1>3. ASSUME NEW l \in LeLinks, LeConnect(l) \/ LeReady(l)
      PROVE  CalmGoes
  BY <1>2, <1>3 DEF LeConnect, LeReady
<1>4. CASE UNCHANGED vars
  BY <1>4, CalmLeLink DEF vars, linkVars
<1>5. \A l \in SppLinks : ~SppDisconnect(l)
  BY <1>1 DEF SppDisconnect
<1>6. \A l \in LeLinks : ~LeDisconnecting(l) /\ ~LeDisconnect(l)
  BY <1>1 DEF LeDisconnecting, LeDisconnect
<1> QED
  BY <1>3, <1>4, <1>5, <1>6, CalmPush, CalmRecvAck, CalmSendComplete,
     CalmTimeout, CalmSppConnect, CalmCreditRcvd DEF Next

LEMMA CalmStep ==
    ASSUME Calm, CalmInv, [Next]_vars
    PROVE  /\ CalmInv'
           /\ \A i \in Slot : slots[i] # None /\ slots'[i] # slots[i]
                 => Justified(slots[i], state', sent')
<1>1. SafeInv'
  BY SafeStep DEF Calm, CalmInv
<1>2. TypeOK'
  BY <1>1 DEF SafeInv, TypeInv
<1>3. PICK n \in Rec, q \in Rec : n = Now /\ CalmTo(n, q, wIdx', pushed')
  BY <1>2, CalmNext DEF CalmGoes
<1>4. Now' = q
  BY <1>3, NowIs DEF CalmTo
<1>5. Line(Now') /\ Rationed(Now', wIdx', pushed', state')
  BY <1>3, <1>4, Zenon DEF CalmTo
<1>6. Line(Now)' /\ Rationed(Now, wIdx, pushed, state)'
  BY <1>5, Zenon DEF Line, Rationed, Spent, HeadOf, Filled, Budget
<1>7. n.slots = slots /\ q.slots = slots' /\ q.sent = sent'
  BY <1>3, NowFields DEF CalmTo, Becomes
<1>8. \A i \in Slot : slots[i] # None /\ slots'[i] # slots[i]
         => Justified(slots[i], state', sent')
  BY <1>3, <1>7 DEF CalmTo, Kept
<1> QED
  BY <1>1, <1>6, <1>8 DEF CalmInv

LEMMA CalmInit == Init => CalmInv
<1> SUFFICES ASSUME Init
             PROVE  CalmInv
  OBVIOUS
<1>1. SafeInv
  BY SafeInit
<1>2. 0 \in Slot
  BY QueueNoAssumption DEF Slot
<1>3. Now.slots = [i \in Slot |-> None] /\ Now.r = 0 /\ HeadOf(Now) = None
  BY <1>2, NowFields DEF Init, HeadOf
<1>4. /\ Now.status = "idle"
      /\ \A l \in Links : Now.answers[l] = <<>>
      /\ \A l \in LeLinks : Now.handed[l] = <<>>
  BY DEF Init, Now
<1>5. Line(Now)
  BY <1>3, <1>4, NoneIsNowhere DEF Line
<1>6. Rationed(Now, wIdx, pushed, state)
  <2> SUFFICES ASSUME NEW c \in 0..QueueNo, Filled(Now.slots, Now.r, wIdx, c)
               PROVE  /\ c <= pushed
                      /\ \A l \in SppLinks : state[l] # "up"
    BY DEF Rationed
  <2>1. Dist(0, 0) = 0
    BY <1>2, DistType
  <2>2. ~(0 < c)
    BY <1>2, <1>3, <2>1 DEF Filled
  <2> QED
    BY <2>2, QueueNoAssumption DEF Init, Links
<1> QED
  BY <1>1, <1>5, <1>6 DEF CalmInv

(* No packet is lost unsent: in calm surroundings a packet leaves the ring  *)
(* only once the stack took it, or for an EVENT_ACK or data-capture packet  *)
(* once the stack refused it.  The credits must cover dt_resend_num tries   *)
(* of every packet, for a poll of a link without credits counts as one.     *)
THEOREM CalmLosesNothing ==
    ASSUME Calm
    PROVE  Spec => NoUnsentLoss
<1>1. CalmInv /\ [Next]_vars => CalmInv'
  BY CalmStep
<1>2. CalmInv /\ [Next]_vars
         => [\A i \in Slot : slots[i] # None /\ slots'[i] # slots[i]
                => Justified(slots[i], state', sent')]_vars
  BY CalmStep
<1> QED
  BY <1>1, <1>2, CalmInit, PTL DEF Spec, NoUnsentLoss
=============================================================================
