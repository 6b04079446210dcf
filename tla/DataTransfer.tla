---------------------------- MODULE DataTransfer ----------------------------
(***************************************************************************)
(* The Bluetooth half of app/app_transfer.c: packets for the peers of all   *)
(* SPP and LE links wait in one ring of QueueNo slots, and one transmitter  *)
(* serves them, whichever link they are for.                                *)
(*                                                                          *)
(* A packet is EVENT_ACK ("ack"), a data-capture event ("capture") or one   *)
(* of the other Events.  An SPP packet needs a credit of its link and, when *)
(* it is one of Events, stays until the peer's CMD_ACK.  An LE packet needs *)
(* a ready link and stays until PROFILE_EVT_SEND_DATA_COMPLETE.             *)
(*                                                                          *)
(* IAP and GATT over BR/EDR are switched off in app_flags.h, data capture   *)
(* is on and app_transfer_cfg.enable_embedded_cmd is 1.                     *)
(***************************************************************************)
EXTENDS PacketRing, FiniteSets

CONSTANTS
    ResendNum,  \* app_transfer_cfg.dt_resend_num
    SppLinks,   \* br_links with SPP_PROFILE_MASK
    LeLinks,    \* le_links
    Events,     \* event ids other than EVENT_ACK and the data-capture ones
    MaxPush,    \* bound: packets the application reports
    MaxCredit,  \* bound: RFCOMM credits of a link
    Inputs      \* what the surroundings may do, see InputNames

InputNames ==
    {"down",     \* links may be disconnected
     "full",     \* packets are reported into a full ring
     "leack",    \* LE peers answer events with CMD_ACK
     "late",     \* answers and completions may outlast the timer
     "refuse",   \* the stack may refuse a packet
     "starve"}   \* links may run out of credits

ASSUME ResendNumAssumption == ResendNum \in Nat \ {0}
ASSUME BoundsAssumption == MaxPush \in Nat /\ MaxCredit \in Nat \ {0}
ASSUME LinksAssumption ==
    /\ SppLinks \cap LeLinks = {}
    /\ "none" \notin SppLinks \cup LeLinks
ASSUME EventsAssumption == {"ack", "capture", "none"} \cap Events = {}
ASSUME InputsAssumption == Inputs \subseteq InputNames

VARIABLES
    slots,      \* dt_queue: a packet, or None where active is 0
    rIdx,       \* dt_queue_ctrl.dt_queue_r_idx
    wIdx,       \* dt_queue_ctrl.dt_queue_w_idx
    resend,     \* dt_queue_ctrl.dt_resend_count
    status,     \* dt_queue_ctrl.dt_status
    timer,      \* timer_idx_data_transfer: off, or running with param 0
                \* ("send") or param 1 ("ack")
    state,      \* le_link.state, or whether SPP is in connected_profile
    credit,     \* vendor_spp.credit
    ready,      \* le_link.cmd.tx_mask is TX_ENABLE_READY
    handed,     \* LE packets the stack has not reported complete, by link
    answers,    \* CMD_ACKs under way, by link, as event ids
    pushed,     \* history: packets reported; the newest has this id
    sent        \* history: how often the stack took each packet

popVars == <<slots, rIdx, resend, status, timer, credit, handed, answers,
             sent>>
linkVars == <<state, ready>>
vars == <<popVars, wIdx, linkVars, pushed>>

Ids == 1..MaxPush
Links == SppLinks \cup LeLinks
Kinds == Events \cup {"ack", "capture"}
Packet == [id : Ids, link : Links, event : Kinds]

First == slots[rIdx]

-----------------------------------------------------------------------------
Init ==
    /\ slots = [i \in Slot |-> None]
    /\ rIdx = 0
    /\ wIdx = 0
    /\ resend = 0
    /\ status = "idle"
    /\ timer = "off"
    /\ state = [l \in Links |-> "down"]
    /\ credit = [l \in SppLinks |-> 0]
    /\ ready = [l \in LeLinks |-> FALSE]
    /\ handed = [l \in LeLinks |-> <<>>]
    /\ answers = [l \in Links |-> <<>>]
    /\ pushed = 0
    /\ sent = [i \in Ids |-> 0]

(***************************************************************************)
(* A handler changes the variables of popVars step by step before it calls  *)
(* app_pop_data_transfer_queue.  They are the fields of a record q here;    *)
(* Now holds their present values, and Becomes(q) makes q the next ones.    *)
(* What pop reads of the links is read after the handler's own changes.     *)
(***************************************************************************)
Now == [slots |-> slots, r |-> rIdx, resend |-> resend, status |-> status,
        timer |-> timer, credit |-> credit, handed |-> handed,
        answers |-> answers, sent |-> sent]

Becomes(q) ==
    /\ slots' = q.slots
    /\ rIdx' = q.r
    /\ resend' = q.resend
    /\ status' = q.status
    /\ timer' = q.timer
    /\ credit' = q.credit
    /\ handed' = q.handed
    /\ answers' = q.answers
    /\ sent' = q.sent

HeadOf(q) == q.slots[q.r]

(* Faulty variants, named Bad..., show that the properties can fail: here   *)
(* the read index stays behind.                                             *)
BadDrop(q) == [q EXCEPT !.slots[q.r] = None]

(* The head leaves the ring. *)
Drop(q) == [q EXCEPT !.slots[q.r] = None, !.r = Plus(q.r, 1)]

Up(l) == state'[l] = "up"

(***************************************************************************)
(* The head is served, by an idle transmitter.  On SPP pop calls itself     *)
(* after each data-capture packet, taken or refused, and each refused       *)
(* EVENT_ACK, so first n packets pass in one go, those at the distances     *)
(* took from the head for a credit each.                                    *)
(***************************************************************************)
At(q, k) == q.slots[Plus(q.r, k)]

Left(q, took, k, l) ==
    q.credit[l] - Cardinality({j \in took : j < k /\ At(q, j).link = l})

Passes(q, n, took) ==
    \A k \in 0..n - 1 :
       /\ At(q, k).link \in SppLinks
       /\ Up(At(q, k).link)
       /\ Left(q, took, k, At(q, k).link) > 0
       /\ IF k \in took THEN At(q, k).event = "capture"
                         ELSE /\ At(q, k).event \in {"ack", "capture"}
                              /\ "refuse" \in Inputs

Passed(q, n, took) ==
    IF n = 0 THEN q ELSE
    [q EXCEPT !.slots = Without(@, q.r, n),
              !.r = Plus(@, n),
              !.resend = 0,
              !.timer = "off",
              !.credit = [l \in SppLinks |-> Left(q, took, n, l)],
              !.sent = [i \in Ids |->
                          IF \E k \in took : At(q, k).id = i THEN @[i] + 1
                                                            ELSE @[i]]]

(* Nothing to send, or an SPP link that is gone: no timer is started. *)
Rest(q) ==
    /\ \/ HeadOf(q) = None
       \/ HeadOf(q).link \in SppLinks /\ ~Up(HeadOf(q).link)
    /\ Becomes(q)

(* Faulty: the next packet is tried instead. *)
BadAwaitCredit(q) ==
    /\ HeadOf(q).link \in SppLinks
    /\ Up(HeadOf(q).link)
    /\ q.credit[HeadOf(q).link] = 0
    /\ Becomes([q EXCEPT !.r = Plus(@, 1), !.status = "active",
                         !.timer = "ack"])

(* Without a credit the ring is polled, by the timer of an ack timeout. *)
AwaitCredit(q) ==
    /\ HeadOf(q).link \in SppLinks
    /\ Up(HeadOf(q).link)
    /\ q.credit[HeadOf(q).link] = 0
    /\ Becomes([q EXCEPT !.status = "active", !.timer = "ack"])

(* Faulty: the timer's parameter is that of a poll, which is not counted. *)
BadSppTaken(q) ==
    LET p == HeadOf(q)
        paid == [q EXCEPT !.credit[p.link] = @ - 1, !.sent[p.id] = @ + 1]
        waits == [paid EXCEPT !.status = "active", !.timer = "send"]
    IN  /\ p.link \in SppLinks
        /\ Up(p.link)
        /\ q.credit[p.link] > 0
        /\ \/ p.event = "ack" /\ Becomes([Drop(paid) EXCEPT !.timer = "send"])
           \/ p.event \in Events /\ Becomes(waits)
           \/ /\ p.event \in Events
              /\ Becomes([waits EXCEPT !.answers[p.link] = Append(@, p.event)])

(* EVENT_ACK is gone once the stack takes it, another event when the peer   *)
(* acknowledges it.                                                         *)
SppTaken(q) ==
    LET p == HeadOf(q)
        paid == [q EXCEPT !.credit[p.link] = @ - 1, !.sent[p.id] = @ + 1]
        waits == [paid EXCEPT !.status = "active", !.timer = "ack"]
    IN  /\ p.link \in SppLinks
        /\ Up(p.link)
        /\ q.credit[p.link] > 0
        /\ \/ p.event = "ack" /\ Becomes([Drop(paid) EXCEPT !.timer = "send"])
           \/ p.event \in Events /\ Becomes(waits)
           \/ /\ p.event \in Events
              /\ Becomes([waits EXCEPT !.answers[p.link] = Append(@, p.event)])

(* On LE every packet waits for its completion, and for EVENT_ACK no timer  *)
(* is started.  The peer may answer an event.                               *)
LeTaken(q) ==
    LET p == HeadOf(q)
        waits == [q EXCEPT !.status = "active",
                           !.timer = IF p.event = "ack" THEN @ ELSE "ack",
                           !.handed[p.link] = Append(@, p.id),
                           !.sent[p.id] = @ + 1]
    IN  /\ p.link \in LeLinks
        /\ Up(p.link)
        /\ ready'[p.link]
        /\ \/ Becomes(waits)
           \/ /\ "leack" \in Inputs
              /\ p.event \in Events
              /\ Becomes([waits EXCEPT !.answers[p.link] = Append(@, p.event)])

(* Faulty: the packet is given up. *)
BadRefusedDrops(q) ==
    LET p == HeadOf(q)
    IN  /\ \/ /\ p.link \in SppLinks
              /\ q.credit[p.link] > 0
              /\ p.event \in Events
              /\ "refuse" \in Inputs
           \/ /\ p.link \in LeLinks
              /\ ready'[p.link] => "refuse" \in Inputs
        /\ Up(p.link)
        /\ Becomes([Drop(q) EXCEPT !.timer = "send"])

(* Faulty: nobody tries again. *)
BadRefused(q) ==
    LET p == HeadOf(q)
    IN  /\ \/ /\ p.link \in SppLinks
              /\ q.credit[p.link] > 0
              /\ p.event \in Events
              /\ "refuse" \in Inputs
           \/ /\ p.link \in LeLinks
              /\ ready'[p.link] => "refuse" \in Inputs
        /\ Up(p.link)
        /\ Becomes(q)

(* Refused by the stack, or not ready: tried again later. *)
Refused(q) ==
    LET p == HeadOf(q)
    IN  /\ \/ /\ p.link \in SppLinks
              /\ q.credit[p.link] > 0
              /\ p.event \in Events
              /\ "refuse" \in Inputs
           \/ /\ p.link \in LeLinks
              /\ ready'[p.link] => "refuse" \in Inputs
        /\ Up(p.link)
        /\ Becomes([q EXCEPT !.timer = "send"])

(* Faulty: the packets behind it are not served. *)
BadLeGone(q) ==
    /\ HeadOf(q).link \in LeLinks
    /\ ~Up(HeadOf(q).link)
    /\ Becomes([Drop(q) EXCEPT !.resend = 0])

(* A packet for an LE link that is going is dropped. *)
LeGone(q) ==
    /\ HeadOf(q).link \in LeLinks
    /\ ~Up(HeadOf(q).link)
    /\ Becomes([Drop(q) EXCEPT !.resend = 0, !.timer = "send"])

Serve(q) ==
    \/ Rest(q)
    \/ AwaitCredit(q)
    \/ SppTaken(q)
    \/ LeTaken(q)
    \/ Refused(q)
    \/ LeGone(q)

(* app_pop_data_transfer_queue without next_flag: an active transmitter     *)
(* goes on waiting.                                                         *)
Pop(q) ==
    IF q.status = "active" THEN Becomes(q) ELSE
    \E n \in 0..QueueNo : \E took \in SUBSET (0..n - 1) :
       Passes(q, n, took) /\ Serve(Passed(q, n, took))

(* With next_flag: the head is discarded; without one only the timer stops. *)
PopNext(q) ==
    IF HeadOf(q) = None
    THEN Becomes([q EXCEPT !.timer = "off"])
    ELSE Pop([Drop(q) EXCEPT !.timer = "off", !.resend = 0,
                             !.status = "idle"])

-----------------------------------------------------------------------------
(***************************************************************************)
(* The application reports an event: app_report_le_event and                *)
(* app_report_spp_iap_event drop it unless the link is up, and a full ring  *)
(* has its oldest packet overwritten.  Only app_transfer_bt_data, which     *)
(* relays data of the host, asks app_transfer_check_active for room first;  *)
(* without "full" the others are taken to find room as well.                *)
(***************************************************************************)
Push(l, e) ==
    LET q == IF slots[wIdx] = None THEN Now
             ELSE [Now EXCEPT !.timer = "off", !.resend = 0, !.status = "idle"]
    IN  /\ pushed < MaxPush
        /\ state[l] = "up"
        /\ slots[wIdx] # None => "full" \in Inputs
        /\ UNCHANGED linkVars
        /\ pushed' = pushed + 1
        /\ wIdx' = Plus(wIdx, 1)
        /\ Pop([q EXCEPT !.slots[wIdx] =
                           [id |-> pushed + 1, link |-> l, event |-> e]])

(***************************************************************************)
(* CMD_ACK, through app_transfer_queue_recv_ack_check: the head is popped   *)
(* when the event ids agree, whichever link it is for.  An empty ring has a *)
(* null packet pointer there, so the comparison may come out either way.    *)
(***************************************************************************)
RecvAck(l) ==
    LET q == [Now EXCEPT !.answers[l] = Tail(@)]
    IN  /\ answers[l] # <<>>
        /\ UNCHANGED <<linkVars, wIdx, pushed>>
        /\ \/ First.event \in {answers[l][1], "none"} /\ PopNext(q)
           \/ First.event # answers[l][1] /\ Pop(q)

(* PROFILE_EVT_SEND_DATA_COMPLETE pops the head, whichever packet it is. *)
SendComplete(l) ==
    /\ handed[l] # <<>>
    /\ UNCHANGED <<linkVars, wIdx, pushed>>
    /\ PopNext([Now EXCEPT !.handed[l] = Tail(@)])

(* Unless "late", an answer or completion under way beats the timer. *)
InTime ==
    "late" \notin Inputs =>
       /\ First.link \in Links => answers[First.link] = <<>>
       /\ First.link \in LeLinks => handed[First.link] = <<>>

(* Faulty: no limit. *)
BadTimeoutForever ==
    LET q == [Now EXCEPT !.timer = "off", !.status = "idle"]
    IN  /\ timer # "off"
        /\ InTime
        /\ UNCHANGED <<linkVars, wIdx, pushed>>
        /\ CASE timer = "send" -> Pop(q)
             [] timer = "ack" -> Pop([q EXCEPT !.resend = @ + 1])

(* APP_TIMER_DATA_TRANSFER of app_transfer_timeout_cb. *)
Timeout ==
    LET q == [Now EXCEPT !.timer = "off", !.status = "idle"]
    IN  /\ timer # "off"
        /\ InTime
        /\ UNCHANGED <<linkVars, wIdx, pushed>>
        /\ CASE timer = "send" -> Pop(q)
             [] timer = "ack" /\ resend + 1 < ResendNum ->
                  Pop([q EXCEPT !.resend = @ + 1])
             [] timer = "ack" /\ resend + 1 >= ResendNum ->
                  PopNext([q EXCEPT !.resend = @ + 1])

-----------------------------------------------------------------------------
(* BT_EVENT_SPP_CONN_CMPL of app_spp.c: with a credit the ring is served. *)
SppConnect(l) ==
    /\ state[l] = "down"
    /\ state' = [state EXCEPT ![l] = "up"]
    /\ UNCHANGED <<ready, wIdx, pushed>>
    /\ \E c \in 0..MaxCredit :
          LET q == [Now EXCEPT !.credit[l] = c]
          IN  /\ "starve" \notin Inputs => c = MaxCredit
              /\ IF c > 0 THEN Pop(q) ELSE Becomes(q)

(* BT_EVENT_SPP_CREDIT_RCVD: the credit is noted, and the ring not served. *)
CreditRcvd(l) ==
    /\ state[l] = "up"
    /\ \E c \in credit[l] + 1..MaxCredit : credit' = [credit EXCEPT ![l] = c]
    /\ UNCHANGED <<slots, rIdx, resend, status, timer, handed, answers, sent,
                   wIdx, linkVars, pushed>>

(* app_transfer_queue_reset: all paths are treated alike. *)
Reset(q) ==
    /\ wIdx' = 0
    /\ Becomes([q EXCEPT !.slots = [i \in Slot |-> None], !.r = 0, !.resend = 0,
                          !.status = "idle", !.timer = "off"])

(* BT_EVENT_SPP_DISCONN_CMPL; the policy has cleared connected_profile. *)
SppDisconnect(l) ==
    /\ "down" \in Inputs
    /\ state[l] = "up"
    /\ state' = [state EXCEPT ![l] = "down"]
    /\ UNCHANGED <<ready, pushed>>
    /\ Reset([Now EXCEPT !.credit[l] = 0, !.answers[l] = <<>>])

(* app_ble_gap_handle_new_conn_state_evt; a new link has an empty tx_mask. *)
LeConnect(l) ==
    /\ state[l] = "down"
    /\ state' = [state EXCEPT ![l] = "up"]
    /\ UNCHANGED <<ready, popVars, wIdx, pushed>>

LeDisconnecting(l) ==
    /\ "down" \in Inputs
    /\ state[l] = "up"
    /\ state' = [state EXCEPT ![l] = "leaving"]
    /\ UNCHANGED <<ready, popVars, wIdx, pushed>>

LeDisconnect(l) ==
    /\ "down" \in Inputs
    /\ state[l] # "down"
    /\ state' = [state EXCEPT ![l] = "down"]
    /\ ready' = [ready EXCEPT ![l] = FALSE]
    /\ UNCHANGED pushed
    /\ Reset([Now EXCEPT !.handed[l] = <<>>, !.answers[l] = <<>>])

(* Authentication and the peer's CCCD fill tx_mask, or the peer turns its   *)
(* notifications off.                                                       *)
LeReady(l) ==
    /\ state[l] = "up"
    /\ ready' = [ready EXCEPT ![l] = ~@]
    /\ UNCHANGED <<state, popVars, wIdx, pushed>>

Next ==
    \/ \E l \in Links, e \in Kinds : Push(l, e)
    \/ \E l \in Links : RecvAck(l)
    \/ \E l \in LeLinks : SendComplete(l)
    \/ Timeout
    \/ \E l \in SppLinks : SppConnect(l) \/ CreditRcvd(l) \/ SppDisconnect(l)
    \/ \E l \in LeLinks : \/ LeConnect(l)
                          \/ LeDisconnecting(l)
                          \/ LeDisconnect(l)
                          \/ LeReady(l)

Spec == Init /\ [][Next]_vars

(***************************************************************************)
(* A running timer fires, what is under way arrives, a peer returns credits *)
(* and a stack that refuses packets takes one in the end.                   *)
(***************************************************************************)
StackTakes == Timeout /\ sent' # sent

Fairness ==
    /\ WF_vars(Timeout)
    /\ WF_vars(StackTakes)
    /\ \A l \in Links : WF_vars(RecvAck(l))
    /\ \A l \in LeLinks : WF_vars(SendComplete(l))
    /\ \A l \in SppLinks : WF_vars(CreditRcvd(l))

FairSpec == Spec /\ Fairness

-----------------------------------------------------------------------------
(* Types of the variables: indices stay in the ring, resends below the      *)
(* limit, and no link's credits below zero.                                 *)
TypeOK ==
    /\ slots \in [Slot -> Packet \cup {None}]
    /\ rIdx \in Slot
    /\ wIdx \in Slot
    /\ resend \in 0..ResendNum - 1
    /\ status \in {"idle", "active"}
    /\ timer \in {"off", "send", "ack"}
    /\ state \in [Links -> {"up", "leaving", "down"}]
    /\ credit \in [SppLinks -> 0..MaxCredit]
    /\ ready \in [LeLinks -> BOOLEAN]
    /\ handed \in [LeLinks -> Seq(Ids)]
    /\ answers \in [Links -> Seq(Events)]
    /\ pushed \in 0..MaxPush
    /\ sent \in [Ids -> Nat]

(* The indices and the active flags of app_transfer.c never disagree.       *)
RingInv == Contiguous(slots, rIdx, wIdx)

(* While a packet waits, something is under way that makes the transmitter  *)
(* look at the ring again: the timer, or the completion of an LE EVENT_ACK, *)
(* for which pop starts none.                                               *)
CompletionDue ==
    /\ First.link \in LeLinks
    /\ \E k \in DOMAIN handed[First.link] : handed[First.link][k] = First.id

NeverStuck ==
    \A i \in Slot : slots[i] # None =>
       timer # "off" \/ (status = "active" /\ CompletionDue)

(* dt_resend_num bounds how often a peer hears the same event, across ack   *)
(* timeouts, credit polls, refusals and foreign acks.                       *)
SendBound ==
    \A i \in Slot : slots[i] # None /\ slots[i].event # "ack" =>
       sent[slots[i].id] <= ResendNum

(* The ring is a queue: whatever pushes, pops, acks and timeouts come in    *)
(* whatever order, packets leave in the order in which they were reported,  *)
(* and none is put in over another.                                         *)
Queue == QueueOf(slots, rIdx, LengthOf(slots, rIdx, wIdx))

Fifo == INSTANCE PacketFifo
            WITH queue <- Queue, count <- pushed, Limit <- QueueNo, Packets <- Packet

ImplementsFifo == Fifo!Spec

(* A packet leaves once the stack took it, or with its link.  SPP gives up  *)
(* an EVENT_ACK or data-capture packet that the stack refuses, on purpose.  *)
Justified(p, st, tries) ==
    \/ tries[p.id] > 0
    \/ st[p.link] # "up"
    \/ p.link \in SppLinks /\ p.event \in {"ack", "capture"}

NoUnsentLoss ==
    [][\A i \in Slot : slots[i] # None /\ slots'[i] # slots[i]
          => Justified(slots[i], state', sent')]_vars

(* Every packet leaves, unless the ring waits for an LE peer to be ready.   *)
LeBlocks ==
    First.link \in LeLinks /\ state[First.link] = "up" /\ ~ready[First.link]

EveryPacketLeaves ==
    \A i \in Slot : slots[i] # None ~> slots[i] = None \/ LeBlocks
=============================================================================
