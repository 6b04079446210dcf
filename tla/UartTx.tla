------------------------------- MODULE UartTx -------------------------------
(***************************************************************************)
(* The UART half of app/app_transfer.c: packets for the host wait in a ring *)
(* of QueueNo slots and are written to the console one after the other.     *)
(*                                                                          *)
(* Three kinds of packet leave the ring differently.                        *)
(*   "once"   EVENT_ACK and the data events: gone as soon as the console    *)
(*            took the write; refused, they are polled every 10 ms.         *)
(*   "map"    the MAP listing events: gone after one write, taken or not.   *)
(*   "event"  every other event: gone when the host sends CMD_ACK, written  *)
(*            again every 800 ms, discarded after ResendNum retries.        *)
(*                                                                          *)
(* The host acknowledges each event it hears; the line may lose the event   *)
(* or the acknowledgement, and LateAcks says whether an acknowledgement     *)
(* may take longer than the retry timer.  app_cfg_const.enable_tx_wake_up   *)
(* is 0 and F_APP_ENABLE_TWO_ONE_WIRE_UART is 0, as in the default build.   *)
(***************************************************************************)
EXTENDS PacketRing

CONSTANTS
    ResendNum,  \* app_transfer_cfg.dt_resend_num
    MaxPush,    \* bound: packets the application pushes
    LateAcks    \* may a CMD_ACK arrive after its ack timer fired?

ASSUME ResendNumAssumption == ResendNum \in Nat
ASSUME MaxPushAssumption == MaxPush \in Nat
ASSUME LateAcksAssumption == LateAcks \in BOOLEAN

VARIABLES
    slots,      \* uart_tx_queue: a packet, or None where active is 0
    rIndex,     \* uart_tx_rIndex
    wIndex,     \* uart_tx_wIndex
    resend,     \* uart_resend_count
    status,     \* uart_tx_status
    timers,     \* which of timer_idx_uart_ack and the console poll run
    awake,      \* APP_DLPS_ENTER_CHECK_UART_ACK holds the chip awake
    acks,       \* CMD_ACKs under way, as the ids of the events they answer
    pushed,     \* history: packets accepted so far; the newest has this id
    written,    \* history: how often each event was written
    heard       \* history: packets the console took or the host heard

queueVars == <<slots, rIndex, wIndex, resend, status, timers, awake>>
vars == <<queueVars, acks, pushed, written, heard>>

Ids == 1..MaxPush
Kinds == {"once", "map", "event"}
Packet == [id : Ids, kind : Kinds]

First == slots[rIndex]

-----------------------------------------------------------------------------
Init ==
    /\ slots = [i \in Slot |-> None]
    /\ rIndex = 0
    /\ wIndex = 0
    /\ resend = 0
    /\ status = "idle"
    /\ timers = {}
    /\ awake = FALSE
    /\ acks = <<>>
    /\ pushed = 0
    /\ written = [i \in Ids |-> 0]
    /\ heard = {}

(***************************************************************************)
(* What app_pop_data_transfer_queue does once the transmitter is idle, with *)
(* the ring sl, the read index r, the resend count rc, the timers tm and    *)
(* the wake lock aw: it calls itself for every packet that needs no answer, *)
(* so n packets leave in one go, and it stops at the end of the queue, at a *)
(* packet the console refuses, or at an event that waits for its CMD_ACK.   *)
(***************************************************************************)
Passes(sl, r, n) ==
    \A i \in 0..n - 1 : sl[Plus(r, i)].kind \in {"once", "map"}

Gone(sl, r, n) == {sl[Plus(r, i)] : i \in 0..n - 1}

(* Faulty variants, named Bad..., show that the properties can fail: here   *)
(* the end of the queue leaves the transmitter active.                      *)
BadStopped(tm, aw) ==
    /\ First' = None
    /\ timers' = tm
    /\ awake' = aw
    /\ UNCHANGED <<status, written>>

Stopped(tm, aw) ==
    /\ First' = None
    /\ status' = "idle"
    /\ timers' = tm
    /\ awake' = aw
    /\ UNCHANGED written

(* Faulty: nobody polls the console. *)
BadRefused(tm, aw) ==
    /\ First'.kind = "once"
    /\ status' = "active"
    /\ timers' = tm
    /\ awake' = aw
    /\ UNCHANGED written

Refused(tm, aw) ==
    /\ First'.kind = "once"
    /\ status' = "active"
    /\ timers' = tm \cup {"comp"}
    /\ awake' = aw
    /\ UNCHANGED written

AwaitAck(tm) ==
    /\ First'.kind = "event"
    /\ status' = "active"
    /\ timers' = tm \cup {"ack"}
    /\ awake' = TRUE
    /\ written' = [written EXCEPT ![First'.id] = @ + 1]

Drain(sl, r, rc, tm, aw, ak) ==
    \E n \in 0..QueueNo :
       LET tm0 == IF n = 0 THEN tm ELSE {}
           aw0 == n = 0 /\ aw
           took == {p.id : p \in {q \in Gone(sl, r, n) : q.kind = "once"}}
       IN  /\ Passes(sl, r, n)
           /\ slots' = Without(sl, r, n)
           /\ rIndex' = Plus(r, n)
           /\ resend' = IF n = 0 THEN rc ELSE 0
           /\ \/ /\ Stopped(tm0, aw0) \/ Refused(tm0, aw0) \/ AwaitAck(tm0)
                 /\ acks' = ak
                 /\ heard' = heard \cup took
              \/ /\ AwaitAck(tm0)
                 /\ acks' = Append(ak, First'.id)
                 /\ heard' = heard \cup took \cup {First'.id}

(* Faulty: the head stays active. *)
BadPopKeeps(ak) ==
    LET r == IF First = None THEN rIndex ELSE Plus(rIndex, 1)
    IN  Drain(slots, r, 0, {}, FALSE, ak)

(* Faulty: the next event inherits the count of resends. *)
BadPopCount(ak) ==
    LET sl == [slots EXCEPT ![rIndex] = None]
        r == IF First = None THEN rIndex ELSE Plus(rIndex, 1)
    IN  Drain(sl, r, resend, {}, FALSE, ak)

(* app_pop_data_transfer_queue with next_flag: discard the head, go on. *)
PopNext(ak) ==
    LET sl == [slots EXCEPT ![rIndex] = None]
        r == IF First = None THEN rIndex ELSE Plus(rIndex, 1)
    IN  Drain(sl, r, 0, {}, FALSE, ak)

-----------------------------------------------------------------------------
(* Faulty: a full ring is not refused. *)
BadPushAccepted(k) ==
    /\ pushed < MaxPush
    /\ LET sl == [slots EXCEPT ![wIndex] = [id |-> pushed + 1, kind |-> k]]
       IN  IF status = "idle"
           THEN Drain(sl, rIndex, resend, timers, awake, acks)
           ELSE /\ slots' = sl
                /\ UNCHANGED <<rIndex, resend, status, timers, awake, acks,
                               written, heard>>
    /\ pushed' = pushed + 1
    /\ wIndex' = Plus(wIndex, 1)

(* app_push_data_transfer_queue: false, and nothing changes, on a full ring. *)
PushAccepted(k) ==
    /\ pushed < MaxPush
    /\ slots[wIndex] = None
    /\ LET sl == [slots EXCEPT ![wIndex] = [id |-> pushed + 1, kind |-> k]]
       IN  IF status = "idle"
           THEN Drain(sl, rIndex, resend, timers, awake, acks)
           ELSE /\ slots' = sl
                /\ UNCHANGED <<rIndex, resend, status, timers, awake, acks,
                               written, heard>>
    /\ pushed' = pushed + 1
    /\ wIndex' = Plus(wIndex, 1)

PushRefused ==
    /\ slots[wIndex] # None
    /\ UNCHANGED vars

(* CMD_ACK of app_cmd.c: pops the head, whichever event it answers. *)
RecvAck ==
    /\ acks # <<>>
    /\ PopNext(Tail(acks))
    /\ UNCHANGED <<wIndex, pushed>>

LoseAck ==
    /\ acks # <<>>
    /\ acks' = Tail(acks)
    /\ UNCHANGED <<queueVars, pushed, written, heard>>

(* APP_TRANSFER_TIMER_CHECK_CONSOLE_COMP of app_transfer_timeout_cb. *)
CompTimeout ==
    /\ "comp" \in timers
    /\ Drain(slots, rIndex, resend, timers \ {"comp"}, awake, acks)
    /\ UNCHANGED <<wIndex, pushed>>

(* Faulty: one retry short. *)
BadAckTimeoutEarly ==
    /\ "ack" \in timers
    /\ LateAcks \/ acks = <<>>
    /\ IF resend + 1 >= ResendNum
       THEN PopNext(acks)
       ELSE Drain(slots, rIndex, resend + 1, timers \ {"ack"}, FALSE, acks)
    /\ UNCHANGED <<wIndex, pushed>>

(* Faulty: no limit. *)
BadAckTimeoutForever ==
    /\ "ack" \in timers
    /\ LateAcks \/ acks = <<>>
    /\ Drain(slots, rIndex, resend + 1, timers \ {"ack"}, FALSE, acks)
    /\ UNCHANGED <<wIndex, pushed>>

(* APP_TIMER_UART_ACK of app_transfer_timeout_cb. *)
AckTimeout ==
    /\ "ack" \in timers
    /\ LateAcks \/ acks = <<>>
    /\ IF resend + 1 > ResendNum
       THEN PopNext(acks)
       ELSE Drain(slots, rIndex, resend + 1, timers \ {"ack"}, FALSE, acks)
    /\ UNCHANGED <<wIndex, pushed>>

Next ==
    \/ \E k \in Kinds : PushAccepted(k)
    \/ PushRefused
    \/ RecvAck
    \/ LoseAck
    \/ CompTimeout
    \/ AckTimeout

Spec == Init /\ [][Next]_vars

(***************************************************************************)
(* A started timer fires, a byte on the line arrives or is lost, and a      *)
(* console that refuses a write takes it when it has drained its FIFO.      *)
(***************************************************************************)
ConsoleDrains == CompTimeout /\ slots' # slots

Fairness ==
    /\ WF_vars(ConsoleDrains)
    /\ WF_vars(AckTimeout)
    /\ WF_vars(RecvAck \/ LoseAck)

FairSpec == Spec /\ Fairness

-----------------------------------------------------------------------------
(* Types of the variables: indices stay inside the ring, the count of       *)
(* resends inside the limit, a slot holds a packet or nothing.              *)
TypeOK ==
    /\ slots \in [Slot -> Packet \cup {None}]
    /\ rIndex \in Slot
    /\ wIndex \in Slot
    /\ resend \in 0..ResendNum
    /\ status \in {"idle", "active"}
    /\ timers \in SUBSET {"ack", "comp"}
    /\ awake \in BOOLEAN
    /\ acks \in Seq(Ids)
    /\ pushed \in 0..MaxPush
    /\ written \in [Ids -> Nat]
    /\ heard \in SUBSET Ids

(* The two indices and the active flags of app_transfer.c never disagree:   *)
(* the active slots are exactly those from the read to the write index, so  *)
(* a free head means an empty ring and no packet is left behind the reader. *)
RingInv == Contiguous(slots, rIndex, wIndex)

(* A waiting packet always has exactly one timer that will bring the        *)
(* transmitter back to it, an empty queue has none, and the chip is kept    *)
(* awake exactly while an ack timer runs: neither a stuck queue nor a lock  *)
(* that keeps deep sleep away for good, whatever the order of pushes, acks  *)
(* and timeouts.                                                            *)
NeverStuck ==
    /\ First = None => status = "idle" /\ timers = {}
    /\ First # None => /\ status = "active"
                      /\ timers = IF First.kind = "event" THEN {"ack"}
                                  ELSE {"comp"}
    /\ awake <=> "ack" \in timers

(* The retry count belongs to the packet at the head: no event is written   *)
(* more often than ResendNum + 1 times, and none inherits the retries of    *)
(* the one before it.                                                       *)
RetryBound ==
    /\ \A i \in Ids : written[i] <= ResendNum + 1
    /\ "ack" \in timers => written[First.id] = resend + 1

(* The ring is a queue: whatever pushes, pops, acks and timeouts come in    *)
(* whatever order, packets leave in the order in which they were pushed,    *)
(* and none is put in over another.                                         *)
Queue == QueueOf(slots, rIndex, LengthOf(slots, rIndex, wIndex))

Fifo == INSTANCE PacketFifo
            WITH queue <- Queue, count <- pushed, Limit <- QueueNo, Packets <- Packet

ImplementsFifo == Fifo!Spec

(* app_transfer.h promises a buffer with retransmission: a packet leaves    *)
(* only when the host heard it (or the console took it), or after all its   *)
(* retries.  The MAP packets, written once whatever the console answers,    *)
(* are exempt.                                                              *)
Justified(p, took, tries) ==
    \/ p.kind = "map"
    \/ p.id \in took
    \/ p.kind = "event" /\ tries[p.id] > ResendNum

NoSilentLoss ==
    [][\A i \in Slot : slots[i] # None /\ slots'[i] # slots[i]
          => Justified(slots[i], heard', written)]_vars

(* Every packet leaves the queue in the end, even if the host never answers. *)
EveryPacketLeaves ==
    \A i \in Slot : slots[i] # None ~> slots[i] = None
=============================================================================
