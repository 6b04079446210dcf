----------------------------- MODULE PacketRing -----------------------------
(***************************************************************************)
(* The rings of app/app_transfer.c: an array of QueueNo slots with a read   *)
(* and a write index, which the UART queue and the data transfer queue have *)
(* in common.  The ring and its indices are arguments here, because a       *)
(* handler changes them step by step.                                       *)
(***************************************************************************)
EXTENDS Integers, Sequences

CONSTANT QueueNo    \* UART_TX_QUEUE_NO or DT_QUEUE_NO

ASSUME QueueNoAssumption == QueueNo \in Nat \ {0}

Slot == 0..QueueNo - 1

(* A slot whose active flag is 0, with the fields of either ring's packets. *)
None == [id |-> 0, kind |-> "none", link |-> "none", event |-> "none"]

(* A ring index moved n <= QueueNo slots on. *)
Plus(i, n) == IF i + n >= QueueNo THEN i + n - QueueNo ELSE i + n

(* How far slot i is from slot r. *)
Dist(r, i) == IF i >= r THEN i - r ELSE i - r + QueueNo

(* The ring sl without the n slots from r on. *)
Without(sl, r, n) == [i \in Slot |-> IF Dist(r, i) < n THEN None ELSE sl[i]]

(* Read and write index and the active flags agree: the used slots are those *)
(* from the read to the write index, so a free head means an empty ring.    *)
Contiguous(sl, r, w) ==
    IF sl[r] = None
    THEN r = w /\ \A i \in Slot : sl[i] = None
    ELSE \A i \in Slot : sl[i] # None <=> r = w \/ Dist(r, i) < Dist(r, w)

(* The packets in the order in which the read index meets them. *)
LengthOf(sl, r, w) ==
    IF sl[r] = None THEN 0 ELSE IF r = w THEN QueueNo ELSE Dist(r, w)

QueueOf(sl, r, c) == [k \in 1..c |-> sl[Plus(r, k - 1)]]
=============================================================================
