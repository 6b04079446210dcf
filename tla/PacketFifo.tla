----------------------------- MODULE PacketFifo -----------------------------
(***************************************************************************)
(* What the users of the two rings of app/app_transfer.c may expect: a      *)
(* queue of at most Limit packets, which leave in the order in which they   *)
(* were put in.  A step may let several go, and a packet put in may leave   *)
(* in the same step, when all before it do.                                 *)
(***************************************************************************)
EXTENDS Naturals, Sequences

CONSTANTS
    Limit,      \* places of the queue
    Packets     \* records with the field id, the packet's number

VARIABLES
    queue,      \* the packets that wait, oldest first
    count       \* packets put in so far

vars == <<queue, count>>

Init == queue = <<>> /\ count = 0

(* The rest of s without its first n packets. *)
Rest(s, n) == SubSeq(s, n + 1, Len(s))

Leave ==
    /\ \E n \in 0..Len(queue) : queue' = Rest(queue, n)
    /\ UNCHANGED count

Put ==
    /\ Len(queue) < Limit
    /\ count' = count + 1
    /\ \E p \in Packets : \E n \in 0..Len(queue) + 1 :
          /\ p.id = count'
          /\ queue' = Rest(Append(queue, p), n)

Next == Leave \/ Put

Spec == Init /\ [][Next]_vars
=============================================================================
