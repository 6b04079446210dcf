---------------------------- MODULE PrivacyProofs ----------------------------
(***************************************************************************)
(* For every size of the table, number of devices, changes of the bonds and *)
(* refusals: a response finds the entry it was asked for, no device has two *)
(* entries, and PRIVACY_STATE_IDLE means that the controller's lists hold   *)
(* the bonds, but for the devices that IdleInStep excuses.                  *)
(*                                                                          *)
(* The invariant is stated on a copy p of the module's variables, since the *)
(* handlers change one and pass it on: MgrOK is about the table, Serves     *)
(* ties it to the request under way.  The entry of a request is marked as   *)
(* sent, which keeps it in the table when its bond is deleted.  ListInv     *)
(* adds what an entry says about its bond and the two lists.                *)
(***************************************************************************)
EXTENDS Privacy, FiniteSetTheorems, WellFoundedInduction, TLAPS

MgrType ==
    [table : [Slots -> EntryType], clear : BOOLEAN, waiting : BOOLEAN,
     idx : Slots \cup {NoSlot}, state : {"idle", "busy"}]

RequestType == [op : Ops \cup {"none"}, addr : Addrs \cup {NoAddr}]

TableOK(T) ==
    /\ T \in [Slots -> EntryType]
    /\ \A i \in Slots :
          /\ T[i].addr = NoAddr => T[i] = Zero
          /\ T[i].todo = "remove" => T[i].added # "no"
    /\ \A i, j \in Slots : T[i].addr = T[j].addr => i = j \/ T[i].addr = NoAddr

MgrOK(p) ==
    /\ p \in MgrType
    /\ TableOK(p.table)
    /\ p.idx # NoSlot => p.waiting

Serves(p, r) ==
    /\ r \in RequestType
    /\ p.waiting <=> r # NoRequest
    /\ r.op = "none" <=> r = NoRequest
    /\ r.op \in {"add", "remove"} =>
          /\ p.idx \in Slots
          /\ p.table[p.idx].addr = r.addr /\ r.addr \in Addrs
          /\ p.table[p.idx].added # "no"
    /\ r.op = "clear" => p.idx = NoSlot /\ r.addr = NoAddr

(* A copy that a handler may pass on: a request that goes on is still       *)
(* served.                                                                  *)
Ready(p) == MgrOK(p) /\ (p.waiting => Serves(p, request))

RestOK ==
    /\ resolution \in BOOLEAN /\ idle \in BOOLEAN
    /\ bonds \subseteq Addrs /\ resolving \subseteq Addrs
    /\ white \subseteq Addrs /\ refused \subseteq Addrs /\ missed \subseteq Addrs
    /\ changes \in 0..MaxChanges /\ faults \in 0..MaxFaults

IInv == MgrOK(mgr) /\ Serves(mgr, request) /\ RestOK

-----------------------------------------------------------------------------
(* Sets of entries. *)

(* The first entry of a set is one of its entries.                          *)
LEMMA LeastIn ==
    ASSUME NEW S \in SUBSET Slots, S # {}
    PROVE  Least(S) \in S
<1>1. S \subseteq Nat
  BY EntriesAssumption DEF Slots
<1>2. PICK i \in S : \A j \in S : ~(<<j, i>> \in OpToRel(<, Nat))
  BY <1>1, NatLessThanWellFounded, WFMin
<1>3. \A j \in S : i <= j
  <2> SUFFICES ASSUME NEW j \in S PROVE i <= j
    OBVIOUS
  <2>1. i \in Nat /\ j \in Nat
    BY <1>1
  <2>2. ~(j < i)
    BY <1>2, <2>1 DEF OpToRel
  <2> QED
    BY <2>1, <2>2
<1> QED
  BY <1>3 DEF Least

(* Refusals are counted by the entries dropped.                             *)
LEMMA CountedFaults ==
    ASSUME NEW D \in SUBSET Slots
    PROVE  Cardinality(D) \in Nat
<1>1. IsFiniteSet(Slots)
  BY EntriesAssumption, FS_Interval DEF Slots
<1> QED
  BY <1>1, FS_Subset, FS_CardinalityType

(* A counted fault stays within its bound.                                  *)
LEMMA FaultBounded ==
    ASSUME NEW n \in Nat, Fault(n), faults \in 0..MaxFaults
    PROVE  faults' \in 0..MaxFaults
BY BoundsAssumption DEF Fault

-----------------------------------------------------------------------------
(* The table: the same change in any handler. *)

(* An entry set to zero.                                                    *)
LEMMA ZeroOK == Zero \in EntryType /\ Zero.addr = NoAddr /\ Zero.todo = "none"
BY DEF Zero, EntryType

(* An entry takes part in no harm by its absence.                           *)
LEMMA ZeroedTable ==
    ASSUME NEW T, TableOK(T), NEW D
    PROVE  TableOK([i \in Slots |-> IF i \in D THEN Zero ELSE T[i]])
BY ZeroOK DEF TableOK

(* An entry written keeps the table sound if its device has no other.       *)
LEMMA WrittenTable ==
    ASSUME NEW T, TableOK(T), NEW i \in Slots, NEW e \in EntryType,
           e.addr # NoAddr, e.todo = "remove" => e.added # "no",
           \A j \in Slots \ {i} : T[j].addr # e.addr
    PROVE  TableOK([T EXCEPT ![i] = e])
BY DEF TableOK

-----------------------------------------------------------------------------
(* What a change of the bonds enters in the table. *)

(* An added bond gives its device one entry.                                *)
LEMMA AddedReady ==
    ASSUME NEW p, Ready(p), NEW a \in Addrs
    PROVE  Ready(Added(p, a))
<1> DEFINE u == Least(Unused(p.table))
           e == [addr |-> a, added |-> "no", todo |-> "add"]
           q == [p EXCEPT !.table[u] = e, !.state = "busy"]
<1>1. CASE Listed(p.table, a) \/ Unused(p.table) = {}
  BY <1>1 DEF Added
<1>2. CASE ~Listed(p.table, a) /\ Unused(p.table) # {}
  <2>1. u \in Slots /\ p.table[u].addr = NoAddr
    BY <1>2, LeastIn DEF Unused, Used
  <2>2. Added(p, a) = q
    BY <1>2 DEF Added
  <2> HIDE DEF u
  <2>3. e \in EntryType /\ e.addr # NoAddr /\ e.todo # "remove"
    BY AddressAssumption DEF EntryType
  <2>4. \A j \in Slots : p.table[j].addr # a
    BY <1>2 DEF Listed
  <2>5. TableOK([p.table EXCEPT ![u] = e])
    BY <2>1, <2>3, <2>4, WrittenTable DEF Ready, MgrOK
  <2>6. /\ q \in MgrType
        /\ q.table = [p.table EXCEPT ![u] = e]
        /\ q.waiting = p.waiting /\ q.idx = p.idx
    BY <2>1, <2>3 DEF Ready, MgrOK, MgrType
  <2>7. p.waiting => Serves(q, request)
    BY <2>1, <2>6, AddressAssumption DEF Ready, MgrOK, MgrType, Serves
  <2> QED
    BY <2>2, <2>5, <2>6, <2>7 DEF Ready, MgrOK
<1> QED
  BY <1>1, <1>2

(* An entry that was never sent may go: no request is for it.               *)
LEMMA RemovedReady ==
    ASSUME NEW p, Ready(p), NEW a \in Addrs
    PROVE  Ready(Removed(p, a))
<1> DEFINE i == SlotOf(p.table, a)
           z == [p EXCEPT !.table[i] = Zero]
           q == [p EXCEPT !.table[i].todo = "remove", !.state = "busy"]
<1>1. CASE ~Listed(p.table, a)
  BY <1>1 DEF Removed
<1>2. CASE Listed(p.table, a)
  <2>1. i \in Slots /\ p.table[i].addr = a
    BY <1>2 DEF Listed, SlotOf
  <2>2. Removed(p, a) = IF p.table[i].added = "no" THEN z ELSE q
    BY <1>2 DEF Removed
  <2> HIDE DEF i
  <2>3. CASE p.table[i].added = "no"
    <3>1. TableOK(z.table)
      BY <2>1, ZeroOK DEF Ready, MgrOK, MgrType, TableOK
    <3>2. z \in MgrType /\ z.waiting = p.waiting /\ z.idx = p.idx
      BY <2>1, ZeroOK DEF Ready, MgrOK, MgrType
    <3>3. p.waiting => Serves(z, request)
      BY <2>1, <2>3, <3>2 DEF Ready, MgrOK, MgrType, Serves
    <3> QED
      BY <2>2, <2>3, <3>1, <3>2, <3>3 DEF Ready, MgrOK
  <2>4. CASE p.table[i].added # "no"
    <3> DEFINE e == [p.table[i] EXCEPT !.todo = "remove"]
    <3>1. /\ e \in EntryType /\ e.addr = a /\ e.added = p.table[i].added
          /\ a # NoAddr
      BY <2>1, AddressAssumption DEF Ready, MgrOK, MgrType, EntryType
    <3>2. /\ q \in MgrType
          /\ q.table = [p.table EXCEPT ![i] = e]
          /\ q.waiting = p.waiting /\ q.idx = p.idx
      BY <2>1, <3>1 DEF Ready, MgrOK, MgrType
    <3> HIDE DEF e
    <3>3. \A j \in Slots \ {i} : p.table[j].addr # a
      BY <2>1, <3>1 DEF Ready, MgrOK, TableOK
    <3>4. TableOK(q.table)
      BY <2>1, <2>4, <3>1, <3>2, <3>3, WrittenTable DEF Ready, MgrOK
    <3>5. p.waiting => Serves(q, request)
      BY <2>1, <3>1, <3>2 DEF Ready, MgrOK, MgrType, Serves
    <3> QED
      BY <2>2, <2>4, <3>2, <3>4, <3>5 DEF Ready, MgrOK
  <2> QED
    BY <2>3, <2>4
<1> QED
  BY <1>1, <1>2

(* A request to clear the list touches no entry.                            *)
LEMMA ClearReady ==
    ASSUME NEW p, Ready(p)
    PROVE  Ready(ClearPending(p))
BY DEF ClearPending, Ready, MgrOK, MgrType, Serves

-----------------------------------------------------------------------------
(* privacy_handle_resolv_list: what is served afterwards. *)

Handled == MgrOK(mgr') /\ Serves(mgr', request') /\ white' \subseteq Addrs

(* Nothing is sent.                                                         *)
LEMMA RestHandled ==
    ASSUME NEW p, Ready(p), Rest(p), request \in RequestType, white \subseteq Addrs
    PROVE  Handled
<1>1. NoRequest \in RequestType
  BY DEF NoRequest, RequestType
<1>2. ~p.waiting => Serves(p, NoRequest)
  BY <1>1 DEF Serves, NoRequest
<1> QED
  BY <1>2 DEF Rest, Ready, Handled

(* Reporting a state touches no entry.                                      *)
LEMMA BusyReady ==
    ASSUME NEW p, Ready(p), NEW s \in {"idle", "busy"}
    PROVE  Ready([p EXCEPT !.state = s])
BY DEF Ready, MgrOK, MgrType, Serves

(* The whole list is to be cleared.                                         *)
LEMMA ClearHandled ==
    ASSUME NEW p, Ready(p), ~p.waiting, SendClear(p), white \subseteq Addrs
    PROVE  Handled
<1>1. MgrOK(mgr') /\ mgr'.idx = NoSlot /\ mgr'.waiting
  BY DEF SendClear, Ready, MgrOK, MgrType
<1>2. request' \in RequestType /\ request'.op = "clear" /\ request'.addr = NoAddr
      /\ request' # NoRequest
  BY DEF SendClear, RequestType, Ops, NoRequest
<1>3. Serves(mgr', request')
  BY <1>1, <1>2 DEF Serves
<1> QED
  BY <1>1, <1>3 DEF Handled, SendClear

(* Entries dropped before a request is sent.                                *)
LEMMA DroppedReady ==
    ASSUME NEW p, Ready(p), ~p.waiting, NEW D
    PROVE  Ready(Dropped(p, D)) /\ ~Dropped(p, D).waiting
<1> DEFINE T == [i \in Slots |-> IF i \in D THEN Zero ELSE p.table[i]]
<1>1. TableOK(T)
  BY ZeroedTable DEF Ready, MgrOK
<1>2. T \in [Slots -> EntryType]
  BY <1>1 DEF TableOK
<1>3. Dropped(p, D) = [p EXCEPT !.table = T]
  BY DEF Dropped
<1> HIDE DEF T
<1> QED
  BY <1>1, <1>2, <1>3 DEF Ready, MgrOK, MgrType

(* The change of one entry is sent: the response will find it.              *)
LEMMA SendHandled ==
    ASSUME NEW p, Ready(p), ~p.waiting, NEW i \in Slots,
           p.table[i].addr # NoAddr, p.table[i].todo # "none",
           Send(p, i), white \subseteq Addrs
    PROVE  Handled
<1> DEFINE f == [p.table[i] EXCEPT !.added = IF p.table[i].todo = "add"
                                             THEN "pending" ELSE @]
<1>1. /\ p \in MgrType /\ p.table[i] \in EntryType
      /\ p.table[i].todo = "remove" => p.table[i].added # "no"
  BY DEF Ready, MgrOK, MgrType, TableOK
<1>2. /\ f \in EntryType /\ f.addr = p.table[i].addr /\ f.addr \in Addrs
      /\ f.added # "no"
  BY <1>1 DEF EntryType
<1>3. /\ mgr' \in MgrType
      /\ mgr'.table = [p.table EXCEPT ![i] = f]
      /\ mgr'.waiting /\ mgr'.idx = i
  BY <1>1, <1>2 DEF Send, MgrType
<1> HIDE DEF f
<1>4. \A j \in Slots \ {i} : p.table[j].addr # f.addr
  BY <1>2 DEF Ready, MgrOK, TableOK
<1>5. TableOK(mgr'.table)
  BY <1>2, <1>3, <1>4, AddressAssumption, WrittenTable DEF Ready, MgrOK
<1>6. /\ request' = [op |-> p.table[i].todo, addr |-> f.addr]
      /\ white' \subseteq Addrs
  BY <1>2 DEF Send
<1>7. /\ request' \in RequestType /\ request'.op \in {"add", "remove"}
      /\ request'.addr = f.addr /\ request' # NoRequest
  BY <1>1, <1>2, <1>6 DEF EntryType, RequestType, Ops, NoRequest
<1>8. mgr'.table[i] = f
  BY <1>1, <1>3 DEF MgrType
<1>9. Serves(mgr', request')
  BY <1>2, <1>3, <1>7, <1>8 DEF Serves
<1> QED
  BY <1>3, <1>5, <1>6, <1>9, EntriesAssumption DEF Handled, MgrOK

(* The devices given up are devices, and the refusals stay within bounds.   *)
Counted == refused' \subseteq Addrs /\ faults' \in 0..MaxFaults

(* The devices whose requests are refused are devices.                      *)
LEMMA RefusedDevices ==
    ASSUME NEW p, MgrOK(p), NEW D \in SUBSET Todo(p.table), refused \subseteq Addrs,
           Refuse(p, D)
    PROVE  refused' \subseteq Addrs
<1>1. \A i \in D : i \in Slots /\ p.table[i].addr \in Addrs
  BY DEF MgrOK, MgrType, EntryType, Todo, Used
<1> QED
  BY <1>1 DEF Refuse

(* privacy_handle_resolv_list_int, whichever entry it takes up first,       *)
(* leaves a table that its next response will find.                         *)
LEMMA ListHandled ==
    ASSUME NEW p, Ready(p), ~p.waiting, HandleList(p), RestOK, request \in RequestType
    PROVE  Handled /\ Counted
<1> DEFINE todo == Todo(p.table)
<1>1. todo \subseteq Slots /\ MgrOK(p)
  BY DEF Todo, Used, Ready
<1>2. ASSUME NEW D \in SUBSET todo, NEW s \in {"idle", "busy"},
             Rest([Dropped(p, D) EXCEPT !.state = s])
      PROVE  Handled
  <2>1. Ready([Dropped(p, D) EXCEPT !.state = s])
    BY DroppedReady, BusyReady
  <2> QED
    BY <1>2, <2>1, RestHandled DEF RestOK
<1>3. CASE /\ Rest([Dropped(p, todo) EXCEPT !.state = "idle"])
           /\ Refuse(p, todo) /\ Fault(Cardinality(todo))
  BY <1>1, <1>2, <1>3, CountedFaults, FaultBounded, RefusedDevices DEF Counted, RestOK
<1>4. ASSUME NEW i \in todo, NEW D \in SUBSET todo, i \notin D, Refuse(p, D),
             \/ Send(Dropped(p, D), i) /\ Fault(Cardinality(D))
             \/ /\ Rest([Dropped(p, D) EXCEPT !.state = "busy"])
                /\ Fault(Cardinality(D) + 1)
      PROVE  Handled /\ Counted
  <2>1. Cardinality(D) \in Nat /\ Cardinality(D) + 1 \in Nat
    BY <1>1, CountedFaults
  <2>2. Counted
    BY <1>1, <1>4, <2>1, FaultBounded, RefusedDevices DEF Counted, RestOK
  <2>3. CASE Send(Dropped(p, D), i)
    <3> DEFINE q == Dropped(p, D)
    <3>1. q.table[i] = p.table[i]
      BY <1>1, <1>4 DEF Dropped, MgrOK, MgrType
    <3>2. i \in Slots /\ p.table[i].addr # NoAddr /\ p.table[i].todo # "none"
      BY DEF Todo, Used
    <3>3. Ready(q) /\ ~q.waiting
      BY DroppedReady
    <3> HIDE DEF q
    <3>4. Handled
      BY <2>3, <3>1, <3>2, <3>3, SendHandled DEF RestOK, q
    <3> QED
      BY <2>2, <3>4
  <2>4. CASE Rest([Dropped(p, D) EXCEPT !.state = "busy"])
    BY <1>2, <2>2, <2>4
  <2> QED
    BY <1>4, <2>3, <2>4
<1>5. CASE \E i \in todo :
              LET D == {j \in todo : j < i}
              IN  /\ Refuse(p, D)
                  /\ \/ Send(Dropped(p, D), i) /\ Fault(Cardinality(D))
                     \/ /\ Rest([Dropped(p, D) EXCEPT !.state = "busy"])
                        /\ Fault(Cardinality(D) + 1)
  <2>1. PICK i \in todo :
           LET D == {j \in todo : j < i}
           IN  /\ Refuse(p, D)
               /\ \/ Send(Dropped(p, D), i) /\ Fault(Cardinality(D))
                  \/ /\ Rest([Dropped(p, D) EXCEPT !.state = "busy"])
                     /\ Fault(Cardinality(D) + 1)
    BY <1>5
  <2> DEFINE D == {j \in todo : j < i}
  <2>2. i \in Nat
    BY <1>1, EntriesAssumption DEF Slots
  <2>3. D \in SUBSET todo /\ i \notin D
    BY <2>2
  <2>4. /\ Refuse(p, D)
        /\ \/ Send(Dropped(p, D), i) /\ Fault(Cardinality(D))
           \/ /\ Rest([Dropped(p, D) EXCEPT !.state = "busy"])
              /\ Fault(Cardinality(D) + 1)
    BY <2>1
  <2> HIDE DEF D
  <2> QED
    BY <1>4, <2>3, <2>4
<1> QED
  BY <1>3, <1>5 DEF HandleList

(* Every handler ends here.                                                 *)
LEMMA HandleOK ==
    ASSUME NEW p, Ready(p), NEW ready, Handle(p, ready), RestOK, request \in RequestType
    PROVE  Handled /\ Counted
<1>0. white \subseteq Addrs
  BY DEF RestOK
<1>1. CASE Rest(p) /\ NoFault /\ UNCHANGED refused
  BY <1>0, <1>1, RestHandled DEF NoFault, Counted, RestOK
<1>2. CASE Rest([p EXCEPT !.state = "busy"]) /\ (NoFault \/ Fault(1)) /\ UNCHANGED refused
  <2>1. Ready([p EXCEPT !.state = "busy"])
    BY BusyReady
  <2> QED
    BY <1>0, <1>2, <2>1, RestHandled, FaultBounded DEF NoFault, Counted, RestOK
<1>3. CASE ~p.waiting /\ SendClear(p) /\ NoFault /\ UNCHANGED refused
  BY <1>0, <1>3, ClearHandled DEF NoFault, Counted, RestOK
<1>4. CASE ~p.waiting /\ HandleList(p)
  BY <1>4, ListHandled
<1> QED
  BY <1>1, <1>2, <1>3, <1>4 DEF Handle, HandleInt

-----------------------------------------------------------------------------
(* What a response makes of the table. *)

(* The invariant, as the handlers are passed it.                            *)
LEMMA MgrReady == IInv => Ready(mgr) /\ request \in RequestType
BY DEF IInv, Ready, Serves

(* What a response writes into its entry.                                   *)
LEMMA AnsweredReady ==
    ASSUME IInv, request # NoRequest
    PROVE  Ready(Answered(mgr, request.op))
<1>1. mgr \in MgrType /\ TableOK(mgr.table) /\ Serves(mgr, request)
  BY DEF IInv, MgrOK
<1>2. request.op \in {"add", "remove", "clear"}
  BY <1>1 DEF Serves, RequestType, Ops
<1>3. CASE request.op = "clear"
  <2> DEFINE T == [i \in Slots |-> Zero]
  <2>1. TableOK(T)
    BY ZeroOK DEF TableOK
  <2>2. T \in [Slots -> EntryType] /\ mgr.idx = NoSlot
    BY <1>1, <1>3, ZeroOK DEF Serves
  <2>3. Answered(mgr, request.op) =
           [mgr EXCEPT !.waiting = FALSE, !.clear = FALSE, !.table = T]
    BY <1>3 DEF Answered, ClearDone
  <2> HIDE DEF T
  <2> QED
    BY <1>1, <2>1, <2>2, <2>3 DEF Ready, MgrOK, MgrType
<1>4. CASE request.op \in {"add", "remove"}
  <2> DEFINE i == mgr.idx
             f == [mgr.table[i] EXCEPT !.added = "yes", !.todo = "none"]
             A == [mgr.table EXCEPT ![i] = f]
             Z == [mgr.table EXCEPT ![i] = Zero]
  <2>1. i \in Slots /\ mgr.table[i] \in EntryType /\ mgr.table[i].addr # NoAddr
    BY <1>1, <1>4, AddressAssumption DEF Serves, MgrType
  <2>2. f \in EntryType /\ f.addr = mgr.table[i].addr /\ f.todo # "remove"
    BY <2>1 DEF EntryType
  <2>3. TableOK(A)
    <3>1. \A j \in Slots \ {i} : mgr.table[j].addr # f.addr
      BY <1>1, <2>1, <2>2 DEF TableOK
    <3> QED
      BY <1>1, <2>1, <2>2, <3>1, WrittenTable
  <2>4. TableOK(Z)
    BY <1>1, <2>1, ZeroOK DEF TableOK
  <2>5. A \in [Slots -> EntryType] /\ Z \in [Slots -> EntryType]
    BY <2>3, <2>4 DEF TableOK
  <2>6. Answered(mgr, request.op) \in
           {[mgr EXCEPT !.waiting = FALSE, !.idx = NoSlot, !.table = T] : T \in {A, Z}}
    <3>1. AddDone(mgr) = [mgr EXCEPT !.waiting = FALSE, !.idx = NoSlot, !.table = A]
      BY <1>1, <2>1 DEF AddDone, MgrType
    <3>2. RemoveDone(mgr) = [mgr EXCEPT !.waiting = FALSE, !.idx = NoSlot, !.table = Z]
      BY <1>1, <2>1 DEF RemoveDone, MgrType
    <3> QED
      BY <1>4, <3>1, <3>2 DEF Answered
  <2> HIDE DEF A, Z, f
  <2> QED
    BY <1>1, <2>3, <2>4, <2>5, <2>6 DEF Ready, MgrOK, MgrType
<1> QED
  BY <1>2, <1>3, <1>4

(* Given up: the entry of the request goes.                                 *)
LEMMA GivenUpReady ==
    ASSUME IInv, request.op \in {"add", "remove"}
    PROVE  Ready(RemoveDone(mgr)) /\ ~RemoveDone(mgr).waiting
<1>1. mgr \in MgrType /\ TableOK(mgr.table) /\ mgr.idx \in Slots
  BY DEF IInv, MgrOK, Serves
<1> DEFINE Z == [mgr.table EXCEPT ![mgr.idx] = Zero]
<1>2. TableOK(Z)
  BY <1>1, ZeroOK DEF TableOK
<1>3. RemoveDone(mgr) = [mgr EXCEPT !.waiting = FALSE, !.idx = NoSlot, !.table = Z]
  BY <1>1 DEF RemoveDone, MgrType
<1>4. Z \in [Slots -> EntryType]
  BY <1>2 DEF TableOK
<1> HIDE DEF Z
<1> QED
  BY <1>1, <1>2, <1>3, <1>4 DEF Ready, MgrOK, MgrType

-----------------------------------------------------------------------------
(* privacy_init: the bonds are entered once each.                           *)
LEMMA InitInv == Init => IInv
<1> SUFFICES ASSUME Init PROVE IInv
  OBVIOUS
<1> DEFINE n == Cardinality(bonds)
<1>1. PICK order \in [1..n -> bonds] :
         /\ {order[i] : i \in DOMAIN order} = bonds
         /\ mgr = [table |-> [i \in Slots |->
                        IF i \in DOMAIN order
                        THEN [addr |-> order[i], added |-> "no", todo |-> "add"]
                        ELSE Zero],
                    clear |-> FALSE, waiting |-> FALSE, idx |-> NoSlot,
                    state |-> IF bonds = {} THEN "idle" ELSE "busy"]
  BY DEF Init
<1>2. n \in Nat
  BY AddressAssumption, FS_Subset, FS_CardinalityType DEF Init
<1>3. \A i, j \in 1..n : order[i] = order[j] => i = j
  <2>1. IsFiniteSet(1..n) /\ Cardinality(1..n) = n
    BY <1>2, FS_Interval
  <2>2. order \in Surjection(1..n, bonds)
    <3>1. DOMAIN order = 1..n
      OBVIOUS
    <3>2. \A a \in bonds : \E i \in 1..n : order[i] = a
      BY <1>1, <3>1
    <3> QED
      BY <3>2 DEF Surjection
  <2>3. order \in Injection(1..n, bonds)
    BY <2>1, <2>2, FS_SurjSameCardinalityImpliesInj
  <2> QED
    BY <2>3 DEF Injection, IsInjective
<1>4. \A i \in 1..n : order[i] \in Addrs
  BY DEF Init
<1>5. mgr \in MgrType /\ ~mgr.waiting /\ mgr.idx = NoSlot
  <2>1. \A i \in DOMAIN order :
           [addr |-> order[i], added |-> "no", todo |-> "add"] \in EntryType
    BY <1>4 DEF EntryType
  <2>2. [i \in Slots |-> IF i \in DOMAIN order
                         THEN [addr |-> order[i], added |-> "no", todo |-> "add"]
                         ELSE Zero] \in [Slots -> EntryType]
    BY <2>1, ZeroOK
  <2> QED
    BY <1>1, <2>2 DEF MgrType
<1>6. \A i \in Slots :
         \/ /\ i \in 1..n
            /\ mgr.table[i].addr = order[i] /\ mgr.table[i].todo = "add"
         \/ mgr.table[i] = Zero
  <2> DEFINE T == [i \in Slots |->
                      IF i \in DOMAIN order
                      THEN [addr |-> order[i], added |-> "no", todo |-> "add"]
                      ELSE Zero]
  <2>1. mgr.table = T
    BY <1>1
  <2>2. DOMAIN order = 1..n
    OBVIOUS
  <2> QED
    BY <2>1, <2>2
<1> HIDE DEF n
<1>7. TableOK(mgr.table)
  <2>1. \A i \in Slots :
           /\ mgr.table[i].addr = NoAddr => mgr.table[i] = Zero
           /\ mgr.table[i].todo # "remove"
    BY <1>4, <1>6, ZeroOK, AddressAssumption
  <2>2. \A i, j \in Slots :
           mgr.table[i].addr = mgr.table[j].addr => i = j \/ mgr.table[i].addr = NoAddr
    BY <1>3, <1>4, <1>6, ZeroOK, AddressAssumption
  <2> QED
    BY <1>5, <2>1, <2>2 DEF TableOK, MgrType
<1>8. Serves(mgr, request)
  BY <1>5 DEF Init, Serves, NoRequest, RequestType
<1>9. RestOK
  <2>1. /\ bonds \subseteq Addrs /\ resolution = FALSE /\ idle = FALSE
        /\ resolving = {} /\ white = {} /\ refused = {} /\ missed = {}
        /\ changes = 0 /\ faults = 0
    BY DEF Init
  <2>2. changes \in 0..MaxChanges /\ faults \in 0..MaxFaults
    BY <2>1, BoundsAssumption
  <2>3. resolution \in BOOLEAN /\ idle \in BOOLEAN
    BY <2>1
  <2> QED
    BY <2>1, <2>2, <2>3 DEF RestOK
<1> QED
  BY <1>5, <1>7, <1>8, <1>9 DEF IInv, MgrOK

(* A step that ends in privacy_handle_resolv_list.                          *)
LEMMA HandledStep ==
    ASSUME IInv, NEW p, Ready(p), NEW ready, Handle(p, ready),
           resolution' \in BOOLEAN, idle' \in BOOLEAN,
           bonds' \subseteq Addrs, resolving' \subseteq Addrs, missed' \subseteq Addrs,
           changes' \in 0..MaxChanges
    PROVE  IInv'
<1>1. Handled /\ Counted
  BY HandleOK DEF IInv, Serves
<1> QED
  BY <1>1 DEF IInv, RestOK, Handled, Counted

(* A step after which nothing is sent.                                      *)
LEMMA RestStep ==
    ASSUME IInv, NEW p, Ready(p), Rest(p), Counted,
           UNCHANGED <<resolution, bonds, idle, resolving, missed, changes>>
    PROVE  IInv'
<1>1. Handled
  BY RestHandled DEF IInv, Serves, RestOK
<1> QED
  BY <1>1 DEF IInv, RestOK, Handled, Counted

(* Changes of the bonds.                                                    *)
LEMMA ChangeInv ==
    ASSUME IInv, BondClear \/ \E a \in Addrs : BondAdd(a) \/ BondDelete(a)
    PROVE  IInv'
<1>1. BondChange => /\ changes' \in 0..MaxChanges
                    /\ resolution' \in BOOLEAN /\ idle' \in BOOLEAN
                    /\ resolving' \subseteq Addrs
  BY BoundsAssumption DEF BondChange, IInv, RestOK
<1>2. ASSUME NEW a \in Addrs, BondAdd(a) PROVE IInv'
  <2>1. Ready(Added(mgr, a))
    BY MgrReady, AddedReady
  <2>2. bonds' \subseteq Addrs /\ missed' \subseteq Addrs
    BY <1>2 DEF BondAdd, Misses, IInv, RestOK
  <2> QED
    BY <1>1, <1>2, <2>1, <2>2, HandledStep DEF BondAdd
<1>3. ASSUME NEW a \in Addrs, BondDelete(a) PROVE IInv'
  <2>1. Ready(Removed(mgr, a))
    BY MgrReady, RemovedReady
  <2>2. bonds' \subseteq Addrs /\ missed' \subseteq Addrs
    BY <1>3 DEF BondDelete, Misses, IInv, RestOK
  <2> QED
    BY <1>1, <1>3, <2>1, <2>2, HandledStep DEF BondDelete
<1>4. CASE BondClear
  <2>1. Ready(ClearPending(mgr))
    BY MgrReady, ClearReady
  <2>2. bonds' \subseteq Addrs /\ missed' \subseteq Addrs
    BY <1>4 DEF BondClear, IInv, RestOK
  <2> QED
    BY <1>1, <1>4, <2>1, <2>2, HandledStep DEF BondClear
<1> QED
  BY <1>2, <1>3, <1>4

(* The application leaves and returns, the status of resolution changes.    *)
LEMMA DeviceInv ==
    ASSUME IInv, Leave \/ Return \/ ResolutionStatus
    PROVE  IInv'
<1>1. CASE Leave \/ ResolutionStatus
  BY <1>1 DEF Leave, ResolutionStatus, IInv, RestOK
<1>2. CASE Return
  <2>1. /\ resolution' \in BOOLEAN /\ idle' \in BOOLEAN /\ bonds' \subseteq Addrs
        /\ resolving' \subseteq Addrs /\ missed' \subseteq Addrs
        /\ changes' \in 0..MaxChanges
    BY <1>2 DEF Return, IInv, RestOK
  <2> QED
    BY <1>2, <2>1, MgrReady, HandledStep DEF Return
<1> QED
  BY <1>1, <1>2

(* The response of the controller.                                          *)
LEMMA RespondInv ==
    ASSUME IInv, Respond
    PROVE  IInv'
<1>1. CASE Succeed
  <2>1. Ready(Answered(mgr, request.op))
    BY <1>1, AnsweredReady DEF Succeed
  <2>2. Obeyed \subseteq Addrs
    BY DEF IInv, RestOK, Obeyed, Serves
  <2>3. /\ resolution' \in BOOLEAN /\ idle' \in BOOLEAN /\ bonds' \subseteq Addrs
        /\ resolving' \subseteq Addrs /\ missed' \subseteq Addrs
        /\ changes' \in 0..MaxChanges
    BY <1>1, <2>2 DEF Succeed, IInv, RestOK
  <2> QED
    BY <1>1, <2>1, <2>3, HandledStep DEF Succeed
<1>2. CASE GiveUp
  <2>1. request.op \in {"add", "remove"}
    BY <1>2 DEF GiveUp, IInv, Serves, RequestType, Ops
  <2>2. Counted
    BY <1>2, <2>1, FaultBounded DEF GiveUp, NoFault, Counted, IInv, RestOK, Serves
  <2> QED
    BY <1>2, <2>1, <2>2, GivenUpReady, RestStep DEF GiveUp
<1>3. CASE Fail
  <2> DEFINE p == [mgr EXCEPT !.waiting = FALSE, !.idx = NoSlot]
  <2>1. Ready(p)
    BY DEF IInv, Ready, MgrOK, MgrType
  <2>2. Counted
    BY <1>3, FaultBounded DEF Fail, Counted, IInv, RestOK
  <2> QED
    BY <1>3, <2>1, <2>2, RestStep DEF Fail
<1> QED
  BY <1>1, <1>2, <1>3 DEF Respond

(* Every step keeps the invariant.                                          *)
LEMMA StepInv == IInv /\ [Next]_vars => IInv'
<1>1. IInv /\ UNCHANGED vars => IInv'
  BY DEF vars, IInv, RestOK, MgrOK, MgrType, TableOK, Serves
<1> QED
  BY <1>1, ChangeInv, DeviceInv, RespondInv DEF Next

(* The invariant holds always.                                              *)
LEMMA Inductive == Spec => []IInv
BY InitInv, StepInv, PTL DEF Spec

-----------------------------------------------------------------------------
(* Types, and what they do not say of an entry: an unused one is zero, and   *)
(* one to be removed was sent to the controller.                             *)
THEOREM PrivacyTypes == Spec => []TypeOK
<1>1. IInv => TypeOK
  BY DEF IInv, MgrOK, MgrType, TableOK, Serves, RequestType, RestOK, TypeOK, Used
<1> QED
  BY <1>1, Inductive, PTL

(* privacy_modify_resolv_list_idx is never stale: whatever happened to the  *)
(* bonds since, the response is for the entry the request was made for.     *)
THEOREM ResponseFindsEntry == Spec => []AnswerFindsEntry
<1>1. IInv => AnswerFindsEntry
  BY DEF IInv, Serves, AnswerFindsEntry
<1> QED
  BY <1>1, Inductive, PTL

(* A device has one entry at most in privacy_table.                         *)
THEOREM EntriesAreUnique == Spec => []OneEntryPerAddress
<1>1. IInv => OneEntryPerAddress
  BY DEF IInv, MgrOK, TableOK, OneEntryPerAddress, Used
<1> QED
  BY <1>1, Inductive, PTL

-----------------------------------------------------------------------------
(***************************************************************************)
(* PRIVACY_STATE_IDLE means that the lists hold the bonds.  The invariant   *)
(* says how far each device is: what its entry still asks for is what its   *)
(* bond and the two lists differ in (Row), and a device without entry is in *)
(* none of them (Absent).  X are the devices that IdleInStep excuses; while   *)
(* the list is to be cleared, only those have a bond.  B, R and W are the   *)
(* bonds, the resolving list and the white list.                            *)
(***************************************************************************)
Absent(a, B, R, W) ==
    /\ a \notin B /\ a \notin R
    /\ WhiteList => a \notin W

Row(e, a, B, R, W) ==
    \/ /\ e.todo = "add" /\ e.added # "yes"
       /\ a \in B /\ a \notin R
       /\ WhiteList => (a \in W <=> e.added = "pending")
    \/ e.todo = "remove" /\ a \notin B
    \/ /\ e.todo = "none" /\ e.added # "no"
       /\ a \in B /\ a \in R
       /\ WhiteList => a \in W

Tracked(T, a, B, R, W) ==
    /\ ~Listed(T, a) => Absent(a, B, R, W)
    /\ \A i \in Slots : T[i].addr = a => Row(T[i], a, B, R, W)

Follows(p, B, R, W, X) ==
    IF p.clear THEN B \subseteq X
    ELSE \A a \in Addrs \ X : Tracked(p.table, a, B, R, W)

(* The request under way is the one that the entry still stands for.        *)
Asked(p, r, W, X) ==
    /\ r.op = "clear" => p.clear /\ (WhiteList => W = {})
    /\ r.op \in {"add", "remove"} /\ r.addr \notin X /\ ~p.clear =>
          /\ p.table[p.idx].todo = r.op
          /\ r.op = "add" => p.table[p.idx].added = "pending"
          /\ r.op = "remove" /\ WhiteList => r.addr \notin W

Settled(p) == p.state = "idle" => Todo(p.table) = {} /\ ~p.clear /\ ~p.waiting

Sound(p, r, B, R, W, X) ==
    /\ Follows(p, B, R, W, X)
    /\ p.waiting => Asked(p, r, W, X)
    /\ Settled(p)

Excused == refused \cup missed

ListInv == IInv /\ Sound(mgr, request, bonds, resolving, white, Excused)

(* A device whose entries and place in the three sets stay is tracked as    *)
(* before.                                                                  *)
LEMMA TrackedStill ==
    ASSUME NEW T, NEW U, NEW a, NEW B, NEW R, NEW W, NEW B2, NEW R2, NEW W2,
           Tracked(T, a, B, R, W),
           \A i \in Slots : T[i].addr = a \/ U[i].addr = a => U[i] = T[i],
           a \in B2 <=> a \in B, a \in R2 <=> a \in R, a \in W2 <=> a \in W
    PROVE  Tracked(U, a, B2, R2, W2)
<1>1. Listed(T, a) <=> Listed(U, a)
  BY DEF Listed
<1>2. Absent(a, B, R, W) <=> Absent(a, B2, R2, W2)
  BY DEF Absent
<1>3. \A e : Row(e, a, B, R, W) <=> Row(e, a, B2, R2, W2)
  BY DEF Row
<1>4. ASSUME NEW i \in Slots, U[i].addr = a PROVE Row(U[i], a, B2, R2, W2)
  <2>1. U[i] = T[i] /\ T[i].addr = a
    BY <1>4
  <2>2. Row(T[i], a, B, R, W)
    BY <2>1 DEF Tracked
  <2> QED
    BY <1>3, <2>1, <2>2
<1> QED
  BY <1>1, <1>2, <1>4 DEF Tracked

(* More devices may be excused. *)
LEMMA SoundMore ==
    ASSUME NEW p, NEW r, NEW B, NEW R, NEW W, NEW X, NEW Y, X \subseteq Y,
           Sound(p, r, B, R, W, X)
    PROVE  Sound(p, r, B, R, W, Y)
BY DEF Sound, Follows, Asked

(* Only these parts of a copy count. *)
LEMMA FollowsSame ==
    ASSUME NEW p, NEW q, NEW B, NEW R, NEW W, NEW X, Follows(p, B, R, W, X),
           q.table = p.table, q.clear = p.clear
    PROVE  Follows(q, B, R, W, X)
BY DEF Follows

-----------------------------------------------------------------------------
(* What a change of the bonds makes of them. *)

(* A new bond: its entry asks for it to be added, or it is excused.         *)
LEMMA AddedSound ==
    ASSUME NEW p, Ready(p), NEW B, NEW R, NEW W, NEW X, NEW Y, NEW a \in Addrs,
           Sound(p, request, B, R, W, X), a \notin B, X \subseteq Y,
           Listed(p.table, a) \/ p.clear \/ Unused(p.table) = {} => a \in Y
    PROVE  Sound(Added(p, a), request, B \cup {a}, R, W, Y)
<1> DEFINE C == B \cup {a}
<1>0. p \in MgrType /\ TableOK(p.table) /\ a # NoAddr
  BY AddressAssumption DEF Ready, MgrOK
<1>1. ASSUME NEW U, ~p.clear,
             \A c \in Addrs \ Y : c # a =>
                \A i \in Slots : p.table[i].addr = c \/ U[i].addr = c
                                    => U[i] = p.table[i]
      PROVE  \A c \in Addrs \ Y : c # a => Tracked(U, c, C, R, W)
  <2> SUFFICES ASSUME NEW c \in Addrs \ Y, c # a PROVE Tracked(U, c, C, R, W)
    OBVIOUS
  <2>1. Tracked(p.table, c, B, R, W)
    BY <1>1 DEF Sound, Follows
  <2>2. c \in C <=> c \in B
    OBVIOUS
  <2> HIDE DEF C
  <2> QED
    BY <1>1, <2>1, <2>2, TrackedStill
<1>2. CASE Listed(p.table, a) \/ Unused(p.table) = {}
  <2>1. Added(p, a) = p
    BY <1>2 DEF Added
  <2>2. Follows(p, C, R, W, Y)
    <3>1. CASE p.clear
      BY <1>2, <3>1 DEF Sound, Follows
    <3>2. CASE ~p.clear
      <4>1. \A c \in Addrs \ Y : Tracked(p.table, c, C, R, W)
        BY <1>1, <1>2, <3>2
      <4> HIDE DEF C
      <4> QED
        BY <3>2, <4>1 DEF Follows
    <3> QED
      BY <3>1, <3>2
  <2>3. Sound(p, request, B, R, W, Y)
    BY SoundMore
  <2> QED
    BY <2>1, <2>2, <2>3 DEF Sound
<1>3. CASE ~Listed(p.table, a) /\ Unused(p.table) # {}
  <2> DEFINE u == Least(Unused(p.table))
             e == [addr |-> a, added |-> "no", todo |-> "add"]
             U == [p.table EXCEPT ![u] = e]
             q == [p EXCEPT !.table[u] = e, !.state = "busy"]
  <2>1. u \in Slots /\ p.table[u].addr = NoAddr
    BY <1>3, LeastIn DEF Unused, Used
  <2>2. Added(p, a) = q
    BY <1>3 DEF Added
  <2> HIDE DEF u
  <2>3. /\ q.table = U /\ q.clear = p.clear /\ q.waiting = p.waiting
        /\ q.idx = p.idx /\ q.state = "busy"
    BY <1>0 DEF MgrType
  <2>4. U[u] = e /\ \A i \in Slots \ {u} : U[i] = p.table[i]
    BY <1>0, <2>1 DEF TableOK
  <2>5. e.addr = a /\ e.todo = "add" /\ e.added = "no"
    OBVIOUS
  <2> HIDE DEF e, U, q
  <2>6. Follows(q, C, R, W, Y)
    <3>1. CASE p.clear
      BY <2>3, <3>1 DEF Sound, Follows
    <3>2. CASE ~p.clear
      <4>1. \A c \in Addrs \ Y : c # a => Tracked(U, c, C, R, W)
        <5>1. \A c \in Addrs \ Y : c # a =>
                 \A i \in Slots : p.table[i].addr = c \/ U[i].addr = c
                                     => U[i] = p.table[i]
          BY <2>1, <2>4, <2>5, AddressAssumption
        <5> QED
          BY <1>1, <3>2, <5>1
      <4>2. ASSUME a \notin Y PROVE Tracked(U, a, C, R, W)
        <5>1. Absent(a, B, R, W)
          BY <1>3, <3>2, <4>2 DEF Sound, Follows, Tracked
        <5>2. Listed(U, a)
          BY <2>1, <2>4, <2>5 DEF Listed
        <5>3. \A i \in Slots : U[i].addr = a => i = u
          BY <1>3, <2>4 DEF Listed
        <5>4. Row(e, a, C, R, W)
          BY <2>5, <5>1 DEF Row, Absent
        <5> QED
          BY <2>4, <5>2, <5>3, <5>4 DEF Tracked
      <4>3. \A c \in Addrs \ Y : Tracked(U, c, C, R, W)
        BY <4>1, <4>2
      <4> QED
        BY <2>3, <3>2, <4>3 DEF Follows
    <3> QED
      BY <3>1, <3>2
  <2>7. p.waiting => Asked(q, request, W, Y)
    <3>1. p.waiting => Asked(p, request, W, Y) /\ Serves(p, request)
      BY DEF Ready, Sound, Asked
    <3>2. p.waiting /\ request.op \in {"add", "remove"} => q.table[p.idx] = p.table[p.idx]
      BY <2>1, <2>3, <2>4, <3>1, AddressAssumption DEF Serves
    <3> QED
      BY <2>3, <3>1, <3>2 DEF Asked
  <2> QED
    BY <2>2, <2>3, <2>6, <2>7 DEF Sound, Settled
<1> QED
  BY <1>2, <1>3

(* A bond less: an entry never sent goes, as if the bond had not been.      *)
LEMMA RemovedSound ==
    ASSUME NEW p, Ready(p), NEW B, NEW R, NEW W, NEW X, NEW Y, NEW a \in Addrs,
           Sound(p, request, B, R, W, X), a \in B, X \subseteq Y,
           p.waiting /\ request = [op |-> "add", addr |-> a] => a \in Y
    PROVE  Sound(Removed(p, a), request, B \ {a}, R, W, Y)
<1> DEFINE C == B \ {a}
           i == SlotOf(p.table, a)
           z == [p EXCEPT !.table[i] = Zero]
           q == [p EXCEPT !.table[i].todo = "remove", !.state = "busy"]
<1>0. p \in MgrType /\ TableOK(p.table) /\ a # NoAddr
  BY AddressAssumption DEF Ready, MgrOK
<1>1. ASSUME NEW U, ~p.clear,
             \A c \in Addrs \ Y : c # a =>
                \A j \in Slots : p.table[j].addr = c \/ U[j].addr = c
                                    => U[j] = p.table[j],
             a \notin Y => Tracked(U, a, C, R, W)
      PROVE  \A c \in Addrs \ Y : Tracked(U, c, C, R, W)
  <2> SUFFICES ASSUME NEW c \in Addrs \ Y, c # a PROVE Tracked(U, c, C, R, W)
    BY <1>1
  <2>1. Tracked(p.table, c, B, R, W)
    BY <1>1 DEF Sound, Follows
  <2>2. c \in C <=> c \in B
    OBVIOUS
  <2> HIDE DEF C
  <2> QED
    BY <1>1, <2>1, <2>2, TrackedStill
<1>2. CASE ~Listed(p.table, a)
  <2>1. Removed(p, a) = p
    BY <1>2 DEF Removed
  <2>2. Follows(p, C, R, W, Y)
    <3>1. CASE p.clear
      BY <3>1 DEF Sound, Follows
    <3>2. CASE ~p.clear
      <4>1. a \notin Y => Tracked(p.table, a, B, R, W)
        BY <3>2 DEF Sound, Follows
      <4>2. a \notin Y => Tracked(p.table, a, C, R, W)
        BY <1>2, <4>1 DEF Tracked, Listed, Absent
      <4>3. \A c \in Addrs \ Y : Tracked(p.table, c, C, R, W)
        BY <1>1, <3>2, <4>2
      <4> HIDE DEF C
      <4> QED
        BY <3>2, <4>3 DEF Follows
    <3> QED
      BY <3>1, <3>2
  <2>3. Sound(p, request, B, R, W, Y)
    BY SoundMore
  <2> QED
    BY <2>1, <2>2, <2>3 DEF Sound
<1>3. CASE Listed(p.table, a)
  <2>1. i \in Slots /\ p.table[i].addr = a
    BY <1>3 DEF Listed, SlotOf
  <2>2. Removed(p, a) = IF p.table[i].added = "no" THEN z ELSE q
    BY <1>3 DEF Removed
  <2> HIDE DEF i
  <2>3. \A j \in Slots : p.table[j].addr = a => j = i
    BY <1>0, <2>1 DEF TableOK
  <2>4. Sound(p, request, B, R, W, Y)
    BY SoundMore
  <2>5. CASE p.table[i].added = "no"
    <3> DEFINE U == [p.table EXCEPT ![i] = Zero]
    <3>1. /\ z.table = U /\ z.clear = p.clear /\ z.waiting = p.waiting
          /\ z.idx = p.idx /\ z.state = p.state
      BY <1>0 DEF MgrType
    <3>2. U[i] = Zero /\ \A j \in Slots \ {i} : U[j] = p.table[j]
      BY <1>0, <2>1 DEF TableOK
    <3> HIDE DEF U, z
    <3>3. ~Listed(U, a)
      BY <1>0, <2>3, <3>2, ZeroOK DEF Listed
    <3>4. Follows(z, C, R, W, Y)
      <4>1. CASE p.clear
        BY <3>1, <4>1 DEF Sound, Follows
      <4>2. CASE ~p.clear
        <5>1. \A c \in Addrs \ Y : c # a =>
                 \A j \in Slots : p.table[j].addr = c \/ U[j].addr = c
                                     => U[j] = p.table[j]
          BY <2>1, <3>2, ZeroOK, AddressAssumption
        <5>2. ASSUME a \notin Y PROVE Tracked(U, a, C, R, W)
          <6>1. Row(p.table[i], a, B, R, W)
            BY <2>1, <4>2, <5>2 DEF Sound, Follows, Tracked
          <6>2. a \notin R /\ (WhiteList => a \notin W)
            BY <2>5, <6>1 DEF Row
          <6> QED
            BY <3>3, <6>2 DEF Tracked, Listed, Absent
        <5>3. \A c \in Addrs \ Y : Tracked(U, c, C, R, W)
          BY <1>1, <4>2, <5>1, <5>2
        <5> HIDE DEF C
        <5> QED
          BY <3>1, <4>2, <5>3 DEF Follows
      <4> QED
        BY <4>1, <4>2
    <3>5. p.waiting => Asked(z, request, W, Y)
      <4>1. p.waiting => Asked(p, request, W, Y) /\ Serves(p, request)
        BY <2>4 DEF Ready, Sound
      <4>2. p.waiting /\ request.op \in {"add", "remove"} =>
               z.table[p.idx] = p.table[p.idx]
        BY <2>5, <3>1, <3>2, <4>1 DEF Serves
      <4> QED
        BY <3>1, <4>1, <4>2 DEF Asked
    <3>6. Settled(z)
      BY <2>4, <3>1, <3>2, ZeroOK DEF Sound, Settled, Todo, Used
    <3> QED
      BY <2>2, <2>5, <3>1, <3>4, <3>5, <3>6 DEF Sound
  <2>6. CASE p.table[i].added # "no"
    <3> DEFINE e == [p.table[i] EXCEPT !.todo = "remove"]
               U == [p.table EXCEPT ![i] = e]
    <3>1. e.addr = a /\ e.todo = "remove"
      BY <1>0, <2>1 DEF TableOK, EntryType
    <3>2. /\ q.table = U /\ q.clear = p.clear /\ q.waiting = p.waiting
          /\ q.idx = p.idx /\ q.state = "busy"
      BY <1>0, <2>1 DEF MgrType
    <3>3. U[i] = e /\ \A j \in Slots \ {i} : U[j] = p.table[j]
      BY <1>0, <2>1 DEF TableOK
    <3> HIDE DEF e, U, q
    <3>4. Follows(q, C, R, W, Y)
      <4>1. CASE p.clear
        BY <3>2, <4>1 DEF Sound, Follows
      <4>2. CASE ~p.clear
        <5>1. \A c \in Addrs \ Y : c # a =>
                 \A j \in Slots : p.table[j].addr = c \/ U[j].addr = c
                                     => U[j] = p.table[j]
          BY <2>1, <3>1, <3>3
        <5>2. Tracked(U, a, C, R, W)
          <6>1. Row(e, a, C, R, W)
            BY <3>1 DEF Row
          <6>2. Listed(U, a) /\ \A j \in Slots : U[j].addr = a => j = i
            BY <2>1, <2>3, <3>1, <3>3 DEF Listed
          <6> QED
            BY <3>3, <6>1, <6>2 DEF Tracked
        <5>3. \A c \in Addrs \ Y : Tracked(U, c, C, R, W)
          BY <1>1, <4>2, <5>1, <5>2
        <5> HIDE DEF C
        <5> QED
          BY <3>2, <4>2, <5>3 DEF Follows
      <4> QED
        BY <4>1, <4>2
    <3>5. p.waiting => Asked(q, request, W, Y)
      <4>1. p.waiting => Asked(p, request, W, Y) /\ Serves(p, request)
        BY <2>4 DEF Ready, Sound
      <4>2. ASSUME p.waiting, request.op \in {"add", "remove"}, p.idx # i
            PROVE  q.table[p.idx] = p.table[p.idx]
        BY <3>2, <3>3, <4>1, <4>2 DEF Serves
      <4>3. ASSUME p.waiting, request.op = "add", request.addr \notin Y
            PROVE  p.idx # i
        <5>1. request = [op |-> "add", addr |-> request.addr]
          BY <4>1, <4>3 DEF Serves, RequestType
        <5> QED
          BY <2>1, <4>1, <4>3, <5>1 DEF Serves
      <4>4. ASSUME p.waiting, request.op = "remove", p.idx = i
            PROVE  q.table[p.idx].todo = "remove"
        BY <2>1, <3>1, <3>2, <3>3, <4>4
      <4> QED
        BY <3>2, <4>1, <4>2, <4>3, <4>4 DEF Asked
    <3> QED
      BY <2>2, <2>6, <3>2, <3>4, <3>5 DEF Sound, Settled
  <2> QED
    BY <2>5, <2>6
<1> QED
  BY <1>2, <1>3

(* All of them gone: the list is to be cleared.                             *)
LEMMA ClearSound ==
    ASSUME NEW p, Ready(p), NEW B, NEW R, NEW W, NEW X,
           Sound(p, request, B, R, W, X)
    PROVE  Sound(ClearPending(p), request, {}, R, W, X)
<1> DEFINE q == ClearPending(p)
<1>1. /\ q.clear /\ q.state = "busy" /\ q.waiting = p.waiting
      /\ q.table = p.table /\ q.idx = p.idx
  BY DEF ClearPending, Ready, MgrOK, MgrType
<1> HIDE DEF q
<1>2. Sound(q, request, {}, R, W, X)
  BY <1>1 DEF Sound, Follows, Asked, Settled
<1> QED
  BY <1>2 DEF q

-----------------------------------------------------------------------------
(* privacy_handle_resolv_list keeps them so: Kept is what a step that ends  *)
(* in it owes.  Y are the devices of the windows.                           *)

Kept(B, R, Y) == Sound(mgr', request', B, R, white', refused' \cup Y)

(* Nothing is sent.                                                         *)
LEMMA RestSound ==
    ASSUME NEW p, NEW B, NEW R, NEW Y, Rest(p),
           Sound(p, request, B, R, white, refused \cup Y), refused \subseteq refused'
    PROVE  Kept(B, R, Y)
<1>1. Sound(p, request, B, R, white, refused' \cup Y)
  BY SoundMore
<1>2. mgr' = p /\ (p.waiting => request' = request) /\ white' = white
  BY DEF Rest
<1> QED
  BY <1>1, <1>2 DEF Kept, Sound

(* The module is busy; Settled has nothing to say.                          *)
LEMMA BusySound ==
    ASSUME NEW p, p \in MgrType, NEW r, NEW B, NEW R, NEW W, NEW X,
           Follows(p, B, R, W, X), p.waiting => Asked(p, r, W, X)
    PROVE  Sound([p EXCEPT !.state = "busy"], r, B, R, W, X)
<1> DEFINE q == [p EXCEPT !.state = "busy"]
<1>1. /\ q.table = p.table /\ q.clear = p.clear /\ q.waiting = p.waiting
      /\ q.idx = p.idx /\ q.state = "busy"
  BY DEF MgrType
<1> HIDE DEF q
<1>2. Sound(q, r, B, R, W, X)
  BY <1>1 DEF Sound, Follows, Asked, Settled
<1> QED
  BY <1>2 DEF q

(* The list is to be cleared: whatever it and the white list hold.          *)
LEMMA ClearSent ==
    ASSUME NEW p, Ready(p), ~p.waiting, p.clear, NEW B, NEW R, NEW Y, SendClear(p),
           Sound(p, request, B, R, white, refused \cup Y), refused' = refused
    PROVE  Kept(B, R, Y)
<1>1. /\ mgr'.clear /\ mgr'.state = "busy" /\ mgr'.waiting
  BY DEF SendClear, Ready, MgrOK, MgrType
<1>2. request'.op = "clear" /\ (WhiteList => white' = {})
  BY DEF SendClear
<1> QED
  BY <1>1, <1>2 DEF Kept, Sound, Follows, Asked, Settled

(* The devices of the entries dropped are excused, the others not touched.  *)
LEMMA DroppedFollows ==
    ASSUME NEW p, Ready(p), NEW B, NEW R, NEW W, NEW Y, NEW D \in SUBSET Slots,
           Refuse(p, D), Follows(p, B, R, W, refused \cup Y)
    PROVE  Follows(Dropped(p, D), B, R, W, refused' \cup Y)
<1> DEFINE U == [i \in Slots |-> IF i \in D THEN Zero ELSE p.table[i]]
           q == Dropped(p, D)
<1>1. q.table = U /\ q.clear = p.clear
  BY DEF Dropped, Ready, MgrOK, MgrType
<1>2. \A i \in Slots : U[i] = IF i \in D THEN Zero ELSE p.table[i]
  OBVIOUS
<1> HIDE DEF U, q
<1>3. refused \subseteq refused' /\ \A i \in D : p.table[i].addr \in refused'
  BY DEF Refuse
<1>4. CASE p.clear
  BY <1>1, <1>3, <1>4 DEF Follows, q
<1>5. CASE ~p.clear
  <2>1. ASSUME NEW c \in Addrs \ (refused' \cup Y) PROVE Tracked(U, c, B, R, W)
    <3>1. Tracked(p.table, c, B, R, W)
      BY <1>3, <1>5, <2>1 DEF Follows
    <3>2. \A i \in Slots : p.table[i].addr = c \/ U[i].addr = c => U[i] = p.table[i]
      BY <1>2, <1>3, <2>1, ZeroOK, AddressAssumption
    <3> QED
      BY <3>1, <3>2, TrackedStill
  <2> QED
    BY <1>1, <1>5, <2>1 DEF Follows, q
<1> QED
  BY <1>4, <1>5

(* A change that is sent is marked so in its entry and, ahead of the        *)
(* answer, made in the white list.                                          *)
LEMMA SendSound ==
    ASSUME NEW p, Ready(p), ~p.waiting, ~p.clear, NEW B, NEW R, NEW X,
           NEW i \in Slots, p.table[i].addr # NoAddr, p.table[i].todo # "none",
           Send(p, i), Follows(p, B, R, white, X)
    PROVE  Sound(mgr', request', B, R, white', X)
<1> DEFINE f == [p.table[i] EXCEPT !.added = IF p.table[i].todo = "add"
                                             THEN "pending" ELSE @]
           U == [p.table EXCEPT ![i] = f]
           a == p.table[i].addr
<1>1. /\ p \in MgrType /\ TableOK(p.table) /\ p.table[i] \in EntryType
      /\ p.table[i].todo \in {"add", "remove"}
  BY DEF Ready, MgrOK, MgrType, EntryType
<1>2. /\ f.addr = a /\ f.todo = p.table[i].todo
      /\ p.table[i].todo = "add" => f.added = "pending"
  BY <1>1 DEF EntryType
<1>3. /\ mgr'.table = U /\ mgr'.clear = FALSE /\ mgr'.state = "busy"
      /\ mgr'.waiting /\ mgr'.idx = i
  BY <1>1 DEF Send, MgrType
<1>4. U[i] = f /\ \A j \in Slots \ {i} : U[j] = p.table[j]
  BY <1>1 DEF TableOK
<1>5. request'.op = p.table[i].todo /\ request'.addr = a
  BY DEF Send
<1>6. /\ WhiteList /\ p.table[i].todo = "add" => white' = white \cup {a}
      /\ WhiteList /\ p.table[i].todo = "remove" => white' = white \ {a}
      /\ ~WhiteList => white' = white
  BY DEF Send
<1> HIDE DEF f, U
<1>7. \A j \in Slots : p.table[j].addr = a => j = i
  BY <1>1 DEF TableOK
<1>8. ASSUME NEW c \in Addrs \ X, c # a PROVE Tracked(U, c, B, R, white')
  <2>1. Tracked(p.table, c, B, R, white)
    BY <1>8 DEF Follows
  <2>2. \A j \in Slots : p.table[j].addr = c \/ U[j].addr = c => U[j] = p.table[j]
    BY <1>2, <1>4, <1>8
  <2>3. c \in white' <=> c \in white
    BY <1>1, <1>6, <1>8
  <2> QED
    BY <2>1, <2>2, <2>3, TrackedStill
<1>9. ASSUME a \in Addrs \ X PROVE Tracked(U, a, B, R, white')
  <2>1. Row(p.table[i], a, B, R, white)
    BY <1>9 DEF Follows, Tracked
  <2>2. Row(f, a, B, R, white')
    BY <1>1, <1>2, <1>6, <2>1 DEF Row
  <2>3. Listed(U, a) /\ \A j \in Slots : U[j].addr = a => j = i
    BY <1>2, <1>4, <1>7 DEF Listed
  <2> QED
    BY <1>4, <2>2, <2>3 DEF Tracked
<1>10. Follows(mgr', B, R, white', X)
  BY <1>3, <1>8, <1>9 DEF Follows
<1>11. Asked(mgr', request', white', X)
  BY <1>1, <1>2, <1>3, <1>4, <1>5, <1>6 DEF Asked
<1> QED
  BY <1>3, <1>10, <1>11 DEF Sound, Settled

(* privacy_handle_resolv_list_int takes up nothing, or a request that its   *)
(* entry stands for, and reports IDLE only with nothing left.               *)
LEMMA ListSound ==
    ASSUME NEW p, Ready(p), ~p.waiting, ~p.clear, NEW B, NEW R, NEW Y, HandleList(p),
           Sound(p, request, B, R, white, refused \cup Y)
    PROVE  Kept(B, R, Y)
<1> DEFINE todo == Todo(p.table)
<1>1. todo \subseteq Slots /\ Follows(p, B, R, white, refused \cup Y)
  BY DEF Todo, Used, Sound
<1>2. ASSUME NEW D \in SUBSET todo, Refuse(p, D)
      PROVE  /\ Follows(Dropped(p, D), B, R, white, refused' \cup Y)
             /\ Ready(Dropped(p, D)) /\ ~Dropped(p, D).waiting
             /\ ~Dropped(p, D).clear
             /\ Dropped(p, D) \in MgrType
             /\ refused \subseteq refused'
  <2>1. Follows(Dropped(p, D), B, R, white, refused' \cup Y)
    BY <1>1, <1>2, DroppedFollows
  <2>2. Ready(Dropped(p, D)) /\ ~Dropped(p, D).waiting
    BY DroppedReady
  <2>3. Dropped(p, D).clear = p.clear
    BY DEF Dropped, Ready, MgrOK, MgrType
  <2>4. refused \subseteq refused'
    BY <1>2 DEF Refuse
  <2> QED
    BY <2>1, <2>2, <2>3, <2>4 DEF Ready, MgrOK
<1>3. CASE Rest([Dropped(p, todo) EXCEPT !.state = "idle"]) /\ Refuse(p, todo)
  <2> DEFINE q == [Dropped(p, todo) EXCEPT !.state = "idle"]
  <2>1. /\ q.table = Dropped(p, todo).table /\ q.clear = Dropped(p, todo).clear
        /\ ~q.clear /\ ~q.waiting
    BY <1>2, <1>3 DEF MgrType
  <2>2. Todo(q.table) = {}
    <3>1. q.table = [j \in Slots |-> IF j \in todo THEN Zero ELSE p.table[j]]
      BY <2>1 DEF Dropped, Ready, MgrOK, MgrType
    <3>2. \A j \in Slots : q.table[j] = IF j \in todo THEN Zero ELSE p.table[j]
      BY <3>1
    <3> HIDE DEF q
    <3> QED
      BY <3>2, ZeroOK DEF Todo, Used
  <2>3. Rest(q)
    BY <1>3
  <2> HIDE DEF q
  <2>4. Follows(q, B, R, white, refused' \cup Y)
    BY <1>2, <1>3, <2>1, FollowsSame
  <2>5. mgr' = q /\ white' = white
    BY <2>3 DEF Rest
  <2> QED
    BY <2>1, <2>2, <2>4, <2>5 DEF Kept, Sound, Settled
<1>4. ASSUME NEW i \in todo, NEW D \in SUBSET todo, i \notin D, Refuse(p, D),
             Send(Dropped(p, D), i) \/ Rest([Dropped(p, D) EXCEPT !.state = "busy"])
      PROVE  Kept(B, R, Y)
  <2> DEFINE q == Dropped(p, D)
  <2>1. /\ Follows(q, B, R, white, refused' \cup Y) /\ Ready(q) /\ ~q.waiting
        /\ ~q.clear /\ q \in MgrType
    BY <1>2, <1>4
  <2>2. CASE Send(q, i)
    <3>1. q.table[i] = p.table[i] /\ i \in Slots
      BY <1>1, <1>4 DEF Dropped, Ready, MgrOK, MgrType
    <3>2. p.table[i].addr # NoAddr /\ p.table[i].todo # "none"
      BY DEF Todo, Used
    <3> HIDE DEF q
    <3> QED
      BY <2>1, <2>2, <3>1, <3>2, SendSound DEF Kept
  <2>3. CASE Rest([q EXCEPT !.state = "busy"])
    <3> HIDE DEF q
    <3>1. Sound([q EXCEPT !.state = "busy"], request, B, R, white, refused' \cup Y)
      BY <2>1, BusySound
    <3>2. mgr' = [q EXCEPT !.state = "busy"] /\ white' = white /\ ~mgr'.waiting
      BY <2>1, <2>3 DEF Rest, MgrType
    <3> QED
      BY <3>1, <3>2 DEF Kept, Sound
  <2> QED
    BY <1>4, <2>2, <2>3
<1>5. CASE \E i \in todo :
              LET D == {j \in todo : j < i}
              IN  /\ Refuse(p, D)
                  /\ \/ Send(Dropped(p, D), i) /\ Fault(Cardinality(D))
                     \/ /\ Rest([Dropped(p, D) EXCEPT !.state = "busy"])
                        /\ Fault(Cardinality(D) + 1)
  <2>1. PICK i \in todo :
           LET D == {j \in todo : j < i}
           IN  /\ Refuse(p, D)
               /\ Send(Dropped(p, D), i) \/ Rest([Dropped(p, D) EXCEPT !.state = "busy"])
    BY <1>5
  <2> DEFINE D == {j \in todo : j < i}
  <2>2. i \in Nat
    BY <1>1, EntriesAssumption DEF Slots
  <2>3. D \in SUBSET todo /\ i \notin D
    BY <2>2
  <2>4. /\ Refuse(p, D)
        /\ Send(Dropped(p, D), i) \/ Rest([Dropped(p, D) EXCEPT !.state = "busy"])
    BY <2>1
  <2> HIDE DEF D
  <2> QED
    BY <1>4, <2>3, <2>4
<1> QED
  BY <1>3, <1>5 DEF HandleList

(* Every handler ends here.                                                 *)
LEMMA HandleSound ==
    ASSUME NEW p, Ready(p), NEW ready, Handle(p, ready), NEW B, NEW R, NEW Y,
           Sound(p, request, B, R, white, refused \cup Y)
    PROVE  Kept(B, R, Y)
<1>1. CASE Rest(p) /\ UNCHANGED refused
  BY <1>1, RestSound
<1>2. CASE Rest([p EXCEPT !.state = "busy"]) /\ UNCHANGED refused
  <2>1. Sound([p EXCEPT !.state = "busy"], request, B, R, white, refused \cup Y)
    BY BusySound DEF Sound, Ready, MgrOK
  <2> QED
    BY <1>2, <2>1, RestSound
<1>3. CASE ~p.waiting /\ p.clear /\ SendClear(p) /\ UNCHANGED refused
  BY <1>3, ClearSent
<1>4. CASE ~p.waiting /\ ~p.clear /\ HandleList(p)
  BY <1>4, ListSound
<1> QED
  BY <1>1, <1>2, <1>3, <1>4 DEF Handle, HandleInt

-----------------------------------------------------------------------------
(* What a response makes of them. *)

(* The entry of a request answered, and what its device is in afterwards.   *)
LEMMA EntryAnswered ==
    ASSUME IInv, request.op \in {"add", "remove"}, NEW q, NEW f, NEW R, NEW X,
           Sound(mgr, request, bonds, resolving, white, X),
           q.table = [mgr.table EXCEPT ![mgr.idx] = f],
           q.clear = mgr.clear, q.state = mgr.state, ~q.waiting,
           f.addr \in {request.addr, NoAddr},
           \A c \in Addrs : c # request.addr => (c \in R <=> c \in resolving),
           request.addr \notin X =>
              LET a == request.addr
                  U == [mgr.table EXCEPT ![mgr.idx] = f]
              IN  \/ f.addr = a /\ Row(f, a, bonds, R, white)
                  \/ f.addr = NoAddr /\ Absent(a, bonds, R, white)
                  \/ mgr.clear
    PROVE  Sound(q, request, bonds, R, white, X)
<1> DEFINE i == mgr.idx
           a == request.addr
           U == [mgr.table EXCEPT ![mgr.idx] = f]
<1>1. /\ mgr \in MgrType /\ TableOK(mgr.table) /\ Serves(mgr, request)
      /\ i \in Slots /\ mgr.table[i].addr = a /\ a \in Addrs /\ a # NoAddr
      /\ mgr.waiting
  BY AddressAssumption DEF IInv, MgrOK, Serves, NoRequest
<1>2. U[i] = f /\ \A j \in Slots \ {i} : U[j] = mgr.table[j]
  BY <1>1 DEF TableOK
<1>3. q.table = U
  OBVIOUS
<1>4. \A j \in Slots : mgr.table[j].addr = a => j = i
  BY <1>1 DEF TableOK
<1>5. request.addr \notin X => \/ f.addr = a /\ Row(f, a, bonds, R, white)
                               \/ f.addr = NoAddr /\ Absent(a, bonds, R, white)
                               \/ mgr.clear
  OBVIOUS
<1> HIDE DEF U, i
<1>6. CASE mgr.clear
  BY <1>1, <1>6 DEF Sound, Follows, Settled
<1>7. CASE ~mgr.clear
  <2>1. ASSUME NEW c \in Addrs \ X, c # a PROVE Tracked(U, c, bonds, R, white)
    <3>1. Tracked(mgr.table, c, bonds, resolving, white)
      BY <1>7, <2>1 DEF Sound, Follows
    <3>2. \A j \in Slots : mgr.table[j].addr = c \/ U[j].addr = c => U[j] = mgr.table[j]
      BY <1>1, <1>2, <2>1, AddressAssumption
    <3> QED
      BY <2>1, <3>1, <3>2, TrackedStill
  <2>2. ASSUME a \notin X PROVE Tracked(U, a, bonds, R, white)
    <3>1. CASE f.addr = a /\ Row(f, a, bonds, R, white)
      <4>1. Listed(U, a) /\ \A j \in Slots : U[j].addr = a => j = i
        BY <1>1, <1>2, <1>4, <3>1 DEF Listed
      <4> QED
        BY <1>2, <3>1, <4>1 DEF Tracked
    <3>2. CASE f.addr = NoAddr /\ Absent(a, bonds, R, white)
      <4>1. \A j \in Slots : U[j].addr # a
        BY <1>1, <1>2, <1>4, <3>2
      <4> QED
        BY <3>2, <4>1 DEF Tracked, Listed
    <3> QED
      BY <1>5, <1>7, <2>2, <3>1, <3>2
  <2>3. Follows(q, bonds, R, white, X)
    BY <1>3, <1>7, <2>1, <2>2 DEF Follows
  <2> QED
    BY <1>1, <2>3 DEF Sound, Settled
<1> QED
  BY <1>6, <1>7

(* The entry of a device that is not excused stands for the request.        *)
LEMMA RequestStands ==
    ASSUME IInv, request.op \in {"add", "remove"}, NEW X,
           Sound(mgr, request, bonds, resolving, white, X),
           request.addr \notin X, ~mgr.clear
    PROVE  /\ request.op = "add" =>
                 /\ request.addr \in bonds /\ request.addr \notin resolving
                 /\ WhiteList => request.addr \in white
           /\ request.op = "remove" =>
                 /\ request.addr \notin bonds
                 /\ WhiteList => request.addr \notin white
<1> DEFINE i == mgr.idx
<1>1. /\ i \in Slots /\ mgr.table[i].addr = request.addr /\ request.addr \in Addrs
      /\ mgr.waiting
  BY DEF IInv, Serves, NoRequest
<1>2. Row(mgr.table[i], request.addr, bonds, resolving, white)
  BY <1>1 DEF Sound, Follows, Tracked
<1>3. /\ mgr.table[i].todo = request.op
      /\ request.op = "add" => mgr.table[i].added = "pending"
      /\ request.op = "remove" /\ WhiteList => request.addr \notin white
  BY <1>1 DEF Sound, Asked
<1> QED
  BY <1>2, <1>3 DEF Row

(* Carried out: the lists have what the entry asked for.                    *)
LEMMA AnsweredSound ==
    ASSUME IInv, request # NoRequest, Valid, NEW X,
           Sound(mgr, request, bonds, resolving, white, X)
    PROVE  Sound(Answered(mgr, request.op), request, bonds, Obeyed, white, X)
<1>1. /\ mgr \in MgrType /\ TableOK(mgr.table) /\ Serves(mgr, request) /\ mgr.waiting
      /\ request.op \in {"add", "remove", "clear"}
  BY DEF IInv, MgrOK, Serves, RequestType, Ops
<1>2. CASE request.op = "clear"
  <2> DEFINE q == Answered(mgr, request.op)
             U == [j \in Slots |-> Zero]
  <2>1. q = [mgr EXCEPT !.waiting = FALSE, !.clear = FALSE, !.table = U]
    BY <1>2 DEF Answered, ClearDone
  <2>2. q.table = U /\ ~q.clear /\ ~q.waiting /\ q.state = mgr.state
    BY <1>1, <2>1 DEF MgrType
  <2>3. \A j \in Slots : U[j] = Zero
    OBVIOUS
  <2>4. Obeyed = {}
    BY <1>2 DEF Obeyed
  <2>5. bonds \subseteq X /\ (WhiteList => white = {})
    BY <1>1, <1>2 DEF Sound, Asked, Follows
  <2> HIDE DEF q, U
  <2>6. \A c \in Addrs \ X : Tracked(U, c, bonds, {}, white)
    BY <2>3, <2>5, ZeroOK, AddressAssumption DEF Tracked, Listed, Absent
  <2>7. Sound(q, request, bonds, {}, white, X)
    BY <1>1, <2>2, <2>6 DEF Sound, Follows, Settled
  <2> QED
    BY <2>4, <2>7 DEF q
<1>3. CASE request.op = "add"
  <2> DEFINE f == [mgr.table[mgr.idx] EXCEPT !.added = "yes", !.todo = "none"]
             q == AddDone(mgr)
  <2>1. mgr.idx \in Slots /\ mgr.table[mgr.idx].addr = request.addr
    BY <1>1, <1>3 DEF Serves
  <2>2. f.addr = request.addr /\ f.todo = "none" /\ f.added = "yes"
    BY <1>1, <2>1 DEF TableOK, EntryType
  <2>3. /\ q.table = [mgr.table EXCEPT ![mgr.idx] = f]
        /\ q.clear = mgr.clear /\ q.state = mgr.state /\ ~q.waiting
    BY <1>1, <2>1 DEF AddDone, MgrType
  <2>4. Obeyed = resolving \cup {request.addr} /\ Answered(mgr, request.op) = q
    BY <1>3 DEF Obeyed, Answered
  <2> HIDE DEF f, q
  <2>5. request.addr \notin X /\ ~mgr.clear =>
           f.addr = request.addr /\ Row(f, request.addr, bonds, Obeyed, white)
    BY <1>3, <2>2, <2>4, RequestStands DEF Row
  <2>6. \A c \in Addrs : c # request.addr => (c \in Obeyed <=> c \in resolving)
    BY <2>4
  <2>7. request.op \in {"add", "remove"} /\ f.addr \in {request.addr, NoAddr}
    BY <1>3, <2>2
  <2>8. Sound(q, request, bonds, Obeyed, white, X)
    BY <2>3, <2>5, <2>6, <2>7, EntryAnswered
  <2> QED
    BY <2>4, <2>8
<1>4. CASE request.op = "remove"
  <2> DEFINE q == RemoveDone(mgr)
  <2>1. mgr.idx \in Slots /\ mgr.table[mgr.idx].addr = request.addr
    BY <1>1, <1>4 DEF Serves
  <2>2. /\ q.table = [mgr.table EXCEPT ![mgr.idx] = Zero]
        /\ q.clear = mgr.clear /\ q.state = mgr.state /\ ~q.waiting
    BY <1>1, <2>1 DEF RemoveDone, MgrType
  <2>3. Obeyed = resolving \ {request.addr} /\ Answered(mgr, request.op) = q
    BY <1>4 DEF Obeyed, Answered
  <2> HIDE DEF q
  <2>4. request.addr \notin X /\ ~mgr.clear =>
           Absent(request.addr, bonds, Obeyed, white)
    BY <1>4, <2>3, RequestStands DEF Absent
  <2>5. \A c \in Addrs : c # request.addr => (c \in Obeyed <=> c \in resolving)
    BY <2>3
  <2>6. request.op \in {"add", "remove"} /\ Zero.addr = NoAddr
    BY <1>4, ZeroOK
  <2>7. Sound(q, request, bonds, Obeyed, white, X)
    BY <2>2, <2>4, <2>5, <2>6, EntryAnswered
  <2> QED
    BY <2>3, <2>7
<1> QED
  BY <1>1, <1>2, <1>3, <1>4

(* Given up: either the device is excused, or the controller refused what   *)
(* was done already.                                                        *)
LEMMA GivenUpSound ==
    ASSUME IInv, request.op \in {"add", "remove"}, NEW X,
           Sound(mgr, request, bonds, resolving, white, X),
           Valid => request.addr \in X
    PROVE  Sound(RemoveDone(mgr), request, bonds, resolving, white, X)
<1> DEFINE q == RemoveDone(mgr)
<1>1. mgr \in MgrType /\ Serves(mgr, request)
  BY DEF IInv, MgrOK
<1>2. mgr.idx \in Slots
  BY <1>1 DEF Serves
<1>3. /\ q.table = [mgr.table EXCEPT ![mgr.idx] = Zero]
      /\ q.clear = mgr.clear /\ q.state = mgr.state /\ ~q.waiting
  BY <1>1, <1>2 DEF RemoveDone, MgrType
<1> HIDE DEF q
<1>4. ASSUME request.addr \notin X, ~mgr.clear
      PROVE  Absent(request.addr, bonds, resolving, white)
  <2>1. Obeyed = resolving
    BY <1>4 DEF Valid
  <2>2. CASE request.op = "add"
    <3>1. request.addr \in resolving
      BY <2>1, <2>2 DEF Obeyed
    <3> QED
      BY <1>4, <2>2, <3>1, RequestStands
  <2>3. CASE request.op = "remove"
    <3>1. request.addr \notin resolving
      BY <2>1, <2>3 DEF Obeyed
    <3> QED
      BY <1>4, <2>3, <3>1, RequestStands DEF Absent
  <2> QED
    BY <2>2, <2>3
<1>5. Zero.addr = NoAddr
  BY ZeroOK
<1>6. Sound(q, request, bonds, resolving, white, X)
  BY <1>3, <1>4, <1>5, EntryAnswered
<1> QED
  BY <1>6 DEF q

-----------------------------------------------------------------------------
(* The invariant of the lists, one step per action. *)

(* privacy_init: every bond waits to be added, the lists are empty.         *)
LEMMA ListInit == Init => ListInv
<1> SUFFICES ASSUME Init PROVE ListInv
  OBVIOUS
<1> DEFINE n == Cardinality(bonds)
<1>0. IInv
  BY InitInv
<1>1. PICK order \in [1..n -> bonds] :
         /\ {order[i] : i \in DOMAIN order} = bonds
         /\ mgr = [table |-> [i \in Slots |->
                        IF i \in DOMAIN order
                        THEN [addr |-> order[i], added |-> "no", todo |-> "add"]
                        ELSE Zero],
                    clear |-> FALSE, waiting |-> FALSE, idx |-> NoSlot,
                    state |-> IF bonds = {} THEN "idle" ELSE "busy"]
  BY DEF Init
<1>2. n \in Nat /\ n <= EntryNum /\ bonds \subseteq Addrs
  BY AddressAssumption, FS_Subset, FS_CardinalityType DEF Init
<1>3. /\ ~mgr.clear /\ ~mgr.waiting
      /\ bonds # {} => mgr.state = "busy"
  BY <1>1
<1>4. \A i \in Slots :
         \/ /\ i \in 1..n /\ order[i] \in bonds
            /\ mgr.table[i] = [addr |-> order[i], added |-> "no", todo |-> "add"]
         \/ i \notin 1..n /\ mgr.table[i] = Zero
  <2> DEFINE T == [i \in Slots |->
                      IF i \in DOMAIN order
                      THEN [addr |-> order[i], added |-> "no", todo |-> "add"]
                      ELSE Zero]
  <2>1. mgr.table = T
    BY <1>1
  <2>2. DOMAIN order = 1..n
    OBVIOUS
  <2> QED
    BY <2>1, <2>2
<1>5. \A a \in bonds : \E i \in 1..n : order[i] = a
  <2>1. DOMAIN order = 1..n
    OBVIOUS
  <2> QED
    BY <1>1, <2>1
<1> HIDE DEF n
<1>6. \A i \in 1..n : i \in Slots
  BY <1>2, EntriesAssumption DEF Slots
<1>7. resolving = {} /\ white = {}
  BY DEF Init
<1>8. ASSUME NEW a \in Addrs PROVE Tracked(mgr.table, a, bonds, resolving, white)
  <2>1. ~Listed(mgr.table, a) => a \notin bonds
    <3> SUFFICES ASSUME a \in bonds PROVE Listed(mgr.table, a)
      OBVIOUS
    <3>1. PICK i \in 1..n : order[i] = a
      BY <1>5
    <3>2. i \in Slots
      BY <1>6
    <3>3. mgr.table[i] = [addr |-> order[i], added |-> "no", todo |-> "add"]
      BY <1>4, <3>2
    <3>4. mgr.table[i].addr = a
      BY <3>1, <3>3
    <3> QED
      BY <3>2, <3>4 DEF Listed
  <2>2. ASSUME NEW i \in Slots, mgr.table[i].addr = a
        PROVE  Row(mgr.table[i], a, bonds, resolving, white)
    <3>1. mgr.table[i] # Zero
      BY <2>2, ZeroOK, AddressAssumption
    <3>2. /\ order[i] \in bonds
          /\ mgr.table[i] = [addr |-> order[i], added |-> "no", todo |-> "add"]
      BY <1>4, <3>1
    <3>3. mgr.table[i].todo = "add" /\ mgr.table[i].added = "no" /\ a \in bonds
      BY <2>2, <3>2
    <3> QED
      BY <1>7, <3>3 DEF Row
  <2> QED
    BY <1>7, <2>1, <2>2 DEF Tracked, Absent
<1>9. Settled(mgr)
  <2> SUFFICES ASSUME bonds = {} PROVE Todo(mgr.table) = {}
    BY <1>3 DEF Settled
  <2>1. \A i \in Slots : mgr.table[i] = Zero
    BY <1>4
  <2> QED
    BY <2>1, ZeroOK DEF Todo, Used
<1> QED
  BY <1>0, <1>3, <1>8, <1>9 DEF ListInv, Sound, Follows

(* Changes of the bonds are noted in the entries, or excused.               *)
LEMMA ListChange ==
    ASSUME ListInv, BondClear \/ \E a \in Addrs : BondAdd(a) \/ BondDelete(a)
    PROVE  Sound(mgr, request, bonds, resolving, white, Excused)'
<1>0. Ready(mgr) /\ Sound(mgr, request, bonds, resolving, white, refused \cup missed)
  BY MgrReady DEF ListInv, Excused
<1>1. ASSUME NEW a \in Addrs, BondAdd(a) PROVE Kept(bonds', resolving, missed')
  <2> DEFINE Y == refused \cup missed'
  <2>1. /\ a \notin bonds /\ bonds' = bonds \cup {a} /\ missed \subseteq missed'
        /\ Listed(mgr.table, a) \/ mgr.clear \/ Unused(mgr.table) = {} => a \in missed'
    BY <1>1 DEF BondAdd, Misses
  <2>2. /\ refused \cup missed \subseteq Y
        /\ Listed(mgr.table, a) \/ mgr.clear \/ Unused(mgr.table) = {} => a \in Y
    BY <2>1
  <2> HIDE DEF Y
  <2>3. Sound(Added(mgr, a), request, bonds \cup {a}, resolving, white, Y)
    BY <1>0, <2>1, <2>2, AddedSound
  <2>4. Ready(Added(mgr, a)) /\ Handle(Added(mgr, a), idle)
    BY <1>0, <1>1, AddedReady DEF BondAdd
  <2> QED
    BY <2>1, <2>3, <2>4, HandleSound DEF Y
<1>2. ASSUME NEW a \in Addrs, BondDelete(a) PROVE Kept(bonds', resolving, missed')
  <2> DEFINE Y == refused \cup missed'
  <2>1. /\ a \in bonds /\ bonds' = bonds \ {a} /\ missed \subseteq missed'
        /\ request = [op |-> "add", addr |-> a] => a \in missed'
    BY <1>2 DEF BondDelete, Misses
  <2>2. /\ refused \cup missed \subseteq Y
        /\ mgr.waiting /\ request = [op |-> "add", addr |-> a] => a \in Y
    BY <2>1
  <2> HIDE DEF Y
  <2>3. Sound(Removed(mgr, a), request, bonds \ {a}, resolving, white, Y)
    BY <1>0, <2>1, <2>2, RemovedSound
  <2>4. Ready(Removed(mgr, a)) /\ Handle(Removed(mgr, a), idle)
    BY <1>0, <1>2, RemovedReady DEF BondDelete
  <2> QED
    BY <2>1, <2>3, <2>4, HandleSound DEF Y
<1>3. CASE BondClear
  <2>1. Sound(ClearPending(mgr), request, {}, resolving, white, refused \cup missed)
    BY <1>0, ClearSound
  <2>2. Ready(ClearPending(mgr)) /\ Handle(ClearPending(mgr), idle)
    BY <1>0, <1>3, ClearReady DEF BondClear
  <2>3. Kept({}, resolving, missed)
    BY <2>1, <2>2, HandleSound
  <2> QED
    BY <1>3, <2>3 DEF BondClear, BondChange, Kept, Excused
<1>4. BondClear \/ resolving' = resolving
  BY DEF BondAdd, BondDelete, BondChange
<1>5. BondClear => resolving' = resolving
  BY DEF BondClear, BondChange
<1> QED
  BY <1>1, <1>2, <1>3, <1>4, <1>5 DEF Kept, Excused

(* Resolution is switched, the application leaves and returns.              *)
LEMMA ListDevice ==
    ASSUME ListInv, Leave \/ Return \/ ResolutionStatus
    PROVE  Sound(mgr, request, bonds, resolving, white, Excused)'
<1>1. CASE Leave \/ ResolutionStatus
  BY <1>1 DEF Leave, ResolutionStatus, ListInv, Excused
<1>2. CASE Return
  <2>1. Ready(mgr) /\ Sound(mgr, request, bonds, resolving, white, refused \cup missed)
    BY MgrReady DEF ListInv, Excused
  <2>2. Kept(bonds, resolving, missed)
    BY <1>2, <2>1, HandleSound DEF Return
  <2> QED
    BY <1>2, <2>2 DEF Return, Kept, Excused
<1> QED
  BY <1>1, <1>2

(* A response moves its device one step towards its bond.                   *)
LEMMA ListRespond ==
    ASSUME ListInv, Respond
    PROVE  Sound(mgr, request, bonds, resolving, white, Excused)'
<1>0. IInv /\ Sound(mgr, request, bonds, resolving, white, refused \cup missed)
  BY DEF ListInv, Excused
<1>1. CASE Succeed
  <2>1. Sound(Answered(mgr, request.op), request, bonds, Obeyed, white, refused \cup missed)
    BY <1>0, <1>1, AnsweredSound DEF Succeed
  <2>2. /\ Ready(Answered(mgr, request.op)) /\ Handle(Answered(mgr, request.op), idle)
        /\ bonds' = bonds /\ resolving' = Obeyed /\ missed' = missed
    BY <1>0, <1>1, AnsweredReady DEF Succeed
  <2>3. Kept(bonds, Obeyed, missed)
    BY <2>1, <2>2, HandleSound
  <2> QED
    BY <2>2, <2>3 DEF Kept, Excused
<1>2. CASE GiveUp
  <2> DEFINE Y == refused' \cup missed
  <2>1. request.op \in {"add", "remove"}
    BY <1>0, <1>2 DEF GiveUp, IInv, Serves, RequestType, Ops
  <2>2. refused \subseteq refused' /\ (Valid => request.addr \in refused')
    BY <1>2 DEF GiveUp
  <2>3. refused \cup missed \subseteq Y /\ (Valid => request.addr \in Y)
    BY <2>2
  <2> HIDE DEF Y
  <2>4. Sound(mgr, request, bonds, resolving, white, Y)
    BY <1>0, <2>3, SoundMore
  <2>5. Sound(RemoveDone(mgr), request, bonds, resolving, white, Y)
    BY <1>0, <2>1, <2>3, <2>4, GivenUpSound
  <2>6. ~RemoveDone(mgr).waiting
    BY <1>0, <2>1, GivenUpReady
  <2>7. /\ mgr' = RemoveDone(mgr) /\ white' = white
        /\ bonds' = bonds /\ resolving' = resolving /\ missed' = missed
    BY <1>2 DEF GiveUp, Rest
  <2> QED
    BY <2>5, <2>6, <2>7 DEF Sound, Excused, Y
<1>3. CASE Fail
  <2> DEFINE q == [mgr EXCEPT !.waiting = FALSE, !.idx = NoSlot]
  <2>1. mgr \in MgrType /\ mgr.waiting
    BY <1>0, <1>3 DEF Fail, IInv, MgrOK, Serves
  <2>2. q.table = mgr.table /\ q.clear = mgr.clear /\ ~q.waiting /\ q.state = mgr.state
    BY <2>1 DEF MgrType
  <2>3. /\ mgr' = q /\ white' = white /\ bonds' = bonds /\ resolving' = resolving
        /\ missed' = missed /\ refused' = refused
    BY <1>3 DEF Fail, Rest
  <2> HIDE DEF q
  <2>4. Sound(q, request, bonds, resolving, white, refused \cup missed)
    BY <1>0, <2>1, <2>2 DEF Sound, Follows, Settled
  <2> QED
    BY <2>2, <2>3, <2>4 DEF Sound, Excused
<1> QED
  BY <1>1, <1>2, <1>3 DEF Respond

(* The entries always say what is missing in the lists.                     *)
LEMMA ListInductive == Spec => []ListInv
<1>1. ListInv /\ [Next]_vars => ListInv'
  <2> SUFFICES ASSUME ListInv, [Next]_vars PROVE ListInv'
    OBVIOUS
  <2>1. IInv'
    BY StepInv DEF ListInv
  <2>2. CASE UNCHANGED vars
    BY <2>1, <2>2 DEF vars, ListInv, Excused
  <2>3. CASE Next
    BY <2>1, <2>3, ListChange, ListDevice, ListRespond DEF Next, ListInv
  <2> QED
    BY <2>2, <2>3
<1> QED
  BY <1>1, ListInit, PTL DEF Spec

(* PRIVACY_STATE_IDLE is true: the controller's lists then hold the bonds,  *)
(* but for devices of refused requests and of the four windows.             *)
THEOREM IdleMeansInStep == Spec => []IdleInStep
<1>1. ListInv => IdleInStep
  <2> SUFFICES ASSUME ListInv, mgr.state = "idle", NEW a \in Addrs \ (refused \cup missed)
               PROVE  InStep(a)
    BY DEF IdleInStep
  <2>1. Todo(mgr.table) = {} /\ Tracked(mgr.table, a, bonds, resolving, white)
    BY DEF ListInv, Sound, Settled, Follows, Excused
  <2>2. CASE ~Listed(mgr.table, a)
    BY <2>1, <2>2 DEF Tracked, Absent, InStep
  <2>3. CASE Listed(mgr.table, a)
    <3>1. PICK i \in Slots : mgr.table[i].addr = a
      BY <2>3 DEF Listed
    <3>2. mgr.table[i].todo = "none"
      BY <2>1, <3>1, AddressAssumption DEF Todo, Used
    <3>3. Row(mgr.table[i], a, bonds, resolving, white)
      BY <2>1, <3>1 DEF Tracked
    <3> QED
      BY <3>2, <3>3 DEF Row, InStep
  <2> QED
    BY <2>2, <2>3
<1> QED
  BY <1>1, ListInductive, PTL
=============================================================================
