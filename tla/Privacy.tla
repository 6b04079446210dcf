------------------------------- MODULE Privacy -------------------------------
(***************************************************************************)
(* The privacy manager (ble/privacy/privacy_mgnt.c): keeps the controller's  *)
(* resolving list, and the white list if asked to, in step with the bonds.   *)
(* A change of the bonds is entered in a table and passed to the controller  *)
(* one request at a time, while address resolution is off or the device      *)
(* neither advertises nor is connected.  The bonds, the device state, the    *)
(* GAP layer and the controller are external.                                *)
(***************************************************************************)
EXTENDS Naturals, FiniteSets

CONSTANTS
    Addrs,      \* identity addresses of the devices that may bond
    NoAddr,     \* the address of an unused entry
    EntryNum,   \* le_get_max_le_paired_device_num()
    WhiteList,  \* the argument of privacy_init
    MaxChanges, \* bound: changes of the bonds
    MaxFaults   \* bound: requests refused by the GAP layer or the controller

Slots == 1..EntryNum
NoSlot == 0

ASSUME EntriesAssumption == EntryNum \in Nat \ {0}
ASSUME AddressAssumption == NoAddr \notin Addrs /\ IsFiniteSet(Addrs)
ASSUME FlagAssumption == WhiteList \in BOOLEAN
ASSUME BoundsAssumption == MaxChanges \in Nat /\ MaxFaults \in Nat

VARIABLES
    mgr,        \* the module's variables: table, clear, waiting, idx, state
    resolution, \* privacy_resolution_status is not DISABLED
    bonds,      \* external: the bonded devices
    idle,       \* external: neither advertising nor connected
    request,    \* external: the request the controller is working on
    resolving,  \* external: the controller's resolving list
    white,      \* external: the controller's white list
    refused,    \* history: devices a request was given up for
    missed,     \* history: devices a change of which met a window, see below
    changes, faults

vars == <<mgr, resolution, bonds, idle, request, resolving, white, refused,
          missed, changes, faults>>

Ops == {"add", "remove", "clear"}
NoRequest == [op |-> "none", addr |-> NoAddr]

-----------------------------------------------------------------------------
(* privacy_table *)

(* An entry set to zero is not used. *)
Zero == [addr |-> NoAddr, added |-> "no", todo |-> "none"]

Used(T) == {i \in Slots : T[i].addr # NoAddr}
Unused(T) == Slots \ Used(T)
Listed(T, a) == \E i \in Slots : T[i].addr = a
SlotOf(T, a) == CHOOSE i \in Slots : T[i].addr = a
Least(S) == CHOOSE i \in S : \A j \in S : i <= j
Todo(T) == {i \in Used(T) : T[i].todo # "none"}

(* Faulty variants, named Bad..., show that the properties can fail: here   *)
(* a device that has an entry gets another.                                  *)
BadAdded(p, a) ==
    IF Unused(p.table) = {}
    THEN p
    ELSE [p EXCEPT !.table[Least(Unused(p.table))] =
                        [addr |-> a, added |-> "no", todo |-> "add"],
                   !.state = "busy"]

(* privacy_modify_resolving_list: what it enters for a bond added, ... *)
Added(p, a) ==
    IF Listed(p.table, a) \/ Unused(p.table) = {}
    THEN p
    ELSE [p EXCEPT !.table[Least(Unused(p.table))] =
                        [addr |-> a, added |-> "no", todo |-> "add"],
                   !.state = "busy"]

(* Faulty: an entry is forgotten while its request is under way, or is to   *)
(* be removed though it was never sent.                                      *)
BadRemoved(p, a) ==
    IF ~Listed(p.table, a) THEN p ELSE [p EXCEPT !.table[SlotOf(p.table, a)] = Zero]
BadUnsent(p, a) ==
    IF ~Listed(p.table, a) THEN p
    ELSE [p EXCEPT !.table[SlotOf(p.table, a)].todo = "remove", !.state = "busy"]

(* ... for a bond deleted, ... *)
Removed(p, a) ==
    LET i == SlotOf(p.table, a)
    IN  IF ~Listed(p.table, a) THEN p
        ELSE IF p.table[i].added = "no" THEN [p EXCEPT !.table[i] = Zero]
        ELSE [p EXCEPT !.table[i].todo = "remove", !.state = "busy"]

(* ... and for all of them cleared. *)
ClearPending(p) == [p EXCEPT !.clear = TRUE, !.state = "busy"]

-----------------------------------------------------------------------------
(* privacy_handle_resolv_list_int *)

Fault(n) == faults + n <= MaxFaults /\ faults' = faults + n
NoFault == UNCHANGED faults

(* Goes on with p; nothing is sent. *)
Rest(p) ==
    /\ mgr' = p
    /\ request' = IF p.waiting THEN request ELSE NoRequest
    /\ UNCHANGED white

SendClear(p) ==
    /\ mgr' = [p EXCEPT !.waiting = TRUE, !.state = "busy"]
    /\ request' = [op |-> "clear", addr |-> NoAddr]
    /\ white' = IF WhiteList THEN {} ELSE white

(* The change the entry i waits for. *)
Send(p, i) ==
    LET e == p.table[i]
    IN  /\ mgr' = [p EXCEPT !.waiting = TRUE, !.idx = i, !.state = "busy",
                            !.table[i].added =
                               IF e.todo = "add" THEN "pending" ELSE @]
        /\ request' = [op |-> e.todo, addr |-> e.addr]
        /\ white' = IF ~WhiteList THEN white
                    ELSE IF e.todo = "add" THEN white \cup {e.addr}
                    ELSE white \ {e.addr}

(* The entries the GAP layer refuses with a cause other than               *)
(* GAP_CAUSE_INVALID_STATE are dropped, and the next one is tried.          *)
Dropped(p, D) ==
    [p EXCEPT !.table = [i \in Slots |-> IF i \in D THEN Zero ELSE p.table[i]]]

Refuse(p, D) == refused' = refused \cup {p.table[i].addr : i \in D}

HandleList(p) ==
    LET todo == Todo(p.table)
    IN  \/ /\ Rest([Dropped(p, todo) EXCEPT !.state = "idle"])
           /\ Refuse(p, todo)
           /\ Fault(Cardinality(todo))
        \/ \E i \in todo :
              LET D == {j \in todo : j < i}
              IN  /\ Refuse(p, D)
                  /\ \/ Send(Dropped(p, D), i) /\ Fault(Cardinality(D))
                     \/ /\ Rest([Dropped(p, D) EXCEPT !.state = "busy"])
                        /\ Fault(Cardinality(D) + 1)

HandleInt(p) ==
    \/ /\ p.waiting
       /\ Rest([p EXCEPT !.state = "busy"])
       /\ NoFault /\ UNCHANGED refused
    \/ /\ ~p.waiting /\ p.clear
       /\ \/ SendClear(p) /\ NoFault
          \/ Rest([p EXCEPT !.state = "busy"]) /\ Fault(1)
       /\ UNCHANGED refused
    \/ ~p.waiting /\ ~p.clear /\ HandleList(p)

(* privacy_handle_resolv_list, with the device state ready: *)
Handle(p, ready) ==
    IF resolution /\ ~ready
    THEN Rest(p) /\ NoFault /\ UNCHANGED refused
    ELSE HandleInt(p)

-----------------------------------------------------------------------------
(* privacy_init: the table holds the bonds in the order of the bond store.  *)
Init ==
    /\ bonds \in SUBSET Addrs
    /\ Cardinality(bonds) <= EntryNum
    /\ \E order \in [1..Cardinality(bonds) -> bonds] :
          /\ {order[i] : i \in DOMAIN order} = bonds
          /\ mgr = [table |-> [i \in Slots |->
                        IF i \in DOMAIN order
                        THEN [addr |-> order[i], added |-> "no", todo |-> "add"]
                        ELSE Zero],
                    clear |-> FALSE, waiting |-> FALSE, idx |-> NoSlot,
                    state |-> IF bonds = {} THEN "idle" ELSE "busy"]
    /\ resolution = FALSE
    /\ idle = FALSE
    /\ request = NoRequest
    /\ resolving = {} /\ white = {} /\ refused = {} /\ missed = {}
    /\ changes = 0 /\ faults = 0

(* privacy_handle_bond_modify_msg.  In four windows the module has no        *)
(* answer to the change: a bond deleted while its request to be added is    *)
(* under way, one added again while its entry is still to be removed, one   *)
(* added while the list is to be cleared, and one added while an entry that *)
(* is to be removed holds the last place of the table.                      *)
BondChange ==
    /\ changes < MaxChanges
    /\ changes' = changes + 1
    /\ UNCHANGED <<resolution, idle, resolving>>

Misses(a, window) == missed' = IF window THEN missed \cup {a} ELSE missed

BondAdd(a) ==
    /\ BondChange
    /\ a \notin bonds /\ Cardinality(bonds) < EntryNum
    /\ bonds' = bonds \cup {a}
    /\ Misses(a, Listed(mgr.table, a) \/ mgr.clear \/ Unused(mgr.table) = {})
    /\ Handle(Added(mgr, a), idle)

BondDelete(a) ==
    /\ BondChange
    /\ a \in bonds
    /\ bonds' = bonds \ {a}
    /\ Misses(a, request = [op |-> "add", addr |-> a])
    /\ Handle(Removed(mgr, a), idle)

BondClear ==
    /\ BondChange
    /\ bonds # {}
    /\ bonds' = {}
    /\ Handle(ClearPending(mgr), idle)
    /\ UNCHANGED missed

(* The device begins to advertise or to connect. *)
Leave ==
    /\ idle
    /\ idle' = FALSE
    /\ UNCHANGED <<mgr, resolution, bonds, request, resolving, white, refused,
                   missed, changes, faults>>

(* It is idle again: the application calls privacy_handle_resolv_list.      *)
Return ==
    /\ ~idle
    /\ idle' = TRUE
    /\ Handle(mgr, TRUE)
    /\ UNCHANGED <<resolution, bonds, resolving, missed, changes>>

(* privacy_handle_le_privacy_resolution_status_info *)
ResolutionStatus ==
    /\ resolution' = ~resolution
    /\ UNCHANGED <<mgr, bonds, idle, request, resolving, white, refused,
                   missed, changes, faults>>

(* GAP_MSG_LE_PRIVACY_MODIFY_RESOLV_LIST with GAP_SUCCESS.  Faulty: the     *)
(* entries stay; the list is cleared again and again.                       *)
BadClearDone(p) == [p EXCEPT !.waiting = FALSE, !.clear = FALSE]
BadClearEnds(p) ==
    [p EXCEPT !.waiting = FALSE, !.table = [i \in Slots |-> Zero]]

ClearDone(p) ==
    [p EXCEPT !.waiting = FALSE, !.clear = FALSE, !.table = [i \in Slots |-> Zero]]

AddDone(p) ==
    [p EXCEPT !.waiting = FALSE, !.idx = NoSlot,
              !.table[p.idx] = [@ EXCEPT !.added = "yes", !.todo = "none"]]

RemoveDone(p) ==
    [p EXCEPT !.waiting = FALSE, !.idx = NoSlot, !.table[p.idx] = Zero]

Answered(p, op) ==
    CASE op = "clear" -> ClearDone(p)
      [] op = "add" -> AddDone(p)
      [] OTHER -> RemoveDone(p)

(* What the controller makes of a request. *)
Obeyed ==
    CASE request.op = "add" -> resolving \cup {request.addr}
      [] request.op = "remove" -> resolving \ {request.addr}
      [] OTHER -> {}

(* An add of a listed device, or a remove of one that is not, is an error.  *)
Valid == request.op = "clear" \/ Obeyed # resolving

Succeed ==
    /\ request # NoRequest /\ Valid
    /\ resolving' = Obeyed
    /\ Handle(Answered(mgr, request.op), idle)
    /\ UNCHANGED <<resolution, bonds, idle, missed, changes>>

(* Unknown device, memory full or an invalid parameter: the entry is        *)
(* dropped.                                                                 *)
GiveUp ==
    /\ request \notin {NoRequest, [op |-> "clear", addr |-> NoAddr]}
    /\ Rest(RemoveDone(mgr))
    /\ IF Valid
       THEN Fault(1) /\ refused' = refused \cup {request.addr}
       ELSE NoFault /\ UNCHANGED refused
    /\ UNCHANGED <<resolution, bonds, idle, resolving, missed, changes>>

(* Another cause: the change stays to be made.                              *)
Fail ==
    /\ request # NoRequest
    /\ Rest([mgr EXCEPT !.waiting = FALSE, !.idx = NoSlot])
    /\ Fault(1)
    /\ UNCHANGED <<resolution, bonds, idle, resolving, refused,
                   missed, changes>>

Respond == Succeed \/ GiveUp \/ Fail

Next ==
    \/ \E a \in Addrs : BondAdd(a) \/ BondDelete(a)
    \/ BondClear
    \/ Leave \/ Return \/ ResolutionStatus
    \/ Respond

(* The controller answers every request, and the device does not advertise  *)
(* or stay connected for ever.                                              *)
Spec == Init /\ [][Next]_vars /\ WF_vars(Respond) /\ WF_vars(Return)

-----------------------------------------------------------------------------
EntryType ==
    [addr : Addrs \cup {NoAddr}, added : {"no", "pending", "yes"},
     todo : {"none", "add", "remove"}]

(* Types, and what they do not say of an entry: an unused one is zero, and   *)
(* one to be removed was sent to the controller.                             *)
TypeOK ==
    /\ mgr \in [table : [Slots -> EntryType], clear : BOOLEAN, waiting : BOOLEAN,
                idx : Slots \cup {NoSlot}, state : {"idle", "busy"}]
    /\ resolution \in BOOLEAN /\ idle \in BOOLEAN
    /\ bonds \subseteq Addrs /\ resolving \subseteq Addrs
    /\ white \subseteq Addrs /\ refused \subseteq Addrs /\ missed \subseteq Addrs
    /\ request \in [op : Ops \cup {"none"}, addr : Addrs \cup {NoAddr}]
    /\ changes \in 0..MaxChanges /\ faults \in 0..MaxFaults
    /\ mgr.idx # NoSlot => mgr.waiting
    /\ \A i \in Slots :
          /\ i \notin Used(mgr.table) => mgr.table[i] = Zero
          /\ mgr.table[i].todo = "remove" => mgr.table[i].added # "no"

(* A response finds the entry its request was made for, whatever happened   *)
(* to the bonds meanwhile: privacy_modify_resolv_list_idx is not stale.     *)
AnswerFindsEntry ==
    /\ mgr.waiting <=> request # NoRequest
    /\ request.op \in {"add", "remove"} =>
          /\ mgr.idx \in Slots
          /\ mgr.table[mgr.idx].addr = request.addr

(* A device has one entry at most: removal takes the first.                 *)
OneEntryPerAddress ==
    \A i, j \in Used(mgr.table) : mgr.table[i].addr = mgr.table[j].addr => i = j

(* PRIVACY_STATE_IDLE tells the application that no change is left to make: *)
(* the lists then hold the bonds, but for the devices of refused requests   *)
(* and of the windows, and what one device missed touches no other.         *)
InStep(a) ==
    /\ a \in resolving <=> a \in bonds
    /\ WhiteList => (a \in white <=> a \in bonds)

IdleInStep == mgr.state = "idle" => \A a \in Addrs \ (refused \cup missed) : InStep(a)

(* The module gets idle again, unless a refused request is not tried again  *)
(* because the device stays idle: a failed response calls nothing.          *)
BusyEnds ==
    mgr.state = "busy" ~> mgr.state = "idle" \/ (faults > 0 /\ []idle)
=============================================================================
