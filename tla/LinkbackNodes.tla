--------------------------- MODULE LinkbackNodes ---------------------------
(***************************************************************************)
(* The linkback todo queue of bredr/app_linkback.c as operators on a        *)
(* sequence of nodes.  A node says: connect the profiles `profs' of the     *)
(* device `addr'.  `force' nodes jump the queue; `member' nodes belong to   *)
(* the group that was loaded from the bond list and that shares one         *)
(* timeout.  The retry timeout, the is_special and check_bond_flag payload  *)
(* of a node steer no operation of the queue and are left out.              *)
(***************************************************************************)
EXTENDS Integers, Sequences, FiniteSets

CONSTANTS
    Addrs,      \* device addresses
    Profs,      \* profile bits of a plan
    NodeNum     \* LINKBACK_NODE_ITEM_NUM: the nodes the pool has

ASSUME NodeNumAssumption == NodeNum \in Nat \ {0}

Node == [addr : Addrs, profs : SUBSET Profs, force : BOOLEAN, member : BOOLEAN]

HasAddr(q, a) == \E i \in DOMAIN q : q[i].addr = a

(* insert_normal_node: a queued address only widens its plan, and only when *)
(* the caller is not the group loader; a new one goes to the tail, unless   *)
(* the pool is empty, in which case nothing happens and nobody is told.     *)
InsertNormal(q, a, P, m) ==
    IF HasAddr(q, a)
    THEN IF m THEN q
         ELSE [i \in DOMAIN q |->
                 IF q[i].addr = a
                 THEN [q[i] EXCEPT !.profs = @ \cup P, !.member = FALSE]
                 ELSE q[i]]
    ELSE IF Len(q) < NodeNum
         THEN Append(q, [addr |-> a, profs |-> P, force |-> FALSE, member |-> m])
         ELSE q

(* insert_force_node: like insert_normal_node, but a new node becomes the   *)
(* head, and a queued one is marked without being moved.                    *)
InsertForce(q, a, P, m) ==
    IF HasAddr(q, a)
    THEN IF m THEN q
         ELSE [i \in DOMAIN q |->
                 IF q[i].addr = a
                 THEN [q[i] EXCEPT !.profs = @ \cup P, !.force = TRUE,
                                   !.member = FALSE]
                 ELSE q[i]]
    ELSE IF Len(q) < NodeNum
         THEN <<[addr |-> a, profs |-> P, force |-> TRUE, member |-> m]>> \o q
         ELSE q

(* remove_plan_profs: the node stays queued even when its plan is empty.    *)
RemoveProfs(q, a, P) ==
    [i \in DOMAIN q |->
        IF q[i].addr = a THEN [q[i] EXCEPT !.profs = @ \ P] ELSE q[i]]

(* delete_group_member: every node of the bond-list group leaves, and the   *)
(* k-th node of the rest is the k-th that was not in the group.             *)
Place(S, i) == Cardinality({j \in S : j <= i})

KthOf(S, k) == CHOOSE i \in S : Place(S, i) = k

DeleteGroup(q) ==
    LET kept == {i \in DOMAIN q : ~q[i].member}
    IN  [k \in 1..Cardinality(kept) |-> q[KthOf(kept, k)]]
=============================================================================
