---------------------------- MODULE LinkbackPool ----------------------------
(***************************************************************************)
(* The todo queue as bredr/app_linkback.c builds it: NodeNum items that are *)
(* marked used or free, a next pointer in each of them, and a head and a    *)
(* tail pointer.  A free item keeps the node and the pointer it had.        *)
(***************************************************************************)
EXTENDS LinkbackNodes

VARIABLES
    used,   \* is_used of each item
    node,   \* linkback_node of each item
    next,   \* next pointer of each item
    head,   \* linkback_todo_queue.head
    tail    \* linkback_todo_queue.tail

vars == <<used, node, next, head, tail>>

Items == 1..NodeNum
Null == 0
Pointer == Items \cup {Null}
ZeroNode == [addr |-> "000000000000", profs |-> {},
             force |-> FALSE, member |-> FALSE]

(***************************************************************************)
(* A traversal from pointer h: Walk gives the items it has met after k      *)
(* steps.  It makes one step more than the pool has items, so that a cyclic *)
(* list shows as one that repeats.                                          *)
(***************************************************************************)
Ahead(h, nx, q) == IF q = <<>> THEN h ELSE nx[q[Len(q)]]

Further(h, nx) ==
    [q \in Seq(Items) |-> IF Ahead(h, nx, q) = Null THEN q
                          ELSE Append(q, Ahead(h, nx, q))]

Walk(h, nx) ==
    LET met[k \in 0..(NodeNum + 1)] ==
            IF k = 0 THEN <<>> ELSE Further(h, nx)[met[k - 1]]
    IN  met

ListFrom(h, nx) == Walk(h, nx)[NodeNum + 1]

Chain == ListFrom(head, next)

Queued == LET q == Chain IN {q[i] : i \in DOMAIN q}

Holders(a) == {i \in Queued : node[i].addr = a}

Free == {i \in Items : ~used[i]}

(* Faulty variants, named Bad..., show that the properties can fail: here   *)
(* the allocator takes the item after the last used one and never wraps.    *)
BadMalloc ==
    IF Free = Items THEN 1
    ELSE 1 + CHOOSE i \in Items : used[i] /\ \A j \in Items : used[j] => j <= i

Malloc == CHOOSE i \in Free : \A j \in Free : i <= j

-----------------------------------------------------------------------------
(* linkback_todo_queue_init. *)
Init ==
    /\ used = [i \in Items |-> FALSE]
    /\ node = [i \in Items |-> ZeroNode]
    /\ next = [i \in Items |-> Null]
    /\ head = Null
    /\ tail = Null

(* The part both insertions share: the address is queued already. *)
Widen(a, P, m, force) ==
    /\ Holders(a) # {}
    /\ LET i == CHOOSE h \in Holders(a) : TRUE
       IN  node' = IF m THEN node
                   ELSE [node EXCEPT ![i].profs = @ \cup P,
                                     ![i].force = @ \/ force,
                                     ![i].member = FALSE]
    /\ UNCHANGED <<used, next, head, tail>>

PoolEmpty(a) ==
    /\ Holders(a) = {}
    /\ Free = {}
    /\ UNCHANGED vars

(* Faulty: the next pointer of the new item is not cleared. *)
BadAppendItem(a, P, m) ==
    /\ Holders(a) = {}
    /\ Free # {}
    /\ used' = [used EXCEPT ![Malloc] = TRUE]
    /\ node' = [node EXCEPT ![Malloc] =
                  [addr |-> a, profs |-> P, force |-> FALSE, member |-> m]]
    /\ next' = IF head = Null THEN next ELSE [next EXCEPT ![tail] = Malloc]
    /\ head' = IF head = Null THEN Malloc ELSE head
    /\ tail' = Malloc

AppendItem(a, P, m) ==
    /\ Holders(a) = {}
    /\ Free # {}
    /\ used' = [used EXCEPT ![Malloc] = TRUE]
    /\ node' = [node EXCEPT ![Malloc] =
                  [addr |-> a, profs |-> P, force |-> FALSE, member |-> m]]
    /\ next' = IF head = Null
               THEN [next EXCEPT ![Malloc] = Null]
               ELSE [next EXCEPT ![Malloc] = Null, ![tail] = Malloc]
    /\ head' = IF head = Null THEN Malloc ELSE head
    /\ tail' = Malloc

PushItem(a, P, m) ==
    /\ Holders(a) = {}
    /\ Free # {}
    /\ used' = [used EXCEPT ![Malloc] = TRUE]
    /\ node' = [node EXCEPT ![Malloc] =
                  [addr |-> a, profs |-> P, force |-> TRUE, member |-> m]]
    /\ next' = [next EXCEPT ![Malloc] = head]
    /\ tail' = IF head = Null THEN Malloc ELSE tail
    /\ head' = Malloc

InsertNormalNode(a, P, m) ==
    Widen(a, P, m, FALSE) \/ PoolEmpty(a) \/ AppendItem(a, P, m)

InsertForceNode(a, P, m) ==
    Widen(a, P, m, TRUE) \/ PoolEmpty(a) \/ PushItem(a, P, m)

(* Faulty: tail stays at the last node that was taken. *)
BadTakeFirstNode ==
    /\ head # Null
    /\ used' = [used EXCEPT ![head] = FALSE]
    /\ head' = next[head]
    /\ UNCHANGED <<node, next, tail>>

TakeFirstNode ==
    /\ head # Null
    /\ used' = [used EXCEPT ![head] = FALSE]
    /\ head' = next[head]
    /\ tail' = IF next[head] = Null THEN Null ELSE tail
    /\ UNCHANGED <<node, next>>

RemovePlanProfs(a, P) ==
    /\ node' = [i \in Items |-> IF i \in Holders(a)
                                THEN [node[i] EXCEPT !.profs = @ \ P]
                                ELSE node[i]]
    /\ UNCHANGED <<used, next, head, tail>>

DeleteAllNode ==
    /\ used' = [i \in Items |-> used[i] /\ i \notin Queued]
    /\ head' = Null
    /\ tail' = Null
    /\ UNCHANGED <<node, next>>

(***************************************************************************)
(* delete_group_member: group nodes at the front move head past them, the   *)
(* others are unlinked from the kept item before them, whose next pointer   *)
(* skips a whole run of them; the last kept item becomes the tail.          *)
(***************************************************************************)
KeptAfter(q, i) ==
    LET later == {j \in DOMAIN q : j > i /\ ~node[q[j]].member}
    IN  IF later = {} THEN Null
        ELSE q[CHOOSE j \in later : \A k \in later : j <= k]

LastKept(q) ==
    LET kept == {j \in DOMAIN q : ~node[q[j]].member}
    IN  IF kept = {} THEN Null
        ELSE q[CHOOSE j \in kept : \A k \in kept : k <= j]

DeleteGroupMember ==
    LET q == Chain
        left == {i \in Queued : node[i].member}
    IN  /\ used' = [i \in Items |-> used[i] /\ i \notin left]
        /\ head' = KeptAfter(q, 0)
        /\ next' = [i \in Items |->
                      IF i \in Queued \ left
                      THEN KeptAfter(q, CHOOSE j \in DOMAIN q : q[j] = i)
                      ELSE next[i]]
        /\ tail' = LastKept(q)
        /\ UNCHANGED node

Next ==
    \/ \E a \in Addrs, P \in SUBSET Profs \ {{}}, m \in BOOLEAN :
          \/ InsertNormalNode(a, P, m)
          \/ InsertForceNode(a, P, m)
    \/ \E a \in Addrs, P \in SUBSET Profs \ {{}} : RemovePlanProfs(a, P)
    \/ TakeFirstNode
    \/ DeleteAllNode
    \/ DeleteGroupMember

Spec == Init /\ [][Next]_vars

-----------------------------------------------------------------------------
(* The pool holds nodes and pointers of the declared shapes. *)
TypeOK ==
    /\ used \in [Items -> BOOLEAN]
    /\ node \in [Items -> Node \cup {ZeroNode}]
    /\ next \in [Items -> Pointer]
    /\ head \in Pointer /\ tail \in Pointer

(***************************************************************************)
(* The list and the pool agree after every operation: a traversal from head *)
(* meets every used item once and no free one, so no item leaks and none is *)
(* handed out twice, and tail is the item where the traversal ends, so the  *)
(* next insert_normal_node links to a live item.  Nobody is queued twice:   *)
(* the operations that look a node up by its address stop at the first.     *)
(***************************************************************************)
ListMatchesPool ==
    /\ Queued = {i \in Items : used[i]}
    /\ LET q == Chain
       IN  /\ Len(q) = Cardinality(Queued)
           /\ tail = IF q = <<>> THEN Null ELSE q[Len(q)]
    /\ \A a \in Addrs : Cardinality(Holders(a)) <= 1

(* The linked list implements the sequence its callers think of. *)
Todo == LET q == Chain IN [i \in DOMAIN q |-> node[q[i]]]

Abstract == INSTANCE LinkbackQueue WITH todo <- Todo

ImplementsQueue == Abstract!Spec
=============================================================================
