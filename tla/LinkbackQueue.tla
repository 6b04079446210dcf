--------------------------- MODULE LinkbackQueue ---------------------------
(***************************************************************************)
(* What the todo queue promises its callers: one action per operation, on   *)
(* a sequence.  LinkbackPool shows that the linked list built in a pool of  *)
(* items implements it.                                                     *)
(***************************************************************************)
EXTENDS LinkbackNodes

VARIABLE todo

Init == todo = <<>>

OpInsertNormal(a, P, m) == todo' = InsertNormal(todo, a, P, m)

OpInsertForce(a, P, m) == todo' = InsertForce(todo, a, P, m)

OpTakeFirst == todo # <<>> /\ todo' = Tail(todo)

OpRemoveProfs(a, P) == todo' = RemoveProfs(todo, a, P)

OpDeleteAll == todo' = <<>>

OpDeleteGroup == todo' = DeleteGroup(todo)

Next ==
    \/ \E a \in Addrs, P \in SUBSET Profs \ {{}}, m \in BOOLEAN :
          \/ OpInsertNormal(a, P, m)
          \/ OpInsertForce(a, P, m)
    \/ \E a \in Addrs, P \in SUBSET Profs \ {{}} : OpRemoveProfs(a, P)
    \/ OpTakeFirst
    \/ OpDeleteAll
    \/ OpDeleteGroup

Spec == Init /\ [][Next]_todo
=============================================================================
