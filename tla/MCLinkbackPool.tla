--------------------------- MODULE MCLinkbackPool ---------------------------
(* A pool of three items and four devices: the pool can run out, and a run  *)
(* of group members can stand at the head, in the middle and at the tail.   *)
EXTENDS LinkbackPool, TLC

CONSTANTS a1, a2, a3, a4, p1

MCAddrs == {a1, a2, a3, a4}
MCProfs == {p1}
Symmetry == Permutations(MCAddrs)
=============================================================================
