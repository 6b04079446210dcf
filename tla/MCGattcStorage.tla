--------------------------- MODULE MCGattcStorage ---------------------------
(***************************************************************************)
(* GattcStorage with two entries for up to three devices and a bitmap with  *)
(* two bits to a byte; a table without CCCDs and one with two blocks for    *)
(* them.  A length read from freed memory may be one that leaves nothing in *)
(* a byte.                                                                  *)
(***************************************************************************)
EXTENDS GattcStorage, TLC

CONSTANTS d1, d2, d3, t1, t2, c1, c2, h1

MCSize == (t1 :> 2) @@ (t2 :> 1) @@ (c1 :> 1) @@ (c2 :> 2)
MCCccdSize == (t1 :> 0) @@ (t2 :> 2)

Symmetry == Permutations(Devs)
=============================================================================
