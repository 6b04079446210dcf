----------------------------- MODULE MCBtPolicy -----------------------------
(***************************************************************************)
(* BtPolicy with up to three devices and the two profiles of a source, of   *)
(* which AVRCP is given up with A2DP.  Every device of an instance is       *)
(* bonded, with one profile or with both.                                   *)
(***************************************************************************)
EXTENDS BtPolicy, TLC

CONSTANTS a1, a2, a3, a2dp, avrcp

MCRank == [p \in Profs |-> IF p = a2dp THEN 0 ELSE 1]
MCRelated == [p \in Profs |-> IF p = a2dp THEN Profs \ {a2dp} ELSE {}]

Bonded(a, P) == [addr |-> a, profs |-> P]
MCBondsBoth == <<Bonded(a1, Profs), Bonded(a2, {a2dp})>>
MCBondsThree == <<Bonded(a1, Profs), Bonded(a2, {a2dp}), Bonded(a3, {a2dp})>>
MCBondsOne == <<Bonded(a1, Profs)>>

MCOpensAny == Addrs \X Profs
MCOpensOne == {<<a1, avrcp>>}
MCOpensBonded == {<<a1, a2dp>>}

MCPlans == {{}, Profs}
=============================================================================
