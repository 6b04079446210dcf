------------------------------ MODULE MCPrivacy ------------------------------
(***************************************************************************)
(* Privacy with a table of two entries and three devices: one entry is      *)
(* enough for a request to meet a change of its own device, two for another *)
(* change to wait behind it, the third device for a full table.             *)
(***************************************************************************)
EXTENDS Privacy, TLC

CONSTANTS a1, a2, a3
=============================================================================
