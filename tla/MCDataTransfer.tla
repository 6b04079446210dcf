--------------------------- MODULE MCDataTransfer ---------------------------
(***************************************************************************)
(* Small instances of DataTransfer: one SPP and one LE link, a ring that    *)
(* wraps, and a configuration for each kind of surroundings.                *)
(***************************************************************************)
EXTENDS DataTransfer
=============================================================================
