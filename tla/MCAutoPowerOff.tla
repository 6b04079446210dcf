--------------------------- MODULE MCAutoPowerOff ---------------------------
(* AutoPowerOff over the devices and profiles of MCBtPolicy. *)
EXTENDS AutoPowerOff, MCBtPolicy
=============================================================================
