---------------------------- MODULE MCCycleDelivery ----------------------------
(* Small instances of CycleDelivery; the constants are all in the cfg files. *)
EXTENDS CycleDelivery
==============================================================================
