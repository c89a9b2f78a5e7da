------------------------------ MODULE MCClientLife ------------------------------
(* Small instances of ClientLife; the constants are all in the cfg files. *)
EXTENDS ClientLife
===============================================================================
