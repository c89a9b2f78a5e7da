---------------------------- MODULE MCRegistration ----------------------------
(* Small instances of Registration; the bounds are in the cfg files. *)
EXTENDS Registration
CONSTANT b1
MCBox == {b1}
===============================================================================
