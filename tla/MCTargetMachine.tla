--------------------------- MODULE MCTargetMachine ---------------------------
(* Small instances of TargetMachine: thresholds of two or three in a clock of
   a dozen ticks, so that a row enters FLAPPING, flips inside it, serves the
   hold and flaps again. *)
EXTENDS TargetMachine

Threshold(d, u, n, win, hold) ==
    [downAfter |-> d, upAfter |-> u, flapN |-> n, flapMin |-> win, flapHold |-> hold]

Fixed    == {Threshold(2, 2, 3, 9, 4)}
Changing == {Threshold(2, 1, 2, 4, 3), Threshold(1, 2, 3, 6, 2), Threshold(0, -1, 0, 0, 0)}

GapSet == {1, 4}
Reasons == {"config_disabled", "config_enabled", "mon_client_offline"}
==============================================================================
