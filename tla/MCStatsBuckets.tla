---------------------------- MODULE MCStatsBuckets ----------------------------
(* Small instances of StatsBuckets: one xray and one AWG bucket. *)
EXTENDS StatsBuckets
CONSTANTS x, a
MCKeys == {x, a}
MCAwg == {a}
MCTimes == {1, 4}
==============================================================================
