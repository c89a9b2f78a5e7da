----------------------------- MODULE MCProbeCycle -----------------------------
(***************************************************************************)
(* Constants for model checking ProbeCycle: two xray targets on one real    *)
(* server, one AWG target, intervals that change and a clock that is set.   *)
(***************************************************************************)
EXTENDS ProbeCycle, TLC

CONSTANTS x1, x2, a1, server

MCXray       == {x1, x2}
MCAwg        == {a1}
MCServer     == [t \in MCXray |-> server]
MCDocuments  == {MCXray} \cup {{x, a1} : x \in MCXray}
MCIntervals  == {2, 4}
MCClockSteps == {-5, -1, 2}
Symmetric    == Permutations(MCXray)

\* The xray targets are explored in the first two cycles of a grid nothing disturbs,
\* what disturbs the grid with the AWG target alone.
Undisturbed ==
    /\ steps = 0 /\ interval = 4 /\ cycle <= 2 /\ now <= 9
    /\ stage = "asleep" => now <= wake
Focus ==
    (\E t \in XrayTargets : probe[t].at # "idle") \/ sessions # {} => Undisturbed
===============================================================================
