---------------------------- MODULE TargetMachine ----------------------------
(***************************************************************************)
(* One row of the `targets` table under everything that may move it: the    *)
(* results of live cycles (Engine.applyLive -> Step), a pause, a release    *)
(* and the silence of its mon-client (moveRows), and an administrator who   *)
(* changes the thresholds between two heartbeats.                           *)
(*                                                                         *)
(* `now` is mon-server's receive time in abstract ticks.  Every step takes  *)
(* one of the Gaps; MaxTime bounds the clock.                               *)
(***************************************************************************)
EXTENDS TargetStep

CONSTANTS
    Settings,      \* the thresholds an administrator may store (raw)
    Gaps,          \* how much time may pass between two steps
    MaxTime        \* bound on the clock

ASSUME MachineAssumption ==
    /\ Settings \subseteq [downAfter : Int, upAfter : Int, flapN : Int,
                           flapMin : Int, flapHold : Int]
    /\ Settings # {}
    /\ Gaps \subseteq Nat \ {0}
    /\ MaxTime \in Nat
    /\ {"config_disabled", "config_enabled", "mon_client_offline"} \subseteq MoveReasons

VARIABLES
    row,           \* the stored row
    settings,      \* the stored thresholds, read again by every heartbeat
    now,           \* mon-server's clock
    shown,         \* what replaying the event feed shows (the panel's view)
    run,           \* the results since the row was last moved: their last streak
    loud,          \* times of the announced UP<->DOWN transitions, since a hold
                   \* ended or the thresholds changed
    flips,         \* all UP<->DOWN transitions since a hold ended: when, and until
                   \* when the flapHold of that moment lasts
    actual         \* the state with hysteresis: what a target without FLAPPING would be

hist == <<shown, run, loud, flips, actual>>
vars == <<row, settings, now, hist>>

th == ThresholdsFrom(settings)

-----------------------------------------------------------------------------
(* Observers of the event feed *)

\* The panel follows the announced transitions; one that does not start where
\* the last one ended breaks the chain.  A result files two events at most: one
\* that ends a hold, one that moves the row.
Follow(view, e) == IF e.silent THEN view ELSE IF e.from = view THEN e.to ELSE "BROKEN"

Replay(view, evs) ==
    CASE Len(evs) = 0 -> view
      [] Len(evs) = 1 -> Follow(view, evs[1])
      [] Len(evs) = 2 -> Follow(Follow(view, evs[1]), evs[2])
      [] OTHER        -> "BROKEN"

NoRun == [ok |-> 0, fail |-> 0]

Extend(streak, res) ==
    IF Succeeded(res) THEN [ok |-> streak.ok + 1, fail |-> 0]
                      ELSE [ok |-> 0, fail |-> streak.fail + 1]

\* A step that entered FLAPPING made an UP<->DOWN transition too.
Flips(evs) == \E i \in DOMAIN evs : evs[i].from \in UpDown /\ evs[i].to \in UpDown \cup {"FLAPPING"}

LoudlyFlips(evs) ==
    \E i \in DOMAIN evs : evs[i].from \in UpDown /\ evs[i].to \in UpDown /\ ~evs[i].silent

EndsHold(evs) == \E i \in DOMAIN evs : evs[i].from = "FLAPPING" /\ ~evs[i].silent

\* The stamps since the last hold ended, with the step's own.
Stamp(stamps, evs, own) == (IF EndsHold(evs) THEN {} ELSE stamps) \cup own

Hysteresis(state, streak) ==
    IF streak.fail >= th.downAfter THEN "DOWN"
    ELSE IF streak.ok > 0 /\ (state = "UNKNOWN" \/ streak.ok >= th.upAfter) THEN "UP"
    ELSE state

-----------------------------------------------------------------------------
Init ==
    /\ settings \in Settings
    /\ now = 0
    /\ row = NewRow(0)
    /\ shown = "UNKNOWN"
    /\ run = NoRun
    /\ loud = {}
    /\ flips = {}
    /\ actual = "UNKNOWN"

Pass(g) == now + g <= MaxTime /\ now' = now + g

\* A live cycle's result for this target.  A PAUSED row is left alone.
Result(res, g) ==
    LET out == Step(row, th, res, now + g)
    IN  /\ Pass(g)
        /\ row.state # "PAUSED"
        /\ row' = out.row
        /\ shown' = Replay(shown, out.evs)
        /\ run' = Extend(run, res)
        /\ loud' = Stamp(loud, out.evs, IF LoudlyFlips(out.evs) THEN {now + g} ELSE {})
        /\ flips' = Stamp(flips, out.evs,
               IF Flips(out.evs) THEN {[at |-> now + g, until |-> now + g + th.flapHold]} ELSE {})
        /\ actual' = Hysteresis(actual, run')
        /\ UNCHANGED settings

\* A result for a target the config has paused is stale and changes nothing.
StaleResult(res, g) ==
    /\ Pass(g)
    /\ row.state = "PAUSED"
    /\ row' = Step(row, th, res, now + g).row
    /\ UNCHANGED <<settings, hist>>

MoveTo(to, reason, g) ==
    /\ Pass(g)
    /\ row' = MoveRow(row, to, reason, now + g)
    /\ shown' = Replay(shown, <<MoveEvent(row, to, reason)>>)
    /\ run' = NoRun
    /\ actual' = "UNKNOWN"
    /\ UNCHANGED <<settings, loud, flips>>

\* pauseTargets / reconcilePauses: the row falls out of the config.
Pause(g) == row.state # "PAUSED" /\ MoveTo("PAUSED", "config_disabled", g)

\* resumeTargets / reconcilePauses: the row is back in the config.
Release(g) == row.state = "PAUSED" /\ MoveTo("UNKNOWN", "config_enabled", g)

\* targetsToUnknown: the mon-client stopped being a source of truth.
MonClientOffline(g) == row.state \notin {"UNKNOWN", "PAUSED"} /\ MoveTo("UNKNOWN", "mon_client_offline", g)

ChangeSettings ==
    /\ settings' \in Settings \ {settings}
    /\ loud' = {}
    /\ UNCHANGED <<row, now, shown, run, flips, actual>>

\* The bounded clock has run out.
Horizon ==
    /\ \A g \in Gaps : now + g > MaxTime
    /\ UNCHANGED vars

Next ==
    \/ \E g \in Gaps :
        \/ \E res \in Outcomes : Result(res, g) \/ StaleResult(res, g)
        \/ Pause(g) \/ Release(g) \/ MonClientOffline(g)
    \/ ChangeSettings
    \/ Horizon

Spec == Init /\ [][Next]_vars

-----------------------------------------------------------------------------
(* Properties *)

\* The row, the clock and the observers have the shape the code gives them.
TypeOK ==
    /\ row \in Row
    /\ settings \in Settings
    /\ now \in Nat
    /\ shown \in States \cup {"BROKEN"}
    /\ run \in [ok : Nat, fail : Nat]
    /\ loud \subseteq Nat /\ flips \subseteq [at : Nat, until : Nat]
    /\ actual \in UpDown \cup {"UNKNOWN"}

\* Replaying the announced events, in order, always shows the stored state: no
\* transition is missing from the feed, none starts where the last did not end,
\* also when one result both ends a hold and moves the row (Step).
PanelAgrees == shown = row.state

\* A hold is pending exactly while the row is FLAPPING, and a FLAPPING row has
\* seen a result, so its counters have something to say (machine.go, Step and
\* derivedState; engine.go, moveRows).
HoldIffFlapping ==
    /\ (row.until # NoHold) <=> (row.state = "FLAPPING")
    /\ row.state = "FLAPPING" => row.ok + row.fail > 0
    /\ row.ok = 0 \/ row.fail = 0

\* The reason shown next to the state: a working target carries none, a DOWN one
\* always carries a diagnosis, a PAUSED one the reason it was paused for.
ReasonFitsState ==
    CASE row.state = "UP"       -> row.reason = ""
      [] row.state = "DOWN"     -> row.reason \in Diagnoses
      [] row.state = "FLAPPING" -> row.reason \in Outcomes
      [] row.state = "PAUSED"   -> row.reason \in MoveReasons
      [] OTHER                  -> row.reason \in MoveReasons \cup {""}

\* The three together, of one row: what is stored, what was announced and why.
RowIsConsistent == PanelAgrees /\ HoldIffFlapping /\ ReasonFitsState

\* Fewer than flapN announced UP<->DOWN transitions in any flapMin window since
\* the last hold under one set of thresholds: the operator is not flooded,
\* FLAPPING takes over in time, and a pause or an OFFLINE in between does not
\* start the count again.
LoudFlipsBounded ==
    Cardinality({t \in loud : t > now - th.flapMin}) < th.flapN

\* FLAPPING is entered only after flapN UP<->DOWN transitions inside flapMin, by
\* the thresholds of that moment.
FlappingIsEarned ==
    [][row.state # "FLAPPING" /\ row'.state = "FLAPPING"
         => Cardinality({f \in flips' : f.at > now' - th.flapMin}) >= th.flapN]_vars

\* A result takes a row out of FLAPPING only when flapHold, as it was at the last
\* UP<->DOWN transition, has gone by since it, the ones underneath included; a
\* threshold changed meanwhile neither shortens nor stretches the hold.
HoldIsServed ==
    [][row.state = "FLAPPING" /\ row'.state \in UpDown
         => \A f \in flips : (\A e \in flips : e.at <= f.at) => now' >= f.until]_vars

\* Outside FLAPPING a target goes DOWN only on downAfter failures in a row, and
\* comes back UP from DOWN only on upAfter successes in a row, counted from the
\* last time the row was moved: results of before a pause or an OFFLINE are not
\* carried over.  An UNKNOWN one is UP on its first success.
StreakDecides ==
    [][/\ row.state \in {"UP", "UNKNOWN"} /\ row'.state = "DOWN" => run'.fail >= th.downAfter
       /\ row.state = "DOWN" /\ row'.state = "UP" => run'.ok >= th.upAfter
       /\ row.state = "UNKNOWN" /\ run'.ok > run.ok => row'.state = "UP"]_vars

\* "A streak too short to cross its threshold means the target is still in the
\* state it was flipping away from" (machine.go, derivedState): while FLAPPING,
\* the counters say what hysteresis over all results says.
DerivedIsActual == row.state = "FLAPPING" => DerivedState(row, th) = actual
==============================================================================
