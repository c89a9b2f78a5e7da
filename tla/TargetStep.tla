------------------------------ MODULE TargetStep ------------------------------
(***************************************************************************)
(* The target state machine of mon-server (internal/state/machine.go) as    *)
(* operators on one row of the `targets` table.  Nothing here has state:    *)
(* TargetMachine drives one row with it.                                    *)
(*                                                                         *)
(* A row keeps the window of recent UP<->DOWN transitions as a set of       *)
(* times (the code's JSON array): two results of one target never carry     *)
(* the same receive time.  An Outcome is "" for a success and the           *)
(* mon-client's diagnosis for a failure.                                    *)
(***************************************************************************)
EXTENDS Integers, FiniteSets, Sequences

CONSTANTS
    Diagnoses,     \* the failure reasons a mon-client reports
    MoveReasons    \* the reasons of a move to UNKNOWN or PAUSED

ASSUME ReasonsAssumption ==
    /\ "" \notin Diagnoses \cup MoveReasons
    /\ "http_error" \in Diagnoses

UpDown   == {"UP", "DOWN"}
States   == UpDown \cup {"UNKNOWN", "FLAPPING", "PAUSED"}
Outcomes == Diagnoses \cup {""}
NoHold   == -1            \* FlappingUntil = nil

Row == [state : States, since : Nat, reason : Outcomes \cup MoveReasons,
        fail : Nat, ok : Nat, window : SUBSET Nat, until : Nat \cup {NoHold}]

NewRow(now) ==
    [state |-> "UNKNOWN", since |-> now, reason |-> "",
     fail |-> 0, ok |-> 0, window |-> {}, until |-> NoHold]

-----------------------------------------------------------------------------
(* Settings and thresholds *)

AtLeast(v, min) == IF v < min THEN min ELSE v

Thresholds == [downAfter : Nat \ {0}, upAfter : Nat \ {0}, flapN : Nat \ {0},
               flapMin : Nat \ {0}, flapHold : Nat \ {0}]

ThresholdsFrom(set) ==
    [downAfter |-> AtLeast(set.downAfter, 1),
     upAfter   |-> AtLeast(set.upAfter, 1),
     flapN     |-> AtLeast(set.flapN, 1),
     flapMin   |-> AtLeast(set.flapMin, 1),
     flapHold  |-> AtLeast(set.flapHold, 1)]

-----------------------------------------------------------------------------
(* Step *)

Succeeded(res) == res = ""

EventReason(res) == IF Succeeded(res) THEN "recovered" ELSE res

LastFailureReason(reason) == IF reason = "" THEN "http_error" ELSE reason

\* What the counters of a FLAPPING row say it really is.
DerivedState(row, th) ==
    IF row.fail >= th.downAfter THEN "DOWN"
    ELSE IF row.ok >= th.upAfter THEN "UP"
    ELSE IF row.fail > 0 THEN "UP"
    ELSE IF row.ok > 0 THEN "DOWN"
    ELSE "UP"

\* Mutant: the window is never pruned.
RecordUnpruned(window, now, flapMin) == window \cup {now}

RecordTransition(window, now, flapMin) ==
    {ts \in window : ts > now - flapMin} \cup {now}

Transition(from, to, reason, silent) ==
    [from |-> from, to |-> to, reason |-> reason, silent |-> silent]

\* Often enough within the window to stop announcing.
\* Mutant: one transition later than the settings say.
FlapsTooLate(window, th) == Cardinality(window) > th.flapN

Flaps(window, th) == Cardinality(window) >= th.flapN

HoldExpired(row, now) ==
    row.state = "FLAPPING" /\ row.until # NoHold /\ now >= row.until

\* A hold that has run out ends before the result is applied.
EndHold(row, th, now) ==
    LET to == DerivedState(row, th)
    IN  [row EXCEPT !.state = to, !.since = now, !.until = NoHold, !.window = {},
                    !.reason = IF to = "UP" THEN "" ELSE LastFailureReason(row.reason)]

\* Mutant: the end of a hold is not filed.
NoHoldEvents(row, th, now) == << >>

HoldEvents(row, th, now) ==
    LET to == DerivedState(row, th)
    IN  IF HoldExpired(row, now)
        THEN <<Transition("FLAPPING", to,
                 IF to = "DOWN" THEN LastFailureReason(row.reason) ELSE "recovered", FALSE)>>
        ELSE << >>

\* The two counters: exactly one of them is non-zero after any result.
Count(row, res) ==
    IF Succeeded(res) THEN [row EXCEPT !.ok = @ + 1, !.fail = 0]
                      ELSE [row EXCEPT !.fail = @ + 1, !.ok = 0]

\* Outside FLAPPING: the state the result asks for.
Wanted(row, th, res) ==
    IF Succeeded(res) /\ row.state = "UNKNOWN" THEN "UP"
    ELSE IF Succeeded(res) /\ row.state = "DOWN" /\ row.ok >= th.upAfter THEN "UP"
    ELSE IF ~Succeeded(res) /\ row.state # "DOWN" /\ row.fail >= th.downAfter THEN "DOWN"
    ELSE row.state

\* Mutant: a flip underneath leaves the hold as it was.
FlipKeepsHold(counted, was, th, res, now, evs) ==
    LET is == DerivedState(counted, th)
    IN  IF is = was THEN [row |-> counted, evs |-> evs]
        ELSE [row |-> [counted EXCEPT !.reason = res],
              evs |-> Append(evs, Transition(was, is, EventReason(res), TRUE))]

\* Inside FLAPPING: a flip underneath restarts the hold and is filed silently.
Flip(counted, was, th, res, now, evs) ==
    LET is == DerivedState(counted, th)
    IN  IF is = was THEN [row |-> counted, evs |-> evs]
        ELSE [row |-> [counted EXCEPT !.window = RecordTransition(@, now, th.flapMin),
                                      !.until  = now + th.flapHold,
                                      !.reason = res],
              evs |-> Append(evs, Transition(was, is, EventReason(res), TRUE))]

Move(counted, want, th, res, now, evs) ==
    LET flip   == counted.state \in UpDown /\ want \in UpDown
        window == IF flip THEN RecordTransition(counted.window, now, th.flapMin)
                          ELSE counted.window
        moved  == [counted EXCEPT !.since = now, !.reason = res, !.window = window]
    IN  IF flip /\ Flaps(window, th)
        THEN [row |-> [moved EXCEPT !.state = "FLAPPING", !.until = now + th.flapHold],
              evs |-> Append(evs, Transition(counted.state, "FLAPPING", "flapping", FALSE))]
        ELSE [row |-> [moved EXCEPT !.state = want],
              evs |-> Append(evs, Transition(counted.state, want, EventReason(res), FALSE))]

Step(cur, th, res, now) ==
    IF cur.state = "PAUSED" THEN [row |-> cur, evs |-> << >>]
    ELSE LET evs     == HoldEvents(cur, th, now)
             row     == IF HoldExpired(cur, now) THEN EndHold(cur, th, now) ELSE cur
             counted == Count(row, res)
             want    == Wanted(counted, th, res)
         IN  IF counted.state = "FLAPPING"
             THEN Flip(counted, DerivedState(cur, th), th, res, now, evs)
             ELSE IF want = counted.state THEN [row |-> counted, evs |-> evs]
             ELSE Move(counted, want, th, res, now, evs)

-----------------------------------------------------------------------------
(* moveRows: a config- or liveness-driven move of one row *)

\* Mutant: the streaks survive the move.
MoveRowKeepsStreaks(row, to, reason, now) ==
    [row EXCEPT !.state = to, !.since = now, !.reason = reason, !.until = NoHold]

MoveRow(row, to, reason, now) ==
    [row EXCEPT !.state = to, !.since = now, !.reason = reason,
                !.ok = 0, !.fail = 0, !.until = NoHold]

MoveEvent(row, to, reason) == Transition(row.state, to, reason, FALSE)
==============================================================================
