------------------------------ MODULE TargetProofs ------------------------------
(***************************************************************************)
(* Proofs about a target and the mon-client it belongs to, two              *)
(* specifications that have no state in common.                             *)
(*                                                                         *)
(* First TargetMachine, for every set of thresholds an administrator may    *)
(* store, every passage of time and every bound on the clock: what the      *)
(* stored row always says of itself, that the event feed agrees with it,    *)
(* and that streaks, window and hold do what they are kept for: a target is *)
(* moved by a streak that is long enough, the operator is not flooded,      *)
(* FLAPPING is earned and its hold is served.                               *)
(*                                                                         *)
(* Then ClientLife, for any targets, any silence and any bounds: what       *)
(* OFFLINE means for targets and feed, and that it is earned.               *)
(***************************************************************************)
EXTENDS TargetMachine, ClientLife, FiniteSetTheorems, TLAPS

(* What holds of every stored row: the two invariants on one row, and its type. *)
HoldFits(r) ==
    /\ (r.until # NoHold) <=> (r.state = "FLAPPING")
    /\ r.state = "FLAPPING" => r.ok + r.fail > 0
    /\ r.ok = 0 \/ r.fail = 0

ReasonFits(r) ==
    CASE r.state = "UP"       -> r.reason = ""
      [] r.state = "DOWN"     -> r.reason \in Diagnoses
      [] r.state = "FLAPPING" -> r.reason \in Outcomes
      [] r.state = "PAUSED"   -> r.reason \in MoveReasons
      [] OTHER                -> r.reason \in MoveReasons \cup {""}

Good(r) == r \in Row /\ HoldFits(r) /\ ReasonFits(r)

(* A counted row: a result was just counted, nothing was decided yet. *)
Counted(r) == Good(r) /\ r.ok + r.fail > 0 /\ r.state # "PAUSED"

-----------------------------------------------------------------------------
(* Every threshold is at least one, whatever was stored. *)
LEMMA ThresholdsArePositive ==
    ASSUME NEW set \in [downAfter : Int, upAfter : Int, flapN : Int,
                        flapMin : Int, flapHold : Int]
    PROVE  ThresholdsFrom(set) \in Thresholds
BY DEF ThresholdsFrom, Thresholds, AtLeast

LEMMA DerivedIsUpDown ==
    ASSUME NEW r, NEW limits
    PROVE  DerivedState(r, limits) \in UpDown
BY DEF DerivedState, UpDown

LEMMA WindowStaysInNat ==
    ASSUME NEW window \in SUBSET Nat, NEW t \in Nat, NEW span \in Nat
    PROVE  RecordTransition(window, t, span) \in SUBSET Nat
BY DEF RecordTransition

LEMMA HoldEndsLater ==
    ASSUME NEW limits \in Thresholds, NEW t \in Nat
    PROVE  t + limits.flapHold \in Nat /\ t + limits.flapHold # NoHold
<1>1. limits.flapHold \in Nat
  BY DEF Thresholds
<1> QED BY <1>1 DEF NoHold

(* Ending a hold leaves a good UP or DOWN row. *)
LEMMA EndHoldIsGood ==
    ASSUME NEW r, Good(r), r.state = "FLAPPING", NEW limits, NEW t \in Nat
    PROVE  /\ Good(EndHold(r, limits, t))
           /\ EndHold(r, limits, t).state = DerivedState(r, limits)
<1> DEFINE to   == DerivedState(r, limits)
           next == EndHold(r, limits, t)
<1>1. to \in {"UP", "DOWN"}
  BY DerivedIsUpDown DEF UpDown
<1>2. LastFailureReason(r.reason) \in Diagnoses
  BY ReasonsAssumption DEF LastFailureReason, Good, ReasonFits, Outcomes
<1>3. /\ next = [r EXCEPT !.state = to, !.since = t, !.until = NoHold, !.window = {},
                          !.reason = IF to = "UP" THEN "" ELSE LastFailureReason(r.reason)]
  BY DEF EndHold
<1> HIDE DEF to, next
<1>4. /\ next.state = to /\ next.until = NoHold /\ next.ok = r.ok /\ next.fail = r.fail
      /\ next.reason = IF to = "UP" THEN "" ELSE LastFailureReason(r.reason)
  BY <1>3 DEF Good, Row
<1>5. next \in Row
  BY <1>1, <1>2, <1>3 DEF Good, Row, States, UpDown, Outcomes
<1> QED BY <1>1, <1>2, <1>4, <1>5 DEF Good, HoldFits, ReasonFits, to, next

(* Counting a result touches the two counters only, and makes one of them zero. *)
LEMMA CountIsGood ==
    ASSUME NEW r, Good(r), r.state # "PAUSED", NEW res \in Outcomes
    PROVE  /\ Counted(Count(r, res))
           /\ Count(r, res).state = r.state
<1> DEFINE next == Count(r, res)
<1>1. /\ next \in Row /\ next.state = r.state /\ next.reason = r.reason /\ next.until = r.until
      /\ next.ok + next.fail > 0 /\ (next.ok = 0 \/ next.fail = 0)
  <2>0. r.ok \in Nat /\ r.fail \in Nat /\ r.ok + 1 \in Nat /\ r.fail + 1 \in Nat
    <3>1. r.ok \in Nat /\ r.fail \in Nat
      BY DEF Good, Row
    <3> QED BY <3>1
  <2>1. CASE res = ""
    <3>1. next = [r EXCEPT !.ok = r.ok + 1, !.fail = 0]
      BY <2>1 DEF Count, Succeeded
    <3> HIDE DEF next
    <3>2. next.ok = r.ok + 1 /\ next.fail = 0 /\ next.state = r.state
          /\ next.reason = r.reason /\ next.until = r.until
      BY <3>1 DEF Good, Row
    <3>3. next \in Row
      BY <2>0, <3>1 DEF Good, Row
    <3> QED BY <2>0, <3>2, <3>3
  <2>2. CASE res # ""
    <3>1. next = [r EXCEPT !.fail = r.fail + 1, !.ok = 0]
      BY <2>2 DEF Count, Succeeded
    <3> HIDE DEF next
    <3>2. next.fail = r.fail + 1 /\ next.ok = 0 /\ next.state = r.state
          /\ next.reason = r.reason /\ next.until = r.until
      BY <3>1 DEF Good, Row
    <3>3. next \in Row
      BY <2>0, <3>1 DEF Good, Row
    <3> QED BY <2>0, <3>2, <3>3
  <2> QED BY <2>1, <2>2
<1> HIDE DEF next
<1> QED BY <1>1 DEF Counted, Good, HoldFits, ReasonFits, next

(* A flip inside FLAPPING leaves the row FLAPPING. *)
LEMMA FlipIsGood ==
    ASSUME NEW r, Counted(r), r.state = "FLAPPING", NEW was, NEW limits \in Thresholds,
           NEW res \in Outcomes, NEW t \in Nat, NEW evs
    PROVE  /\ Good(Flip(r, was, limits, res, t, evs).row)
           /\ Flip(r, was, limits, res, t, evs).row.state = "FLAPPING"
<1> DEFINE out    == Flip(r, was, limits, res, t, evs)
           window == RecordTransition(r.window, t, limits.flapMin)
           next   == [r EXCEPT !.window = window, !.until = t + limits.flapHold, !.reason = res]
<1>1. CASE DerivedState(r, limits) = was
  BY <1>1 DEF Flip, Counted
<1>2. CASE DerivedState(r, limits) # was
  <2>1. out.row = next
    BY <1>2 DEF Flip
  <2>2. window \in SUBSET Nat
    BY WindowStaysInNat DEF Counted, Good, Row, Thresholds
  <2>3. t + limits.flapHold \in Nat /\ t + limits.flapHold # NoHold
    BY HoldEndsLater
  <2> HIDE DEF window
  <2>4. /\ next \in Row /\ next.state = "FLAPPING" /\ next.until = t + limits.flapHold
        /\ next.reason = res /\ next.ok = r.ok /\ next.fail = r.fail
    BY <2>2, <2>3 DEF Counted, Good, Row
  <2> HIDE DEF next
  <2> QED BY <2>1, <2>3, <2>4 DEF Counted, Good, HoldFits, ReasonFits
<1> QED BY <1>1, <1>2

(* The state a result asks for differs from the row's only as the table says. *)
LEMMA WantedIsEarned ==
    ASSUME NEW r, NEW limits, NEW res, Wanted(r, limits, res) # r.state
    PROVE  \/ Wanted(r, limits, res) = "UP" /\ res = ""
           \/ Wanted(r, limits, res) = "DOWN" /\ res # ""
BY DEF Wanted, Succeeded

(* A move leaves a good row: in FLAPPING with a hold, or where the result asked. *)
LEMMA MoveIsGood ==
    ASSUME NEW r, Counted(r), r.state # "FLAPPING", NEW limits \in Thresholds,
           NEW res \in Outcomes, NEW want,
           (want = "UP" /\ res = "") \/ (want = "DOWN" /\ res # ""),
           NEW t \in Nat, NEW evs
    PROVE  Good(Move(r, want, limits, res, t, evs).row)
<1> DEFINE out    == Move(r, want, limits, res, t, evs)
           flip   == r.state \in UpDown /\ want \in UpDown
           window == IF flip THEN RecordTransition(r.window, t, limits.flapMin) ELSE r.window
           moved  == [r EXCEPT !.since = t, !.reason = res, !.window = window]
           flap   == [moved EXCEPT !.state = "FLAPPING", !.until = t + limits.flapHold]
           plain  == [moved EXCEPT !.state = want]
<1>1. window \in SUBSET Nat
  BY WindowStaysInNat DEF Counted, Good, Row, Thresholds
<1>2. out.row = flap \/ out.row = plain
  <2>1. CASE flip /\ Flaps(window, limits)
    BY <2>1 DEF Move
  <2>2. CASE ~(flip /\ Flaps(window, limits))
    BY <2>2 DEF Move
  <2> QED BY <2>1, <2>2
<1> HIDE DEF window, out
<1>3. moved \in Row /\ moved.reason = res /\ moved.ok = r.ok /\ moved.fail = r.fail
      /\ moved.until = r.until
  BY <1>1 DEF Counted, Good, Row
<1> HIDE DEF moved
<1>4. t + limits.flapHold \in Nat /\ t + limits.flapHold # NoHold
  BY HoldEndsLater
<1>5. Good(flap)
  <2>1. /\ flap \in Row /\ flap.state = "FLAPPING" /\ flap.until = t + limits.flapHold
        /\ flap.reason = res /\ flap.ok = r.ok /\ flap.fail = r.fail
    BY <1>3, <1>4 DEF Row, States
  <2> HIDE DEF flap
  <2> QED BY <1>4, <2>1 DEF Counted, Good, HoldFits, ReasonFits
<1>6. Good(plain)
  <2>1. /\ plain \in Row /\ plain.state = want /\ plain.until = r.until
        /\ plain.reason = res /\ plain.ok = r.ok /\ plain.fail = r.fail
    BY <1>3 DEF Row, States, UpDown
  <2> HIDE DEF plain
  <2> QED BY <2>1 DEF Counted, Good, HoldFits, ReasonFits, Outcomes
<1> QED BY <1>2, <1>5, <1>6 DEF out

-----------------------------------------------------------------------------
(* Step *)

(* The row Step counts the result on, after a hold that ran out. *)
Settled(r, limits, t) == IF HoldExpired(r, t) THEN EndHold(r, limits, t) ELSE r

LEMMA SettledIsGood ==
    ASSUME NEW r, Good(r), NEW limits, NEW t \in Nat
    PROVE  /\ Good(Settled(r, limits, t))
           /\ r.state # "PAUSED" => Settled(r, limits, t).state # "PAUSED"
           /\ HoldEvents(r, limits, t) =
                IF HoldExpired(r, t)
                THEN <<Transition("FLAPPING", Settled(r, limits, t).state,
                         IF Settled(r, limits, t).state = "DOWN"
                         THEN LastFailureReason(r.reason) ELSE "recovered", FALSE)>>
                ELSE << >>
<1>1. CASE HoldExpired(r, t)
  <2>1. r.state = "FLAPPING"
    BY <1>1 DEF HoldExpired
  <2>2. Settled(r, limits, t) = EndHold(r, limits, t)
    BY <1>1 DEF Settled
  <2>3. /\ Good(EndHold(r, limits, t))
        /\ EndHold(r, limits, t).state = DerivedState(r, limits)
        /\ DerivedState(r, limits) \in UpDown
    BY <2>1, EndHoldIsGood, DerivedIsUpDown
  <2> QED BY <1>1, <2>2, <2>3 DEF HoldEvents, UpDown
<1>2. CASE ~HoldExpired(r, t)
  BY <1>2 DEF Settled, HoldEvents
<1> QED BY <1>1, <1>2

(* Appending to a sequence of one event. *)
LEMMA AppendToOne ==
    ASSUME NEW h, NEW e
    PROVE  /\ Len(Append(<<h>>, e)) = 2
           /\ Append(<<h>>, e)[1] = h
           /\ Append(<<h>>, e)[2] = e
<1>1. <<h>> \in Seq({h, e}) /\ e \in {h, e}
  OBVIOUS
<1> QED BY <1>1

(* Step leaves a good row, and replaying what it announces, from a view that      *)
(* showed the row before, shows the row after.                                    *)
LEMMA StepIsGood ==
    ASSUME NEW r, Good(r), r.state # "PAUSED", NEW limits \in Thresholds,
           NEW res \in Outcomes, NEW t \in Nat
    PROVE  /\ Good(Step(r, limits, res, t).row)
           /\ Replay(r.state, Step(r, limits, res, t).evs) = Step(r, limits, res, t).row.state
<1> DEFINE base    == Settled(r, limits, t)
           evs     == HoldEvents(r, limits, t)
           counted == Count(base, res)
           want    == Wanted(counted, limits, res)
           out     == Step(r, limits, res, t)
<1> SUFFICES /\ Good(out.row)
             /\ Replay(r.state, out.evs) = out.row.state
  OBVIOUS
<1>1. /\ Good(base) /\ base.state # "PAUSED"
      /\ evs = IF HoldExpired(r, t)
               THEN <<Transition("FLAPPING", base.state,
                        IF base.state = "DOWN" THEN LastFailureReason(r.reason)
                                               ELSE "recovered", FALSE)>>
               ELSE << >>
  BY SettledIsGood
<1>2. Counted(counted) /\ counted.state = base.state
  BY <1>1, CountIsGood
<1>3. out = IF counted.state = "FLAPPING"
            THEN Flip(counted, DerivedState(r, limits), limits, res, t, evs)
            ELSE IF want = counted.state THEN [row |-> counted, evs |-> evs]
            ELSE Move(counted, want, limits, res, t, evs)
  BY DEF Step, Settled
<1>4. /\ ~HoldExpired(r, t) => evs = << >> /\ base = r
      /\ HoldExpired(r, t) =>
           /\ r.state = "FLAPPING"
           /\ Len(evs) = 1 /\ evs[1].from = "FLAPPING" /\ evs[1].to = base.state
           /\ ~evs[1].silent
           /\ base.state # "FLAPPING"
  <2>1. CASE ~HoldExpired(r, t)
    BY <1>1, <2>1 DEF Settled
  <2>2. CASE HoldExpired(r, t)
    <3>1. r.state = "FLAPPING" /\ base = EndHold(r, limits, t)
      BY <2>2 DEF HoldExpired, Settled
    <3>2. base.state # "FLAPPING"
      BY <3>1, EndHoldIsGood, DerivedIsUpDown DEF UpDown
    <3> HIDE DEF base
    <3> QED BY <1>1, <2>2, <3>1, <3>2 DEF Transition
  <2> QED BY <2>1, <2>2
<1> HIDE DEF base, evs, counted, out
<1>5. Replay(r.state, evs) = base.state
  BY <1>4 DEF Replay, Follow
<1>6. ASSUME NEW e, ~e.silent => e.from = base.state
      PROVE  Replay(r.state, Append(evs, e)) = IF e.silent THEN base.state ELSE e.to
  <2>1. CASE ~HoldExpired(r, t)
    <3>1. Append(evs, e) = <<e>>
      BY <1>4, <2>1
    <3> QED BY <1>4, <1>6, <2>1, <3>1 DEF Replay, Follow
  <2>2. CASE HoldExpired(r, t)
    <3>1. PICK h : evs = <<h>> /\ h.from = "FLAPPING" /\ h.to = base.state /\ ~h.silent
      BY <1>1, <1>4, <2>2
    <3>2. Len(Append(evs, e)) = 2 /\ Append(evs, e)[1] = h /\ Append(evs, e)[2] = e
      BY <3>1, AppendToOne
    <3> QED BY <1>4, <1>6, <2>2, <3>1, <3>2 DEF Replay, Follow
  <2> QED BY <2>1, <2>2
<1>7. CASE counted.state = "FLAPPING"
  <2>1. out = Flip(counted, DerivedState(r, limits), limits, res, t, evs)
    BY <1>3, <1>7
  <2>2. Good(out.row) /\ out.row.state = "FLAPPING"
    BY <1>2, <1>7, <2>1, FlipIsGood
  <2>3. \/ out.evs = evs
        \/ \E e : out.evs = Append(evs, e) /\ e.silent
    BY <2>1 DEF Flip, Transition
  <2> QED BY <1>2, <1>5, <1>6, <1>7, <2>2, <2>3
<1>8. CASE counted.state # "FLAPPING" /\ want = counted.state
  <2>1. out.row = counted /\ out.evs = evs
    BY <1>3, <1>8
  <2> QED BY <1>2, <1>5, <2>1 DEF Counted
<1>9. CASE counted.state # "FLAPPING" /\ want # counted.state
  <2>1. out = Move(counted, want, limits, res, t, evs)
    BY <1>3, <1>9
  <2>2. (want = "UP" /\ res = "") \/ (want = "DOWN" /\ res # "")
    BY <1>9, WantedIsEarned
  <2> HIDE DEF want
  <2>3. Good(out.row)
    BY <1>2, <1>9, <2>1, <2>2, MoveIsGood
  <2>4. \E e : out.evs = Append(evs, e) /\ e.from = counted.state /\ e.to = out.row.state
               /\ ~e.silent
    BY <1>2, <2>1 DEF Move, Transition, Counted, Good, Row
  <2> QED BY <1>2, <1>6, <2>3, <2>4
<1> QED BY <1>7, <1>8, <1>9

(* A move by moveRows leaves a good row, and the one event it files leads there. *)
LEMMA MoveRowIsGood ==
    ASSUME NEW r, Good(r), NEW to, NEW reason \in MoveReasons, NEW t \in Nat,
           to \in {"PAUSED", "UNKNOWN"}
    PROVE  /\ Good(MoveRow(r, to, reason, t))
           /\ Replay(r.state, <<MoveEvent(r, to, reason)>>) = MoveRow(r, to, reason, t).state
<1> DEFINE next == MoveRow(r, to, reason, t)
<1>1. next = [r EXCEPT !.state = to, !.since = t, !.reason = reason,
                       !.ok = 0, !.fail = 0, !.until = NoHold]
  BY DEF MoveRow
<1>2. Replay(r.state, <<MoveEvent(r, to, reason)>>) = to
  BY DEF Replay, Follow, MoveEvent, Transition
<1> HIDE DEF next
<1>3. /\ next.state = to /\ next.reason = reason /\ next.until = NoHold
      /\ next.ok = 0 /\ next.fail = 0
  BY <1>1 DEF Good, Row
<1>4. next \in Row
  BY <1>1 DEF Good, Row, States
<1>5. Good(next)
  BY <1>3, <1>4 DEF Good, HoldFits, ReasonFits
<1> QED BY <1>2, <1>3, <1>5 DEF next

-----------------------------------------------------------------------------
(* The inductive invariant: the properties of the row hold together, and the feed  *)
(* shows the row.  They lean on each other: that a row leaving FLAPPING for DOWN   *)
(* has a diagnosis needs the reason kept while FLAPPING to be a result's.           *)
IInv == TypeOK /\ shown = row.state /\ Good(row)

LEMMA ThresholdsInForce ==
    ASSUME settings \in Settings
    PROVE  th \in Thresholds
BY ThresholdsArePositive, MachineAssumption DEF th

LEMMA ClockRuns ==
    ASSUME now \in Nat, NEW g \in Gaps
    PROVE  now + g \in Nat
<1>1. g \in Nat
  BY MachineAssumption
<1> QED BY <1>1

LEMMA InitGood == Init => IInv
<1> SUFFICES ASSUME Init PROVE IInv
  OBVIOUS
<1>1. row \in Row
  BY DEF Init, NewRow, Row, States, Outcomes, NoHold
<1>2. Good(row) /\ shown = row.state
  BY <1>1 DEF Init, NewRow, Good, HoldFits, ReasonFits
<1>3. TypeOK
  BY <1>1 DEF Init, TypeOK, NoRun, States
<1> QED BY <1>2, <1>3 DEF IInv

LEMMA ResultGood ==
    ASSUME IInv, NEW g \in Gaps, NEW res \in Outcomes, Result(res, g)
    PROVE  IInv'
<1> DEFINE out == Step(row, th, res, now + g)
<1>1. th \in Thresholds /\ now + g \in Nat
  BY ThresholdsInForce, ClockRuns DEF IInv, TypeOK
<1>2. Good(out.row) /\ Replay(row.state, out.evs) = out.row.state
  BY <1>1, StepIsGood DEF IInv, Result
<1>3. row' = out.row /\ shown' = out.row.state
  BY <1>2 DEF Result, IInv
<1>4. now' \in Nat /\ settings' \in Settings
  BY <1>1 DEF Result, Pass, IInv, TypeOK
<1>5. run' \in [ok : Nat, fail : Nat]
  BY DEF Result, IInv, TypeOK, Extend
<1>6. loud' \subseteq Nat /\ flips' \subseteq [at : Nat, until : Nat]
  <2>1. now + g + th.flapHold \in Nat
    BY <1>1, HoldEndsLater
  <2>2. /\ loud' = Stamp(loud, out.evs, IF LoudlyFlips(out.evs) THEN {now + g} ELSE {})
        /\ flips' = Stamp(flips, out.evs,
               IF Flips(out.evs) THEN {[at |-> now + g, until |-> now + g + th.flapHold]} ELSE {})
    BY DEF Result
  <2> HIDE DEF out
  <2>3. loud' \subseteq Nat
    BY <1>1, <2>2 DEF IInv, TypeOK, Stamp
  <2>4. [at |-> now + g, until |-> now + g + th.flapHold] \in [at : Nat, until : Nat]
    BY <1>1, <2>1
  <2>5. flips' \subseteq [at : Nat, until : Nat]
    BY <2>2, <2>4 DEF IInv, TypeOK, Stamp
  <2> QED BY <2>3, <2>5
<1>7. actual' \in UpDown \cup {"UNKNOWN"}
  BY DEF Result, Hysteresis, IInv, TypeOK, UpDown
<1> HIDE DEF out
<1>8. row' \in Row /\ shown' \in States
  BY <1>2, <1>3 DEF Good, Row
<1> QED BY <1>2, <1>3, <1>4, <1>5, <1>6, <1>7, <1>8 DEF IInv, TypeOK, Good, HoldFits, ReasonFits

LEMMA StaleResultGood ==
    ASSUME IInv, NEW g \in Gaps, NEW res \in Outcomes, StaleResult(res, g)
    PROVE  IInv'
<1>1. row' = row
  BY DEF StaleResult, Step
<1>2. now' \in Nat
  BY ClockRuns DEF StaleResult, Pass, IInv, TypeOK
<1> QED BY <1>1, <1>2 DEF StaleResult, hist, IInv, TypeOK, Good, HoldFits, ReasonFits

LEMMA MoveToGood ==
    ASSUME IInv, NEW g \in Gaps, NEW to \in {"PAUSED", "UNKNOWN"}, NEW reason \in MoveReasons,
           MoveTo(to, reason, g)
    PROVE  IInv'
<1>1. now + g \in Nat
  BY ClockRuns DEF IInv, TypeOK
<1>2. Good(row') /\ shown' = row'.state
  BY <1>1, MoveRowIsGood DEF MoveTo, IInv
<1>3. TypeOK'
  <2>1. row' \in Row /\ shown' \in States
    BY <1>2 DEF Good, Row
  <2> QED BY <1>1, <2>1 DEF MoveTo, Pass, IInv, TypeOK, NoRun
<1> QED BY <1>2, <1>3 DEF IInv, Good, HoldFits, ReasonFits

LEMMA StepGood == IInv /\ [Next]_vars => IInv'
<1> SUFFICES ASSUME IInv, [Next]_vars PROVE IInv'
  OBVIOUS
<1> USE MachineAssumption
<1>1. ASSUME NEW g \in Gaps, NEW res \in Outcomes, Result(res, g) \/ StaleResult(res, g)
      PROVE  IInv'
  BY <1>1, ResultGood, StaleResultGood
<1>2. ASSUME NEW g \in Gaps, Pause(g) PROVE IInv'
  BY <1>2, MoveToGood DEF Pause
<1>3. ASSUME NEW g \in Gaps, Release(g) PROVE IInv'
  BY <1>3, MoveToGood DEF Release
<1>4. ASSUME NEW g \in Gaps, MonClientOffline(g) PROVE IInv'
  BY <1>4, MoveToGood DEF MonClientOffline
<1>5. CASE ChangeSettings
  BY <1>5 DEF ChangeSettings, IInv, TypeOK, Good, HoldFits, ReasonFits
<1>6. CASE Horizon \/ UNCHANGED vars
  BY <1>6 DEF Horizon, vars, hist, IInv, TypeOK, Good, HoldFits, ReasonFits
<1> QED BY <1>1, <1>2, <1>3, <1>4, <1>5, <1>6 DEF Next

-----------------------------------------------------------------------------
LEMMA AlwaysGood == Spec => []IInv
<1> QED BY InitGood, StepGood, PTL DEF Spec

(* Every row the state machine ever stores has the type of TargetStep's Row, for   *)
(* any stored thresholds, zero and negative ones included.                         *)
THEOREM TypeCorrect == Spec => []TypeOK
<1>1. IInv => TypeOK
  BY DEF IInv
<1> QED BY <1>1, AlwaysGood, PTL

(* The panel, replaying the announced events of Step and moveRows in order, always *)
(* shows the state mon-server stores.                                              *)
THEOREM FeedFollowsRow == Spec => []PanelAgrees
<1>1. IInv => PanelAgrees
  BY DEF IInv, PanelAgrees
<1> QED BY <1>1, AlwaysGood, PTL

(* A hold is pending exactly while the row is FLAPPING, and such a row has counted *)
(* a result, so derivedState never has to guess.                                   *)
THEOREM HoldMatchesState == Spec => []HoldIffFlapping
<1>1. IInv => HoldIffFlapping
  BY DEF IInv, Good, HoldFits, HoldIffFlapping
<1> QED BY <1>1, AlwaysGood, PTL

(* The reason stored with a row always belongs to the state it is in: a working    *)
(* target has none, a DOWN one has a diagnosis, also when it leaves FLAPPING.      *)
THEOREM ReasonMatchesState == Spec => []ReasonFitsState
<1>1. IInv => ReasonFitsState
  BY DEF IInv, Good, ReasonFits, ReasonFitsState
<1> QED BY <1>1, AlwaysGood, PTL

(* The three facts of one row together: feed, hold and reason are never at odds    *)
(* with the state Step and moveRows stored.                                        *)
THEOREM RowStaysConsistent == Spec => []RowIsConsistent
<1>1. PanelAgrees /\ HoldIffFlapping /\ ReasonFitsState => RowIsConsistent
  BY DEF RowIsConsistent
<1> QED BY <1>1, FeedFollowsRow, HoldMatchesState, ReasonMatchesState, PTL

-----------------------------------------------------------------------------
(* What one result may do to the window, the hold and the streaks *)

Events(evs) == {evs[i] : i \in DOMAIN evs}

LEMMA FeedTerms ==
    ASSUME NEW evs
    PROVE  /\ Flips(evs) <=> \E e \in Events(evs) : e.from \in UpDown /\ e.to \in UpDown \cup {"FLAPPING"}
           /\ LoudlyFlips(evs) <=>
                \E e \in Events(evs) : e.from \in UpDown /\ e.to \in UpDown /\ ~e.silent
           /\ EndsHold(evs) <=> \E e \in Events(evs) : e.from = "FLAPPING" /\ ~e.silent
BY DEF Flips, LoudlyFlips, EndsHold, Events

LEMMA EventsOfFew ==
    ASSUME NEW h, NEW e
    PROVE  /\ Events(<< >>) = {} /\ Events(<<h>>) = {h}
           /\ Events(Append(<< >>, e)) = {e} /\ Events(Append(<<h>>, e)) = {h, e}
<1>1. Events(<< >>) = {} /\ Events(<<h>>) = {h}
  BY DEF Events
<1>2. Events(Append(<< >>, e)) = {e}
  <2>1. Append(<< >>, e) = <<e>>
    OBVIOUS
  <2> QED BY <2>1 DEF Events
<1>3. Events(Append(<<h>>, e)) = {h, e}
  <2>1. <<h>> \in Seq({h, e}) /\ e \in {h, e}
    OBVIOUS
  <2>2. /\ DOMAIN Append(<<h>>, e) = 1..2
        /\ Append(<<h>>, e)[1] = h /\ Append(<<h>>, e)[2] = e
    BY <2>1
  <2> QED BY <2>2 DEF Events
<1> QED BY <1>1, <1>2, <1>3

BaseWindow(r, t) == IF HoldExpired(r, t) THEN {} ELSE r.window

\* The result is counted.
Counts(r, res, out) ==
    /\ out.row.ok   = IF Succeeded(res) THEN r.ok + 1 ELSE 0
    /\ out.row.fail = IF Succeeded(res) THEN 0 ELSE r.fail + 1

\* No UP<->DOWN transition: the window stays, and so does a hold.
Still(r, t, out) ==
    /\ ~Flips(out.evs) /\ ~LoudlyFlips(out.evs)
    /\ out.row.window = BaseWindow(r, t)
    /\ out.row.state = "FLAPPING" =>
         r.state = "FLAPPING" /\ ~HoldExpired(r, t) /\ out.row.until = r.until

\* An UP<->DOWN transition: it is stamped, and either it ends or continues in
\* FLAPPING, with a new hold, or the window still has room.
Turned(r, limits, t, out) ==
    /\ Flips(out.evs)
    /\ out.row.window = RecordTransition(BaseWindow(r, t), t, limits.flapMin)
    /\ \/ /\ out.row.state = "FLAPPING" /\ out.row.until = t + limits.flapHold
          /\ ~LoudlyFlips(out.evs)
          /\ r.state # "FLAPPING" => Flaps(out.row.window, limits)
       \/ out.row.state # "FLAPPING" /\ ~Flaps(out.row.window, limits)

\* Outside FLAPPING the streak decides.
StreakSays(r, limits, out) ==
    /\ r.state \in {"UP", "UNKNOWN"} /\ out.row.state = "DOWN" => out.row.fail >= limits.downAfter
    /\ r.state = "DOWN" /\ out.row.state = "UP" => out.row.ok >= limits.upAfter
    /\ r.state = "UNKNOWN" /\ out.row.ok > 0 => out.row.state = "UP"

StepSays(r, limits, res, t, out) ==
    /\ EndsHold(out.evs) <=> HoldExpired(r, t)
    /\ r.state = "FLAPPING" /\ out.row.state # "FLAPPING" => HoldExpired(r, t)
    /\ Counts(r, res, out)
    /\ Still(r, t, out) \/ Turned(r, limits, t, out)
    /\ StreakSays(r, limits, out)

LEMMA SettledKeeps ==
    ASSUME NEW r, Good(r), NEW limits, NEW t \in Nat
    PROVE  /\ Settled(r, limits, t).ok = r.ok
           /\ Settled(r, limits, t).fail = r.fail
           /\ Settled(r, limits, t).window = BaseWindow(r, t)
           /\ HoldExpired(r, t) => r.state = "FLAPPING" /\ Settled(r, limits, t).state \in UpDown
           /\ ~HoldExpired(r, t) => Settled(r, limits, t) = r
<1>1. CASE HoldExpired(r, t)
  <2> DEFINE to   == DerivedState(r, limits)
             why  == IF to = "UP" THEN "" ELSE LastFailureReason(r.reason)
             base == EndHold(r, limits, t)
  <2>1. base = [r EXCEPT !.state = to, !.since = t, !.until = NoHold, !.window = {}, !.reason = why]
    BY DEF EndHold
  <2>2. to \in UpDown
    BY DerivedIsUpDown
  <2> HIDE DEF to, why, base
  <2>3. base.ok = r.ok /\ base.fail = r.fail /\ base.window = {} /\ base.state = to
    BY <2>1 DEF Good, Row
  <2> QED BY <1>1, <2>2, <2>3 DEF Settled, BaseWindow, HoldExpired, base
<1>2. CASE ~HoldExpired(r, t)
  BY <1>2 DEF Settled, BaseWindow
<1> QED BY <1>1, <1>2

LEMMA CountKeeps ==
    ASSUME NEW r, r \in Row, NEW res
    PROVE  LET next == Count(r, res)
           IN  /\ next.ok   = IF Succeeded(res) THEN r.ok + 1 ELSE 0
               /\ next.fail = IF Succeeded(res) THEN 0 ELSE r.fail + 1
               /\ next.window = r.window /\ next.until = r.until /\ next.state = r.state
               /\ next \in Row
<1>1. r.ok \in Nat /\ r.fail \in Nat /\ r.ok + 1 \in Nat /\ r.fail + 1 \in Nat
  <2>1. r.ok \in Nat /\ r.fail \in Nat
    BY DEF Row
  <2> QED BY <2>1
<1>2. CASE Succeeded(res)
  <2> DEFINE next == Count(r, res)
  <2>1. next = [r EXCEPT !.ok = r.ok + 1, !.fail = 0]
    BY <1>2 DEF Count
  <2> HIDE DEF next
  <2>2. /\ next.ok = r.ok + 1 /\ next.fail = 0 /\ next.window = r.window
        /\ next.until = r.until /\ next.state = r.state
    BY <2>1 DEF Row
  <2>3. next \in Row
    BY <1>1, <2>1 DEF Row
  <2> QED BY <1>2, <2>2, <2>3 DEF next
<1>3. CASE ~Succeeded(res)
  <2> DEFINE next == Count(r, res)
  <2>1. next = [r EXCEPT !.fail = r.fail + 1, !.ok = 0]
    BY <1>3 DEF Count
  <2> HIDE DEF next
  <2>2. /\ next.fail = r.fail + 1 /\ next.ok = 0 /\ next.window = r.window
        /\ next.until = r.until /\ next.state = r.state
    BY <2>1 DEF Row
  <2>3. next \in Row
    BY <1>1, <2>1 DEF Row
  <2> QED BY <1>3, <2>2, <2>3 DEF next
<1> QED BY <1>2, <1>3

LEMMA StepSaysSo ==
    ASSUME NEW r, Good(r), r.state # "PAUSED", NEW limits \in Thresholds,
           NEW res \in Outcomes, NEW t \in Nat
    PROVE  StepSays(r, limits, res, t, Step(r, limits, res, t))
<1> DEFINE base    == Settled(r, limits, t)
           evs     == HoldEvents(r, limits, t)
           counted == Count(base, res)
           want    == Wanted(counted, limits, res)
           out     == Step(r, limits, res, t)
           window  == RecordTransition(counted.window, t, limits.flapMin)
<1> SUFFICES StepSays(r, limits, res, t, out)
  OBVIOUS
<1>1. /\ Good(base) /\ base.state # "PAUSED" /\ base.ok = r.ok /\ base.fail = r.fail
      /\ base.window = BaseWindow(r, t)
      /\ HoldExpired(r, t) => r.state = "FLAPPING" /\ base.state \in UpDown
      /\ ~HoldExpired(r, t) => base = r
      /\ evs = IF HoldExpired(r, t)
               THEN <<Transition("FLAPPING", base.state,
                        IF base.state = "DOWN" THEN LastFailureReason(r.reason)
                                               ELSE "recovered", FALSE)>>
               ELSE << >>
  <2>1. /\ Good(base) /\ base.state # "PAUSED"
        /\ evs = IF HoldExpired(r, t)
                 THEN <<Transition("FLAPPING", base.state,
                          IF base.state = "DOWN" THEN LastFailureReason(r.reason)
                                                 ELSE "recovered", FALSE)>>
                 ELSE << >>
    BY SettledIsGood
  <2>2. /\ base.ok = r.ok /\ base.fail = r.fail /\ base.window = BaseWindow(r, t)
        /\ HoldExpired(r, t) => r.state = "FLAPPING" /\ base.state \in UpDown
        /\ ~HoldExpired(r, t) => base = r
    BY SettledKeeps
  <2> QED BY <2>1, <2>2
<1>2. out = IF counted.state = "FLAPPING"
            THEN Flip(counted, DerivedState(r, limits), limits, res, t, evs)
            ELSE IF want = counted.state THEN [row |-> counted, evs |-> evs]
            ELSE Move(counted, want, limits, res, t, evs)
  BY DEF Step, Settled
<1>3. /\ counted \in Row /\ counted.state = base.state /\ counted.until = base.until
      /\ counted.window = base.window
      /\ counted.ok   = IF Succeeded(res) THEN r.ok + 1 ELSE 0
      /\ counted.fail = IF Succeeded(res) THEN 0 ELSE r.fail + 1
  <2>1. base \in Row
    BY <1>1 DEF Good
  <2> HIDE DEF base
  <2> QED BY <1>1, <2>1, CountKeeps
<1>4. /\ \A e \in Events(evs) : e.from = "FLAPPING" /\ ~e.silent
      /\ Events(evs) # {} <=> HoldExpired(r, t)
      /\ \A e : Events(Append(evs, e)) = Events(evs) \cup {e}
  <2>1. CASE HoldExpired(r, t)
    <3>1. PICK h : evs = <<h>> /\ h.from = "FLAPPING" /\ ~h.silent
      BY <1>1, <2>1 DEF Transition
    <3> QED BY <2>1, <3>1, EventsOfFew
  <2>2. CASE ~HoldExpired(r, t)
    BY <1>1, <2>2, EventsOfFew
  <2> QED BY <2>1, <2>2
<1> HIDE DEF base, evs, counted, want, out, window
<1>5. CASE counted.state = "FLAPPING"
  <2>0. r.state = "FLAPPING" /\ ~HoldExpired(r, t) /\ base = r
    BY <1>1, <1>3, <1>5 DEF UpDown
  <2> DEFINE was == DerivedState(r, limits)
             is  == DerivedState(counted, limits)
             ev  == Transition(was, is, EventReason(res), TRUE)
  <2>1. out = Flip(counted, was, limits, res, t, evs) /\ was \in UpDown /\ is \in UpDown
    BY <1>2, <1>5, DerivedIsUpDown
  <2>2. CASE is = was
    <3>1. out.row = counted /\ out.evs = evs
      BY <2>1, <2>2 DEF Flip
    <3>2. ~Flips(out.evs) /\ ~LoudlyFlips(out.evs) /\ (EndsHold(out.evs) <=> HoldExpired(r, t))
      BY <1>4, <3>1, FeedTerms DEF UpDown
    <3>3. Still(r, t, out)
      BY <1>1, <1>3, <2>0, <3>1, <3>2 DEF Still
    <3>4. Counts(r, res, out)
      BY <1>3, <3>1 DEF Counts
    <3>5. StreakSays(r, limits, out)
      BY <2>0 DEF StreakSays
    <3>6. out.row.state = "FLAPPING"
      BY <1>5, <3>1
    <3> QED BY <3>2, <3>3, <3>4, <3>5, <3>6 DEF StepSays
  <2>3. CASE is # was
    <3>1. /\ out.row = [counted EXCEPT !.window = window, !.until = t + limits.flapHold, !.reason = res]
          /\ out.evs = Append(evs, ev)
      BY <2>1, <2>3 DEF Flip, window
    <3>2. /\ out.row.window = window /\ out.row.until = t + limits.flapHold
          /\ out.row.state = "FLAPPING" /\ out.row.ok = counted.ok /\ out.row.fail = counted.fail
      BY <1>3, <1>5, <3>1 DEF Row
    <3>3. ev.from \in UpDown /\ ev.to \in UpDown /\ ev.silent
      BY <2>1 DEF Transition
    <3> HIDE DEF ev, was, is
    <3>4. Flips(out.evs) /\ ~LoudlyFlips(out.evs) /\ ~EndsHold(out.evs)
      BY <1>4, <2>0, <3>1, <3>3, FeedTerms DEF UpDown
    <3>5. Turned(r, limits, t, out)
      BY <1>1, <1>3, <2>0, <3>2, <3>4 DEF Turned, window
    <3>6. Counts(r, res, out)
      BY <1>3, <3>2 DEF Counts
    <3>7. StreakSays(r, limits, out)
      BY <2>0 DEF StreakSays
    <3> QED BY <2>0, <3>2, <3>4, <3>5, <3>6, <3>7 DEF StepSays
  <2> QED BY <2>2, <2>3
<1>6. CASE counted.state # "FLAPPING" /\ want = counted.state
  <2>1. out.row = counted /\ out.evs = evs
    BY <1>2, <1>6
  <2>2. ~Flips(out.evs) /\ ~LoudlyFlips(out.evs) /\ (EndsHold(out.evs) <=> HoldExpired(r, t))
    BY <1>4, <2>1, FeedTerms DEF UpDown
  <2>3. r.state # "FLAPPING" => counted.state = r.state
    BY <1>1, <1>3
  <2>4. r.state = "FLAPPING" => HoldExpired(r, t)
    BY <1>1, <1>3, <1>6
  <2>5. Still(r, t, out)
    BY <1>1, <1>3, <1>6, <2>1, <2>2 DEF Still
  <2>6. Counts(r, res, out)
    BY <1>3, <2>1 DEF Counts
  <2>7. StreakSays(r, limits, out)
    <3>1. ASSUME r.state = "UNKNOWN" PROVE out.row.ok = 0
      <4>1. counted.state = "UNKNOWN"
        BY <2>3, <3>1
      <4>2. ~Succeeded(res)
        BY <1>6, <4>1 DEF want, Wanted
      <4> QED BY <1>3, <2>1, <4>2
    <3> QED BY <2>1, <2>3, <3>1 DEF StreakSays
  <2> QED BY <2>2, <2>4, <2>5, <2>6, <2>7 DEF StepSays
<1>7. CASE counted.state # "FLAPPING" /\ want # counted.state
  <2> DEFINE flip  == counted.state \in UpDown /\ want \in UpDown
             moved == [counted EXCEPT !.since = t, !.reason = res,
                                      !.window = IF flip THEN window ELSE counted.window]
             flap  == [moved EXCEPT !.state = "FLAPPING", !.until = t + limits.flapHold]
             plain == [moved EXCEPT !.state = want]
             evF   == Transition(counted.state, "FLAPPING", "flapping", FALSE)
             evP   == Transition(counted.state, want, EventReason(res), FALSE)
  <2>1. /\ flip /\ Flaps(window, limits) => out.row = flap /\ out.evs = Append(evs, evF)
        /\ ~(flip /\ Flaps(window, limits)) => out.row = plain /\ out.evs = Append(evs, evP)
    BY <1>2, <1>7 DEF Move, window
  <2>2. /\ want \in UpDown
        /\ want = "UP" => counted.state = "UNKNOWN" \/ counted.ok >= limits.upAfter
        /\ want = "DOWN" => counted.fail >= limits.downAfter
    BY <1>7 DEF want, Wanted, UpDown
  <2>3. /\ moved.ok = counted.ok /\ moved.fail = counted.fail /\ moved.until = counted.until
        /\ moved.window = (IF flip THEN window ELSE counted.window)
        /\ flap.state = "FLAPPING" /\ flap.until = t + limits.flapHold /\ flap.window = moved.window
        /\ flap.ok = counted.ok /\ flap.fail = counted.fail
        /\ plain.state = want /\ plain.window = moved.window
        /\ plain.ok = counted.ok /\ plain.fail = counted.fail
    BY <1>3 DEF Row
  <2>4. /\ evF.from = counted.state /\ evF.to = "FLAPPING" /\ ~evF.silent
        /\ evP.from = counted.state /\ evP.to = want /\ ~evP.silent
    BY DEF Transition
  <2>5. /\ r.state = "FLAPPING" => HoldExpired(r, t)
        /\ r.state # "FLAPPING" => counted.state = r.state
    BY <1>1, <1>3, <1>7
  <2> HIDE DEF moved, flap, plain, evF, evP
  <2>6. CASE flip /\ Flaps(window, limits)
    <3>1. out.row = flap /\ out.evs = Append(evs, evF)
      BY <2>1, <2>6
    <3>2. Flips(out.evs) /\ ~LoudlyFlips(out.evs) /\ (EndsHold(out.evs) <=> HoldExpired(r, t))
      BY <1>4, <1>7, <2>4, <2>6, <3>1, FeedTerms DEF UpDown
    <3>3. Turned(r, limits, t, out)
      BY <1>1, <1>3, <2>3, <2>6, <3>1, <3>2 DEF Turned, window
    <3>4. Counts(r, res, out)
      BY <1>3, <2>3, <3>1 DEF Counts
    <3>5. StreakSays(r, limits, out)
      BY <2>3, <2>5, <2>6, <3>1 DEF StreakSays, UpDown
    <3> QED BY <2>5, <3>2, <3>3, <3>4, <3>5 DEF StepSays
  <2>7. CASE flip /\ ~Flaps(window, limits)
    <3>1. out.row = plain /\ out.evs = Append(evs, evP)
      BY <2>1, <2>7
    <3>2. Flips(out.evs) /\ (EndsHold(out.evs) <=> HoldExpired(r, t))
      BY <1>4, <1>7, <2>4, <2>7, <3>1, FeedTerms DEF UpDown
    <3>3. Turned(r, limits, t, out)
      BY <1>1, <1>3, <2>2, <2>3, <2>7, <3>1, <3>2 DEF Turned, window, UpDown
    <3>4. Counts(r, res, out)
      BY <1>3, <2>3, <3>1 DEF Counts
    <3>5. StreakSays(r, limits, out)
      BY <2>2, <2>3, <2>5, <2>7, <3>1 DEF StreakSays, UpDown
    <3> QED BY <2>5, <3>2, <3>3, <3>4, <3>5 DEF StepSays
  <2>8. CASE ~flip
    <3>1. out.row = plain /\ out.evs = Append(evs, evP)
      BY <2>1, <2>8
    <3>2. counted.state \notin UpDown
      BY <2>2, <2>8
    <3>3. ~Flips(out.evs) /\ ~LoudlyFlips(out.evs) /\ (EndsHold(out.evs) <=> HoldExpired(r, t))
      BY <1>4, <1>7, <2>4, <3>1, <3>2, FeedTerms DEF UpDown
    <3>4. Still(r, t, out)
      BY <1>1, <1>3, <2>2, <2>3, <2>8, <3>1, <3>3 DEF Still, UpDown
    <3>5. Counts(r, res, out)
      BY <1>3, <2>3, <3>1 DEF Counts
    <3>6. StreakSays(r, limits, out)
      <4>1. ASSUME out.row.ok > 0, r.state = "UNKNOWN" PROVE out.row.state = "UP"
        <5>1. Succeeded(res) /\ counted.state = "UNKNOWN"
          BY <1>3, <2>3, <2>5, <3>1, <4>1
        <5> QED BY <2>3, <3>1, <5>1 DEF want, Wanted
      <4> QED BY <2>2, <2>3, <2>5, <3>1, <3>2, <4>1 DEF StreakSays, UpDown
    <3> QED BY <2>5, <3>3, <3>4, <3>5, <3>6 DEF StepSays
  <2> QED BY <2>6, <2>7, <2>8
<1> QED BY <1>5, <1>6, <1>7

-----------------------------------------------------------------------------
(* The window, the hold and the streaks against the history *)

Latest(f, all) == \A e \in all : e.at <= f.at

(* The stored counters are the streaks since the row was last moved. *)
RunIsRow == run = [ok |-> row.ok, fail |-> row.fail]

(* The stored window holds nothing but transitions that happened. *)
WindowOfFlips ==
    /\ IsFiniteSet(row.window) /\ IsFiniteSet(flips)
    /\ \A f \in flips : f.at <= now
    /\ \A x \in row.window : \E f \in flips : f.at = x

(* The stored hold is the one of the latest transition. *)
HoldOfLatest == row.state = "FLAPPING" => \A f \in flips : Latest(f, flips) => f.until = row.until

(* No announced transition that still counts has been dropped from the window. *)
LoudInWindow == \A x \in loud : x > now - th.flapMin => x \in row.window

(* Fewer than flapN of them are loud: what the window and Flaps are for.  With     *)
(* IInv, of which nothing here is needed but the types, this is inductive.         *)
HInv == RunIsRow /\ WindowOfFlips /\ HoldOfLatest /\ LoudInWindow /\ LoudFlipsBounded

LEMMA SpanIsNat ==
    ASSUME NEW limits \in Thresholds
    PROVE  /\ limits.flapMin \in Nat /\ limits.flapMin > 0
           /\ limits.flapN \in Nat /\ limits.flapN > 0
           /\ limits.flapHold \in Nat
BY DEF Thresholds

LEMMA WindowIsFinite ==
    ASSUME NEW window, IsFiniteSet(window), NEW t, NEW span
    PROVE  IsFiniteSet(RecordTransition(window, t, span))
<1>1. {ts \in window : ts > t - span} \subseteq window
  OBVIOUS
<1>2. IsFiniteSet({ts \in window : ts > t - span})
  BY <1>1, FS_Subset
<1> QED BY <1>2, FS_AddElement DEF RecordTransition

LEMMA FewerStillFew ==
    ASSUME NEW all, IsFiniteSet(all), NEW some \in SUBSET all, NEW n \in Nat,
           Cardinality(all) < n
    PROVE  Cardinality(some) < n
<1>1. IsFiniteSet(some) /\ Cardinality(some) <= Cardinality(all)
  BY FS_Subset
<1>2. Cardinality(some) \in Nat /\ Cardinality(all) \in Nat
  BY <1>1, FS_CardinalityType
<1> QED BY <1>1, <1>2

(* Announced transitions only grow old. *)
LEMMA OldOnesStayFew ==
    ASSUME IInv, HInv, now' \in Nat, now' >= now, th' = th, loud' \subseteq loud
    PROVE  /\ \A x \in loud' : x > now' - th'.flapMin => x > now - th.flapMin
           /\ LoudFlipsBounded'
<1>1. IsFiniteSet({x \in loud : x > now - th.flapMin})
  <2>1. {x \in loud : x > now - th.flapMin} \subseteq row.window
    BY DEF HInv, LoudInWindow
  <2> QED BY <2>1, FS_Subset DEF HInv, WindowOfFlips
<1>2. /\ th.flapMin \in Nat /\ th.flapN \in Nat /\ now \in Nat /\ loud \subseteq Nat
  BY ThresholdsInForce, SpanIsNat DEF IInv, TypeOK
<1>3. ASSUME NEW x \in loud', x > now' - th'.flapMin PROVE x > now - th.flapMin
  <2>1. x \in Nat
    BY <1>2
  <2> QED BY <1>2, <1>3, <2>1
<1>4. {x \in loud' : x > now' - th'.flapMin} \subseteq {x \in loud : x > now - th.flapMin}
  BY <1>3
<1>5. Cardinality({x \in loud : x > now - th.flapMin}) < th.flapN
  BY DEF HInv, LoudFlipsBounded
<1> QED BY <1>1, <1>2, <1>3, <1>4, <1>5, FewerStillFew DEF LoudFlipsBounded

(* What Result does, with the end of a hold taken apart from the rest. *)
Ended(stamps, r, t) == IF HoldExpired(r, t) THEN {} ELSE stamps

LEMMA ResultSays ==
    ASSUME IInv, NEW g \in Gaps, NEW res \in Outcomes, Result(res, g)
    PROVE  \E t, out :
             /\ t \in Nat /\ t > now /\ now' = t /\ th' = th /\ row.state # "PAUSED"
             /\ row' = out.row /\ StepSays(row, th, res, t, out)
             /\ run' = Extend(run, res)
             /\ loud' = Ended(loud, row, t) \cup (IF LoudlyFlips(out.evs) THEN {t} ELSE {})
             /\ flips' = Ended(flips, row, t) \cup
                  (IF Flips(out.evs) THEN {[at |-> t, until |-> t + th.flapHold]} ELSE {})
<1> DEFINE t == now + g
           out == Step(row, th, res, t)
<1>1. t \in Nat /\ t > now
  <2>1. g \in Nat /\ g > 0
    BY MachineAssumption
  <2> QED BY <2>1 DEF IInv, TypeOK
<1>2. StepSays(row, th, res, t, out)
  BY <1>1, StepSaysSo, ThresholdsInForce DEF IInv, TypeOK, Result
<1>3. /\ now' = t /\ th' = th /\ row.state # "PAUSED" /\ row' = out.row /\ run' = Extend(run, res)
      /\ loud' = Stamp(loud, out.evs, IF LoudlyFlips(out.evs) THEN {t} ELSE {})
      /\ flips' = Stamp(flips, out.evs,
            IF Flips(out.evs) THEN {[at |-> t, until |-> t + th.flapHold]} ELSE {})
  BY DEF Result, Pass, th
<1> HIDE DEF t, out
<1>4. EndsHold(out.evs) <=> HoldExpired(row, t)
  BY <1>2 DEF StepSays
<1>5. /\ loud' = Ended(loud, row, t) \cup (IF LoudlyFlips(out.evs) THEN {t} ELSE {})
      /\ flips' = Ended(flips, row, t) \cup
            (IF Flips(out.evs) THEN {[at |-> t, until |-> t + th.flapHold]} ELSE {})
  BY <1>3, <1>4 DEF Stamp, Ended
<1> QED BY <1>1, <1>2, <1>3, <1>5

LEMMA ResultHistory ==
    ASSUME IInv, HInv, NEW g \in Gaps, NEW res \in Outcomes, Result(res, g)
    PROVE  HInv'
<1>1. PICK t, out :
             /\ t \in Nat /\ t > now /\ now' = t /\ th' = th /\ row.state # "PAUSED"
             /\ row' = out.row /\ StepSays(row, th, res, t, out)
             /\ run' = Extend(run, res)
             /\ loud' = Ended(loud, row, t) \cup (IF LoudlyFlips(out.evs) THEN {t} ELSE {})
             /\ flips' = Ended(flips, row, t) \cup
                  (IF Flips(out.evs) THEN {[at |-> t, until |-> t + th.flapHold]} ELSE {})
  BY ResultSays
<1> DEFINE window == BaseWindow(row, t)
           flown  == Ended(flips, row, t)
           heard  == Ended(loud, row, t)
           new    == [at |-> t, until |-> t + th.flapHold]
<1>2. /\ IsFiniteSet(window) /\ IsFiniteSet(flown)
      /\ \A f \in flown : f.at \in Nat /\ f.at <= now
      /\ \A x \in window : x \in Nat /\ \E f \in flown : f.at = x
      /\ \A x \in heard : x \in Nat /\ (x > now - th.flapMin => x \in window)
      /\ heard \subseteq loud
  <2>1. CASE HoldExpired(row, t)
    BY <2>1, FS_EmptySet DEF BaseWindow, Ended
  <2>2. CASE ~HoldExpired(row, t)
    BY <2>2 DEF BaseWindow, Ended, HInv, WindowOfFlips, LoudInWindow, IInv, TypeOK, Good, Row
  <2> QED BY <2>1, <2>2
<1>3. th \in Thresholds /\ now \in Nat /\ loud \subseteq Nat
  BY ThresholdsInForce DEF IInv, TypeOK
<1>4. /\ th.flapMin \in Nat /\ th.flapMin > 0 /\ th.flapN \in Nat /\ th.flapN > 0
      /\ th.flapHold \in Nat
  BY <1>3, SpanIsNat
<1>5. /\ now' \in Nat /\ now' >= now /\ th' = th
      /\ heard \subseteq loud
  BY <1>1, <1>2, <1>3
<1>6. RunIsRow'
  <2>1. out.row.ok = (IF Succeeded(res) THEN row.ok + 1 ELSE 0)
        /\ out.row.fail = (IF Succeeded(res) THEN 0 ELSE row.fail + 1)
    BY <1>1 DEF StepSays, Counts
  <2>2. run.ok = row.ok /\ run.fail = row.fail
    BY DEF HInv, RunIsRow
  <2> QED BY <1>1, <2>1, <2>2 DEF RunIsRow, Extend
<1>7. CASE Still(row, t, out)
  <2>1. /\ row'.window = window /\ flips' = flown /\ loud' = heard
        /\ row'.state = "FLAPPING" =>
             row.state = "FLAPPING" /\ ~HoldExpired(row, t) /\ row'.until = row.until
    BY <1>1, <1>7 DEF Still
  <2> HIDE DEF window, flown, heard
  <2>2. WindowOfFlips'
    <3>1. ASSUME NEW f \in flips' PROVE f.at <= now'
      BY <1>1, <1>2, <1>3, <2>1
    <3>2. ASSUME NEW x \in row'.window PROVE \E f \in flips' : f.at = x
      BY <1>2, <2>1
    <3> QED BY <1>2, <2>1, <3>1, <3>2 DEF WindowOfFlips
  <2>3. HoldOfLatest'
    BY <2>1 DEF HoldOfLatest, HInv, Latest, flown, Ended
  <2>4. /\ \A x \in loud' : x > now' - th'.flapMin => x > now - th.flapMin
        /\ LoudFlipsBounded'
    BY <1>5, <2>1, OldOnesStayFew
  <2>5. LoudInWindow'
    <3>1. ASSUME NEW x \in loud', x > now' - th'.flapMin PROVE x \in row'.window
      <4>1. x > now - th.flapMin
        BY <2>4, <3>1
      <4> QED BY <1>2, <2>1, <4>1
    <3> QED BY <3>1 DEF LoudInWindow
  <2> QED BY <1>6, <2>2, <2>3, <2>4, <2>5 DEF HInv
<1>8. CASE Turned(row, th, t, out)
  <2>1. /\ row'.window = RecordTransition(window, t, th.flapMin) /\ flips' = flown \cup {new}
        /\ loud' \subseteq heard \cup {t}
        /\ \/ row'.state = "FLAPPING" /\ row'.until = t + th.flapHold /\ loud' = heard
           \/ row'.state # "FLAPPING" /\ ~Flaps(row'.window, th)
    BY <1>1, <1>8 DEF Turned
  <2>2. new.at = t /\ new.until = t + th.flapHold
    OBVIOUS
  <2> HIDE DEF window, flown, heard, new
  <2>3. \A x \in loud' : x > now' - th'.flapMin =>
           \/ x = t
           \/ x \in heard /\ x \in window /\ x > t - th.flapMin /\ x > now - th.flapMin
    BY <1>1, <1>2, <1>3, <1>4, <2>1
  <2>4. IsFiniteSet(row'.window) /\ \A x : x \in row'.window <=>
           x = t \/ (x \in window /\ x > t - th.flapMin)
    BY <1>2, <2>1, WindowIsFinite DEF RecordTransition
  <2>5. WindowOfFlips'
    <3>1. IsFiniteSet(flips')
      BY <1>2, <2>1, FS_AddElement
    <3>2. ASSUME NEW f \in flips' PROVE f.at <= now'
      BY <1>1, <1>2, <1>3, <2>1, <2>2
    <3>3. ASSUME NEW x \in row'.window PROVE \E f \in flips' : f.at = x
      BY <1>2, <2>1, <2>2, <2>4
    <3> QED BY <2>4, <3>1, <3>2, <3>3 DEF WindowOfFlips
  <2>6. HoldOfLatest'
    <3> SUFFICES ASSUME row'.state = "FLAPPING", NEW f \in flips', Latest(f, flips')
                 PROVE  f.until = row'.until
      BY DEF HoldOfLatest
    <3>1. t <= f.at
      BY <2>1, <2>2 DEF Latest
    <3>2. f = new
      BY <1>1, <1>2, <1>3, <2>1, <3>1
    <3> QED BY <2>1, <2>2, <3>2
  <2>7. LoudInWindow'
    <3>1. ASSUME NEW x \in loud', x > now' - th'.flapMin PROVE x \in row'.window
      BY <2>3, <2>4, <3>1
    <3> QED BY <3>1 DEF LoudInWindow
  <2>8. LoudFlipsBounded'
    <3>1. CASE loud' = heard
      BY <1>5, <3>1, OldOnesStayFew
    <3>2. CASE ~Flaps(row'.window, th)
      <4>1. {x \in loud' : x > now' - th'.flapMin} \subseteq row'.window
        BY <2>3, <2>4
      <4>2. Cardinality(row'.window) < th.flapN
        <5>1. Cardinality(row'.window) \in Nat
          BY <2>4, FS_CardinalityType
        <5> QED BY <1>4, <3>2, <5>1 DEF Flaps
      <4> QED BY <1>1, <1>4, <2>4, <4>1, <4>2, FewerStillFew DEF LoudFlipsBounded
    <3> QED BY <2>1, <3>1, <3>2
  <2> QED BY <1>6, <2>5, <2>6, <2>7, <2>8 DEF HInv
<1> QED BY <1>1, <1>7, <1>8 DEF StepSays

LEMMA MoveToHistory ==
    ASSUME IInv, HInv, NEW g \in Gaps, NEW to \in {"PAUSED", "UNKNOWN"}, NEW reason \in MoveReasons,
           MoveTo(to, reason, g)
    PROVE  HInv'
<1>1. now' \in Nat /\ now' >= now /\ now \in Nat
  <2>1. g \in Nat
    BY MachineAssumption
  <2> QED BY <2>1 DEF MoveTo, Pass, IInv, TypeOK
<1>2. row' = [row EXCEPT !.state = to, !.since = now + g, !.reason = reason,
                         !.ok = 0, !.fail = 0, !.until = NoHold]
  BY DEF MoveTo, MoveRow
<1>3. row \in Row
  BY DEF IInv, TypeOK
<1>4. row'.state = to /\ row'.window = row.window /\ row'.ok = 0 /\ row'.fail = 0
  BY <1>2, <1>3 DEF Row
<1>5. run' = NoRun /\ loud' = loud /\ flips' = flips /\ th' = th
  BY DEF MoveTo, th
<1>6. RunIsRow'
  BY <1>4, <1>5 DEF RunIsRow, NoRun
<1>7. WindowOfFlips'
  <2>1. ASSUME NEW f \in flips' PROVE f.at <= now'
    <3>1. f.at \in Nat /\ f.at <= now
      BY <1>5 DEF HInv, WindowOfFlips, IInv, TypeOK
    <3> QED BY <1>1, <3>1
  <2> QED BY <1>4, <1>5, <2>1 DEF HInv, WindowOfFlips
<1>8. HoldOfLatest'
  BY <1>4 DEF HoldOfLatest
<1>9. LoudInWindow' /\ LoudFlipsBounded'
  BY <1>1, <1>4, <1>5, OldOnesStayFew DEF HInv, LoudInWindow
<1> QED BY <1>6, <1>7, <1>8, <1>9 DEF HInv

LEMMA NoneIsFew == settings \in Settings /\ loud = {} => LoudInWindow /\ LoudFlipsBounded
<1> SUFFICES ASSUME settings \in Settings, loud = {}
             PROVE  LoudInWindow /\ LoudFlipsBounded
  OBVIOUS
<1>1. {x \in loud : x > now - th.flapMin} = {}
  OBVIOUS
<1>2. th.flapN \in Nat /\ th.flapN > 0
  BY ThresholdsInForce, SpanIsNat
<1> QED BY <1>1, <1>2, FS_EmptySet DEF LoudInWindow, LoudFlipsBounded

LEMMA InitHistory == Init => HInv
<1> SUFFICES ASSUME Init PROVE HInv
  OBVIOUS
<1>1. RunIsRow /\ WindowOfFlips /\ HoldOfLatest
  BY FS_EmptySet DEF Init, NewRow, NoRun, RunIsRow, WindowOfFlips, HoldOfLatest
<1>2. LoudInWindow /\ LoudFlipsBounded
  BY NoneIsFew DEF Init
<1> QED BY <1>1, <1>2 DEF HInv

LEMMA StepHistory == IInv /\ HInv /\ [Next]_vars => HInv'
<1> SUFFICES ASSUME IInv, HInv, [Next]_vars PROVE HInv'
  OBVIOUS
<1> USE MachineAssumption
<1>1. ASSUME NEW g \in Gaps, NEW res \in Outcomes, Result(res, g) PROVE HInv'
  BY <1>1, ResultHistory
<1>2. ASSUME NEW g \in Gaps, NEW res \in Outcomes, StaleResult(res, g) PROVE HInv'
  <2>1. row' = row /\ UNCHANGED <<run, loud, flips>> /\ th' = th
    BY <1>2 DEF StaleResult, Step, hist, th
  <2>2. now' \in Nat /\ now' >= now /\ now \in Nat
    <3>1. g \in Nat
      OBVIOUS
    <3> QED BY <1>2, <3>1 DEF StaleResult, Pass, IInv, TypeOK
  <2>3. WindowOfFlips'
    <3>1. ASSUME NEW f \in flips' PROVE f.at <= now'
      <4>1. f.at \in Nat /\ f.at <= now
        BY <2>1 DEF HInv, WindowOfFlips, IInv, TypeOK
      <4> QED BY <2>2, <4>1
    <3> QED BY <2>1, <3>1 DEF HInv, WindowOfFlips
  <2>4. LoudInWindow' /\ LoudFlipsBounded'
    BY <2>1, <2>2, OldOnesStayFew DEF HInv, LoudInWindow
  <2> QED BY <2>1, <2>3, <2>4 DEF HInv, RunIsRow, HoldOfLatest
<1>3. ASSUME NEW g \in Gaps, Pause(g) PROVE HInv'
  BY <1>3, MoveToHistory DEF Pause
<1>4. ASSUME NEW g \in Gaps, Release(g) PROVE HInv'
  BY <1>4, MoveToHistory DEF Release
<1>5. ASSUME NEW g \in Gaps, MonClientOffline(g) PROVE HInv'
  BY <1>5, MoveToHistory DEF MonClientOffline
<1>6. CASE ChangeSettings
  <2>1. LoudInWindow' /\ LoudFlipsBounded'
    <3>1. (settings \in Settings /\ loud = {})'
      BY <1>6 DEF ChangeSettings
    <3> QED BY <3>1, NoneIsFew, PTL
  <2> QED BY <1>6, <2>1 DEF ChangeSettings, HInv, RunIsRow, WindowOfFlips, HoldOfLatest
<1>7. CASE Horizon \/ UNCHANGED vars
  BY <1>7 DEF Horizon, vars, hist, th, HInv, RunIsRow, WindowOfFlips, HoldOfLatest, LoudInWindow,
              LoudFlipsBounded
<1> QED BY <1>1, <1>2, <1>3, <1>4, <1>5, <1>6, <1>7 DEF Next

LEMMA AlwaysHistory == Spec => [](IInv /\ HInv)
<1>1. Init => IInv /\ HInv
  BY InitGood, InitHistory
<1>2. IInv /\ HInv /\ [Next]_vars => (IInv /\ HInv)'
  BY StepGood, StepHistory
<1> QED BY <1>1, <1>2, PTL DEF Spec

(* The operator is not flooded: Move and Flip enter FLAPPING before flapN          *)
(* transitions of one flapMin window have been announced, and a pause or a silence *)
(* in between (moveRows) does not start the count again.                           *)
THEOREM FloodIsBounded == Spec => []LoudFlipsBounded
<1>1. HInv => LoudFlipsBounded
  BY DEF HInv
<1> QED BY <1>1, AlwaysHistory, PTL

(* Only a result makes a row UP, DOWN or FLAPPING. *)
LEMMA OnlyResultsDecide ==
    ASSUME IInv, [Next]_vars, row'.state \notin {"UNKNOWN", "PAUSED"}, row'.state # row.state
    PROVE  \E g \in Gaps, res \in Outcomes : Result(res, g)
<1>1. ASSUME NEW g \in Gaps, NEW to \in {"UNKNOWN", "PAUSED"}, NEW reason, MoveTo(to, reason, g)
      PROVE  FALSE
  <2>1. row' = [row EXCEPT !.state = to, !.since = now + g, !.reason = reason,
                           !.ok = 0, !.fail = 0, !.until = NoHold]
    BY <1>1 DEF MoveTo, MoveRow
  <2>2. row'.state = to
    BY <2>1 DEF IInv, TypeOK, Row
  <2> QED BY <2>2
<1>2. ASSUME NEW g \in Gaps, NEW res \in Outcomes, StaleResult(res, g)
      PROVE  FALSE
  BY <1>2 DEF StaleResult, Step
<1>3. ASSUME NEW g \in Gaps, Pause(g) \/ Release(g) \/ MonClientOffline(g) PROVE FALSE
  BY <1>1, <1>3 DEF Pause, Release, MonClientOffline
<1> QED BY <1>2, <1>3 DEF Next, ChangeSettings, Horizon, vars

(* Only a result lengthens a streak. *)
LEMMA OnlyResultsCount ==
    ASSUME IInv, HInv, [Next]_vars, run'.ok > run.ok
    PROVE  \E g \in Gaps, res \in Outcomes : Result(res, g)
<1>1. run.ok \in Nat
  BY DEF HInv, RunIsRow, IInv, TypeOK, Row
<1>2. run' # run /\ run' # NoRun
  <2>1. ~(run.ok > run.ok) /\ ~(0 > run.ok)
    BY <1>1
  <2>2. NoRun.ok = 0
    BY DEF NoRun
  <2> QED BY <2>1, <2>2
<1> QED BY <1>2 DEF Next, StaleResult, Pause, Release, MonClientOffline, MoveTo, ChangeSettings,
                    Horizon, hist, vars

(* No fewer transitions than times they are stamped with. *)
LEMMA OneStampEach ==
    ASSUME NEW stamps, NEW all, IsFiniteSet(all), \A x \in stamps : \E f \in all : f.at = x
    PROVE  Cardinality(stamps) <= Cardinality(all)
<1> DEFINE of == [x \in stamps |-> CHOOSE f \in all : f.at = x]
<1>1. \A x \in stamps : of[x] \in all /\ of[x].at = x
  OBVIOUS
<1>2. of \in [stamps -> all]
  BY <1>1
<1> HIDE DEF of
<1>3. of \in Injection(stamps, all)
  BY <1>1, <1>2 DEF Injection, IsInjective
<1> QED BY <1>3, FS_Injection

(* FLAPPING is entered by Move alone, and only when Flaps counts flapN transitions *)
(* of one flapMin window in the pruned window: transitions that really happened.   *)
THEOREM FlapsAreEarned == Spec => FlappingIsEarned
<1>1. ASSUME IInv, HInv, HInv', [Next]_vars, row.state # "FLAPPING", row'.state = "FLAPPING"
      PROVE  Cardinality({f \in flips' : f.at > now' - th.flapMin}) >= th.flapN
  <2>1. PICK g \in Gaps, res \in Outcomes : Result(res, g)
    BY <1>1, OnlyResultsDecide
  <2>2. PICK t, out :
             /\ t \in Nat /\ t > now /\ now' = t /\ row' = out.row /\ StepSays(row, th, res, t, out)
    BY <1>1, <2>1, ResultSays
  <2>3. ~Still(row, t, out)
    BY <1>1, <2>2 DEF Still
  <2>4. /\ row'.window = RecordTransition(BaseWindow(row, t), t, th.flapMin)
        /\ Flaps(row'.window, th)
    BY <1>1, <2>2, <2>3 DEF StepSays, Turned
  <2> DEFINE recent == {f \in flips' : f.at > now' - th.flapMin}
  <2>5. IsFiniteSet(recent)
    BY <1>1, FS_Subset DEF HInv, WindowOfFlips
  <2>6. ASSUME NEW x \in row'.window PROVE \E f \in recent : f.at = x
    <3>1. PICK f \in flips' : f.at = x
      BY <1>1 DEF HInv, WindowOfFlips
    <3>2. t > t - th.flapMin
      BY <1>1, <2>2, ThresholdsInForce, SpanIsNat DEF IInv, TypeOK
    <3>3. x > now' - th.flapMin
      BY <2>2, <2>4, <3>2 DEF RecordTransition
    <3> QED BY <3>1, <3>3
  <2>7. Cardinality(row'.window) <= Cardinality(recent)
    BY <2>5, <2>6, OneStampEach
  <2>8. th.flapN \in Nat
    BY <1>1, ThresholdsInForce, SpanIsNat DEF IInv, TypeOK
  <2>9. Cardinality(row'.window) \in Nat /\ Cardinality(recent) \in Nat
    BY <1>1, <2>5, FS_CardinalityType DEF HInv, WindowOfFlips
  <2> HIDE DEF recent
  <2>10. Cardinality(recent) >= th.flapN
    BY <2>4, <2>7, <2>8, <2>9 DEF Flaps
  <2> QED BY <2>10 DEF recent
<1>2. IInv /\ HInv /\ HInv' /\ [Next]_vars =>
        [row.state # "FLAPPING" /\ row'.state = "FLAPPING"
           => Cardinality({f \in flips' : f.at > now' - th.flapMin}) >= th.flapN]_vars
  BY <1>1
<1> QED BY <1>2, AlwaysHistory, PTL DEF Spec, FlappingIsEarned

(* Step ends a hold only at flapHold, by the thresholds of the latest UP<->DOWN    *)
(* transition, the ones underneath included: FlappingUntil is never shortened by   *)
(* new thresholds, and a flip inside FLAPPING starts it again.                     *)
THEOREM HoldsAreServed == Spec => HoldIsServed
<1>1. ASSUME IInv, HInv, [Next]_vars, row.state = "FLAPPING", row'.state \in UpDown,
             NEW f \in flips, \A e \in flips : e.at <= f.at
      PROVE  now' >= f.until
  <2>1. PICK g \in Gaps, res \in Outcomes : Result(res, g)
    BY <1>1, OnlyResultsDecide DEF UpDown
  <2>2. PICK t, out :
             /\ t \in Nat /\ t > now /\ now' = t /\ row' = out.row /\ StepSays(row, th, res, t, out)
    BY <1>1, <2>1, ResultSays
  <2>3. HoldExpired(row, t)
    BY <1>1, <2>2 DEF StepSays, UpDown
  <2>4. f.until = row.until
    BY <1>1 DEF HInv, HoldOfLatest, Latest
  <2> QED BY <2>2, <2>3, <2>4 DEF HoldExpired
<1>2. IInv /\ HInv /\ [Next]_vars =>
        [row.state = "FLAPPING" /\ row'.state \in UpDown
           => \A f \in flips : (\A e \in flips : e.at <= f.at) => now' >= f.until]_vars
  BY <1>1
<1> QED BY <1>2, AlwaysHistory, PTL DEF Spec, HoldIsServed

(* Outside FLAPPING, Wanted moves a row DOWN on downAfter failures in a row and UP *)
(* from DOWN on upAfter successes in a row, all of them since moveRows last touched *)
(* the row; an UNKNOWN row is UP on its first success.                             *)
THEOREM StreaksDecide == Spec => StreakDecides
<1>1. ASSUME IInv, HInv', [Next]_vars, row'.state \in UpDown, row'.state # row.state
      PROVE  /\ row.state \in {"UP", "UNKNOWN"} /\ row'.state = "DOWN" => run'.fail >= th.downAfter
             /\ row.state = "DOWN" /\ row'.state = "UP" => run'.ok >= th.upAfter
  <2>1. PICK g \in Gaps, res \in Outcomes : Result(res, g)
    BY <1>1, OnlyResultsDecide DEF UpDown
  <2>2. PICK t, out : t \in Nat /\ row' = out.row /\ StepSays(row, th, res, t, out)
    BY <1>1, <2>1, ResultSays
  <2>3. run'.ok = row'.ok /\ run'.fail = row'.fail
    BY <1>1 DEF HInv, RunIsRow
  <2> QED BY <2>2, <2>3 DEF StepSays, StreakSays
<1>2. ASSUME IInv, HInv, HInv', [Next]_vars, row.state = "UNKNOWN", run'.ok > run.ok
      PROVE  row'.state = "UP"
  <2>1. PICK g \in Gaps, res \in Outcomes : Result(res, g)
    BY <1>2, OnlyResultsCount
  <2>2. PICK t, out : /\ t \in Nat /\ row' = out.row /\ StepSays(row, th, res, t, out)
                      /\ run' = Extend(run, res)
    BY <1>2, <2>1, ResultSays
  <2>3. run'.ok = row'.ok /\ run.ok = row.ok /\ row.ok \in Nat
    BY <1>2 DEF HInv, RunIsRow, IInv, TypeOK, Row
  <2>4. row'.ok > 0
    BY <1>2, <2>2, <2>3 DEF Extend
  <2> QED BY <1>2, <2>2, <2>4 DEF StepSays, StreakSays
<1>3. IInv /\ HInv /\ HInv' /\ [Next]_vars =>
        [/\ row.state \in {"UP", "UNKNOWN"} /\ row'.state = "DOWN" => run'.fail >= th.downAfter
         /\ row.state = "DOWN" /\ row'.state = "UP" => run'.ok >= th.upAfter
         /\ row.state = "UNKNOWN" /\ run'.ok > run.ok => row'.state = "UP"]_vars
  BY <1>1, <1>2 DEF UpDown
<1> QED BY <1>3, AlwaysHistory, PTL DEF Spec, StreakDecides

-----------------------------------------------------------------------------
(* The life of a mon-client (ClientLife), for any targets, any silence and   *)
(* any bounds: what OFFLINE means for targets and feed, and that it is       *)
(* earned.                                                                   *)

LifeStates == {"UNKNOWN", "PAUSED", "JUDGED"}

LifeTypeOK ==
    /\ mc \in MonClient
    /\ age \in Ages \cup {NoAge}
    /\ targets \in [Targets -> LifeStates]
    /\ view \in {"NEVER", "ONLINE", "OFFLINE"}
    /\ issued \in 1..MaxTokens /\ sent \in [1..MaxTokens -> 0..MaxSeq]
    /\ requests \subseteq Request
    /\ hook \in BOOLEAN /\ sweep \in BOOLEAN
    /\ up \in Ages \cup {Down} /\ quiet \in Ages /\ crashes \in 0..MaxCrashes

(* No heartbeat is longer than Slow in mon-server's hands. *)
Prompt == \A req \in requests : req.age <= Slow

(* Since mon-server got ready it heard a heartbeat `quiet` ticks ago, received *)
(* at most Slow ticks before, or it heard none and `quiet` goes back to then.  *)
Heard == up # Down => up <= quiet \/ age <= quiet + Slow

LifeInv == LifeTypeOK /\ Prompt /\ Heard /\ OfflineIsUnknown /\ FeedAgrees

-----------------------------------------------------------------------------
(* A tick takes an age one further, up to the last age that is told apart. *)
LEMMA OlderAges ==
    ASSUME NEW n \in Ages \cup {-1}
    PROVE  /\ Older(n) \in Ages \cup {-1}
           /\ n \in Ages => Older(n) \in Ages
           /\ n = -1 <=> Older(n) = -1
           /\ Older(n) = n + 1 \/ (Older(n) = n /\ n \in {-1, Silence + 1})
BY LifeAssumption DEF Older, Ages

(* Of two ages the tick keeps the order, also at the last one. *)
LEMMA OlderKeepsOrder ==
    ASSUME NEW m \in Ages \cup {-1}, NEW n \in Ages, NEW lag \in Nat, m <= n + lag
    PROVE  Older(m) <= Older(n) + lag
BY LifeAssumption DEF Older, Ages

LEMMA Bounds == /\ 0 \in 0..MaxTokens /\ 1 \in 0..MaxTokens /\ 0 \in 0..MaxSeq
                /\ \A n \in 1..MaxTokens : n \in 0..MaxTokens
BY LifeAssumption

LEMMA LifeInitKeeps == LifeInit => LifeInv
<1> SUFFICES ASSUME LifeInit PROVE LifeInv
  OBVIOUS
<1>1. mc \in MonClient /\ mc.state = "NEVER"
  <2>1. mc = [token |-> 1, enabled |-> TRUE, ack |-> 0, state |-> "NEVER"]
    BY DEF LifeInit
  <2>2. [token |-> 1, enabled |-> TRUE, ack |-> 0, state |-> "NEVER"] \in MonClient
    BY Bounds DEF MonClient
  <2>3. mc.state = "NEVER"
    BY <2>1
  <2> QED BY <2>1, <2>2, <2>3, Zenon
<1>2. /\ targets \in [Targets -> LifeStates] /\ age \in Ages \cup {NoAge}
      /\ issued \in 1..MaxTokens /\ sent \in [1..MaxTokens -> 0..MaxSeq]
  BY LifeAssumption DEF LifeInit, LifeStates
<1>3. up \in Ages \cup {Down} /\ quiet \in Ages /\ crashes \in 0..MaxCrashes
  BY LifeAssumption DEF LifeInit, Ages
<1>6. hook \in BOOLEAN /\ sweep \in BOOLEAN
  BY Zenon DEF LifeInit
<1>4. requests = {} /\ up = 0 /\ quiet = 0 /\ view = "NEVER"
  BY DEF LifeInit
<1>5. LifeTypeOK
  BY <1>1, <1>2, <1>3, <1>4, <1>6 DEF LifeTypeOK
<1> QED BY <1>1, <1>4, <1>5 DEF LifeInv, Prompt, Heard, OfflineIsUnknown, FeedAgrees

(* What leaves nothing judged: the tail of a revoke, a sweep and a disable. *)
LEMMA UnknownAfter ==
    ASSUME LifeTypeOK
    PROVE  /\ ToUnknown \in [Targets -> LifeStates]
           /\ \A t \in Targets : ToUnknown[t] # "JUDGED"
BY DEF LifeTypeOK, ToUnknown, LifeStates

LEMMA AuthenticateKeeps ==
    ASSUME LifeInv, NEW g \in 1..MaxTokens, Authenticate(g)
    PROVE  LifeInv'
<1>1. LifeTypeOK'
  <2>1. [token |-> g, seq |-> sent[g] + 1, age |-> 0, row |-> mc] \in Request
    BY LifeAssumption DEF LifeInv, LifeTypeOK, Authenticate, Request, Ages
  <2> QED BY <2>1, LifeAssumption DEF LifeInv, LifeTypeOK, Authenticate, rows
<1>2. Prompt'
  BY LifeAssumption DEF LifeInv, Prompt, Authenticate
<1> QED BY <1>1, <1>2 DEF LifeInv, Authenticate, rows, Heard, OfflineIsUnknown, FeedAgrees, NoneJudged

LEMMA CommitKeeps ==
    ASSUME LifeInv, NEW req \in requests, Commit(req)
    PROVE  LifeInv'
<1>1. req \in Request /\ req.age <= Slow /\ req.age \in Ages
  BY DEF LifeInv, LifeTypeOK, Prompt, Request
<1>2. mc' \in MonClient /\ mc'.state = "ONLINE"
  <2>1. mc \in MonClient /\ req.seq \in 0..MaxSeq
    BY <1>1 DEF LifeInv, LifeTypeOK, Request
  <2>2. mc' = [mc EXCEPT !.state = "ONLINE", !.ack = IF req.seq > mc.ack THEN req.seq ELSE mc.ack]
    BY DEF Commit, Refreshed, RowFor
  <2>3. (IF req.seq > mc.ack THEN req.seq ELSE mc.ack) \in 0..MaxSeq
    BY <2>1 DEF MonClient
  <2> QED BY <2>1, <2>2, <2>3 DEF MonClient
<1>3. LifeTypeOK'
  BY <1>1, <1>2, LifeAssumption DEF LifeInv, LifeTypeOK, Commit, Refreshed, RowFor, LifeStates, Ages
<1>4. Prompt' /\ Heard'
  BY <1>1, LifeAssumption DEF LifeInv, LifeTypeOK, Commit, Refreshed, Prompt, Heard, Ages
<1>5. OfflineIsUnknown' /\ FeedAgrees'
  BY <1>2 DEF LifeInv, FeedAgrees, OfflineIsUnknown, Commit, Refreshed, RowFor, LifeTypeOK, MonClient
<1> QED BY <1>3, <1>4, <1>5 DEF LifeInv

LEMMA SweepMarksKeeps == LifeInv /\ SweepMarks => LifeInv'
<1> SUFFICES ASSUME LifeInv, SweepMarks PROVE LifeInv'
  OBVIOUS
<1>1. mc' \in MonClient /\ mc'.state \in {"OFFLINE", "DELETED"}
  BY DEF SweepMarks, LifeInv, LifeTypeOK, MonClient
<1>2. LifeTypeOK'
  BY <1>1, UnknownAfter DEF SweepMarks, LifeInv, LifeTypeOK
<1>3. OfflineIsUnknown' /\ FeedAgrees'
  BY <1>1, UnknownAfter DEF SweepMarks, LifeInv, OfflineIsUnknown, FeedAgrees, NoneJudged
<1> QED BY <1>2, <1>3 DEF SweepMarks, LifeInv, Prompt, Heard

(* What the administrator does. *)
LEMMA AdminKeeps == LifeInv /\ Admin => LifeInv'
<1> SUFFICES ASSUME LifeInv, Admin PROVE LifeInv'
  OBVIOUS
<1>1. ASSUME NEW enabled \in BOOLEAN, SetEnabled(enabled) PROVE LifeInv'
  <2>1. mc' \in MonClient /\ mc'.state = mc.state
    BY <1>1 DEF SetEnabled, LifeInv, LifeTypeOK, MonClient
  <2> QED BY <1>1, <2>1 DEF SetEnabled, LifeInv, LifeTypeOK, Prompt, Heard, OfflineIsUnknown,
        FeedAgrees, NoneJudged
<1>2. CASE MonClientDisabled
  BY <1>2, UnknownAfter DEF MonClientDisabled, LifeInv, LifeTypeOK, Prompt, Heard, OfflineIsUnknown,
     FeedAgrees, NoneJudged
<1>3. CASE Revoke
  <2>1. mc' \in MonClient /\ mc'.state = "OFFLINE"
    <3>1. mc' = [mc EXCEPT !.token = 0, !.state = "OFFLINE"] /\ mc \in MonClient
      BY <1>3 DEF Revoke, LifeInv, LifeTypeOK
    <3> QED BY <3>1, Bounds DEF MonClient
  <2>2. view' = "OFFLINE"
    BY <1>3 DEF Revoke, MonClientRevoked, LifeInv, FeedAgrees
  <2> QED BY <1>3, <2>1, <2>2, UnknownAfter DEF Revoke, MonClientRevoked, LifeInv, LifeTypeOK, Prompt,
        Heard, OfflineIsUnknown, FeedAgrees, NoneJudged
<1>4. CASE ApproveAsReplacement
  <2>1. mc' \in MonClient /\ mc'.state = "NEVER" /\ issued' \in 1..MaxTokens
    <3>1. /\ mc' = [mc EXCEPT !.token = issued + 1, !.ack = 0, !.state = "NEVER"]
          /\ mc \in MonClient /\ issued' = issued + 1
      BY <1>4 DEF ApproveAsReplacement, LifeInv, LifeTypeOK
    <3>2. issued + 1 \in 1..MaxTokens
      BY <1>4, LifeAssumption DEF ApproveAsReplacement, LifeInv, LifeTypeOK
    <3> QED BY <3>1, <3>2, Bounds DEF MonClient
  <2>2. Heard'
    BY <1>4, LifeAssumption DEF ApproveAsReplacement, Heard, LifeInv, LifeTypeOK, Ages, NoAge
  <2> QED BY <1>4, <2>1, <2>2 DEF ApproveAsReplacement, LifeInv, LifeTypeOK, Prompt,
        OfflineIsUnknown, FeedAgrees, NoneJudged
<1>5. CASE Delete
  <2>1. mc' \in MonClient /\ mc'.state = "DELETED"
    <3>1. mc' = [mc EXCEPT !.token = 0, !.state = "DELETED"] /\ mc \in MonClient
      BY <1>5 DEF Delete, LifeInv, LifeTypeOK
    <3> QED BY <3>1, Bounds DEF MonClient
  <2> QED BY <1>5, <2>1 DEF Delete, LifeInv, LifeTypeOK, LifeStates, Prompt, Heard, OfflineIsUnknown,
        FeedAgrees, NoneJudged
<1> QED BY <1>1, <1>2, <1>3, <1>4, <1>5 DEF Admin

LEMMA TickKeeps == LifeInv /\ Tick => LifeInv'
<1> SUFFICES ASSUME LifeInv, Tick PROVE LifeInv'
  OBVIOUS
<1>1. \A req \in requests : /\ [req EXCEPT !.age = Older(@)] \in Request
                            /\ [req EXCEPT !.age = Older(@)].age <= Slow
  <2>1. SUFFICES ASSUME NEW req \in requests
                 PROVE  /\ [req EXCEPT !.age = Older(@)] \in Request
                        /\ [req EXCEPT !.age = Older(@)].age <= Slow
    OBVIOUS
  <2>2. req \in Request /\ req.age \in Ages /\ req.age < Slow
    BY DEF LifeInv, LifeTypeOK, Tick, Request
  <2>3. Older(req.age) \in Ages /\ Older(req.age) <= Slow
    BY <2>2, OlderAges, LifeAssumption DEF Ages
  <2> QED BY <2>2, <2>3 DEF Request
<1>2. Prompt' /\ requests' \subseteq Request
  BY <1>1 DEF Tick, Prompt
<1>3. age' \in Ages \cup {NoAge} /\ up' \in Ages \cup {Down} /\ quiet' \in Ages
  BY OlderAges DEF Tick, LifeInv, LifeTypeOK, NoAge, Down
<1>4. Heard'
  <2>1. SUFFICES ASSUME up' # Down PROVE up' <= quiet' \/ age' <= quiet' + Slow
    BY DEF Heard
  <2>2. up # Down /\ up \in Ages /\ quiet \in Ages /\ age \in Ages \cup {-1}
    BY <2>1, OlderAges DEF Tick, LifeInv, LifeTypeOK, Down, NoAge
  <2>3. up' = Older(up) /\ quiet' = Older(quiet) /\ age' = Older(age)
    BY DEF Tick
  <2>4. CASE up <= quiet + 0
    <3>1. Older(up) <= Older(quiet) + 0
      BY <2>2, <2>4, OlderKeepsOrder
    <3> QED BY <1>3, <2>2, <2>3, <3>1, OlderAges DEF Ages
  <2>5. CASE age <= quiet + Slow
    BY <2>2, <2>3, <2>5, OlderKeepsOrder, LifeAssumption
  <2>6. up <= quiet + 0 \/ age <= quiet + Slow
    BY <2>2 DEF LifeInv, Heard, Ages
  <2> QED BY <2>4, <2>5, <2>6
<1>5. UNCHANGED <<mc, targets, view, issued, sent, hook, sweep, crashes>>
  BY DEF Tick
<1>6. LifeTypeOK'
  BY <1>2, <1>3, <1>5 DEF LifeInv, LifeTypeOK
<1> QED BY <1>2, <1>4, <1>5, <1>6 DEF LifeInv, OfflineIsUnknown, FeedAgrees, NoneJudged

LEMMA LifeKeeps == LifeInv /\ [LifeNext]_lifeVars => LifeInv'
<1> SUFFICES ASSUME LifeInv, [LifeNext]_lifeVars PROVE LifeInv'
  OBVIOUS
<1>1. CASE Heartbeats
  <2>1. ASSUME NEW req \in requests, Abort(req) PROVE LifeInv'
    BY <2>1 DEF Abort, rows, LifeInv, LifeTypeOK, Prompt, Heard, OfflineIsUnknown, FeedAgrees, NoneJudged
  <2> QED BY <1>1, <2>1, AuthenticateKeeps, CommitKeeps DEF Heartbeats
<1>2. ASSUME NEW t \in Targets, SyncInbounds(t) PROVE LifeInv'
  <2>1. targets' \in [Targets -> LifeStates] /\ \A s \in Targets : targets'[s] \in {targets[s], "UNKNOWN", "PAUSED"}
    BY <1>2 DEF SyncInbounds, LifeInv, LifeTypeOK, LifeStates
  <2> QED BY <1>2, <2>1 DEF SyncInbounds, LifeInv, LifeTypeOK, Prompt, Heard, OfflineIsUnknown,
        FeedAgrees, NoneJudged
<1>3. CASE SweepFinds
  BY <1>3 DEF SweepFinds, rows, LifeInv, LifeTypeOK, Prompt, Heard, OfflineIsUnknown, FeedAgrees, NoneJudged
<1>4. CASE Crash
  <2>1. up' = Down /\ requests' = {} /\ crashes' \in 0..MaxCrashes
    BY <1>4, LifeAssumption DEF Crash, LifeInv, LifeTypeOK
  <2>2. hook' \in BOOLEAN /\ sweep' \in BOOLEAN /\ UNCHANGED <<mc, age, targets, view, issued, sent, quiet>>
    BY <1>4 DEF Crash, rows
  <2>3. LifeTypeOK'
    BY <2>1, <2>2 DEF LifeInv, LifeTypeOK
  <2> QED BY <2>1, <2>2, <2>3 DEF LifeInv, Prompt, Heard, OfflineIsUnknown, FeedAgrees, NoneJudged
<1>5. CASE ServerReady
  BY <1>5, LifeAssumption DEF ServerReady, rows, LifeInv, LifeTypeOK, Prompt, Heard, OfflineIsUnknown,
     FeedAgrees, NoneJudged, Ages
<1>6. CASE UNCHANGED lifeVars
  BY <1>6 DEF lifeVars, rows, LifeInv, LifeTypeOK, Prompt, Heard, OfflineIsUnknown, FeedAgrees, NoneJudged
<1> QED BY <1>1, <1>2, <1>3, <1>4, <1>5, <1>6, AdminKeeps, SweepMarksKeeps, TickKeeps DEF LifeNext

(* The variables keep their types for any targets and bounds. *)
THEOREM LifeTypeCorrect == LifeSpec => []LifeTypeOK
<1>1. LifeInv => LifeTypeOK
  BY DEF LifeInv
<1> QED BY <1>1, LifeInitKeeps, LifeKeeps, PTL DEF LifeSpec

(* An OFFLINE or deleted mon-client has no target that claims to know        *)
(* something, whatever heartbeat, sweep, hook or synchronisation overlapped  *)
(* with its end (targetsToUnknown in MarkOffline and in the hooks).          *)
THEOREM OfflineClaimsNothing == LifeSpec => []OfflineIsUnknown
<1>1. LifeInv => OfflineIsUnknown
  BY DEF LifeInv
<1> QED BY <1>1, LifeInitKeeps, LifeKeeps, PTL DEF LifeSpec

(* What the mon_client events last said is what the row says, whichever     *)
(* transactions committed between a heartbeat's authentication and its own  *)
(* (applyClientInfo, MarkOffline, MonClientRevoked).                         *)
THEOREM FeedSaysTheRow == LifeSpec => []FeedAgrees
<1>1. LifeInv => FeedAgrees
  BY DEF LifeInv
<1> QED BY <1>1, LifeInitKeeps, LifeKeeps, PTL DEF LifeSpec

(* The sweep finds nobody who was not silent for Silence ticks, a slow      *)
(* heartbeat aside, of mon-server's being there (MarkOffline, serverReadyAt). *)
THEOREM SilenceIsReal == LifeSpec => OfflineIsEarned
<1>1. LifeInv /\ [LifeNext]_lifeVars => [~sweep /\ sweep' => quiet + Slow > Silence]_lifeVars
  <2>1. SUFFICES ASSUME LifeInv, LifeNext, ~sweep, sweep' PROVE quiet + Slow > Silence
    BY DEF lifeVars, rows
  <2>2. SweepFinds
    BY <2>1 DEF LifeNext, Heartbeats, Authenticate, Commit, Abort, Admin, SetEnabled, MonClientDisabled,
       Revoke, ApproveAsReplacement, Delete, SyncInbounds, SweepMarks, Tick, Crash, ServerReady
  <2>3. up > Silence /\ age > Silence /\ (up <= quiet \/ age <= quiet + Slow)
    BY <2>1, <2>2, LifeAssumption DEF SweepFinds, Overdue, LifeInv, Heard, Down
  <2> QED BY <2>1, <2>3, LifeAssumption DEF LifeInv, LifeTypeOK, Ages, Down, NoAge
<1> QED BY <1>1, LifeInitKeeps, LifeKeeps, PTL DEF LifeSpec, OfflineIsEarned
================================================================================
