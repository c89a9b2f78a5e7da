--------------------------- MODULE ProbeCycleProofs ---------------------------
(***************************************************************************)
(* What holds of ProbeCycle for every set of targets, every choice of      *)
(* budgets and intervals, and every horizon: no probe runs past its        *)
(* budget, the grid of cycle starts is kept, a reason fits the phases the  *)
(* probe went through, and a certificate reason is the target's own.       *)
(***************************************************************************)
EXTENDS ProbeCycle, TLAPS

Probe == {Idle} \cup RunningProbe \cup DoneProbe

\* A cycle under way was due.  Unless the wall clock was set back since, it shows
\* no more than the sleep's remainder before the tick: it went with the timers or
\* was set forward.
OnTime ==
    /\ stage \in {"probing", "rest"} => wake <= now
    /\ ~stepped => tick - wall <= wake - now

IInv == TypeOK /\ OnTime /\ CycleIsBounded

USE DEF Measures, Unmeasured, Nil, Running, Reasons

\* What is running has the fields of a running probe.
LEMMA RunningOK ==
    ASSUME NEW p \in Probe, p.at \in Running
    PROVE  p \in RunningProbe
<1>1. p # Idle
  BY DEF Idle
<1>2. p \notin DoneProbe
  BY DEF DoneProbe
<1> QED BY <1>1, <1>2 DEF Probe

\* Every phase's own timer is cut by the budget's.
LEMMA DeadlineBounded ==
    ASSUME NEW p \in Probe, p.at \in Running
    PROVE  Deadline(p) <= p.start + Budget /\ Deadline(p) \in Int
<1>1. p.start \in Nat /\ p.since \in Nat
  BY RunningOK DEF RunningProbe
<1>2. Budget \in Nat /\ Connect \in Nat /\ TLS \in Nat /\ Headers \in Nat
  BY ProbeCycleAssumption
<1>3. PhaseEnd(p) \in Int /\ BudgetEnd(p) \in Int
  BY <1>1, <1>2 DEF PhaseEnd, BudgetEnd
<1>4. BudgetEnd(p) = p.start + Budget
  BY DEF BudgetEnd
<1> QED BY <1>3, <1>4 DEF Deadline

\* A fresh probe starts now.
LEMMA StartedOK ==
    ASSUME now \in Nat, NEW t
    PROVE  /\ Started(t) \in RunningProbe /\ Started(t).start = now
BY DEF Started, RunningProbe

\* Every reason Classify gives is in the dictionary.
LEMMA ClassifyInDictionary ==
    ASSUME NEW err, NEW connect, NEW tls
    PROVE  Classify(err, connect, tls) \in Reasons
BY DEF Classify

\* The result of a probe that ends.
Result(p, reason) ==
    [at |-> "done", reason |-> reason, connect |-> p.connect, tls |-> p.tls,
     ttfb |-> p.ttfb, handshake |-> p.handshake, hops |-> p.hops]

\* The steps that end a probe leave a result.
LEMMA EndsOK ==
    ASSUME IInv, NEW t \in Targets, NEW p \in RunningProbe,
           NEW reason \in Reasons \cup {Nil}, Ends(t, p, reason)
    PROVE  IInv'
<1> DEFINE r == Result(p, reason)
<1>1. r \in DoneProbe
  BY DEF RunningProbe, DoneProbe, Result
<1>2. probe' = [probe EXCEPT ![t] = r] /\ UNCHANGED <<time, grid>>
  BY DEF Ends, Becomes, Result
<1> HIDE DEF r
<1>4. TypeOK'
  BY <1>1, <1>2 DEF IInv, TypeOK, grid, time
<1>5. CycleIsBounded'
  <2> SUFFICES ASSUME NEW u \in Targets, probe'[u].at \in Running
               PROVE  now' <= probe'[u].start + Budget
    BY DEF CycleIsBounded
  <2>1. r.at = "done"
    BY <1>1 DEF DoneProbe
  <2>2. u # t
    BY <1>2, <2>1 DEF IInv, TypeOK
  <2>3. probe'[u] = probe[u]
    BY <1>2, <2>2 DEF IInv, TypeOK
  <2> QED BY <1>2, <2>3 DEF IInv, CycleIsBounded, time
<1> QED BY <1>2, <1>4, <1>5 DEF IInv, OnTime, grid, time

\* The steps that go on keep the start of the budget.
LEMMA GoesOnOK ==
    ASSUME IInv, NEW t \in Targets, probe[t].at \in Running,
           NEW p \in RunningProbe, p.start = probe[t].start, Becomes(t, p)
    PROVE  IInv'
<1>0. probe' = [probe EXCEPT ![t] = p] /\ UNCHANGED <<time, grid>>
  BY DEF Becomes
<1>1. TypeOK'
  BY <1>0 DEF IInv, TypeOK, grid, time
<1>2. CycleIsBounded'
  <2> SUFFICES ASSUME NEW u \in Targets, probe'[u].at \in Running
               PROVE  now' <= probe'[u].start + Budget
    BY DEF CycleIsBounded
  <2>1. CASE u = t
    <3>1. probe'[t] = p
      BY <1>0 DEF IInv, TypeOK
    <3> QED BY <1>0, <2>1, <3>1 DEF IInv, CycleIsBounded, time
  <2>2. CASE u # t
    <3>1. probe'[u] = probe[u]
      BY <1>0, <2>2 DEF IInv, TypeOK
    <3> QED BY <1>0, <3>1 DEF IInv, CycleIsBounded, time
  <2> QED BY <2>1, <2>2
<1> QED BY <1>0, <1>1, <1>2 DEF IInv, OnTime, grid, time

\* A running probe moved to another phase has the fields of one.
LEMMA MovesOK ==
    ASSUME IInv, NEW t \in Targets, probe[t].at \in Running,
           NEW p \in RunningProbe, p.start = probe[t].start,
           NEW at \in Running, Moves(t, p, at)
    PROVE  IInv'
<1> DEFINE q == [p EXCEPT !.at = at, !.since = now]
<1>1. q \in RunningProbe /\ q.start = probe[t].start
  BY DEF RunningProbe, IInv, TypeOK
<1>2. Becomes(t, q)
  BY DEF Moves
<1> HIDE DEF q
<1> QED BY <1>1, <1>2, GoesOnOK

LEMMA FailsOK ==
    ASSUME IInv, NEW t \in Targets, probe[t].at \in Running, NEW err, Fails(t, err)
    PROVE  IInv'
<1>1. probe[t] \in RunningProbe
  BY RunningOK DEF IInv, TypeOK, Probe
<1>2. PICK reason \in Reasons : Ends(t, probe[t], reason)
  BY ClassifyInDictionary DEF Fails
<1> QED BY <1>1, <1>2, EndsOK

\* Only a running probe steps.
LEMMA OnlyRunning == ASSUME NEW t \in Targets, Step(t) PROVE probe[t].at \in Running
BY DEF Step, At, Connects, SocksRefuses, DialEnds, SocksAnswers, Routes, NoTunnel, TunnelOpens,
       HandshakeSeen, Dialed, DialRefused, DialTimesOut, Redialed, RedialRefused, TlsDone,
       TlsTimesOut, FirstByte, HeadersTimeOut, Answered, Echoed, Rejected, Redirected,
       Broken, BudgetSpent, Panics

\* The steps that fail a probe, and with what.
Failing(t) ==
    SocksRefuses(t) \/ DialEnds(t) \/ RedialRefused(t) \/ TlsTimesOut(t) \/ HeadersTimeOut(t)
    \/ Rejected(t) \/ Broken(t) \/ BudgetSpent(t)

LEMMA FailingFails ==
    ASSUME NEW t \in Targets, Failing(t)
    PROVE  \E err : /\ Fails(t, err)
                    /\ probe[t].at \in Running \ {"open", "poll"}
                    /\ err = "answer" => probe[t].at = "body"
                    /\ err = "tls_timer" => probe[t].at = "tls"
                    /\ err = "refused" => probe[t].at \in {"dial", "redial"}
                    /\ err = "broken" => probe[t].at # "dial"
                    /\ err = "io_timeout" => probe[t].at = "dial"
                    /\ err \in {"answer", "tls_timer", "refused", "broken", "io_timeout", "deadline"}
BY DEF Failing, At, SocksRefuses, DialEnds, RedialRefused, TlsTimesOut, HeadersTimeOut,
       Rejected, Broken, BudgetSpent

\* A step of one probe is nothing to the clocks and to Run's grid.
LEMMA StepKeepsTime == ASSUME NEW t \in Targets, Step(t) PROVE UNCHANGED <<time, grid>>
BY DEF Step, Connects, SocksRefuses, DialEnds, SocksAnswers, Routes, NoTunnel, TunnelOpens,
       HandshakeSeen, Dialed, DialRefused, DialTimesOut, NotDialed, Redialed, RedialRefused, TlsDone,
       TlsTimesOut, FirstByte, HeadersTimeOut, Answered, Echoed, Rejected, Redirected,
       Broken, BudgetSpent, Panics, Moves, Fails, Ends, Becomes

\* Whatever one probe does keeps the invariant.
LEMMA StepOK ==
    ASSUME IInv, NEW t \in Targets, Step(t)
    PROVE  IInv'
<1>0. probe[t].at \in Running
  BY OnlyRunning
<1>1. probe[t] \in RunningProbe
  BY <1>0, RunningOK DEF IInv, TypeOK, Probe
<1>2. Took(t) \in Measures
  BY DEF Took
<1>3. CASE Connects(t) \/ Dialed(t)
  <2>1. PICK connect \in Measures, at \in Running : Moves(t, [probe[t] EXCEPT !.connect = connect], at)
    BY <1>1, <1>2, <1>3 DEF Connects, Dialed, ConnectOf, RunningProbe
  <2> DEFINE p == [probe[t] EXCEPT !.connect = connect]
  <2>2. p \in RunningProbe /\ p.start = probe[t].start
    BY <1>1 DEF RunningProbe
  <2> HIDE DEF p
  <2> QED BY <1>0, <2>1, <2>2, MovesOK DEF p
<1>4. CASE TlsDone(t)
  <2> DEFINE p == [probe[t] EXCEPT !.tls = "timely"]
  <2>1. p \in RunningProbe /\ p.start = probe[t].start
    BY <1>1 DEF RunningProbe
  <2>2. Moves(t, p, "reply")
    BY <1>4 DEF TlsDone
  <2> HIDE DEF p
  <2> QED BY <1>0, <2>1, <2>2, MovesOK
<1>5. CASE TunnelOpens(t) \/ SocksAnswers(t) \/ Redialed(t) \/ Answered(t)
  <2>1. PICK at \in Running : Moves(t, probe[t], at)
    BY <1>5 DEF TunnelOpens, SocksAnswers, Redialed, Answered, Speaks
  <2> QED BY <1>0, <1>1, <2>1, MovesOK
<1>6. CASE HandshakeSeen(t) \/ FirstByte(t)
  <2>1. PICK p : Becomes(t, p) /\ p \in {[probe[t] EXCEPT !.handshake = "timely"],
                                        [probe[t] EXCEPT !.ttfb = "timely"]}
    BY <1>6 DEF HandshakeSeen, FirstByte
  <2>2. p \in RunningProbe /\ p.start = probe[t].start
    BY <1>1, <2>1 DEF RunningProbe
  <2> QED BY <1>0, <2>1, <2>2, GoesOnOK
<1>7. CASE NoTunnel(t)
  BY <1>1, <1>7, EndsOK DEF NoTunnel
<1>8. CASE DialRefused(t) \/ DialTimesOut(t)
  <2> DEFINE p == [probe[t] EXCEPT !.connect = Took(t)]
  <2>1. p \in RunningProbe
    BY <1>1, <1>2 DEF RunningProbe
  <2>2. PICK err : NotDialed(t, err)
    BY <1>8 DEF DialRefused, DialTimesOut
  <2>3. PICK reason \in Reasons : Ends(t, p, reason)
    BY <2>2, ClassifyInDictionary DEF NotDialed
  <2> HIDE DEF p
  <2> QED BY <2>1, <2>3, EndsOK
<1>9. CASE Echoed(t)
  BY <1>1, <1>9, EndsOK DEF Echoed
<1>10. CASE Panics(t)
  BY <1>10, StartedOK, EndsOK DEF Panics, IInv, TypeOK
<1>11. CASE Failing(t)
  BY <1>0, <1>11, FailingFails, FailsOK
<1>12. CASE Redirected(t)
  <2> DEFINE p == [probe[t] EXCEPT !.hops = @ + 1]
  <2>0. probe[t].hops \in Nat /\ probe[t].hops + 1 \in Nat
    BY <1>1 DEF RunningProbe
  <2>1. p \in RunningProbe /\ p.start = probe[t].start
    BY <1>1, <2>0 DEF RunningProbe
  <2>2. PICK at \in Running : Moves(t, p, at)
    BY <1>12 DEF Redirected
  <2> HIDE DEF p
  <2> QED BY <1>0, <2>1, <2>2, MovesOK
<1>13. CASE Routes(t)
  BY <1>13 DEF Routes, IInv, TypeOK, OnTime, CycleIsBounded, grid, time
<1> QED BY <1>3, <1>4, <1>5, <1>6, <1>7, <1>8, <1>9, <1>10, <1>11, <1>12, <1>13 DEF Step, Failing

\* Rounding up to a whole number of intervals.
LEMMA RoundedUp ==
    ASSUME NEW i \in Nat \ {0}, NEW late \in Nat \ {0}
    PROVE  LET q == (late + i - 1) \div i
           IN  q \in Nat /\ late <= q * i /\ q * i < late + i
<1> DEFINE a == late + i - 1
           q == a \div i
<1>1. a \in Nat /\ i \in Nat /\ i > 0
  OBVIOUS
<1> HIDE DEF a
<1>2. q \in Nat /\ a = i * q + (a % i) /\ 0 <= a % i /\ a % i < i
  BY <1>1
<1>3. q * i = i * q /\ i * q \in Int /\ a % i \in Int
  BY <1>1, <1>2
<1> HIDE DEF q
<1>4. late <= i * q /\ i * q < late + i
  BY <1>2, <1>3 DEF a
<1> QED BY <1>2, <1>3, <1>4 DEF q, a

\* A whole number of intervals leaves no remainder.
LEMMA MultipleModulo ==
    ASSUME NEW i \in Nat \ {0}, NEW k \in Nat
    PROVE  (k * i) % i = 0
OBVIOUS

\* The grid's next tick is not in the past, and a whole number of intervals on.
LEMMA NextOnGridAhead ==
    ASSUME NEW i \in Nat \ {0}, NEW prev \in Int, wall \in Int
    PROVE  LET next == NextOnGrid(prev, i)
           IN  /\ next \in Int /\ next > prev /\ (next - prev) % i = 0 /\ wall <= next
               /\ prev <= wall => next <= wall + i
<1> DEFINE late == wall - (prev + i)
           q    == (late + i - 1) \div i
<1>1. CASE late > 0
  <2>1. late \in Nat \ {0}
    BY <1>1
  <2>2. q \in Nat /\ late <= q * i /\ q * i < late + i
    BY <2>1, RoundedUp
  <2>3. q * i \in Nat /\ (q + 1) * i = i + q * i
    BY <2>2
  <2>4. NextOnGrid(prev, i) = prev + i + q * i
    BY <1>1, <2>2, <2>3 DEF NextOnGrid
  <2>5. ((q + 1) * i) % i = 0
    BY <2>2, MultipleModulo
  <2> HIDE DEF q
  <2>6. NextOnGrid(prev, i) - prev = (q + 1) * i
    BY <2>3, <2>4
  <2> QED BY <2>2, <2>3, <2>4, <2>5, <2>6
<1>2. CASE ~(late > 0)
  <2>1. NextOnGrid(prev, i) = prev + i
    BY <1>2 DEF NextOnGrid
  <2>2. (1 * i) % i = 0
    BY MultipleModulo
  <2>3. NextOnGrid(prev, i) - prev = 1 * i
    BY <2>1
  <2>4. wall <= prev + i
    BY <1>2
  <2> QED BY <2>1, <2>2, <2>3, <2>4
<1> QED BY <1>1, <1>2

\* The wait is at most an interval; it leaves the grid only for a clock set back.
LEMMA NextStartAhead ==
    ASSUME NEW i \in Nat \ {0}, NEW prev \in Int, wall \in Int
    PROVE  LET next == NextStart(prev, i)
           IN  /\ next \in Int /\ wall <= next /\ next <= wall + i
               /\ prev <= wall => next > prev /\ (next - prev) % i = 0
<1> DEFINE next == NextOnGrid(prev, i)
<1>1. /\ next \in Int /\ next > prev /\ (next - prev) % i = 0 /\ wall <= next
      /\ prev <= wall => next <= wall + i
  BY NextOnGridAhead
<1>2. NextStart(prev, i) = IF next - wall > i THEN wall + i ELSE next
  BY DEF NextStart
<1> HIDE DEF next
<1> QED BY <1>1, <1>2

-----------------------------------------------------------------------------

LEMMA InitOK == Init => IInv
<1> SUFFICES ASSUME Init PROVE IInv
  OBVIOUS
<1>1. TypeOK
  <2>1. probe \in [Targets -> {Idle} \cup RunningProbe \cup DoneProbe]
    BY DEF Init
  <2>2. /\ now \in Nat /\ wake \in Nat /\ cycle \in Nat /\ steps \in Nat
        /\ wall \in Int /\ tick \in Int
        /\ applied \in Documents /\ interval \in Intervals
        /\ stage \in {"asleep", "probing", "rest"}
    BY DEF Init
  <2>3. stepped \in BOOLEAN
    BY Zenon DEF Init
  <2> QED BY <2>1, <2>2, <2>3, Zenon DEF TypeOK
<1>2. OnTime
  BY DEF Init, OnTime
<1>3. \A t \in Targets : probe[t].at = "idle"
  BY DEF Init, Idle
<1> QED BY <1>1, <1>2, <1>3 DEF IInv, CycleIsBounded

LEMMA NextOK ==
    ASSUME IInv, [Next]_vars
    PROVE  IInv'
<1>1. CASE BeginCycle
  <2>1. PICK probed \in {applied, applied \cap AwgTargets} :
            probe' = [t \in Targets |-> IF t \in probed THEN Started(t) ELSE Idle]
    BY <1>1 DEF BeginCycle
  <2>2. /\ UNCHANGED <<now, wall, steps, stepped, applied, interval, tick, wake>>
        /\ stage' = "probing" /\ cycle' = cycle + 1 /\ wake <= now
    BY <1>1 DEF BeginCycle, IInv, TypeOK, time
  <2>3. \A t \in Targets : Started(t) \in RunningProbe /\ Started(t).start = now
    BY StartedOK DEF IInv, TypeOK
  <2>4. TypeOK'
    BY <2>1, <2>2, <2>3 DEF IInv, TypeOK
  <2>5. CycleIsBounded'
    <3> SUFFICES ASSUME NEW t \in Targets, probe'[t].at \in Running
                 PROVE  now' <= probe'[t].start + Budget
      BY DEF CycleIsBounded
    <3>1. probe'[t] # Idle
      BY DEF Idle
    <3>2. probe'[t].start = now
      BY <2>1, <2>3, <3>1
    <3> QED BY <2>2, <3>2, ProbeCycleAssumption DEF IInv, TypeOK
  <2> QED BY <2>2, <2>4, <2>5 DEF IInv, OnTime
<1>2. CASE CycleEnds
  <2>1. TypeOK'
    BY <1>2 DEF CycleEnds, IInv, TypeOK, time
  <2>2. CycleIsBounded'
    BY <1>2 DEF CycleEnds, CycleIsBounded, Idle
  <2> QED BY <1>2, <2>1, <2>2 DEF CycleEnds, IInv, OnTime, time
<1>3. CASE Sleep
  <2>1. /\ interval' \in Intervals /\ tick' = NextStart(tick, interval') /\ wake' = now + (tick' - wall)
        /\ applied' \in Documents /\ stage' = "asleep" /\ stepped' = FALSE
        /\ UNCHANGED <<now, wall, steps, cycle, probe>>
    BY <1>3 DEF Sleep
  <2>2. interval' \in Nat \ {0} /\ tick \in Int /\ now \in Nat /\ wall \in Int
    BY <2>1, ProbeCycleAssumption DEF IInv, TypeOK
  <2>3. tick' \in Int /\ wall <= tick' /\ tick' <= wall + interval'
    BY <2>1, <2>2, NextStartAhead
  <2>4. wake' \in Nat /\ tick' - wall' <= wake' - now'
    BY <2>1, <2>2, <2>3
  <2>5. TypeOK'
    BY <2>1, <2>3, <2>4 DEF IInv, TypeOK
  <2>6. CycleIsBounded'
    BY <2>1 DEF IInv, CycleIsBounded
  <2> QED BY <2>1, <2>4, <2>5, <2>6 DEF IInv, OnTime
<1>4. CASE \E t \in Targets : Step(t)
  BY <1>4, StepOK
<1>5. CASE Child
  BY <1>5 DEF Child, Redials, Impostor, Writes, grid, time, IInv, TypeOK, OnTime, CycleIsBounded
<1>6. CASE Tick
  <2>1. /\ now' = now + 1 /\ wall' = wall + 1
        /\ UNCHANGED <<steps, stepped, applied, interval, tick, wake, stage, cycle, probe>>
    BY <1>6 DEF Tick, grid
  <2>2. TypeOK'
    BY <2>1 DEF IInv, TypeOK
  <2>3. CycleIsBounded'
    <3> SUFFICES ASSUME NEW t \in Targets, probe[t].at \in Running
                 PROVE  now + 1 <= probe[t].start + Budget
      BY <2>1 DEF CycleIsBounded
    <3>1. now < Deadline(probe[t])
      BY <1>6 DEF Tick
    <3>2. probe[t] \in Probe
      BY DEF IInv, TypeOK, Probe
    <3>3. Deadline(probe[t]) <= probe[t].start + Budget /\ Deadline(probe[t]) \in Int
      BY <3>2, DeadlineBounded
    <3>4. probe[t].start \in Nat
      BY <3>2, RunningOK DEF RunningProbe
    <3> QED BY <3>1, <3>3, <3>4, ProbeCycleAssumption DEF IInv, TypeOK
  <2>4. OnTime'
    BY <2>1 DEF IInv, TypeOK, OnTime
  <2> QED BY <2>2, <2>3, <2>4 DEF IInv
<1>7. CASE ClockSet
  <2>1. PICK d \in ClockSteps : wall' = wall + d /\ stepped' = (stepped \/ d < 0)
    BY <1>7 DEF ClockSet
  <2>2. UNCHANGED <<now, applied, interval, tick, wake, stage, cycle, probe>> /\ steps' = steps + 1
    BY <1>7 DEF ClockSet, grid
  <2>3. d \in Int
    BY ProbeCycleAssumption
  <2>4. TypeOK' /\ CycleIsBounded'
    BY <2>1, <2>2, <2>3 DEF IInv, TypeOK, CycleIsBounded
  <2>5. ASSUME ~stepped' PROVE tick' - wall' <= wake' - now'
    <3>1. ~stepped /\ ~(d < 0)
      BY <2>1, <2>5
    <3>2. tick - wall <= wake - now
      BY <3>1 DEF IInv, OnTime
    <3> QED BY <2>1, <2>2, <2>3, <3>1, <3>2 DEF IInv, TypeOK
  <2> QED BY <2>2, <2>4, <2>5 DEF IInv, OnTime
<1>8. CASE Horizon \/ UNCHANGED vars
  BY <1>8 DEF Horizon, vars, grid, time, IInv, TypeOK, OnTime, CycleIsBounded
<1> QED BY <1>1, <1>2, <1>3, <1>4, <1>5, <1>6, <1>7, <1>8 DEF Next

THEOREM Invariance == Spec => []IInv
<1>1. Init => IInv
  BY InitOK
<1>2. IInv /\ [Next]_vars => IInv'
  BY NextOK
<1> QED BY <1>1, <1>2, PTL DEF Spec

\* The state keeps its shape: every result has a reason of the dictionary.
THEOREM TypeCorrect == Spec => []TypeOK
<1>1. IInv => TypeOK
  BY DEF IInv
<1> QED BY <1>1, Invariance, PTL

\* However many targets hang and in whichever phase, a cycle's probes are over
\* within one budget (Runner.Cycle).
THEOREM Bounded == Spec => []CycleIsBounded
<1>1. IInv => CycleIsBounded
  BY DEF IInv
<1> QED BY <1>1, Invariance, PTL

\* Whenever the wall clock is set, the loop never sleeps longer than an interval;
\* and no timer, however late, and no cycle, however long, takes a start off the
\* grid or makes two cycles follow one another without a wait, unless the clock
\* was set back since the last start was scheduled (Loop.nextStart).
THEOREM OnTheGrid == Spec => GridKept
<1> DEFINE Kept == stage = "rest" /\ stage' = "asleep" =>
                     /\ now <= wake' /\ wake' <= now + interval'
                     /\ ~stepped => tick' > tick /\ (tick' - tick) % interval' = 0
<1>1. IInv /\ [Next]_vars => [Kept]_vars
  <2> SUFFICES ASSUME IInv, Next, stage = "rest", stage' = "asleep"
               PROVE  /\ now <= wake' /\ wake' <= now + interval'
                      /\ ~stepped => tick' > tick /\ (tick' - tick) % interval' = 0
    OBVIOUS
  <2>1. Sleep
    <3>1. ~Tick /\ ~ClockSet /\ ~Horizon /\ ~Child
      BY DEF Tick, ClockSet, Horizon, Child, Redials, Impostor, Writes, grid, vars
    <3>2. ~BeginCycle /\ ~CycleEnds
      BY DEF BeginCycle, CycleEnds
    <3>3. ASSUME NEW t \in Targets, Step(t) PROVE UNCHANGED stage
      BY <3>3, StepKeepsTime DEF grid
    <3> QED BY <3>1, <3>2, <3>3 DEF Next
  <2>2. interval' \in Intervals /\ tick' = NextStart(tick, interval') /\ wake' = now + (tick' - wall)
    BY <2>1 DEF Sleep
  <2>3. interval' \in Nat \ {0} /\ tick \in Int /\ now \in Nat /\ wall \in Int
    BY <2>2, ProbeCycleAssumption DEF IInv, TypeOK
  <2>4. ~stepped => tick <= wall
    BY <2>3 DEF IInv, TypeOK, OnTime
  <2>5. /\ tick' \in Int /\ wall <= tick' /\ tick' <= wall + interval'
        /\ tick <= wall => tick' > tick /\ (tick' - tick) % interval' = 0
    BY <2>2, <2>3, NextStartAhead
  <2> QED BY <2>2, <2>3, <2>4, <2>5
<1> QED BY <1>1, Invariance, PTL DEF Spec, GridKept

-----------------------------------------------------------------------------
(* What a reason tells of the phases *)

\* ReasonFitsPhases of one result.
Fits(t, r) ==
    /\ r.reason \in {"tcp_refused", "tls_timeout"} /\ r.hops = 0
         => r.tls = Unmeasured /\ r.ttfb = Unmeasured
    /\ r.reason = "tls_timeout" => r.connect # Unmeasured
    /\ r.reason = "http_error" /\ r.connect # Unmeasured => r.tls # Unmeasured
    /\ r.reason = "tcp_timeout" => r.connect = "slow" \/ (r.connect = Unmeasured /\ r.tls = Unmeasured)
    /\ r.ttfb # Unmeasured => r.tls # Unmeasured
    /\ r.reason = Nil => r.connect # Unmeasured /\ r.tls # Unmeasured /\ r.ttfb # Unmeasured
    /\ t \in AwgTargets /\ r.handshake # Unmeasured => r.reason # "awg_no_handshake"
    /\ t \in AwgTargets /\ r.reason # "awg_no_handshake" /\ r.connect # Unmeasured
         => r.handshake # Unmeasured

\* A phase is entered only with the measures of those before it; a redirected
\* probe has them all.
PhaseOf(t, p) ==
    /\ p.at \in {"dial", "socks"} => t \in XrayTargets
    /\ p.at \in {"open", "poll", "redial"} => t \in AwgTargets
    /\ p.at \in {"open", "poll"} => p.hops = 0
    /\ p.at = "redial" => p.hops # 0
    /\ p.at = "open" => p.handshake = Unmeasured
    /\ p.at \notin {"dial", "open", "poll"} => p.connect # Unmeasured /\ (t \in AwgTargets => p.handshake # Unmeasured)
    /\ p.at \in {"dial", "open", "poll"} /\ p.hops = 0 => p.connect = Unmeasured
    /\ p.at \notin {"reply", "body"} /\ p.hops = 0 => p.tls = Unmeasured /\ p.ttfb = Unmeasured
    /\ p.at \in {"reply", "body"} => p.tls # Unmeasured
    /\ p.at = "body" => p.ttfb # Unmeasured
    /\ p.hops # 0 => p.connect # Unmeasured /\ p.tls # Unmeasured /\ p.ttfb # Unmeasured

Sound(t, p) == (p.at \in Running => PhaseOf(t, p)) /\ (p.at = "done" => Fits(t, p))

PInv == \A t \in Targets : Sound(t, probe[t])

\* A target is probed through xray or through AWG, not both.
LEMMA TwoKinds ==
    ASSUME NEW t \in Targets
    PROVE  t \in AwgTargets <=> t \notin XrayTargets
BY ProbeCycleAssumption DEF Targets

LEMMA StartedSound ==
    ASSUME NEW t \in Targets
    PROVE  Sound(t, Started(t))
BY TwoKinds DEF Sound, PhaseOf, Started

LEMMA IdleSound ==
    ASSUME NEW t
    PROVE  Sound(t, Idle)
BY DEF Sound, Idle

LEMMA EndsSound ==
    ASSUME NEW t \in Targets, NEW p, NEW reason, Ends(t, p, reason), Fits(t, Result(p, reason))
    PROVE  \E q : probe' = [probe EXCEPT ![t] = q] /\ Sound(t, q)
<1>1. Result(p, reason).at = "done"
  BY DEF Result
<1>2. Sound(t, Result(p, reason))
  BY <1>1 DEF Sound
<1> QED BY <1>2 DEF Ends, Becomes, Result

\* What Classify says of the phases reached.
LEMMA ClassifySays ==
    ASSUME NEW err, NEW connect, NEW tls
    PROVE  /\ Classify(err, connect, tls) \in Reasons \ {"awg_no_handshake", "reality_real_cert"}
           /\ Classify(err, connect, tls) = "tls_timeout" <=> err = "tls_timer"
           /\ Classify(err, connect, tls) = "tcp_refused" => err = "refused" \/ tls = Unmeasured
           /\ Classify(err, connect, tls) = "http_error" => err = "answer" \/ tls # Unmeasured
           /\ Classify(err, connect, tls) = "tcp_timeout"
                => connect = "slow" \/ (err = "io_timeout" /\ connect = Unmeasured /\ tls = Unmeasured)
BY DEF Classify, ConnectExceeded

\* A failed probe: an answer came with every measure, TLS did not time out unless
\* it began, and nobody refused the first dial after it was done.
LEMMA FailsSound ==
    ASSUME IInv, PInv, NEW t \in Targets, Failing(t)
    PROVE  \E q : probe' = [probe EXCEPT ![t] = q] /\ Sound(t, q)
<1>1. PICK err : /\ Fails(t, err)
                 /\ probe[t].at \in Running \ {"open", "poll"}
                 /\ err = "answer" => probe[t].at = "body"
                 /\ err = "tls_timer" => probe[t].at = "tls"
                 /\ err = "refused" => probe[t].at \in {"dial", "redial"}
                 /\ err = "io_timeout" => probe[t].at = "dial"
  BY FailingFails
<1> DEFINE reason == IF t \in XrayTargets /\ RealCertificate(t) THEN "reality_real_cert"
                     ELSE Classify(err, Traced(t), probe[t].tls)
           r == Result(probe[t], reason)
<1>2. Ends(t, probe[t], reason)
  BY <1>1 DEF Fails
<1>3. PhaseOf(t, probe[t])
  BY <1>1 DEF PInv, Sound
<1>4. \/ reason = "reality_real_cert" /\ t \in XrayTargets
      \/ /\ reason \in Reasons \ {"awg_no_handshake", "reality_real_cert"}
         /\ reason = "tls_timeout" <=> err = "tls_timer"
         /\ reason = "tcp_refused" => err = "refused" \/ probe[t].tls = Unmeasured
         /\ reason = "http_error" => err = "answer" \/ probe[t].tls # Unmeasured
         /\ reason = "tcp_timeout"
              => Traced(t) = "slow" \/ (err = "io_timeout" /\ Traced(t) = Unmeasured /\ probe[t].tls = Unmeasured)
  <2>1. CASE t \in XrayTargets /\ RealCertificate(t)
    BY <2>1
  <2>2. CASE ~(t \in XrayTargets /\ RealCertificate(t))
    <3>1. reason = Classify(err, Traced(t), probe[t].tls)
      BY <2>2
    <3> HIDE DEF reason
    <3> QED BY <3>1, ClassifySays
  <2> QED BY <2>1, <2>2
<1> HIDE DEF reason
<1>5. /\ r.reason = reason /\ r.connect = probe[t].connect /\ r.tls = probe[t].tls
      /\ r.ttfb = probe[t].ttfb /\ r.handshake = probe[t].handshake
      /\ r.hops = probe[t].hops
  BY DEF Result
<1> HIDE DEF r
<1>6. reason = "tcp_timeout" => r.connect = "slow" \/ (r.connect = Unmeasured /\ r.tls = Unmeasured)
  BY <1>1, <1>3, <1>4, <1>5 DEF Traced, PhaseOf
<1>7. reason \in {"tcp_refused", "tls_timeout"} /\ r.hops = 0 => r.tls = Unmeasured /\ r.ttfb = Unmeasured
  BY <1>1, <1>3, <1>4, <1>5 DEF PhaseOf
<1>8. Fits(t, r)
  BY <1>1, <1>3, <1>4, <1>5, <1>6, <1>7, TwoKinds DEF Fits, PhaseOf
<1> QED BY <1>2, <1>8, EndsSound DEF r

LEMMA MovesSound ==
    ASSUME NEW t \in Targets, NEW p \in RunningProbe, NEW at, Moves(t, p, at),
           PhaseOf(t, [p EXCEPT !.at = at, !.since = now]), at \in Running
    PROVE  \E q : probe' = [probe EXCEPT ![t] = q] /\ Sound(t, q)
<1> DEFINE q == [p EXCEPT !.at = at, !.since = now]
<1>1. q.at = at
  BY DEF RunningProbe
<1>2. probe' = [probe EXCEPT ![t] = q]
  BY DEF Moves, Becomes
<1> HIDE DEF q
<1>3. Sound(t, q)
  BY <1>1 DEF Sound, q
<1> QED BY <1>2, <1>3

\* What a phase change leaves of a probe.
LEMMA MovedParts ==
    ASSUME NEW p \in RunningProbe, NEW at
    PROVE  LET q == [p EXCEPT !.at = at, !.since = now]
           IN  /\ q.at = at /\ q.hops = p.hops /\ q.connect = p.connect /\ q.tls = p.tls
               /\ q.ttfb = p.ttfb /\ q.handshake = p.handshake
BY DEF RunningProbe

LEMMA StepSound ==
    ASSUME IInv, PInv, NEW t \in Targets, Step(t)
    PROVE  \E q : probe' = [probe EXCEPT ![t] = q] /\ Sound(t, q)
<1>0. probe[t].at \in Running
  BY OnlyRunning
<1>1. probe[t] \in RunningProbe
  BY <1>0, RunningOK DEF IInv, TypeOK, Probe
<1>2. PhaseOf(t, probe[t])
  BY <1>0 DEF PInv, Sound
<1>3. Took(t) \in Measures \ {Unmeasured}
  BY DEF Took
<1>4. CASE Connects(t) \/ Dialed(t)
  <2>1. PICK connect \in Measures \ {Unmeasured}, at \in {"socks", "tls"} :
            /\ Moves(t, [probe[t] EXCEPT !.connect = connect], at)
            /\ \/ probe[t].at = "dial" /\ at = "socks"
               \/ probe[t].at = "poll" /\ at = "tls" /\ probe[t].handshake # Unmeasured
    BY <1>1, <1>3, <1>4 DEF Connects, Dialed, ConnectOf, At, RunningProbe
  <2> DEFINE p == [probe[t] EXCEPT !.connect = connect]
             q == [p EXCEPT !.at = at, !.since = now]
  <2>2. /\ p \in RunningProbe /\ p.connect = connect /\ p.hops = probe[t].hops
        /\ p.tls = probe[t].tls /\ p.ttfb = probe[t].ttfb /\ p.handshake = probe[t].handshake
    BY <1>1 DEF RunningProbe
  <2>3. Moves(t, p, at)
    BY <2>1
  <2> HIDE DEF p
  <2>4. /\ q.at = at /\ q.hops = p.hops /\ q.connect = p.connect /\ q.tls = p.tls
        /\ q.ttfb = p.ttfb /\ q.handshake = p.handshake
    BY <2>2, MovedParts
  <2>5. PhaseOf(t, q)
    <3> HIDE DEF q
    <3> QED BY <1>2, <2>1, <2>2, <2>4, TwoKinds DEF PhaseOf
  <2> QED BY <2>2, <2>3, <2>5, MovesSound
<1>5. CASE TlsDone(t)
  <2> DEFINE p == [probe[t] EXCEPT !.tls = "timely"]
             q == [p EXCEPT !.at = "reply", !.since = now]
  <2>1. /\ p \in RunningProbe /\ p.connect = probe[t].connect /\ p.hops = probe[t].hops
        /\ p.tls = "timely" /\ p.ttfb = probe[t].ttfb /\ p.handshake = probe[t].handshake
    BY <1>1 DEF RunningProbe
  <2>2. Moves(t, p, "reply") /\ probe[t].at = "tls"
    BY <1>5 DEF TlsDone, At
  <2> HIDE DEF p
  <2>3. /\ q.at = "reply" /\ q.hops = p.hops /\ q.connect = p.connect /\ q.tls = p.tls
        /\ q.ttfb = p.ttfb /\ q.handshake = p.handshake
    BY <2>1, MovedParts
  <2>4. PhaseOf(t, q)
    <3> HIDE DEF q
    <3> QED BY <1>2, <2>1, <2>2, <2>3 DEF PhaseOf
  <2> QED BY <2>1, <2>2, <2>4, MovesSound
<1>6. CASE TunnelOpens(t) \/ SocksAnswers(t) \/ Redialed(t) \/ Answered(t)
  <2>1. PICK at \in Running :
            /\ Moves(t, probe[t], at)
            /\ \/ probe[t].at = "open" /\ at = "poll"
               \/ probe[t].at \in {"socks", "redial"} /\ (at = "tls" \/ (at = "reply" /\ probe[t].hops # 0))
               \/ probe[t].at = "reply" /\ at = "body" /\ probe[t].ttfb # Unmeasured
    BY <1>6 DEF TunnelOpens, SocksAnswers, Redialed, Answered, Speaks, At
  <2> DEFINE q == [probe[t] EXCEPT !.at = at, !.since = now]
  <2>2. /\ q.at = at /\ q.hops = probe[t].hops /\ q.connect = probe[t].connect /\ q.tls = probe[t].tls
        /\ q.ttfb = probe[t].ttfb /\ q.handshake = probe[t].handshake
    BY <1>1, MovedParts
  <2>3. PhaseOf(t, q)
    <3> HIDE DEF q
    <3> QED BY <1>2, <2>1, <2>2, TwoKinds DEF PhaseOf
  <2> QED BY <1>1, <2>1, <2>3, MovesSound
<1>7. CASE HandshakeSeen(t) \/ FirstByte(t)
  <2>1. PICK q : /\ probe' = [probe EXCEPT ![t] = q]
                 /\ \/ q = [probe[t] EXCEPT !.handshake = "timely"] /\ probe[t].at = "poll"
                    \/ q = [probe[t] EXCEPT !.ttfb = "timely"] /\ probe[t].at = "reply"
    BY <1>7 DEF HandshakeSeen, FirstByte, At, Becomes
  <2>2. /\ q.at = probe[t].at /\ q.hops = probe[t].hops /\ q.connect = probe[t].connect /\ q.tls = probe[t].tls
        /\ \/ q.at = "poll" /\ q.ttfb = probe[t].ttfb /\ q.handshake = "timely"
           \/ q.at = "reply" /\ q.ttfb = "timely" /\ q.handshake = probe[t].handshake
    BY <1>1, <2>1 DEF RunningProbe
  <2>3. Sound(t, q)
    BY <1>2, <2>2 DEF Sound, PhaseOf
  <2> QED BY <2>1, <2>3
<1>8. CASE NoTunnel(t)
  <2> DEFINE r == Result(probe[t], "awg_no_handshake")
  <2>1. /\ r.reason = "awg_no_handshake" /\ r.handshake = probe[t].handshake
        /\ r.ttfb = probe[t].ttfb /\ r.connect = probe[t].connect
    BY DEF Result
  <2>2. probe[t].at = "open" /\ Ends(t, probe[t], "awg_no_handshake")
    BY <1>8 DEF NoTunnel, At
  <2> HIDE DEF r
  <2>3. Fits(t, r)
    BY <1>2, <2>1, <2>2 DEF Fits, PhaseOf
  <2> QED BY <2>2, <2>3, EndsSound DEF r
<1>9. CASE DialRefused(t) \/ DialTimesOut(t)
  <2> DEFINE p == [probe[t] EXCEPT !.connect = Took(t)]
  <2>1. PICK err : NotDialed(t, err) /\ err \in {"refused", "deadline"} /\ probe[t].at = "poll"
    BY <1>9 DEF DialRefused, DialTimesOut, At
  <2>2. p.handshake = probe[t].handshake /\ p.tls = probe[t].tls /\ p.ttfb = probe[t].ttfb
    BY <1>1 DEF RunningProbe
  <2>3. \/ p.handshake = Unmeasured /\ Ends(t, p, "awg_no_handshake")
        \/ p.handshake # Unmeasured /\ Ends(t, p, Classify(err, Unmeasured, Unmeasured))
    BY <2>1 DEF NotDialed
  <2> HIDE DEF p
  <2>4. PICK reason : /\ Ends(t, p, reason)
                      /\ reason \in {"awg_no_handshake", "tcp_refused", "probe_timeout"}
                      /\ reason = "awg_no_handshake" <=> p.handshake = Unmeasured
    <3>1. Classify(err, Unmeasured, Unmeasured) \in {"tcp_refused", "probe_timeout"}
      BY <2>1 DEF Classify, ConnectExceeded
    <3> QED BY <2>3, <3>1
  <2> DEFINE r == Result(p, reason)
  <2>5. r.reason = reason /\ r.tls = p.tls /\ r.handshake = p.handshake /\ r.ttfb = p.ttfb
    BY DEF Result
  <2> HIDE DEF r
  <2>6. Fits(t, r)
    BY <1>2, <2>1, <2>2, <2>4, <2>5 DEF Fits, PhaseOf
  <2> QED BY <2>4, <2>6, EndsSound DEF r
<1>10. CASE Echoed(t)
  <2> DEFINE r == Result(probe[t], Nil)
  <2>1. /\ r.reason = Nil /\ r.connect = probe[t].connect /\ r.tls = probe[t].tls
        /\ r.ttfb = probe[t].ttfb /\ r.handshake = probe[t].handshake
    BY DEF Result
  <2>2. probe[t].at = "body" /\ Ends(t, probe[t], Nil)
    BY <1>10 DEF Echoed, At
  <2> HIDE DEF r
  <2>3. Fits(t, r)
    BY <1>2, <2>1, <2>2 DEF Fits, PhaseOf
  <2> QED BY <2>2, <2>3, EndsSound DEF r
<1>11. CASE Panics(t)
  <2> DEFINE r == Result(Started(t), "http_error")
  <2>1. Fits(t, r)
    BY DEF Fits, Result, Started
  <2> HIDE DEF r
  <2> QED BY <1>11, <2>1, EndsSound DEF r, Panics
<1>12. CASE Redirected(t)
  <2> DEFINE p == [probe[t] EXCEPT !.hops = @ + 1]
  <2>1. PICK at \in Running : /\ Moves(t, p, at) /\ probe[t].at = "body"
                             /\ at = IF t \in XrayTargets THEN "dial" ELSE "redial"
    BY <1>12 DEF Redirected, At
  <2> DEFINE q == [p EXCEPT !.at = at, !.since = now]
  <2>0. probe[t].hops \in Nat /\ probe[t].hops + 1 \in Nat /\ probe[t].hops + 1 # 0
    BY <1>1 DEF RunningProbe
  <2>2. /\ p \in RunningProbe /\ p.connect = probe[t].connect /\ p.hops # 0
        /\ p.tls = probe[t].tls /\ p.ttfb = probe[t].ttfb /\ p.handshake = probe[t].handshake
    BY <1>1, <2>0 DEF RunningProbe
  <2> HIDE DEF p
  <2>3. /\ q.at = at /\ q.hops = p.hops /\ q.connect = p.connect /\ q.tls = p.tls
        /\ q.ttfb = p.ttfb /\ q.handshake = p.handshake
    BY <2>2, MovedParts
  <2>4. PhaseOf(t, q)
    <3> HIDE DEF q
    <3> QED BY <1>2, <2>1, <2>2, <2>3, TwoKinds DEF PhaseOf
  <2> QED BY <2>1, <2>2, <2>4, MovesSound
<1>13. CASE Failing(t)
  BY <1>13, FailsSound
<1>14. CASE Routes(t)
  <2>1. probe' = [probe EXCEPT ![t] = probe[t]]
    BY <1>14 DEF Routes, IInv, TypeOK
  <2> QED BY <2>1 DEF PInv
<1> QED BY <1>4, <1>5, <1>6, <1>7, <1>8, <1>9, <1>10, <1>11, <1>12, <1>13, <1>14 DEF Step, Failing

LEMMA InitSound == Init => PInv
BY IdleSound DEF Init, PInv

LEMMA NextSound ==
    ASSUME IInv, PInv, [Next]_vars
    PROVE  PInv'
<1>1. CASE BeginCycle
  <2>1. PICK probed \in {applied, applied \cap AwgTargets} :
            probe' = [t \in Targets |-> IF t \in probed THEN Started(t) ELSE Idle]
    BY <1>1 DEF BeginCycle
  <2> QED BY <2>1, StartedSound, IdleSound DEF PInv
<1>2. CASE CycleEnds
  BY <1>2, IdleSound DEF CycleEnds, PInv
<1>3. ASSUME NEW t \in Targets, Step(t) PROVE PInv'
  <2>1. PICK q : probe' = [probe EXCEPT ![t] = q] /\ Sound(t, q)
    BY <1>3, StepSound
  <2>2. \A u \in Targets : probe'[u] = IF u = t THEN q ELSE probe[u]
    BY <2>1 DEF IInv, TypeOK
  <2> QED BY <2>1, <2>2 DEF PInv
<1>4. CASE Sleep \/ Child \/ Tick \/ ClockSet \/ Horizon \/ UNCHANGED vars
  <2>1. probe' = probe
    BY <1>4 DEF Sleep, Child, Redials, Impostor, Writes, Tick, ClockSet, Horizon, vars
  <2> QED BY <2>1 DEF PInv
<1> QED BY <1>1, <1>2, <1>3, <1>4 DEF Next

LEMMA AlwaysSound == Spec => [](IInv /\ PInv)
<1>1. Init => IInv /\ PInv
  BY InitOK, InitSound
<1>2. IInv /\ PInv /\ [Next]_vars => (IInv /\ PInv)'
  BY NextOK, NextSound
<1> QED BY <1>1, <1>2, PTL DEF Spec

\* Whatever happens on the way, redirects included, do.go, classify.go and
\* awg/probe.go give no reason the measures next to it contradict: without a
\* redirect a refusal carried no byte of ours, an answer's failure comes after a
\* TLS handshake, a success measured every phase, an AWG failure says whether
\* there was a handshake.
THEOREM ReasonsFit == Spec => []ReasonFitsPhases
<1>1. PInv => ReasonFitsPhases
  BY DEF PInv, Sound, ReasonFitsPhases, Fits, Done
<1> QED BY <1>1, AlwaysSound, PTL

-----------------------------------------------------------------------------
(* Whose certificate it was *)

\* A session is routed as it is opened: its detour line is in the window, and the
\* only detour lines there are of the cycle under way.
Routed ==
    /\ \A l \in ring : l = Line(l.session, l.what)
    /\ \A l \in ring : l.what = "detour" => \E t \in XrayTargets : l.session = Session(t)
    /\ \A t \in XrayTargets : Session(t) \in sessions => Line(Session(t), "detour") \in ring

LEMMA LineParts ==
    ASSUME NEW s, NEW what
    PROVE  Line(s, what).session = s /\ Line(s, what).what = what
BY DEF Line

\* A probe that was routed is diagnosed by its own session alone.
LEMMA OwnSessionAlone ==
    ASSUME Routed, NEW t \in XrayTargets, Session(t) \in sessions
    PROVE  RealCertificate(t) <=> Line(Session(t), "cert") \in ring
<1>1. SessionsOf("detour") \subseteq {Session(u) : u \in XrayTargets}
  BY DEF SessionsOf, Routed
<1>2. Session(t) \in SessionsOf("detour")
  BY LineParts DEF SessionsOf, Routed
<1>3. \A u \in XrayTargets : Session(u).target = u
  BY DEF Session
<1>4. {s \in SessionsOf("detour") : s.target = t} = {Session(t)}
  BY <1>1, <1>2, <1>3
<1>5. TargetSessions(t) = {Session(t)}
  BY <1>4 DEF TargetSessions
<1>6. Session(t) \in SessionsOf("cert") <=> Line(Session(t), "cert") \in ring
  BY LineParts DEF SessionsOf, Routed
<1> QED BY <1>5, <1>6 DEF RealCertificate

\* What a step of one probe does to the child's log.
LEMMA StepLogs ==
    ASSUME NEW t \in Targets, Step(t)
    PROVE  \/ UNCHANGED log
           \/ /\ t \in XrayTargets
              /\ sessions' = sessions \cup {Session(t)}
              /\ ring' = ring \cup {Line(Session(t), "detour"), Line(Session(t), "dial")}
<1>1. CASE Routes(t)
  BY <1>1 DEF Routes
<1>2. CASE ~Routes(t)
  BY <1>2 DEF Step, Connects, SocksRefuses, DialEnds, SocksAnswers, NoTunnel, TunnelOpens,
         HandshakeSeen, Dialed, DialRefused, DialTimesOut, NotDialed, Redialed, RedialRefused, TlsDone,
         TlsTimesOut, FirstByte, HeadersTimeOut, Answered, Echoed, Rejected, Redirected,
         Broken, BudgetSpent, Panics, Fails, Ends
<1> QED BY <1>1, <1>2

\* More lines of sessions already routed leave the window routed.
LEMMA NextRouted ==
    ASSUME IInv, PInv, Routed, [Next]_vars
    PROVE  Routed'
<1>1. CASE BeginCycle
  <2>1. sessions' = {s \in sessions : s.cycle = cycle} /\ ring' = {} /\ cycle' = cycle + 1
    BY <1>1 DEF BeginCycle
  <2>2. cycle \in Nat
    BY DEF IInv, TypeOK
  <2>3. ASSUME NEW t \in XrayTargets PROVE Session(t)' \notin sessions'
    <3>1. Session(t)'.cycle = cycle + 1
      BY <2>1 DEF Session
    <3>2. cycle + 1 # cycle
      BY <2>2
    <3> QED BY <2>1, <3>1, <3>2
  <2> QED BY <2>1, <2>3 DEF Routed
<1>2. ASSUME NEW t \in Targets, Step(t) PROVE Routed'
  <2>1. UNCHANGED cycle
    BY <1>2, StepKeepsTime DEF grid
  <2>2. CASE UNCHANGED log
    BY <2>1, <2>2 DEF log, Routed, Session
  <2>3. CASE /\ t \in XrayTargets
             /\ sessions' = sessions \cup {Session(t)}
             /\ ring' = ring \cup {Line(Session(t), "detour"), Line(Session(t), "dial")}
    <3>1. \A u : Session(u)' = Session(u)
      BY <2>1 DEF Session
    <3> QED BY <2>3, <3>1, LineParts DEF Routed
  <2> QED BY <1>2, <2>2, <2>3, StepLogs
<1>3. CASE Child
  <2>1. PICK s, what : Writes(s, what) /\ what # "detour"
    <3>1. PICK s \in sessions : Redials(s) \/ Impostor(s)
      BY <1>3 DEF Child
    <3>2. Writes(s, "dial") \/ Writes(s, "cert")
      BY <3>1 DEF Redials, Impostor
    <3> QED BY <3>2
  <2>2. ring' = ring \cup {Line(s, what)} /\ UNCHANGED <<sessions, cycle>>
    BY <2>1 DEF Writes, grid
  <2>3. \A u : Session(u)' = Session(u)
    BY <2>2 DEF Session
  <2>4. Line(s, what).what # "detour" /\ Line(s, what).session = s /\ Line(s, what).what = what
    BY <2>1, LineParts
  <2>5. \A l \in ring' : l = Line(l.session, l.what)
    BY <2>2, <2>4 DEF Routed
  <2>6. \A l \in ring' : l.what = "detour" => \E t \in XrayTargets : l.session = Session(t)'
    BY <2>2, <2>3, <2>4 DEF Routed
  <2>7. \A t \in XrayTargets : Session(t)' \in sessions' => Line(Session(t)', "detour") \in ring'
    BY <2>2, <2>3 DEF Routed
  <2>8. \A t : Line(Session(t), "detour")' = Line(Session(t)', "detour")
    BY DEF Line
  <2> QED BY <2>5, <2>6, <2>7, <2>8 DEF Routed
<1>4. CASE CycleEnds \/ Sleep \/ Tick \/ ClockSet \/ Horizon \/ UNCHANGED vars
  BY <1>4 DEF CycleEnds, Sleep, Tick, ClockSet, Horizon, vars, grid, log, Routed, Session
<1> QED BY <1>1, <1>2, <1>3, <1>4 DEF Next

LEMMA AlwaysRouted == Spec => [](IInv /\ PInv /\ Routed)
<1>1. Init => Routed
  BY DEF Init, Routed
<1>2. Routed /\ IInv /\ PInv /\ [Next]_vars => Routed'
  BY NextRouted
<1> QED BY <1>1, <1>2, AlwaysSound, PTL DEF Spec

\* Only a step of its own ends a probe, and one that ends an xray probe with a
\* diagnosis and a measured dial asked RealCertificate.
LEMMA DiagnosedBy ==
    ASSUME IInv, PInv, [Next]_vars, NEW t \in XrayTargets, probe[t].at \in Running,
           probe'[t].at = "done", probe'[t].reason # Nil, probe'[t].connect # Unmeasured
    PROVE  probe'[t].reason = "reality_real_cert" <=> RealCertificate(t)
<1>0. t \in Targets /\ probe[t].at # "done" /\ Idle.at # "done"
  BY DEF Targets, Idle
<1>1. ASSUME NEW u \in Targets, Step(u), u # t PROVE FALSE
  <2>1. PICK q : probe' = [probe EXCEPT ![u] = q]
    BY <1>1, StepSound
  <2>2. probe'[t] = probe[t]
    BY <1>0, <1>1, <2>1 DEF IInv, TypeOK
  <2> QED BY <1>0, <2>2
<1>2. Step(t)
  <2>1. ~BeginCycle
    BY <1>0 DEF BeginCycle, Started
  <2>2. ~CycleEnds
    BY <1>0 DEF CycleEnds
  <2>3. ~Sleep /\ ~Child /\ ~Tick /\ ~ClockSet /\ ~Horizon /\ ~UNCHANGED vars
    BY <1>0 DEF Sleep, Child, Redials, Impostor, Writes, Tick, ClockSet, Horizon, vars
  <2> QED BY <1>1, <2>1, <2>2, <2>3 DEF Next
<1>3. probe[t] \in RunningProbe
  BY <1>0, RunningOK DEF IInv, TypeOK, Probe
<1>4. ASSUME NEW p, NEW reason, Ends(t, p, reason)
      PROVE  probe'[t].reason = reason /\ probe'[t].connect = p.connect
  BY <1>0, <1>4 DEF Ends, Becomes, IInv, TypeOK
<1>5. ASSUME NEW p \in RunningProbe, Becomes(t, p) PROVE FALSE
  <2>1. probe'[t] = p
    BY <1>0, <1>5 DEF Becomes, IInv, TypeOK
  <2> QED BY <2>1 DEF RunningProbe
<1>6. ASSUME NEW p \in RunningProbe, NEW at \in Running, Moves(t, p, at) PROVE FALSE
  <2>1. [p EXCEPT !.at = at, !.since = now] \in RunningProbe
    BY DEF RunningProbe, IInv, TypeOK
  <2> QED BY <1>5, <1>6, <2>1 DEF Moves
<1>7. probe[t].at \notin {"open", "poll", "redial"}
  BY <1>0, TwoKinds DEF PInv, Sound, PhaseOf
<1>8. ~Connects(t) /\ ~SocksAnswers(t) /\ ~TlsDone(t) /\ ~FirstByte(t) /\ ~Answered(t) /\ ~Redirected(t) /\ ~Routes(t)
  <2>1. \A connect \in Measures : [probe[t] EXCEPT !.connect = connect] \in RunningProbe
    BY <1>3 DEF RunningProbe
  <2>0. probe[t].hops \in Nat /\ probe[t].hops + 1 \in Nat
    BY <1>3 DEF RunningProbe
  <2>2. /\ [probe[t] EXCEPT !.tls = "timely"] \in RunningProbe
        /\ [probe[t] EXCEPT !.ttfb = "timely"] \in RunningProbe
        /\ [probe[t] EXCEPT !.hops = @ + 1] \in RunningProbe
    BY <1>3, <2>0 DEF RunningProbe
  <2>3. ConnectOf(t) \in Measures
    BY <1>3 DEF ConnectOf, Took, RunningProbe
  <2>4. ~Connects(t) /\ ~SocksAnswers(t) /\ ~Answered(t)
    BY <1>3, <1>6, <2>1, <2>3 DEF Connects, SocksAnswers, Answered, Speaks
  <2>5. ~TlsDone(t) /\ ~Redirected(t)
    BY <1>6, <2>2 DEF TlsDone, Redirected
  <2>6. ~FirstByte(t)
    BY <1>5, <2>2 DEF FirstByte
  <2>7. ~Routes(t)
    BY <1>0 DEF Routes
  <2> QED BY <2>4, <2>5, <2>6, <2>7
<1>9. ~Echoed(t) /\ ~Panics(t)
  BY <1>4 DEF Echoed, Panics, Started
<1>10. PICK err : Fails(t, err)
  <2>1. Failing(t)
    BY <1>2, <1>7, <1>8, <1>9 DEF Step, Failing, At, NoTunnel, TunnelOpens, HandshakeSeen, Dialed,
           DialRefused, DialTimesOut, Redialed
  <2> QED BY <1>0, <2>1, FailingFails
<1>11. probe'[t].reason = IF RealCertificate(t) THEN "reality_real_cert"
                          ELSE Classify(err, Traced(t), probe[t].tls)
  BY <1>4, <1>10 DEF Fails
<1>12. Classify(err, Traced(t), probe[t].tls) # "reality_real_cert"
  BY DEF Classify
<1> QED BY <1>11, <1>12

\* Two targets on one real server never share a diagnosis (diagnose.go): a probe
\* that was routed is said to have met a real certificate exactly when its own
\* session of this cycle did.
THEOREM CertificatesAreOwn == Spec => CertIsOwn
<1>1. ASSUME IInv, PInv, Routed, [Next]_vars, NEW t \in XrayTargets, probe[t].at \in Running,
             Session(t) \in sessions,
             probe'[t].at = "done", probe'[t].reason # Nil, probe'[t].connect # Unmeasured
      PROVE  probe'[t].reason = "reality_real_cert" <=> Line(Session(t), "cert") \in ring
  BY <1>1, DiagnosedBy, OwnSessionAlone
<1>2. IInv /\ PInv /\ Routed /\ [Next]_vars =>
        [ \A t \in XrayTargets :
            /\ probe[t].at \in Running /\ Session(t) \in sessions
            /\ probe'[t].at = "done" /\ probe'[t].reason # Nil /\ probe'[t].connect # Unmeasured
            => (probe'[t].reason = "reality_real_cert" <=> Line(Session(t), "cert") \in ring) ]_vars
  BY <1>1
<1> QED BY <1>2, AlwaysRouted, PTL DEF Spec, CertIsOwn
===============================================================================
