------------------------------ MODULE ProbeCycle ------------------------------
(***************************************************************************)
(* The probes of a mon-client in time: Loop.Run's tick grid                 *)
(* (internal/client/app/loop.go), Runner.Cycle with every target probed     *)
(* side by side under one budget (internal/client/probe/runner.go), the     *)
(* phases of one probe and the reason a failure is given (probe/do.go,      *)
(* probe/classify.go, probe/xray.go, awg/probe.go), and the window of the   *)
(* xray child's stderr that may change that reason (xray/ring.go,           *)
(* xray/diagnose.go).                                                       *)
(*                                                                         *)
(* Time is a count of ticks.  A timer fires at its instant and not later    *)
(* (Tick waits for it); whatever the network, the far side and the child do *)
(* happens at any instant or never.  Only the sleep between two cycles may  *)
(* end late, by at most Lateness.  Timers follow `now`; the wall clock of   *)
(* clock.Real, which carries no monotonic reading, may be set while no      *)
(* probe runs.  (Set under a probe it cuts the window of stderr lines too,  *)
(* which is left out.)                                                      *)
(*                                                                         *)
(* mon-server's probeUrl is an https one (app.go:606); whoever answers on   *)
(* the way to it may redirect, and net/http follows.                        *)
(***************************************************************************)
EXTENDS Integers

CONSTANTS
    XrayTargets, AwgTargets,
    Server,          \* the addr:port an xray target's link leads to
    Documents,       \* the probe sets of the documents the box may have applied
    Intervals,       \* their values of intervalMs
    Budget, Connect, TLS, Headers,  \* probe.Budgets
    ClockSteps,      \* by how much the wall clock may be set forward or back
    MaxSteps,        \* bound: how often it is set
    MaxRedirects,    \* bound: redirects one probe follows (net/http: 10)
    Lateness,        \* bound: how late a sleep ends
    MaxTime,         \* bound: the instant observation ends
    MaxCycles        \* bound: cycles started

Targets == XrayTargets \cup AwgTargets

ASSUME ProbeCycleAssumption ==
    /\ XrayTargets \cap AwgTargets = {}
    /\ DOMAIN Server = XrayTargets
    /\ Documents \subseteq SUBSET Targets /\ Documents # {}
    /\ Intervals \subseteq Nat \ {0} /\ Intervals # {}
    /\ Budget \in Nat \ {0} /\ Connect \in Nat \ {0} /\ TLS \in Nat \ {0} /\ Headers \in Nat \ {0}
    /\ ClockSteps \subseteq Int /\ MaxSteps \in Nat /\ MaxRedirects \in Nat
    /\ Lateness \in Nat /\ MaxTime \in Nat /\ MaxCycles \in Nat

VARIABLES
    now,             \* time, as timers measure it
    wall,            \* what clock.Real.Now shows
    steps,           \* how often the wall clock was set
    stepped,         \* history: was it set back since tick was scheduled?
    applied,         \* the targets of the applied document
    interval,        \* its intervalMs
    tick,            \* the scheduled start of the current cycle, or of the next while asleep (by wall)
    wake,            \* when the sleep before that cycle is over (by now)
    stage,           \* of Run: "asleep", "probing", or "rest" (heartbeat, config)
    cycle,           \* cycles started
    probe,           \* of each target: where its goroutine is, or its result
    sessions,        \* xray's open sessions, of this cycle and of the one before
    ring             \* the child's stderr lines read since the cycle began

time == <<now, wall, steps, stepped>>
grid == <<applied, interval, tick, wake, stage, cycle>>
log  == <<sessions, ring>>
vars == <<time, grid, probe, log>>

\* A measure is nil, or a duration of which only this matters: did it reach
\* the connect budget?
Unmeasured == "nil"
Measures   == {"nil", "timely", "slow"}
Nil        == "nil"  \* the reason of a success

Reasons == {"tcp_refused", "tcp_timeout", "tls_timeout", "reality_real_cert",
            "awg_no_handshake", "http_error", "probe_timeout"}

Running == {"dial", "socks", "open", "poll", "redial", "tls", "reply", "body"}

(*************************** the stderr window ****************************)

\* A session is named by the target xray routes it for and the cycle that
\* opened it.  The ring's 500 lines are taken to hold what one cycle writes and
\* the reader to keep up with the child, so the window of a probe is every line
\* read since its start.
Line(s, what) == [session |-> s, what |-> what]

SessionsOf(what) == {l.session : l \in {k \in ring : k.what = what}}

\* Mutant: a session is found by the server it dials, as before decision #53.
SessionsByServer(t) == {s \in SessionsOf("dial") : Server[s.target] = Server[t]}

TargetSessions(t) ==
    LET routed == SessionsOf("detour")
        own    == {s \in routed : s.target = t}
        dialed == {s \in SessionsOf("dial") : Server[s.target] = Server[t]}
    IN  IF own # {} THEN own ELSE dialed \ {s \in routed : s.target # t}

\* Diagnose, as far as it changes a reason: the rest only words the detail.
RealCertificate(t) == SessionsOf("cert") \cap TargetSessions(t) # {}

(******************************* one probe ********************************)

\* What stops a probe: an answer that is rejected, a refused dial, the TLS
\* timer, an i/o timeout of the dial, a deadline, or a broken exchange.
\* net/http's timeout awaiting headers and the netstack dialer's deadline
\* answer to context.DeadlineExceeded as the budget does; a net.Dialer that
\* runs out reports an i/o timeout or the context's, whichever timer it sees.
\* Behind a proxy its error is not one of Op "dial", so an i/o timeout names
\* the phase only while nothing is measured.
ConnectExceeded(err, connect, tls) ==
    \/ connect = "slow"
    \/ err = "io_timeout" /\ connect = Unmeasured /\ tls = Unmeasured

\* Mutant: an unnamed failure is a refusal however far the exchange came.
ClassifyAsRefused(err, connect, tls) ==
    CASE err = "answer"      -> "http_error"
      [] err = "refused"     -> "tcp_refused"
      [] err = "tls_timer"   -> "tls_timeout"
      [] OTHER -> IF ConnectExceeded(err, connect, tls) THEN "tcp_timeout"
                  ELSE IF err = "deadline" THEN "probe_timeout" ELSE "tcp_refused"

Classify(err, connect, tls) ==
    CASE err = "answer"      -> "http_error"
      [] err = "refused"     -> "tcp_refused"
      [] err = "tls_timer"   -> "tls_timeout"
      [] OTHER -> IF ConnectExceeded(err, connect, tls) THEN "tcp_timeout"
                  ELSE IF err = "deadline" THEN "probe_timeout"
                  ELSE IF tls = Unmeasured THEN "tcp_refused" ELSE "http_error"

\* Mutant: every phase is given the whole budget anew.
BudgetEndOfPhase(p) == p.since + Budget

BudgetEnd(p) == p.start + Budget

\* The SOCKS negotiation, opening the tunnel, a second dial through it and the
\* reading of the body have no timer of their own.
PhaseEnd(p) ==
    CASE p.at \in {"dial", "poll"} -> p.since + Connect
      [] p.at = "tls"              -> p.since + TLS
      [] p.at = "reply"            -> p.since + Headers
      [] OTHER                     -> BudgetEnd(p)

Deadline(p) == IF PhaseEnd(p) < BudgetEnd(p) THEN PhaseEnd(p) ELSE BudgetEnd(p)

Idle == [at |-> "idle"]

Started(t) ==
    [at |-> IF t \in XrayTargets THEN "dial" ELSE "open", start |-> now, since |-> now,
     connect |-> Unmeasured, tls |-> Unmeasured, ttfb |-> Unmeasured, handshake |-> Unmeasured,
     hops |-> 0]

\* Becomes(t, p): t's probe goes on as p.
Becomes(t, p) ==
    /\ probe' = [probe EXCEPT ![t] = p]
    /\ UNCHANGED <<time, grid>>

\* Moves(t, p, at): t's probe goes on as p, in its next phase.
Moves(t, p, at) == Becomes(t, [p EXCEPT !.at = at, !.since = now])

\* Ends(t, p, reason): p's measures and the verdict are t's result; how often it
\* was redirected is history.
Ends(t, p, reason) ==
    /\ Becomes(t, [at |-> "done", reason |-> reason, connect |-> p.connect, tls |-> p.tls,
                   ttfb |-> p.ttfb, handshake |-> p.handshake, hops |-> p.hops])
    /\ UNCHANGED log

\* httptrace sees the dial of a net.Dialer, not that of the netstack.
Traced(t) == IF t \in XrayTargets THEN probe[t].connect ELSE Unmeasured

\* Only an xray probe asks the child's stderr for a better reason.
Fails(t, err) ==
    Ends(t, probe[t],
         IF t \in XrayTargets /\ RealCertificate(t) THEN "reality_real_cert"
         ELSE Classify(err, Traced(t), probe[t].tls))

At(t, at) == probe[t].at = at

Took(t) == IF now - probe[t].since >= Connect THEN "slow" ELSE "timely"

(************************** the probe of an xray target ********************)

Session(t) == [target |-> t, cycle |-> cycle]

\* The tracer stamps a phase once; a redirect does not measure it again.
ConnectOf(t) == IF probe[t].connect = Unmeasured THEN Took(t) ELSE probe[t].connect

\* The kernel accepts the connection to the child's socks port.
Connects(t) ==
    /\ At(t, "dial")
    /\ Moves(t, [probe[t] EXCEPT !.connect = ConnectOf(t)], "socks")
    /\ UNCHANGED log

SocksRefuses(t) == At(t, "dial") /\ Fails(t, "refused")

\* The child's dialer gave up with one of the two timers' errors.
DialEnds(t) ==
    /\ At(t, "dial") /\ now = PhaseEnd(probe[t])
    /\ \E err \in {"io_timeout", "deadline"} : Fails(t, err)

\* Behind a redirect there may be a server that speaks plain http.
Speaks(t) == IF probe[t].hops = 0 THEN {"tls"} ELSE {"tls", "reply"}

\* The child grants the CONNECT.
SocksAnswers(t) ==
    /\ At(t, "socks")
    /\ \E at \in Speaks(t) : Moves(t, probe[t], at)
    /\ UNCHANGED log

\* The child routes the session and its outbound dials.  The sessions of one
\* probe, one for each hop, go by one name.
Routes(t) ==
    LET s == Session(t)
    IN  /\ probe[t].at \in {"socks", "tls"} /\ t \in XrayTargets /\ s \notin sessions
        /\ sessions' = sessions \cup {s}
        /\ ring' = ring \cup {Line(s, "detour"), Line(s, "dial")}
        /\ UNCHANGED <<time, grid, probe>>

(*************************** the probe of an AWG target ********************)

\* resolveEndpoints or Open fails, if only because the budget ran out.
NoTunnel(t) == At(t, "open") /\ Ends(t, probe[t], "awg_no_handshake")

TunnelOpens(t) == At(t, "open") /\ Moves(t, probe[t], "poll") /\ UNCHANGED log

\* pollHandshake sees the device's handshake; the SYN follows it.
HandshakeSeen(t) ==
    /\ At(t, "poll") /\ probe[t].handshake = Unmeasured
    /\ Becomes(t, [probe[t] EXCEPT !.handshake = "timely"])
    /\ UNCHANGED log

Dialed(t) ==
    /\ At(t, "poll") /\ probe[t].handshake # Unmeasured
    /\ Moves(t, [probe[t] EXCEPT !.connect = Took(t)], "tls")
    /\ UNCHANGED log

\* The dial ended with an error, or the poll and the dial with their time.
NotDialed(t, err) ==
    LET p == [probe[t] EXCEPT !.connect = Took(t)]
    IN  IF p.handshake = Unmeasured
        THEN Ends(t, p, "awg_no_handshake")
        ELSE Ends(t, p, Classify(err, Unmeasured, Unmeasured))

DialRefused(t) == At(t, "poll") /\ probe[t].handshake # Unmeasured /\ NotDialed(t, "refused")

DialTimesOut(t) == At(t, "poll") /\ now = Deadline(probe[t]) /\ NotDialed(t, "deadline")

\* After a redirect onceDialer dials through the tunnel again.
Redialed(t) ==
    /\ At(t, "redial")
    /\ \E at \in Speaks(t) : Moves(t, probe[t], at)
    /\ UNCHANGED log

RedialRefused(t) == At(t, "redial") /\ Fails(t, "refused")

(******************************* the request *******************************)

TlsDone(t) ==
    /\ At(t, "tls") /\ (t \in XrayTargets => Session(t) \in sessions)
    /\ Moves(t, [probe[t] EXCEPT !.tls = "timely"], "reply")
    /\ UNCHANGED log

TlsTimesOut(t) == At(t, "tls") /\ now = PhaseEnd(probe[t]) /\ Fails(t, "tls_timer")

\* The first byte of the headers; the rest may take its time or never come.
FirstByte(t) ==
    /\ At(t, "reply") /\ probe[t].ttfb = Unmeasured
    /\ Becomes(t, [probe[t] EXCEPT !.ttfb = "timely"])
    /\ UNCHANGED log

HeadersTimeOut(t) == At(t, "reply") /\ now = PhaseEnd(probe[t]) /\ Fails(t, "deadline")

\* The headers are there; Client.Do returns or follows them.
Answered(t) ==
    /\ At(t, "reply") /\ probe[t].ttfb # Unmeasured
    /\ Moves(t, probe[t], "body")
    /\ UNCHANGED log

\* 200 with the probe's own nonce.
Echoed(t) == At(t, "body") /\ Ends(t, probe[t], Nil)

\* Another status, another nonce, a body that does not parse or, its read being
\* cut short without an error, no longer does.
Rejected(t) == At(t, "body") /\ Fails(t, "answer")

\* A 3xx: the whole way again, on a new connection (DisableKeepAlives).
Redirected(t) ==
    /\ At(t, "body") /\ probe[t].hops < MaxRedirects
    /\ Moves(t, [probe[t] EXCEPT !.hops = @ + 1], IF t \in XrayTargets THEN "dial" ELSE "redial")
    /\ UNCHANGED log

\* The tunnel or the far side drops the connection, the child refuses the
\* CONNECT, or a 3xx leads nowhere (no Location, one redirect too many).
Broken(t) == probe[t].at \in {"socks", "redial", "tls", "reply", "body"} /\ Fails(t, "broken")

BudgetSpent(t) ==
    /\ probe[t].at \in {"dial", "socks", "redial", "tls", "reply"} /\ now = BudgetEnd(probe[t])
    /\ Fails(t, "deadline")

\* Runner.one recovers a prober's panic: the result has no measure at all.
Panics(t) == probe[t].at \in Running /\ Ends(t, Started(t), "http_error")

Step(t) ==
    \/ Connects(t) \/ SocksRefuses(t) \/ DialEnds(t) \/ SocksAnswers(t) \/ Routes(t)
    \/ NoTunnel(t) \/ TunnelOpens(t) \/ HandshakeSeen(t)
    \/ Dialed(t) \/ DialRefused(t) \/ DialTimesOut(t) \/ Redialed(t) \/ RedialRefused(t)
    \/ TlsDone(t) \/ TlsTimesOut(t) \/ FirstByte(t) \/ HeadersTimeOut(t)
    \/ Answered(t) \/ Echoed(t) \/ Rejected(t) \/ Redirected(t)
    \/ Broken(t) \/ BudgetSpent(t) \/ Panics(t)

(**************************** the child's stderr **************************)

Writes(s, what) ==
    /\ Line(s, what) \notin ring
    /\ ring' = ring \cup {Line(s, what)}
    /\ UNCHANGED <<time, grid, probe, sessions>>

\* A session that outlives its probe is retried: it dials and may fail again.
Redials(s) == Writes(s, "dial")

Impostor(s) == SessionsOf("dial") \cap {s} # {} /\ Writes(s, "cert")

Child == \E s \in sessions : Redials(s) \/ Impostor(s)

(****************************** Run's grid ********************************)

\* A cycle with the child down probes no xray target.  The child's sessions of
\* the cycle before may be alive; those of older cycles have ended.
BeginCycle ==
    /\ stage = "asleep" /\ now >= wake /\ cycle < MaxCycles
    /\ \E probed \in {applied, applied \cap AwgTargets} :
         probe' = [t \in Targets |-> IF t \in probed THEN Started(t) ELSE Idle]
    /\ sessions' = {s \in sessions : s.cycle = cycle} /\ ring' = {}
    /\ stage' = "probing" /\ cycle' = cycle + 1
    /\ UNCHANGED <<time, applied, interval, tick, wake>>

\* wg.Wait: every goroutine has its result, and the results are handed on.
CycleEnds ==
    /\ stage = "probing" /\ \A t \in Targets : probe[t].at \notin Running
    /\ stage' = "rest"
    /\ probe' = [t \in Targets |-> Idle]
    /\ UNCHANGED <<time, applied, interval, tick, wake, cycle, log>>

\* The first tick after the cycle, those it overran skipped.
NextOnGrid(prev, i) ==
    LET next    == prev + i
        late    == wall - next
        skipped == IF late > 0 THEN (late + i - 1) \div i ELSE 0
    IN  next + skipped * i

\* Mutant: the wait is as long as the clock was set back.
NextStartUncapped(prev, i) == NextOnGrid(prev, i)

\* nextStart: the tick, but the wait is at most i.
NextStart(prev, i) ==
    LET next == NextOnGrid(prev, i)
    IN  IF next - wall > i THEN wall + i ELSE next

\* The heartbeat and a new document took their time; the loop sleeps again.
Sleep ==
    /\ stage = "rest"
    /\ \E i \in Intervals : interval' = i /\ tick' = NextStart(tick, i)
    /\ wake' = now + (tick' - wall)
    /\ applied' \in Documents
    /\ stage' = "asleep" /\ stepped' = FALSE
    /\ UNCHANGED <<now, wall, steps, cycle, probe, log>>

\* Nothing due is left undone.
Tick ==
    /\ now < MaxTime
    /\ \A t \in Targets : probe[t].at \in Running => now < Deadline(probe[t])
    /\ stage = "probing" => \E t \in Targets : probe[t].at \in Running
    /\ stage = "asleep"  => now < (IF cycle = 0 THEN wake ELSE wake + Lateness)
    /\ now' = now + 1 /\ wall' = wall + 1
    /\ UNCHANGED <<steps, stepped, grid, probe, log>>

\* Somebody sets the wall clock; the timers do not notice.
ClockSet ==
    /\ stage # "probing" /\ steps < MaxSteps
    /\ \E d \in ClockSteps : wall' = wall + d /\ stepped' = (stepped \/ d < 0)
    /\ steps' = steps + 1
    /\ UNCHANGED <<now, grid, probe, log>>

\* Observation ends: no tick and no cycle is left.
Horizon == (now = MaxTime \/ (cycle = MaxCycles /\ stage = "asleep")) /\ UNCHANGED vars

\* Time starts when the start jitter is over.
Init ==
    /\ now = 0 /\ wall = 0 /\ steps = 0 /\ stepped = FALSE
    /\ tick = 0 /\ wake = 0 /\ stage = "asleep" /\ cycle = 0
    /\ applied \in Documents /\ interval \in Intervals
    /\ probe = [t \in Targets |-> Idle]
    /\ sessions = {} /\ ring = {}

Next ==
    \/ BeginCycle \/ CycleEnds \/ Sleep
    \/ \E t \in Targets : Step(t)
    \/ Child
    \/ Tick \/ ClockSet
    \/ Horizon

Spec == Init /\ [][Next]_vars

(******************************* properties *******************************)

RunningProbe ==
    [at : Running, start : Nat, since : Nat, hops : Nat,
     connect : Measures, tls : Measures, ttfb : Measures, handshake : Measures]

\* proto.Result: a reason is nil or an entry of the dictionary.
DoneProbe ==
    [at : {"done"}, reason : Reasons \cup {Nil}, hops : Nat,
     connect : Measures, tls : Measures, ttfb : Measures, handshake : Measures]

\* The shape of the state.
TypeOK ==
    /\ now \in Nat /\ wake \in Nat /\ cycle \in Nat /\ steps \in Nat
    /\ wall \in Int /\ tick \in Int /\ stepped \in BOOLEAN
    /\ applied \in Documents /\ interval \in Intervals
    /\ stage \in {"asleep", "probing", "rest"}
    /\ probe \in [Targets -> {Idle} \cup RunningProbe \cup DoneProbe]

\* Runner.Cycle's promise (runner.go:49-53): however many targets hang and
\* in whichever phase, no probe runs past one budget from the cycle's start.
CycleIsBounded ==
    \A t \in Targets : probe[t].at \in Running => now <= probe[t].start + Budget

\* Run's promise (loop.go:208-214, 446-463): the loop never sleeps longer than
\* an interval, wherever the wall clock was set meanwhile.  Unless it was set
\* back since the last start was scheduled, the next cycle is a whole number of
\* intervals after that start, however late the timer fired and however long
\* the cycle took.
GridKept ==
    [][ stage = "rest" /\ stage' = "asleep" =>
          /\ now <= wake' /\ wake' <= now + interval'
          /\ ~stepped => tick' > tick /\ (tick' - tick) % interval' = 0 ]_vars

Done(t) == probe[t].at = "done"

\* What a reason tells of the phases (do.go:201-204, classify.go:28-99,
\* awg/probe.go:182-188), over every order of timers, answers and redirects: a
\* probe that was not redirected and is refused or out of TLS time carried no
\* byte of ours; http_error came after a TLS handshake, unless the prober
\* panicked; tcp_timeout stands next to no dial measured in time, a success
\* next to every phase; an AWG target is without a handshake exactly when its
\* reason says so.  (After a redirect the measures are the first hop's and the
\* reason may be a later one's.)
ReasonFitsPhases ==
    \A t \in Targets : Done(t) =>
        LET r == probe[t]
        IN  /\ r.reason \in {"tcp_refused", "tls_timeout"} /\ r.hops = 0
                 => r.tls = Unmeasured /\ r.ttfb = Unmeasured
            /\ r.reason = "tls_timeout" => r.connect # Unmeasured
            /\ r.reason = "http_error" /\ r.connect # Unmeasured => r.tls # Unmeasured
            /\ r.reason = "tcp_timeout" => r.connect = "slow" \/ (r.connect = Unmeasured /\ r.tls = Unmeasured)
            /\ r.ttfb # Unmeasured => r.tls # Unmeasured
            /\ r.reason = Nil => r.connect # Unmeasured /\ r.tls # Unmeasured /\ r.ttfb # Unmeasured
            /\ t \in AwgTargets /\ r.handshake # Unmeasured => r.reason # "awg_no_handshake"
            /\ t \in AwgTargets /\ r.reason # "awg_no_handshake" /\ r.connect # Unmeasured
                 => r.handshake # Unmeasured

\* Decision #53 (diagnose.go:88-97): two targets on one real server do not
\* share a diagnosis, and a retry of an earlier cycle's session blames nobody.
\* A failed probe the child had routed is said to have met a real certificate
\* exactly when its own session did, unless it panicked.  (A probe that was not
\* routed is not covered: the fallback to addr:port hands it such a retry,
\* another target's too.)
CertIsOwn ==
    [][ \A t \in XrayTargets :
          /\ probe[t].at \in Running /\ Session(t) \in sessions
          /\ probe'[t].at = "done" /\ probe'[t].reason # Nil /\ probe'[t].connect # Unmeasured
          => (probe'[t].reason = "reality_real_cert" <=> Line(Session(t), "cert") \in ring) ]_vars

\* classify.go:71-73: a tunnel that reads tcp_refused "never carried a byte for us".
\* Broken by a redirect whose next hop is refused.
RefusedCarriedNothing ==
    \A t \in Targets : Done(t) /\ probe[t].reason = "tcp_refused" => probe[t].ttfb = Unmeasured

\* The next cycle is on the grid of the one before, whatever the clock does.  Broken
\* by the cap on the wait once the clock was set back.
GridIsOne ==
    [][ stage = "rest" /\ stage' = "asleep" => (tick' - tick) % interval' = 0 ]_vars

\* classify.go:26: probe_timeout is only ever the whole budget.  Broken by the
\* headers timer and by the netstack dial, whose errors are deadlines too.
TimeoutIsTheBudget ==
    [][ \A t \in Targets :
          probe[t].at \in Running /\ probe'[t].at = "done" /\ probe'[t].reason = "probe_timeout"
            => now = BudgetEnd(probe[t]) ]_vars
===============================================================================
