------------------------------- MODULE ClientLife -------------------------------
(***************************************************************************)
(* The life of one mon-client in mon-server's registry, and what becomes of *)
(* its targets: heartbeats (internal/api/auth.go, internal/state/engine.go, *)
(* Heartbeat), the sweep for silent mon-clients (MarkOffline, run by        *)
(* internal/app), and the administrator who disables, revokes, replaces or  *)
(* deletes it (internal/registry/registry.go with its hooks).               *)
(*                                                                         *)
(* Every request is a goroutine.  The database has one connection, so each  *)
(* transaction is one step; between the authentication of a heartbeat and   *)
(* its transaction, between the sweep's SELECT and its transaction, and     *)
(* between SetEnabled and its hook, anything else may commit.               *)
(*                                                                         *)
(* A target is UNKNOWN, PAUSED or JUDGED, the last standing for UP, DOWN    *)
(* and FLAPPING (TargetMachine); a heartbeat carries one new cycle          *)
(* (CycleDelivery).  Time is in ticks; an age beyond Silence stays there.   *)
(***************************************************************************)
EXTENDS Integers, FiniteSets

CONSTANTS
    Targets,       \* the mon-client's target rows
    Silence,       \* clientOfflineAfter * intervalMs + heartbeatTimeoutMs, in ticks
    Slow,          \* how long a heartbeat may be in mon-server's hands, in ticks
    MaxTokens,     \* bound: tokens issued to this mon-client
    MaxSeq,        \* bound: heartbeats sent by the box of one token
    MaxCrashes,    \* bound: crashes of mon-server
    MaxRequests    \* bound: heartbeats in mon-server's hands at once

ASSUME LifeAssumption ==
    /\ Silence \in Nat \ {0} /\ Slow \in Nat /\ Slow < Silence
    /\ MaxTokens \in Nat \ {0} /\ MaxSeq \in Nat
    /\ MaxCrashes \in Nat /\ MaxRequests \in Nat

VARIABLES
    mc,            \* the mon_clients row
    age,           \* ticks since its last_heartbeat, or NoAge
    targets,       \* its rows in `targets`
    view,          \* what the mon_client events say it is; NEVER before the first
    issued,        \* tokens issued so far; the newest is the box's that counts
    sent,          \* heartbeats sent by the box of each token
    requests,      \* authenticated heartbeats before their transaction
    hook,          \* is Hooks.Disabled still to run?
    sweep,         \* has the sweep in progress selected the mon-client?
    up,            \* ticks since serverReadyAt, or Down
    crashes,       \* crashes so far
    quiet          \* ticks since a heartbeat committed or mon-server got ready

rows == <<mc, age, targets, view>>
lifeVars == <<rows, issued, sent, requests, hook, sweep, up, crashes, quiet>>

NoAge == -1
Down  == -1
Ages  == 0..(Silence + 1)
Older(n) == IF n \in 0..Silence THEN n + 1 ELSE n

MonClient == [token : 0..MaxTokens, enabled : BOOLEAN, ack : 0..MaxSeq,
              state : {"NEVER", "ONLINE", "OFFLINE", "DELETED"}]
Request   == [token : 1..MaxTokens, seq : 1..MaxSeq, age : Ages, row : MonClient]

\* Mutant: the wrong ones are left.
ToUnknownPaused == [t \in Targets |-> IF targets[t] = "PAUSED" THEN "UNKNOWN" ELSE targets[t]]

\* targetsToUnknown: PAUSED targets are left where they are.
ToUnknown == [t \in Targets |-> IF targets[t] = "JUDGED" THEN "UNKNOWN" ELSE targets[t]]

\* Approve has made the row; mon-server has just got ready.
LifeInit ==
    /\ mc = [token |-> 1, enabled |-> TRUE, ack |-> 0, state |-> "NEVER"]
    /\ age = NoAge
    /\ targets = [t \in Targets |-> "UNKNOWN"]
    /\ view = "NEVER"
    /\ issued = 1
    /\ sent = [g \in 1..MaxTokens |-> 0]
    /\ requests = {} /\ hook = FALSE /\ sweep = FALSE
    /\ up = 0 /\ crashes = 0 /\ quiet = 0

-----------------------------------------------------------------------------
(* Heartbeats *)

\* RequireClientToken lets a heartbeat in; its receive time is read and the
\* settings and the config are loaded before its transaction.
Authenticate(g) ==
    /\ up # Down
    /\ sent[g] < MaxSeq /\ Cardinality(requests) < MaxRequests
    /\ mc.token = g /\ mc.enabled
    /\ sent' = [sent EXCEPT ![g] = @ + 1]
    /\ requests' = requests \cup {[token |-> g, seq |-> sent[g] + 1, age |-> 0, row |-> mc]}
    /\ UNCHANGED <<rows, issued, hook, sweep, up, crashes, quiet>>

\* What reconcilePauses and then applyLive may make of a target: the config
\* pauses or releases it, a result judges one that is not paused.
Applied(state, isNew) ==
    LET settled == CASE state = "PAUSED" -> {"PAUSED", "UNKNOWN"}
                     [] OTHER            -> {state, "PAUSED"}
    IN  settled \cup (IF isNew THEN {"JUDGED"} ELSE {})

\* Mutant: the row authenticated against is worked on.
AuthenticatedRow(req) == req.row

\* The row a heartbeat's transaction works on is read inside it.
RowFor(req) == mc

\* applyClientInfo: last_heartbeat is now as of the request.
Refreshed(row, req) ==
    /\ mc' = [mc EXCEPT !.state = "ONLINE", !.ack = IF req.seq > row.ack THEN req.seq ELSE row.ack]
    /\ age' = req.age
    /\ view' = IF row.state # "ONLINE" THEN "ONLINE" ELSE view

\* The transaction of Engine.Heartbeat.
Commit(req) ==
    LET row   == RowFor(req)
        isNew == req.seq > row.ack
    IN  /\ req \in requests
        /\ requests' = requests \ {req}
        /\ row.state # "DELETED"
        /\ Refreshed(row, req)
        /\ targets' \in [Targets -> {"UNKNOWN", "PAUSED", "JUDGED"}]
        /\ \A t \in Targets : targets'[t] \in Applied(targets[t], isNew)
        /\ quiet' = 0
        /\ UNCHANGED <<issued, sent, hook, sweep, up, crashes>>

\* The sender gave up (its request context ends with it), or the transaction
\* failed: nothing of it is kept.
Abort(req) ==
    /\ req \in requests
    /\ requests' = requests \ {req}
    /\ UNCHANGED <<rows, issued, sent, hook, sweep, up, crashes, quiet>>

-----------------------------------------------------------------------------
(* MarkOffline, every 20 seconds *)

\* Mutants: mon-server's own downtime counts; a disabled one is skipped; a revoked
\* one is.
OverdueAtOnce       == mc.state = "ONLINE" /\ age > Silence
OverdueWhileEnabled == up > Silence /\ mc.state = "ONLINE" /\ mc.enabled /\ age > Silence
OverdueWithToken    == up > Silence /\ mc.state = "ONLINE" /\ mc.token # 0 /\ age > Silence

Overdue == up > Silence /\ mc.state = "ONLINE" /\ age > Silence

SweepFinds ==
    /\ ~sweep
    /\ Overdue
    /\ sweep' = TRUE
    /\ UNCHANGED <<rows, issued, sent, requests, hook, up, crashes, quiet>>

\* Its transaction asks nothing again; a row deleted meanwhile is not updated,
\* its event is.
SweepMarks ==
    /\ sweep
    /\ sweep' = FALSE
    /\ mc' = [mc EXCEPT !.state = IF @ = "DELETED" THEN @ ELSE "OFFLINE"]
    /\ view' = "OFFLINE"
    /\ targets' = ToUnknown
    /\ UNCHANGED <<age, issued, sent, requests, hook, up, crashes, quiet>>

-----------------------------------------------------------------------------
(* The administrator *)

Present == up # Down /\ mc.state # "DELETED"

SetEnabled(enabled) ==
    /\ Present
    /\ mc' = [mc EXCEPT !.enabled = enabled]
    /\ hook' = (hook \/ ~enabled)
    /\ UNCHANGED <<age, targets, view, issued, sent, requests, sweep, up, crashes, quiet>>

\* Hooks.Disabled, in a transaction of its own.
MonClientDisabled ==
    /\ hook
    /\ hook' = FALSE
    /\ targets' = ToUnknown
    /\ UNCHANGED <<mc, age, view, issued, sent, requests, sweep, up, crashes, quiet>>

\* Hooks.Revoked: the feed hears of it once, whatever is judged is no more.
MonClientRevoked ==
    /\ view' = IF mc.state # "OFFLINE" THEN "OFFLINE" ELSE view
    /\ targets' = ToUnknown

\* Revoke and Hooks.Revoked share one transaction.
Revoke ==
    /\ Present
    /\ mc' = [mc EXCEPT !.token = 0, !.state = "OFFLINE"]
    /\ MonClientRevoked
    /\ UNCHANGED <<age, issued, sent, requests, hook, sweep, up, crashes, quiet>>

\* A new box takes the id over; targets and events are not touched.
ApproveAsReplacement ==
    /\ Present
    /\ issued < MaxTokens
    /\ issued' = issued + 1
    /\ mc' = [mc EXCEPT !.token = issued + 1, !.ack = 0, !.state = "NEVER"]
    /\ age' = NoAge
    /\ UNCHANGED <<targets, view, sent, requests, hook, sweep, up, crashes, quiet>>

\* The row and its targets are removed.
Delete ==
    /\ Present
    /\ mc' = [mc EXCEPT !.token = 0, !.state = "DELETED"]
    /\ targets' = [t \in Targets |-> "UNKNOWN"]
    /\ UNCHANGED <<age, view, issued, sent, requests, hook, sweep, up, crashes, quiet>>

\* SyncInbounds: an inbound's targets are paused, or released.
SyncInbounds(t) ==
    /\ mc.state # "DELETED"
    /\ targets' = [targets EXCEPT ![t] = IF @ = "PAUSED" THEN "UNKNOWN" ELSE "PAUSED"]
    /\ UNCHANGED <<mc, age, view, issued, sent, requests, hook, sweep, up, crashes, quiet>>

-----------------------------------------------------------------------------
(* Time and crashes *)

\* A heartbeat is answered or given up within Slow ticks.
Tick ==
    /\ \A req \in requests : req.age < Slow
    /\ age' = Older(age)
    /\ up' = Older(up)
    /\ quiet' = Older(quiet)
    /\ requests' = {[req EXCEPT !.age = Older(@)] : req \in requests}
    /\ UNCHANGED <<mc, targets, view, issued, sent, hook, sweep, crashes>>

Crash ==
    /\ up # Down /\ crashes < MaxCrashes
    /\ up' = Down
    /\ crashes' = crashes + 1
    /\ requests' = {} /\ hook' = FALSE /\ sweep' = FALSE
    /\ UNCHANGED <<rows, issued, sent, quiet>>

\* The listener completes TLS handshakes again: serverReadyAt.
ServerReady ==
    /\ up = Down
    /\ up' = 0
    /\ quiet' = 0
    /\ UNCHANGED <<rows, issued, sent, requests, hook, sweep, crashes>>

Heartbeats ==
    \/ \E g \in 1..MaxTokens : Authenticate(g)
    \/ \E req \in requests : Commit(req) \/ Abort(req)

Admin ==
    \/ \E enabled \in BOOLEAN : SetEnabled(enabled)
    \/ MonClientDisabled \/ Revoke \/ ApproveAsReplacement \/ Delete

LifeNext ==
    \/ Heartbeats
    \/ Admin
    \/ \E t \in Targets : SyncInbounds(t)
    \/ SweepFinds \/ SweepMarks
    \/ Tick \/ Crash \/ ServerReady

\* Time passes, the ticker of the sweep fires, started work goes on, and
\* mon-server is started again.  Nobody owes a heartbeat or a decision.
Fairness ==
    /\ WF_lifeVars(Tick) /\ WF_lifeVars(SweepFinds) /\ WF_lifeVars(SweepMarks)
    /\ WF_lifeVars(MonClientDisabled) /\ WF_lifeVars(ServerReady)
    /\ WF_lifeVars(\E req \in requests : Commit(req) \/ Abort(req))

LifeSpec == LifeInit /\ [][LifeNext]_lifeVars /\ Fairness

-----------------------------------------------------------------------------
(* Properties *)

NoneJudged == \A t \in Targets : targets[t] # "JUDGED"

\* An OFFLINE mon-client has no target that claims to know something, whichever
\* way it went OFFLINE and whatever was in flight; a deleted one leaves none.
OfflineIsUnknown == mc.state \in {"OFFLINE", "DELETED"} => NoneJudged

\* The mon_client events say what the row says, once there was a first one: no
\* transition is swallowed because it was judged on a row read too early.  A
\* replacement is silent until its first heartbeat.
FeedAgrees == mc.state \in {"ONLINE", "OFFLINE"} => view = mc.state

\* The sweep finds a mon-client only after Silence without a heartbeat, a slow one
\* aside, during all of which mon-server was there to receive it: its own downtime,
\* of any length, costs nobody an OFFLINE (mon-server.md 7.3, restart).
OfflineIsEarned == [][~sweep /\ sweep' => quiet + Slow > Silence]_lifeVars

\* A box that stays silent is noticed: after its last heartbeat its targets come
\* to UNKNOWN, also when it was disabled and the hook was lost in a crash, or its
\* heartbeat overtook a revoke.  A replacement's targets wait for its first
\* heartbeat.
SilenceIsNoticed == <>[](mc.state = "NEVER" \/ NoneJudged)

\* A revoked mon-client ends up OFFLINE, also when a heartbeat authenticated before
\* the revoke commits after it.
RevokedEndsOffline == <>[](mc.token = 0 => mc.state # "ONLINE")

\* "Revoke means 'this token must stop working right now'" (registry.go, Revoke):
\* a revoked mon-client stays OFFLINE until it is replaced.
RevokedIsOffline == mc.token = 0 => mc.state # "ONLINE"

\* "ONLINE — первый heartbeat, все targets остаются UNKNOWN до результата"
\* (mon-server.md 7.3): nothing is known of a box that has not spoken yet.
NeverIsUnknown == mc.state = "NEVER" => NoneJudged
===============================================================================
