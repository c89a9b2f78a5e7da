# A TLA+ model of 3ax-ui monitoring

3ax-ui monitoring watches the tunnels of a 3ax-ui panel. A *mon-server* keeps a
registry of *mon-clients*, hands each the tunnels (targets) it should probe,
judges the results and tells the panel. A *mon-client* runs on a box somewhere,
probes every target once per interval and reports in heartbeats. This directory
holds TLA+ modules of that program, TLC configurations that check them on small
instances, and proofs for TLAPS.

## 1. The system

| component | source | state it keeps | operations | modules |
|---|---|---|---|---|
| Target state machine | `internal/state/machine.go`, `moveRows` in `engine.go` | one `targets` row: state, since, reason, two streak counters, window of recent transitions, hold | `Step` (a result), `moveRows` (pause, release, silence) | `TargetStep`, `TargetMachine` |
| Heartbeat engine | `internal/state/engine.go` | `mon_clients` row, `targets`, `events_outbox` | `Heartbeat`, `MarkOffline`, `SyncInbounds`, `SyncPaths`, hooks of disable and revoke, Telegram flush | `ClientLife`, `CycleDelivery`, `ConfigSync`, `PanelLink` |
| Statistics buckets | `internal/state/stats.go` | `stats_buckets` | `Record` in the heartbeat's transaction, `Flush` from the poller | `StatsBuckets` |
| Registry | `internal/registry/registry.go` | `mon_clients`, `registration_requests` | `Register`, `Poll`, `Approve`, `ApproveAsReplacement`, `Reject`, `ExpireRequests`, `Update`, `SetEnabled`, `Revoke`, `Delete`, `Authenticate` | `Registration`, `ClientLife`, `ConfigSync` |
| Config builder | `internal/registry/config.go` | `client_configs` | `RebuildAll`, `Rebuild`, `Current`, `TargetKeys`, `Exclusions` | `ConfigSync` |
| Panel poller, outbox, client | `internal/panel` | panel up/down, revision, material, `panel_inbounds`, `events_outbox` | `Poll`, `RefreshMaterial`, flush, prune, recovery; calls with retries | `ConfigSync`, `PanelLink`, `PanelCall`, `PanelAnswer` |
| Process wiring | `internal/app`, `internal/api` | readiness | sweep every 20 s, poll every minute, retention every hour, authentication of requests | `ClientLife`, `Registration` |
| Cycle buffer | `internal/client/heartbeat` | `cycles.json`: cycles and the next seq | `Add`, `Pending`, `Ack`, `MarkUnverified`, `OpenBuffer` | `CycleLedger`, `CycleDelivery` |
| Run loop | `internal/client/app/loop.go` | `lastAckSeq` in `state.json` | `Once` on a tick grid: fetch a due config, probe, buffer, send, act on the answer | `CycleDelivery`, `ConfigApply`, `ProbeCycle` |
| Registration and supervision | `internal/client/register`, `internal/client/app/supervisor.go` | `state.json` | obtain an identity, run the loop, wait while disabled, start over when revoked | `Registration` |
| Config applier | `internal/client/app/apply.go`, `internal/client/xray/process.go` | `xray.json` and its `.prev`, the applied revision, the child | test, install, restart, recover, revive | `ConfigApply` |
| Probes | `internal/client/probe`, `awg`, `xray/diagnose.go`, `xray/ring.go` | a probe's measures, the child's last stderr lines | `Cycle`, `Do`, `Classify`, `Diagnose` | `ProbeCycle` |
| Config rendering | `internal/client/config` | none | parsing and printing of links, AWG and xray configs | (ports only: `ConfigApply`) |
| Store | `internal/store` | one SQLite file, one connection | transactions, settings, retention, sessions | as state of the others |
| Admin UI | `internal/admin`, `web` | cookie sessions | forms over the registry, settings | its registry calls are actions |
| TLS, Telegram, configuration files, command lines | `internal/tlsx`, `tg`, `config`, `cmd` | none | I/O and wiring | - |

They interact through the database and three protocols. A mon-client calls
mon-server over HTTPS (register, config, heartbeat, probe); mon-server polls the
panel (state, probe configs, events, statistics); the administrator calls the
registry from the admin UI. Every request, the sweep, the poller and retention
are goroutines. **The database has one connection** (`store.go`,
`SetMaxOpenConns(1)`), so a transaction is atomic and transactions are
serialised; what a handler reads before it opens one may be old by then. On the
box one goroutine runs the loop; the probes of a cycle run side by side, and the
xray child is a process of its own.

Hard behaviour, and what makes each component correct:

- *Target state machine*: several things move one row, settings change under it,
  and a result may both end a hold and move the row. Correct: the feed of events
  reproduces the row, reasons and holds fit the state, a streak decides only if
  it is long enough, flapping is announced neither late nor early.
- *Cycle delivery*: requests and answers are lost or late, either side restarts,
  saves fail. Correct: no cycle is counted twice, an acknowledged cycle is filed,
  the state machine never goes back in time, a lost counter recovers.
- *Life of a mon-client*: heartbeats, the sweep and the administrator interleave
  around transactions. Correct: an OFFLINE mon-client claims nothing, the feed
  agrees with the row, silence is noticed, and only real silence.
- *Config*: keys read early, material and documents stored in separate steps, a
  panel that changes meanwhile. Correct: a target's pause has its own cause, no
  history is lost, the box comes to probe what the panel serves.
- *Panel link*: an outbox sent while it grows, a panel that goes and comes back,
  calls that are repeated, cut or answered by a proxy. Correct: an event leaves
  the queue once, in order and for a true reason; the recovery message comes when
  the outage's events are out and counts them.
- *Statistics*: late cycles fall into windows that were sent. Correct: a bucket is
  the aggregate of its results, and what counts as sent is what the panel holds.
- *Registration*: a token handed out once, requests that expire while they are
  decided, files cleared one after the other. Correct: one hand-over per token, no
  box sends what an earlier identity measured, every box is adopted in the end.
- *Config on the box*: documents that fail their test or do not start, a child
  that dies, files and process out of step. Correct: a result is filed under the
  target that was probed, and the box goes on probing.
- *Probes*: several timers per probe, one budget, redirects, late ticks, a wall clock
  that is set, one stderr for all. Correct: a cycle is bounded, the grid is kept and
  the box never silent for longer than an interval, a reason fits what happened.

The hazards behind each, with their lines, are in `PROJECT.json`.

## 2. Plan

All steps of the plan are done: `TargetStep`/`TargetMachine`, `CycleLedger`/
`CycleDelivery`, `ClientLife`, `ConfigSync`, `PanelLink` and `StatsBuckets`,
`Registration`, `ConfigApply`, and beyond it `ProbeCycle` and `PanelAnswer`/
`PanelCall`. Abstract specifications: `CycleLedger` (implemented by `CycleDelivery`)
and `PanelAnswer` (implemented by `PanelCall`), both checked and proved.

Worth adding: the login and sessions of the admin UI; the snapshot of mon-clients
and unallocated AWG peers; `RefreshMaterial`'s material and host in `ConfigSync`;
the once-per-spell alerts; retention. Every safety property a passing run checks
is proved; what is left to TLC is liveness (section 5).

## 3. Modules

`TargetStep` holds the operators of `machine.go` on one row; `Step` is the
composition of the code's phases (`HoldExpired`/`EndHold`, `Count`, `Flip` or
`Wanted` and `Move`), and `MoveRow` is `moveRows`. `TargetMachine` drives one row
with them. The window of transitions is a set of times, because the code's JSON
list holds receive times of one target. Observers - the panel's replay of the
feed, streaks since the last move, the stamps of transitions - are variables of
their own and never guard a step.

`CycleDelivery` is one mon-client and mon-server with heartbeats in flight. The
buffer is a set of cycles with their seq and a number `id` the program does not
know, which says whether two cycles are the same. `Once` is `Probe` (add, save,
send), then `GiveUp` (mark, save) or `Acked` and `RememberAck`; a restart may fall
between any two. mon-server's transaction is `Receive`. A late heartbeat stays in
flight after its sender gave up, also across restarts. mon-server's crash is a
lost request or a lost answer, its state being one database. `CycleLedger` is what
this promises, without seqs, files or messages; `LedgerSpec` is the refinement.

`ClientLife` is one row of `mon_clients`, the state of its targets (`JUDGED` stands
for UP, DOWN and FLAPPING, whose differences are `TargetMachine`'s subject), and
everything that may change either. Three operations are split where the code is:
a heartbeat into `Authenticate` and `Commit`, the sweep into `SweepFinds` and
`SweepMarks`, disabling into `SetEnabled` and `MonClientDisabled`. Revoke and its
hook (`MonClientRevoked`) share a transaction and are one step. What the config
pauses or releases in a heartbeat is a choice (`Applied`).

`ConfigSync` is the way from the panel to one mon-client: the panel's content, what a
poll read of it (`poll`), the accepted material, `panel_inbounds`, the document, the
target rows and what the box applied. The content stands for the revision, a set of
target keys for a document with its revision, and a row is open or paused by its
inbound or by the config (two sides that release only their own pauses). `Poll` is
one action per read or write: state, ensure, `SavePanelInbounds`, `SyncInbounds`, the
material kept, discarded or accepted, the rebuild's reads, its store, `SyncPaths`.
The requests for the configs are one step, because the code discards all answers if
one is of another revision or one hop is gone (`Foreign`). An administrator's
`Update` and its rebuild are `Update`, `RebuildReads`, `RebuildStores`. A heartbeat
reads keys (`TargetKeys`) and exclusions (`ReadExclusions`) before its transaction
(`Heartbeat`), whose three functions `RetirePaused`, `ReconcilePauses` and
`ApplyLive` are composed in the code's order, and its answer (`RevisionFor`) leads to
a fetch (`FetchAndApply`, opened in `ConfigApply`). The panel is the stub its tests
use (`paneltest/stub.go`): `HandleState`, `HandleEnsure`, `HandleConfigs`.
`realHost`, probe parameters, `RefreshMaterial` and a second mon-client are left out.

`PanelLink` is the outbox between the engine and the panel. A row is committed
(`Emit`), announced on Telegram or not, read by a flush, sent in a batch and marked.
The marking is two writes, as in `flush`: `MarkSent` for the accepted rows, then
`MarkDropped` for the rejected ones, after which alone the batch is counted into the
recovery (`AddRecoverySent`); `FlushFails` lets the read or either write fail and
flush return. `Observe` counts unanswered requests and decides on PANEL_DOWN
and PANEL_UP, whose rows are queued in a step of their own (`EnqueuePanelEvent`).
Two goroutines may ask the panel: the poll and `RefreshMaterial`. Rows that are
committed late, refused by the panel's validation or unreadable are told apart.

`PanelCall` opens the one step `PanelLink` and `StatsBuckets` take a call for. A
call asks with a batch, makes up to 1 + `MaxRetries` attempts, each served by the
panel, intercepted by something else, abandoned with the request still on its way,
or handled and its answer lost; `Error` reads an error out of what came back, the
retry waits, and the caller settles its rows one by one (`Return`), where marking
sent and marking dropped are two writes and a crash may fall between.
`Error` is `attempt` with all its cases: an empty 200, a 204 and any JSON object are
acceptances, whoever wrote them, so a stranger in the panel's place may accept
(`Approves`) as well as refuse (`Fails`, `BadBody`). The variables `stranger` and
`vouched` are history: they name the rows settled by such an answer.
`PanelAnswer` is the promise: one request, one answer, a true one unless a stranger
made it ("mistaken"). `PanelLink` and `StatsBuckets` leave such strangers to
`PanelCall`: there an acceptance is the panel's.

`StatsBuckets` has a row per key (a target in a window). The cycles of a heartbeat,
in the order of their seqs, make one delta per key (`Counted`, `Add`, `Deltas`), which
`ApplyDelta` merges into the row: counts, sum, extremes, the average of the stored
sum and count rounded half up (`Average`), the last handshake; a row without a
success shows no latency. `Flush` reads the closed unsent rows, calls the panel, and
marks them afterwards in two writes, the accepted ones (`FlushMark`) before the
refused ones (`FlushDrop`).

`Registration` has both sides: registry rows with `approved_token` and expiry, polls
as handlers that read before they write, an administrator who reads the clock before
the transaction, and boxes with `state.json`, `cycles.json` and what they remember.
The token minted for request `r` is written `r`; `former` keeps the tokens a
mon-client had before a replacement, which `ApproveAsReplacement` leaves parked.

`ConfigApply` is one box: documents as lists of links, the child as the document it
was started on, so that a probe goes through port *i* of *that* document. Each of
test, install, start, save and swap is a step that may fail; `LoopRebuilt` is a
crash or a disable and enable. Its specification is `BoxSpec`, and that of `ClientLife`
is `LifeSpec`, because each shares a proof module with another component.

`ProbeCycle` has time as a count of ticks, timers that fire at their instant, and
the probes of a cycle running side by side. An xray probe goes through dial, SOCKS
negotiation, TLS, reply and body, an AWG one through tunnel, handshake with dial, TLS,
reply and body. `PhaseEnd` gives dial, TLS and reply their timer; SOCKS, the tunnel, a
second dial and the body end with the budget only. The first byte stamps `ttfb`, the
headers come later or never. A 3xx is followed by net/http (`Redirected`): dial or
`Redialed`, TLS unless the next server speaks plain http, reply and body once more,
with the first hop's measures kept, since the tracer stamps each once. mon-server
hands out an https `probeUrl` only (`app.go:606`), so the first hop always has a TLS
phase. Durations are nil, in time or slow, which is all `Classify` asks of them. The
child's stderr is a list of routing and certificate lines tagged with sessions.
Timers follow `now`; the grid follows `wall`, which `clock.Real` reads without a
monotonic part, and `ClockSet` sets it forward or back between cycles. A clock that
is set while probes run would also cut their window of stderr lines; it is left out.

Definitions commented *Mutant* are versions of their neighbour with a plausible
mistake; no specification uses them. `PROJECT.json` names, for every property of
a passing run, a mutant that breaks it.

## 4. Runs

Every `MC` module extends its module and gives it constants.

| run | cfg | shows |
|---|---|---|
| target_machine | `TargetMachine.cfg` | one row under results, pauses, releases, silences and changed settings: feed, reason and hold fit its state, a streak decides exactly when long enough, the first success included, flapping is announced neither late nor early |
| cycle_delivery_sound | `CycleDelivery_sound.cfg` | with working files: nothing lost, live cycles in order, the ledger implemented |
| cycle_delivery_faults | `CycleDelivery_faults.cfg` | with failing files: nothing counted twice, an answer puts the counter right, no cycle twice unmarked within one life |
| client_life_sound | `ClientLife_sound.cfg` | OFFLINE rows claim nothing, the feed agrees with the row, OFFLINE is earned, silence and revokes end where they should |
| config_sync_sound | `ConfigSync_sound.cfg` | rows, document and box come to what panel and administrator last said; no history is lost |
| panel_link_sound | `PanelLink_sound.cfg` | each event leaves the queue once, in order and for a reason; announced alerts are not announced again; "panel back" comes when the outage's rows are out and its number is exact but for a failed second write; everything is delivered |
| panel_call_sound | `PanelCall_sound.cfg` | rows are settled by the panel's verdict or by a stranger's acceptance, and by nothing else; a call with its attempts is one answer of `PanelAnswer` |
| stats_buckets_sound | `StatsBuckets_sound.cfg` | a bucket is the exact aggregate of its results, what is sent is shown, every bucket leaves |
| stats_buckets_race | `StatsBuckets_race.cfg` | finding: results recorded during a flush are marked sent and never are |
| registration_sound | `Registration_sound.cfg` | a token is handed out once, and is never that of a revoked or deleted mon-client; no box sends another identity's cycles, every box is adopted |
| config_apply_sound | `ConfigApply_sound.cfg` | results are filed under the target probed, a replaced document is left, probing goes on |
| probe_cycle_sound | `ProbeCycle_sound.cfg` | a cycle costs one budget, the loop sleeps an interval at most and stays on its grid until the clock is set back, reasons fit their phases, a certificate reason is the target's own |

### Bounds

- `TargetMachine`: thresholds of one to three, among them zero and negative ones
  that `ThresholdsFrom` lifts, gaps of one and four ticks and a clock of eleven; a
  row can enter FLAPPING, flip inside, serve the hold, be moved and flap again.
- `CycleDelivery`: a buffer of two or three cycles, four or five cycles made, two
  restarts, two or three heartbeats in flight: eviction happens, a heartbeat is
  overtaken by its successor and survives a restart. With more cycles the same
  states recur with larger numbers; the proofs do not depend on the bounds.
- `ClientLife`: one target, silence of two ticks with heartbeats of up to one, two
  tokens, two heartbeats per token, one crash: a heartbeat can straddle every
  administrator action, and a replacement the old box's last heartbeat. Targets do
  not interact, so a second one adds no new case.
- `ConfigSync`: an xray and an AWG inbound, the paths direct, proxy and one edge,
  four contents of the panel (inbound off with the override, inbound gone, a
  chain), two vocabularies, one broken link, and three events, each a change of
  the panel, an edit, a failed step or a crash: an inbound goes and comes back
  around a crash, a path is edited while the panel changes.
- `PanelLink`: two events of the engine, one of them late, refused or unreadable,
  two panel events, batches of two, down after two failures, three faults: an
  event of before and one of during the outage are in one recovery, a batch is
  sent twice, a batch is marked by half, a row ages while its message fails.
- `PanelCall`: three rows of which one is invalid, batches of two, three attempts,
  one switch of the panel and three faults: an abandoned request is served after
  the call was repeated or given up, or in the next call.
- `StatsBuckets`: one xray and one AWG bucket, two measures, three cycles, one
  fault and batches of one: a result falls before, into and after a flush, and the
  rounding of an average of two and of three is met.
- `Registration`: one box, four requests of which one may be pending per address,
  two faults, one event (reject, replace, revoke, delete, disable): an expired, a
  lost and a replaced request precede an adoption. Two boxes share only the caps
  and the administrator; the theorems hold for any number.
- `ConfigApply`: five documents (two and one xray targets in different orders, one
  that does not parse, none, one that does not start, one that fails its test),
  three changes, four faults: two documents follow each other around a failed
  start, a recovery that fails too, and a dead child.
- `ProbeCycle`: two xray targets on one server and an AWG one, documents with two of
  them, a budget of three ticks with timers of one and two, one redirect per probe
  (net/http follows ten; a third hop measures and fails as the second), intervals two
  and four, lateness one, four cycles within twelve ticks, a clock set twice, by five
  or one back or two forward. A constraint (`Focus` of the MC module) explores xray
  targets in the first two cycles within nine ticks of a grid of interval four that
  nothing disturbs, and what disturbs the grid with the AWG target alone. Every phase
  can hang to its own timer or to the budget, and the second cycle sees sessions of
  the first; a cycle overruns its tick, a step back is longer than an interval and
  shorter, and a second step falls into the sleep the cap has cut. The two xray
  targets are symmetric.

`ConfigSync_sound` assumes that chain and override do not change between a poll's
requests (`SteadyChain`), that rebuilds do not overlap (`Overlap`) and do not fail
once their material is accepted (`RebuildFaults`); `PanelLink_sound` that no
`RefreshMaterial` runs beside a poll;
`Registration_sound` that a box does not come back without its `state.json`;
`ConfigApply_sound` that renaming `xray.json` and saving `state.json` work. Section 6
says what happens otherwise. A row opened for a forgotten inbound is excused in
`RowsConverge` (`Orphan`). `HistoryKept` speaks of recorded inbounds: one whose first
`savePanelInbounds` failed is unknown for a poll, and its rows may go.
`PanelCall_sound` runs without the deadlock check: its queues may be empty. Excuses
are history variables the properties name: `SentIsShown` excuses a raced bucket,
`AlertsCovered` an announcement that a crash or a failed write has cost (`mute`),
`BackMeansDrained` the rows of a batch whose second write failed (`uncounted`),
`TrueVerdicts` rows a stranger accepted (`vouched`), `ParkedIsLive` a token from
before a replacement (`former`), `ReasonFitsPhases` a redirected probe that is
refused or out of TLS time at a later hop (`hops`), `GridKept` a clock that was set
back (`stepped`), for the grid and not for the length of the sleep. `Adopted` has one
box, which never meets the registry's global cap of pending requests.

### Fairness

- `ClientLife`: time passes, the sweep's ticker fires and what it found is
  processed, a started hook and a started heartbeat finish, mon-server is started
  again after a crash (`app.go` runs the sweep until shutdown; handlers have
  timeouts). None is assumed of a mon-client or an administrator.
- `ConfigSync`: the poller's loop, a rebuild that was begun and a live box's
  heartbeats go on (`Poller.Run`, `Loop.Run`).
- `PanelLink`: the poll loop goes on (a ticker, every request with a timeout), a
  Telegram message that was begun ends well or badly, a panel event that was
  decided on is queued.
- `StatsBuckets`: windows close as time passes, and `Flush` is called by every poll.
- `Registration`: a box's loops, the polls mon-server has read a row for, expiry of
  a request nobody watches, and an administrator who decides a request that is
  pending again and again (strong fairness of opening it: the form closes when the
  request expires) and enables a mon-client that stays disabled.
- `ConfigApply`: the loop goes on (`Once`).
- Faults, crashes and changes are bounded in all of them, so `<>[]` says where
  things come to rest after the last. No fairness is assumed of faults.
- The other modules state none: their properties are safety.

### Finding

*Results recorded during a flush are lost to the panel* (`stats.go:173`, run
`stats_buckets_race`): `Flush` reads rows, calls the panel, then sets `sent_at` by id.
A heartbeat that folds a late cycle into such a row in between has its clearing of
`sent_at` overwritten by the mark, against `stats.go:76-79`.

## 5. Proofs

Each theorem holds for every value of the constants its module's `ASSUME`s allow.
Where it needs more, the paragraph says so. Every strengthened invariant was
checked by TLC on the module's run before it was proved.

`TargetProofs`, on `TargetMachine` (any stored thresholds, gaps and clock) proves
`TypeCorrect`, `FeedFollowsRow` (`PanelAgrees`), `HoldMatchesState`
(`HoldIffFlapping`), `ReasonMatchesState` (`ReasonFitsState`) and their conjunction
`RowStaysConsistent` (`RowIsConsistent`). These are inductive together: `StepIsGood`
says that `Step` turns a good row into a good one and that replaying its events leads
there, by one lemma per phase of `Step`. It then proves what streaks, window and hold
are kept for: `FloodIsBounded` (`LoudFlipsBounded`), `FlapsAreEarned`
(`FlappingIsEarned`), `HoldsAreServed` (`HoldIsServed`) and `StreaksDecide`
(`StreakDecides`). The invariant `HInv` ties the row to what the observers saw: the
counters are the streaks since the row was last moved, the window holds only
transitions that happened and all announced ones that still count, and the stored
hold is the latest transition's. `StepSaysSo` says what one `Step` may do to each of
them. FLAPPING needs as many stamps in the window as the thresholds say, and each
stamp stands for a transition of its own (`OneStampEach`).

`TargetProofs`, on `ClientLife` (any targets, silence and bounds), proves
`LifeTypeCorrect`, `OfflineClaimsNothing` (`OfflineIsUnknown`), `FeedSaysTheRow`
(`FeedAgrees`) and `SilenceIsReal` (`OfflineIsEarned`). `OfflineIsUnknown` and
`FeedAgrees` are inductive with the types. `OfflineIsEarned` needs two facts about
time: a heartbeat is at most `Slow` in mon-server's hands (`Prompt`), and since
mon-server got ready either nothing was heard or the row's age lags behind the real
silence by at most `Slow` (`Heard`).

`CycleDeliveryProofs` (any buffer size and bounds) proves with failing files:
`TypeCorrect`, `NoCycleTwice` (`FiledOnce`), `AnswerFreshens` (`HeardIsFresh`) and
`UnmarkedOnce` (`UnmarkedOncePerLife`). `FiledOnce` alone is not inductive. `IInv` adds
where copies of a cycle may be and what they agree on: every copy of a cycle has
the same seq, a filed one has a seq not above `last_ack_seq`, each place holds one
copy of a cycle, and the counter is ahead of everything in memory and, by its own
`next`, of everything on disk. A cycle whose seq is above `last_ack_seq` was
therefore never filed. `FInv` adds what an answer is worth: a heartbeat that is
awaited carries the newest seq, so its answer covers all that is held and all this
life sent before, and what stays in the buffer between rounds after it travelled
is marked. Under `~DiskFaults` it proves `NoCycleLost` (`NothingLost`),
`LiveNeverGoesBack` (`LiveInOrder`) and `ImplementsLedger` (`LedgerSpec`, the
refinement of `CycleLedger`, one lemma per action). The files are then what the
process holds and a seq is the number of a making (`InStep`), a heartbeat carries
all that was held up to its newest cycle (`Covers`), so what is acknowledged and
still held is filed (`AckIsFiled`), and `Trim` lets go of the oldest of more than
`MaxCycles` only.

`PanelLinkProofs` (any batch size, bounds and faults) proves `TypeCorrect`,
`RowsAreAccountedFor` (`NothingLost`), `AnnouncedOnce` (`AlertsCovered`),
`FeedIsOrdered` (`InOrder`) and, under `~Overlap`, `BackIsTrue` (`BackMeansDrained`).
The invariant follows a row through the flush: a row whose message is out is marked
so in the outbox, in the batch and in the feed (`Announced`); a batch is of queued
rows, each once, and the valid ones are filed when it is marked (`Carried`); what is
not filed yet is stamped after what is, and what is outside the batch after what is
in it, late rows excepted (`FiledFirst`, `BatchFirst`); what a recovery owes has left
the queue when it is finished (`Owes`) and was sent in it, and its number is that of
the rows sent in it, less those of the batch between the two writes and those of
batches whose second write failed (`Counts`). That the panel files a batch in the
order of its stamps is a lemma about `Rank`, which numbers a finite set by its stamps
(`RankNumbers`).

`RegistrationProofs` (any number of boxes, requests and polls in flight) proves
`TokenIsHandedOnce` (`HandedOnce`), `ParkedTokensAreLive` (`ParkedIsLive`) and, under
`~LosesState`, `CyclesAreOwn` (`OwnCyclesOnly`). A token is given away only by the
UPDATE that takes it and parked only by the approval of a pending request; the
invariant says that a request which is pending, or whose token is parked, has not
handed it out. `OInv` says for each box that the cycles on disk are those of the
identity in `state.json`, and there are none without one (`Own`): that is why the
code clears `cycles.json` first. A box waits for one poll at a time (`Calls`), so no
late answer reaches a box that has an identity. `TypeCorrect` needs no such setting:
a box polls exactly while it knows a request, an identity is something before it is
saved (`Seated`), and a request that was made stays made, so that every poll finds
a row (`Made`, `MadeStays`).

`ConfigProofs`, on `ConfigSync` (any inbounds, hops, contents and vocabularies, and
also without `SteadyChain` and with `Overlap` and `RebuildFaults`), proves `TypeCorrect`
and `HistoryIsKept` (`HistoryKept`). A row is deleted on the word of a reading that
may be old: `SyncPaths` by the chain of the material, `RetirePaused` and
`ReconcilePauses` by what a heartbeat read of it before its transaction. The invariant
says of every such reading, from `/state` on (`PollRead`, `MatRead`,
`BeatRead`), that whatever it does not serve is in `left`, the keys the panel once did
not serve. Keys never leave `left`, so a reading may be as old as it likes.

`ConfigProofs`, on `ConfigApply` (any documents), proves `BoxTypeCorrect` and, under
`~DiskFails`, `MeasuresAreHonest` (`HonestMeasures`). The invariant follows
`xray.json`: between two applications the file and the child are of the document in
force; during one that document is kept aside in `xray.json.prev` until the new one
is in force or has been rolled back.

`PanelCallProofs` proves `TypeCorrect`, `VerdictsAreTrue` (`TrueVerdicts`),
`RowsWaitForTheCall` (a call's rows stay queued until it returns, and the panel holds
only valid elements that were sent to it) and `CallIsOneAnswer` (`CallSpec`, the
refinement of `PanelAnswer`) for any rows, batch size, retries and faults. The
invariant is what an answer on its way is evidence of (`Evidence`): a list of
rejections was made by the panel for this very batch, whose other valid elements are
filed; an empty 200 came from a panel that filed the batch whole; a 4xx stands for a
refused batch; a bare 404 or a foreign body for one that nobody judged; of an
acceptance a stranger wrote it says only that a stranger wrote it. It survives
retries because what an earlier attempt filed stays filed.

`ProbeCycleProofs` (any timers, targets, documents and intervals) proves
`TypeCorrect`, `Bounded` (`CycleIsBounded`), `OnTheGrid` (`GridKept`), `ReasonsFit`
(`ReasonFitsPhases`) and `CertificatesAreOwn` (`CertIsOwn`). No running probe's
deadline lies beyond the cycle's start plus the budget, and a probe that reaches its
deadline moves on or ends before time does. The grid is arithmetic (`RoundedUp`,
`MultipleModulo`, `NextOnGridAhead`, `NextStartAhead`): rounding up to a multiple of
the interval is ahead of the wall clock by at most an interval if the scheduled start
is not, which it never is unless the clock was set back (`OnTime`); if it is, the cap
makes the sleep an interval. For reasons, `PInv` says which measures a probe has in
each phase, before and after a redirect, and each way a probe can end is checked
against it. For certificates, every routed session has its detour line and every
detour line is of the cycle under way (`Routed`), so `Diagnose` finds the probe's own
session and no retry of an earlier one.

`StatsBucketsProofs` (any keys, times, batch size, bounds and refusals) proves
`TypeCorrect`, `BucketsAreExact` (`BucketIsExact`) and `SentIsOnThePanel`
(`SentIsShown`). `BucketIsExact` is not inductive: the average alone does not tell
what it was made of. `RowsAreExact` compares each field of a row, sum and count
included, with the whole log (`Tallies`). One more result in a delta is one more
result in the row the delta is merged into (`MergesStep`), so merging the delta of a
heartbeat tallies the log it is appended to (`MergesTallies`), and dividing the
stored sum by the stored count rounds to within half a millisecond
(`RoundsToNearest`). Deltas and totals are recursive functions. Their induction
(`DeltasRecur`, `TotalsRecur`, `MergesTallies`) goes over sets of naturals instead of
predicates: a set that has 0 and every successor has them all (`Induction`), because
a set without a least element is empty (`LeastNatural`). For `SentIsShown` a row that
is being sent is closed and queued, and the batch says what the row says unless it
got results since (`InFlight`); when the mark is due the panel holds the batch
(`Acknowledged`). Without the excuse for raced rows this fails: it is the finding.

Assumptions: the named `ASSUME`s of the modules, which say what the constants are,
and four settings, each that of the run which checks the property: `~DiskFails`
(`MeasuresAreHonest`), `~DiskFaults` (`NoCycleLost`, `LiveNeverGoesBack`,
`ImplementsLedger`), `~Overlap` (`BackIsTrue`) and `~LosesState` (`CyclesAreOwn`). None
can be dropped: section 6 has the counterexamples.

Only model-checked is liveness (`SilenceIsNoticed`, `RevokedEndsOffline`,
`RowsConverge`, `BoxConverges`, `Delivered`, `EveryBucketLeaves`, `Adopted`, `LeavesTheOld`,
`KeepsProbing`): TLAPS does not reason about fairness and ENABLED.

## 6. What does not hold

The modules keep these properties, each a sentence of the code or its docs or the
stronger form of one that is checked; no run lists them. A TLC run of the named
MC module with the given change finds each counterexample.

| property | change to the cfg | what happens |
|---|---|---|
| `TargetMachine!DerivedIsActual` | - | `derivedState` (`machine.go:215-230`) reads the state under FLAPPING off the running streak alone: a blip shorter than `downAfter` reads as a change |
| `CycleDelivery!ResentIsUnverified` | - | a crash between `Add` and `MarkUnverified` (`loop.go:252-274`) resends a cycle as fresh |
| `CycleDelivery!NothingLost`, `LedgerSpec` | `DiskFaults = TRUE` (`CycleDelivery_sound`) | a cycle whose save failed or whose file was lost is gone after a restart |
| `CycleDelivery!LiveInOrder` | `DiskFaults = TRUE` (`CycleDelivery_sound`) | a box that lost `cycles.json` numbers from 1 again; a late heartbeat of its earlier life has higher seqs and is judged after it |
| `ClientLife!RevokedIsOffline` | - | the heartbeat's transaction reads the row again, not whether its token still holds (`engine.go:187`): a revoked mon-client is ONLINE until the sweep |
| `ClientLife!NeverIsUnknown` | - | a replacement inherits judged targets (`registry.go:639-685`) until the new box speaks |
| `ConfigSync!VanishedAreRemoved` | - | a target created after `SyncInbounds` forgot its inbound and before the rebuild stays for ever (`engine.go:418`) |
| `ConfigSync!BoxConverges` | `SteadyChain = FALSE` | chain and override come from `/state`, the revision from `/probe/ensure` (`poller.go:703`): the old chain is filed under the new revision |
| `ConfigSync!BoxConverges` | `Overlap = TRUE` | the older of two rebuilds stores last (`config.go:163`) |
| `ConfigSync!BoxConverges` | `RebuildFaults = TRUE` | `RebuildAll` is not retried while the revision stays (`poller.go:769`) |
| `PanelCall!SentIsFiled` | - | a proxy, a login page or another service that answers with an empty 200, a 204 or a JSON object without `rejected` counts as the panel (`client.go:441-481`): rows it never saw are marked sent |
| `PanelLink!BackMeansDrained` | `Overlap = TRUE` | an outage that `RefreshMaterial` finds and ends between a poll's last read and `finishRecovery` is announced as over with its events still queued |
| `PanelLink!BackCountsAll` | - | the accepted rows of a batch are marked, then the rejected ones, and only then the batch is counted (`poller.go:956-962`); when the second write fails `flush` returns, the accepted rows never come again, and "panel back, N" says less than was resent, against `poller.go:1166-1169` and `1178-1185`, for which N is the total of every accepted row and a failure mid-drain shrinks nothing |
| `PanelLink!OutageIsClosed` | - | queueing the PANEL_UP event fails, which is only logged (`poller.go:1159-1164`): the panel's feed shows an outage that never ends; with `Overlap` two goroutines may also queue theirs in the wrong order |
| `Registration!OwnCyclesOnly` | `LosesState = TRUE` | a `state.json` that no longer decodes is removed, `cycles.json` is not (`supervisor.go:196-237`): the next identity sends them |
| `Registration!ParkedIsCurrent` | - | `ApproveAsReplacement` mints a token (`registry.go:654`) and leaves an earlier, uncollected request of the mon-client with the old one: its poll hands over a token that is refused with 401, and the box starts over |
| `Registration!ApprovalStands` | - | a poll marks a request expired that was approved since it was read (`registry.go:460-477`); the box asks again |
| `ConfigApply!HonestMeasures` | `DiskFails = TRUE` | saving `state.json` fails after the child was restarted (`apply.go:246-313`): the old probe set stays in force and asks the ports of the new child, so one target's result is filed under another; the comment at `apply.go:271-279` says that failing there leaves the old revision fully in force |
| `ConfigApply!Converges` | - | `fetchAndApply` clears `needConfig` before `Apply`, and after a restart `state.json`'s `appliedRevision` equals the announced one: a failed first apply is not retried (`loop.go:291`, `:389`), though `loop.go:369-371` says it is |
| `ProbeCycle!RefusedCarriedNothing` | - | a 3xx is followed on a new connection (`do.go:137`): its dial may be refused when the first hop has measured TLS and first byte, which stay in the result beside tcp_refused (`classify.go:71-73`) |
| `ProbeCycle!GridIsOne` | - | the wall clock is set back and the wait is capped (`loop.go:459-461`): the grid begins anew at now plus the interval, which is what the cap is for |
| `ProbeCycle!TimeoutIsTheBudget` | - | `classify.go:26-27` gives probe_timeout to the whole budget only; the response-header timer and the netstack dial's deadline answer to `context.DeadlineExceeded` too, so an AWG connect timeout reads probe_timeout where `docs/spec/mon-client.md:48` names tcp_timeout |

Observations made while modelling, which no property is about:

- A bare 404 or a body that is not the contract's drops statistics while events are
  kept, although `stats.go:151-152` says its rules mirror the outbox. A 4xx without
  the contract's body, such as a proxy's 403 page, drops an event batch although
  `poller.go:922-928` speaks of the panel rejecting it.
- `resetZero` guards against a retry that decodes over an earlier attempt's fields
  (`client.go:451-453`); the decoder buffers a whole value, and a type error is not
  retried, so the case does not arise.
- `RefreshMaterial` beside a poll is called harmless (`poller.go:838-839`), but the
  older of the two rebuilds may be stored last, as in the `Overlap` case above.
- `register.go:277-281` takes a failed POST for one that never reached mon-server;
  if only its answer was lost the request occupies the address until it expires.
- An approved answer whose token is empty is saved like any other; the box then
  gets 401 and starts over, which `Registration` includes.
- The fallback of `Diagnose` can give a probe that was not routed in its window
  another target's retry session on the same server (`mon-client.md:49`).
- An AWG probe reports `connectMs` also when the dial failed (`awg/probe.go:177`,
  `probe/do.go:205-208`). `Diagnose` may turn an http_error into reality_real_cert.

## 7. Not modelled

- Login, sessions, the first administrator and the pages of the admin UI; form
  decoding. The registry operations they trigger are modelled.
- The snapshot of mon-clients sent with `/probe/ensure`, unallocated AWG peers,
  `realHost` and a material that `RefreshMaterial` files beside a poll.
- Alerts sent once per spell (rejected token, foreign body, contract, certificate),
  deadlines of a whole poll, answers that are cut before their first byte without
  an error.
- Retention, which deletes rows nothing reads any more, but for `ExpireRequests`.
- A box without an xray binary (AWG targets only), a foreign process that listens
  on a socks port, downloads and signals.
- A wall clock that is set while probes run, which cuts their window of stderr lines
  too; a `probeUrl` that is not https, which mon-server does not hand out.
- Packets, the netstack and its bind, the wording of a detail, eviction of stderr
  lines and a reader that lags behind.
- Parsing and printing of links and configs, TLS and ACME, Telegram's HTTP,
  configuration files and command lines: I/O and formatting without state.
