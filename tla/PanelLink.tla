------------------------------- MODULE PanelLink -------------------------------
(***************************************************************************)
(* The way of an event from mon-server to the panel: a transaction of the   *)
(* engine files it in events_outbox (internal/store/events.go, emitTarget   *)
(* and emitMonClient in internal/state/engine.go), mon-server's own         *)
(* Telegram message follows after the commit while the panel is down, and   *)
(* the poller (internal/panel/poller.go) drains the outbox into the panel's *)
(* feed once a minute, counts the requests nobody answered, and declares    *)
(* the panel down or back.                                                  *)
(*                                                                         *)
(* The panel files an event once, by its id (internal/panel/paneltest).     *)
(* A request may be answered, answered neutrally (a 404, a body that is not *)
(* the contract's), refused as a whole, fail, or be filed and its answer    *)
(* lost.  The rows of an accepted batch are settled by two writes, and each *)
(* may fail.  Rows are numbered in the order of their commits.              *)
(***************************************************************************)
EXTENDS Integers, FiniteSets, Sequences

CONSTANTS
    PanelDownAfter,  \* settings.panelDownAfter, 1 if smaller
    BatchSize,       \* maxEventsPerBatch (1000)
    Overlap,         \* may RefreshMaterial run while a poll does?
    MaxRows,         \* bound: events of the engine
    MaxOdd,          \* bound: those of them that are late, refused or unreadable
    MaxOutages,      \* bound: PANEL_DOWN and PANEL_UP events
    MaxFaults        \* bound: unanswered requests, failed writes and messages, crashes, days

ASSUME PanelLinkAssumption ==
    /\ PanelDownAfter \in Nat \ {0} /\ BatchSize \in Nat \ {0}
    /\ Overlap \in BOOLEAN
    /\ MaxRows \in Nat /\ MaxOdd \in Nat /\ MaxOutages \in Nat /\ MaxFaults \in Nat

VARIABLES
    outbox,          \* events_outbox: the rows in the order of their commits
    down,            \* Poller.down
    failures,        \* Poller.failures, counted up to PanelDownAfter
    pendingRecovery, recoverySent,
    tell,            \* the panel event a goroutine decided on and has not queued yet
    poll,            \* where the poll loop is
    batch,           \* what flush read and sends
    hand,            \* the rows whose Telegram message is being sent
    feed,            \* the panel's feed: what it filed, in order
    told,            \* the rows mon-server announced itself
    mute,            \* the rows whose announcement a crash or a failed write cost
    spurned,         \* the rows of batches the panel refused as a whole
    owed,            \* history: the rows waiting when the panel came back
    resent,          \* history: the rows stamped sent since pendingRecovery was set
    uncounted,       \* history: those of a batch whose second write failed
    faults

recovery == <<resent, uncounted>>
link  == <<down, failures, pendingRecovery, recoverySent, tell, owed, recovery>>
alert == <<hand, told, mute>>
vars  == <<outbox, link, poll, batch, alert, feed, spurned, faults>>

Goroutine == {"poll", "refresh"}
Kind    == {"alert", "quiet", "panelDown", "panelUp"}
Quality == {"good", "refused", "unreadable"}
Place   == {"queued", "sent", "dropped", "pruned"}
Row     == [kind : Kind, late : BOOLEAN, quality : Quality,
            notified : BOOLEAN, at : Place, old : BOOLEAN]

Rows      == DOMAIN outbox
Queued    == {i \in Rows : outbox[i].at = "queued"}
OfEngine  == {i \in Rows : outbox[i].kind \in {"alert", "quiet"}}
Odd(i)    == outbox[i].late \/ outbox[i].quality # "good"
Filed     == {feed[k].id : k \in DOMAIN feed}
Capped(n) == IF n > PanelDownAfter THEN PanelDownAfter ELSE n

-----------------------------------------------------------------------------
(* The engine's side *)

\* A row's place in `ORDER BY ts, id`: the stamp is the receive time of the
\* heartbeat, so a row of a heartbeat that waited for its transaction is
\* stamped before the row committed last.
Key(i) == IF outbox[i].late THEN 2 * i - 3 ELSE 2 * i

NewRow(kind, late, quality, notified) ==
    [kind |-> kind, late |-> late, quality |-> quality,
     notified |-> notified, at |-> "queued", old |-> FALSE]

\* Whether mon-server announces a transition itself: an alert, while the panel is down.
TelegramWorthy(kind) == kind = "alert" /\ down

Emit(kind, late, quality) ==
    /\ Cardinality(OfEngine) < MaxRows
    /\ LET worthy == TelegramWorthy(kind) IN
       /\ outbox' = Append(outbox, NewRow(kind, late, quality, worthy))
       /\ hand' = IF worthy THEN hand \cup {Len(outbox) + 1} ELSE hand
    /\ UNCHANGED <<link, poll, batch, told, mute, feed, spurned, faults>>

TelegramSent(i) ==
    /\ i \in hand
    /\ hand' = hand \ {i} /\ told' = told \cup {i}
    /\ UNCHANGED <<outbox, link, poll, batch, mute, feed, spurned, faults>>

Fault == faults < MaxFaults /\ faults' = faults + 1

\* Mutant: a failed message is logged and nothing else.
NotUnnotified(i) == outbox

\* A failed message puts the row back, whatever became of the row meanwhile.
Unnotified(i) == [outbox EXCEPT ![i].notified = FALSE]

TelegramFails(i) ==
    /\ i \in hand
    /\ Fault
    /\ hand' = hand \ {i}
    /\ \/ outbox' = Unnotified(i) /\ UNCHANGED mute
       \/ outbox' = outbox /\ mute' = mute \cup {i}
    /\ UNCHANGED <<link, poll, batch, told, feed, spurned>>

-----------------------------------------------------------------------------
(* What a request says of the panel *)

\* An answer ends the failure run, and the outage if there is one.
MarkUp(g) ==
    /\ failures' = 0
    /\ down' = FALSE
    /\ pendingRecovery' = (pendingRecovery \/ down)
    /\ tell' = [tell EXCEPT ![g] = IF down THEN "up" ELSE "none"]
    /\ owed' = IF down THEN owed \cup Queued ELSE owed
    /\ UNCHANGED <<recoverySent, recovery>>

\* Silence counts; at panelDownAfter the panel is down.
MarkDown(g) ==
    /\ failures' = Capped(failures + 1)
    /\ down' = (failures + 1 >= PanelDownAfter)
    /\ tell' = [tell EXCEPT ![g] = IF down' /\ ~down THEN "down" ELSE "none"]
    /\ UNCHANGED <<pendingRecovery, recoverySent, owed, recovery>>

\* Only a request without an answer counts: a 5xx, a time out, a broken connection.
FailureReason(answer) == answer \in {"silent", "lost"}

Observe(g, answer) ==
    CASE answer \in {"ok", "mismatch"} -> MarkUp(g) /\ UNCHANGED faults
      [] FailureReason(answer) -> MarkDown(g) /\ Fault
      [] OTHER -> UNCHANGED link /\ Fault

\* onPanelDown, onPanelUp: mon-server announces an outage itself.
PanelEvent(g) == NewRow(IF tell[g] = "up" THEN "panelUp" ELSE "panelDown", FALSE, "good", TRUE)

\* The event of the transition is a write of its own, after the flag; its
\* failure is logged and the event is lost.
EnqueuePanelEvent(g) ==
    /\ tell[g] # "none"
    /\ \/ /\ Cardinality(Rows \ OfEngine) < MaxOutages
          /\ outbox' = Append(outbox, PanelEvent(g))
          /\ UNCHANGED faults
       \/ Fault /\ UNCHANGED outbox
    /\ tell' = [tell EXCEPT ![g] = "none"]
    /\ UNCHANGED <<down, failures, pendingRecovery, recoverySent, owed, recovery>>
    /\ UNCHANGED <<poll, batch, alert, feed, spurned>>

-----------------------------------------------------------------------------
(* The poll loop *)

\* The loop goes on once the panel event it owes is queued.  The bound on
\* panel events is a bound on outages: none begins that could not be told.
MayAsk(g) ==
    /\ tell[g] = "none"
    /\ g = "poll" /\ ~Overlap => tell["refresh"] = "none"
    /\ g = "refresh" /\ ~Overlap => poll = "idle" /\ tell["poll"] = "none"
Tellable == Cardinality(Rows \ OfEngine) + Cardinality({g \in Goroutine : tell[g] # "none"})
                < MaxOutages - (IF down THEN 0 ELSE 1)

\* Rows that were announced are given up when they are a day old.
Outdated == {i \in Queued : outbox[i].notified /\ outbox[i].old}

Prune == outbox' = [i \in Rows |-> IF i \in Outdated THEN [outbox[i] EXCEPT !.at = "pruned"]
                                   ELSE outbox[i]]

\* noteContract: without the contract nothing is asked of the probe set.
AfterState(answer) ==
    CASE answer = "ok" -> "ensure"
      [] answer = "mismatch" -> "flush"
      [] OTHER -> "idle"

\* GET /state.  A panel that does not answer, or refuses the request, is given no more
\* of the announced rows than a day's; an unknown one and a foreign body prune nothing.
PollState(answer) ==
    /\ poll = "idle" /\ MayAsk("poll")
    /\ answer = "silent" => Tellable
    /\ Observe("poll", answer)
    /\ poll' = AfterState(answer)
    /\ \/ answer \in {"silent", "refused"} /\ Prune
       \/ UNCHANGED outbox
    /\ UNCHANGED <<batch, alert, feed, spurned>>

\* POST /probe/ensure and GET /probe/configs: the outbox is drained whatever they say.
PollEnsure(answer) ==
    /\ poll = "ensure" /\ MayAsk("poll")
    /\ answer = "silent" => Tellable
    /\ Observe("poll", answer)
    /\ poll' = "flush"
    /\ UNCHANGED <<outbox, batch, alert, feed, spurned>>

\* A prune that fails is logged.
FlushPrune ==
    /\ poll = "flush" /\ MayAsk("poll")
    /\ \/ Prune /\ UNCHANGED faults
       \/ Fault /\ UNCHANGED outbox
    /\ poll' = "read"
    /\ UNCHANGED <<link, batch, alert, feed, spurned>>

\* Mutant: the newest rows first.
NewestBatch == {i \in Queued : Cardinality({j \in Queued : Key(j) > Key(i)}) < BatchSize}

\* The rows of the next batch, in the order of their stamps.
NextBatch == {i \in Queued : Cardinality({j \in Queued : Key(j) < Key(i)}) < BatchSize}

DecodeBatch(rows) == {i \in rows : outbox[i].quality # "unreadable"}

\* A row that cannot be decoded is dropped; the others are what is sent.
FlushRead ==
    /\ poll = "read" /\ MayAsk("poll")
    /\ LET readable == DecodeBatch(NextBatch) IN
       /\ batch' = {[id |-> i, notified |-> outbox[i].notified] : i \in readable}
       /\ outbox' = [i \in Rows |-> IF i \in NextBatch \ readable
                                    THEN [outbox[i] EXCEPT !.at = "dropped"] ELSE outbox[i]]
       /\ poll' = CASE NextBatch = {} -> "finish"
                    [] NextBatch # {} /\ readable = {} -> "read"
                    [] OTHER -> "post"
    /\ UNCHANGED <<link, alert, feed, spurned, faults>>

\* How many of a batch's elements are not stamped after c.
Rank(c, elements) == Cardinality({d \in elements : Key(d.id) <= Key(c.id)})

\* handleEvents: what is valid and new is filed in the order of the batch.
FiledAfter ==
    LET new == {c \in batch : c.id \notin Filed /\ outbox[c.id].quality = "good"}
    IN  feed \o [k \in 1..Cardinality(new) |-> CHOOSE c \in new : Rank(c, new) = k]

Ids == {c.id : c \in batch}

PlaceAll(ids, place) ==
    [i \in Rows |-> IF i \in ids THEN [outbox[i] EXCEPT !.at = place] ELSE outbox[i]]

\* A batch refused as a whole is dropped, or stays if that cannot be written.
PostEvents(answer) ==
    /\ poll = "post" /\ MayAsk("poll")
    /\ answer \in {"silent", "lost"} => Tellable
    /\ Observe("poll", answer)
    /\ feed' = IF answer \in {"ok", "lost"} THEN FiledAfter ELSE feed
    /\ \/ answer = "ok" /\ poll' = "mark" /\ UNCHANGED <<outbox, batch, spurned>>
       \/ /\ answer = "refused"
          /\ spurned' = spurned \cup Ids
          /\ batch' = {}
          /\ \/ outbox' = PlaceAll(Ids, "dropped") /\ poll' = "read"
             \/ UNCHANGED outbox /\ poll' = "idle"
       \/ /\ answer \in {"silent", "lost", "neutral"}
          /\ batch' = {} /\ poll' = "idle" /\ UNCHANGED <<outbox, spurned>>
    /\ UNCHANGED alert

\* Mutant: what the panel rejected counts as accepted.
AllIds == Ids

\* Per element: what the answer does not reject is accepted.
AcceptedIds == {i \in Ids : outbox[i].quality = "good"}

\* Mutant: a rejected row waits for a better day.
NoIds == {}

RefusedIds == Ids \ AcceptedIds

\* markSent: the first of the two writes.
MarkSent ==
    /\ poll = "mark" /\ MayAsk("poll")
    /\ outbox' = PlaceAll(AcceptedIds, "sent")
    /\ resent' = IF pendingRecovery THEN resent \cup AcceptedIds ELSE resent
    /\ poll' = "drop"
    /\ UNCHANGED <<down, failures, pendingRecovery, recoverySent, tell, owed, uncounted>>
    /\ UNCHANGED <<batch, alert, feed, spurned, faults>>

\* Mutant: the count is that of the last batch.
SetRecoverySent ==
    recoverySent' = IF pendingRecovery THEN Cardinality(AcceptedIds) ELSE recoverySent

\* The count goes on over the batches of a recovery, and over polls.
AddRecoverySent ==
    recoverySent' = IF pendingRecovery THEN recoverySent + Cardinality(AcceptedIds)
                    ELSE recoverySent

\* markDropped, the second write; only then is the batch counted.
MarkDropped ==
    /\ poll = "drop" /\ MayAsk("poll")
    /\ outbox' = PlaceAll(RefusedIds, "dropped")
    /\ AddRecoverySent
    /\ batch' = {} /\ poll' = "read"
    /\ UNCHANGED <<down, failures, pendingRecovery, tell, owed, recovery>>
    /\ UNCHANGED <<alert, feed, spurned, faults>>

\* The database is busy or the cycle's deadline has passed: the outbox cannot be read,
\* or one of the two writes fails, and flush returns where it is.  Nothing is written
\* for an empty list.
FlushFails ==
    /\ poll \in {"read", "mark", "drop"} /\ MayAsk("poll")
    /\ poll = "mark" => AcceptedIds # {}
    /\ poll = "drop" => RefusedIds # {}
    /\ Fault
    /\ uncounted' = IF poll = "drop" THEN uncounted \cup AcceptedIds ELSE uncounted
    /\ batch' = {} /\ poll' = "idle"
    /\ UNCHANGED <<down, failures, pendingRecovery, recoverySent, tell, owed, resent>>
    /\ UNCHANGED <<outbox, alert, feed, spurned>>

\* The queue is empty: "panel back, recoverySent events resent".
FinishRecovery ==
    /\ poll = "finish"
    /\ pendingRecovery' = FALSE /\ recoverySent' = 0
    /\ owed' = {} /\ resent' = {} /\ uncounted' = {}
    /\ poll' = "idle"
    /\ UNCHANGED <<outbox, down, failures, tell, batch, alert, feed, spurned, faults>>

-----------------------------------------------------------------------------
(* Beside the loop *)

\* A request of RefreshMaterial, from the settings page.
RefreshMaterial(answer) ==
    /\ MayAsk("refresh")
    /\ answer = "silent" => Tellable
    /\ Observe("refresh", answer)
    /\ UNCHANGED <<outbox, poll, batch, alert, feed, spurned>>

\* A day passes for a row in the queue; its message has long been tried.
Age(i) ==
    /\ i \in Queued \ hand
    /\ ~outbox[i].old /\ ~ \E c \in batch : c.id = i
    /\ Fault
    /\ outbox' = [outbox EXCEPT ![i].old = TRUE]
    /\ UNCHANGED <<link, poll, batch, alert, feed, spurned>>

\* mon-server stops anywhere and starts with the panel taken for up.
Crash ==
    /\ Fault
    /\ down' = FALSE /\ failures' = 0
    /\ pendingRecovery' = FALSE /\ recoverySent' = 0
    /\ owed' = {} /\ resent' = {} /\ uncounted' = {}
    /\ tell' = [g \in Goroutine |-> "none"]
    /\ poll' = "idle" /\ batch' = {}
    /\ mute' = mute \cup hand /\ hand' = {}
    /\ UNCHANGED <<outbox, told, feed, spurned>>

Init ==
    /\ outbox = <<>> /\ feed = <<>>
    /\ down = FALSE /\ failures = 0
    /\ pendingRecovery = FALSE /\ recoverySent = 0
    /\ owed = {} /\ resent = {} /\ uncounted = {}
    /\ tell = [g \in Goroutine |-> "none"]
    /\ poll = "idle" /\ batch = {}
    /\ hand = {} /\ told = {} /\ mute = {} /\ spurned = {}
    /\ faults = 0

PollLoop ==
    \/ \E answer \in {"ok", "mismatch", "silent", "neutral", "refused"} : PollState(answer)
    \/ \E answer \in {"ok", "silent", "neutral"} : PollEnsure(answer)
    \/ FlushPrune \/ FlushRead
    \/ \E answer \in {"ok", "lost", "silent", "neutral", "refused"} : PostEvents(answer)
    \/ MarkSent \/ MarkDropped \/ FlushFails \/ FinishRecovery
    \/ EnqueuePanelEvent("poll")

Engine ==
    \/ \E kind \in {"alert", "quiet"}, late \in BOOLEAN, quality \in Quality :
            /\ late => Rows # {}
            /\ late \/ quality # "good" => Cardinality({i \in Rows : Odd(i)}) < MaxOdd
            /\ Emit(kind, late, quality)
    \/ \E i \in Rows : TelegramSent(i) \/ TelegramFails(i)

Next ==
    \/ PollLoop
    \/ Engine
    \/ \E answer \in {"ok", "silent"} : RefreshMaterial(answer)
    \/ EnqueuePanelEvent("refresh")
    \/ \E i \in Rows : Age(i)
    \/ Crash

\* The ticker starts a poll every minute and every request has a timeout, a
\* message being sent ends, and what RefreshMaterial decided it writes.
Fairness ==
    /\ WF_vars(PollLoop)
    /\ WF_vars(\E i \in Rows : TelegramSent(i) \/ TelegramFails(i))
    /\ WF_vars(EnqueuePanelEvent("refresh"))

Spec == Init /\ [][Next]_vars /\ Fairness

-----------------------------------------------------------------------------
(* Properties *)

\* A row leaves the queue only into the feed, or because the panel refused it
\* or nobody could read it, or because it was announced and is a day old.
\* (flush, markSent, markDropped, Prune)
NothingLost ==
    \A i \in Rows :
        /\ outbox[i].at = "sent" => i \in Filed
        /\ outbox[i].at = "dropped" => outbox[i].quality # "good" \/ i \in spurned
        /\ outbox[i].at = "pruned" /\ i \in OfEngine => i \in told \cup mute

\* An alert mon-server announced is never announced again by the panel; one
\* waiting in the queue as announced has been, or its message is on its way,
\* or a crash or a failed write has cost it.  (emitTarget, flush, unnotify)
AlertsCovered ==
    /\ \A k \in DOMAIN feed : feed[k].id \in told => feed[k].notified
    /\ \A i \in Queued \cap OfEngine : outbox[i].notified => i \in told \cup hand \cup mute

\* The panel files events in the order of their stamps, whatever is sent
\* again or dropped between them; only a row that was committed late is filed
\* after a younger one.  (flush: ORDER BY ts, id)
InOrder ==
    \A a, b \in DOMAIN feed :
        a < b => Key(feed[a].id) < Key(feed[b].id) \/ outbox[feed[b].id].late

\* The step that sends "panel back, recoverySent events resent".
SaysBack == poll = "finish" /\ pendingRecovery /\ poll' = "idle" /\ faults' = faults

\* "Panel back, N events resent" goes out when nothing of the outage is left in the
\* queue, what was sent of it was sent during the recovery, and N counts exactly the
\* rows stamped sent in it, over all its batches and polls, but those of a batch whose
\* rejected rows could not be written as dropped.  (flush, addRecoverySent,
\* finishRecovery)
BackMeansDrained ==
    [][SaysBack =>
        /\ owed \cap Queued = {}
        /\ {i \in owed : outbox[i].at = "sent"} \subseteq resent
        /\ recoverySent = Cardinality(resent \ uncounted)]_vars

\* N is "the running total of every outbox row the panel accepted since pendingRecovery
\* was first set", and a failure mid-drain in an earlier cycle "must not shrink what
\* gets reported".  (the comment of finishRecovery)
BackCountsAll == [][SaysBack => recoverySent = Cardinality(resent)]_vars

\* Whatever fails, every event leaves the queue in the end.  (Run, flush)
Delivered == \A i \in 1..MaxRows : i \in Queued ~> i \notin Queued

\* An idle poller whose last request was answered has no outage open in the
\* panel's feed.  (poller.go: "a restart starts up and re-detects the panel
\* on its first cycle, which costs at most one minute and one duplicate
\* PANEL_DOWN event")
PanelEvents == {i \in Rows : outbox[i].kind \in {"panelDown", "panelUp"}}
OutageIsClosed ==
    [][poll = "finish" /\ poll' = "idle" /\ faults' = faults /\ ~down
            /\ (\A g \in Goroutine : tell[g] = "none") /\ PanelEvents # {} =>
        outbox[CHOOSE i \in PanelEvents : \A j \in PanelEvents : j <= i].kind = "panelUp"]_vars
==============================================================================
