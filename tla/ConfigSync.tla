------------------------------- MODULE ConfigSync -------------------------------
(***************************************************************************)
(* How the panel's configuration reaches one mon-client and its target      *)
(* rows.  The poller (internal/panel/poller.go, Poll) reads the panel's     *)
(* state and probe material; the config builder (internal/registry/         *)
(* config.go) turns material and the mon-client's paths into its config     *)
(* document; the engine (internal/state/engine.go) pauses, releases,        *)
(* creates and removes target rows, in SyncInbounds and SyncPaths on the    *)
(* poll and in retirePaused, reconcilePauses and applyLive on a heartbeat.  *)
(*                                                                         *)
(* The poller, an administrator's request and a heartbeat are goroutines.   *)
(* A transaction is one step (the database has one connection); between     *)
(* the reads of a rebuild and its store, between a heartbeat's reads and    *)
(* its transaction, and between the steps of a poll anything may happen.    *)
(*                                                                         *)
(* A panel's content stands for its revision, a set of target keys for a    *)
(* document, its revision and the material of its items.  A row is "open"   *)
(* when it is judged by results (TargetMachine), PAUSED otherwise: by       *)
(* "inbound" (config_disabled) or by "config" (path_removed,                *)
(* override_disabled, no_probe_link or config_error).                       *)
(***************************************************************************)
EXTENDS Integers, FiniteSets

CONSTANTS
    Inbounds,      \* the panel's inbounds
    Awg,           \* those of kind awg, whose items need a probe peer
    Hops,          \* the paths edge:<name> and inner:<name>
    Broken,        \* the targets whose link the mon-client rejects
    Vocabularies,  \* the paths vocabularies an administrator may give
    Contents,      \* the contents the panel may have
    Start,         \* the one it has at the beginning
    SteadyChain,   \* do chain and override stay as they are during a poll's first two requests?
    Overlap,       \* may a rebuild begin while another is in progress?
    RebuildFaults, \* may a rebuild fail once its material is accepted?
    MaxEvents,     \* bound: changes of the panel, edits of the paths, and faults
    Nothing        \* no document, no material, nothing read

Paths == {"direct", "proxy"} \union Hops
Keys  == Inbounds \X Paths

Content == [inb : [Inbounds -> {"on", "off", "gone"}], hops : SUBSET Hops,
            override : BOOLEAN, peers : SUBSET (Awg \X Paths)]

\* Material: one accepted reading.  The items are those of revision rev, chain
\* and override those of GET /state.
Material == [rev : Contents, hops : SUBSET Hops, override : BOOLEAN]

ASSUME SyncAssumption ==
    /\ Awg \subseteq Inbounds /\ Broken \subseteq Keys
    /\ Hops \intersect {"direct", "proxy", "hops"} = {}
    /\ Vocabularies \subseteq SUBSET ({"direct", "hops"} \union Hops)
    /\ {"direct", "hops"} \in Vocabularies
    /\ Contents \subseteq Content /\ Start \in Contents
    /\ SteadyChain \in BOOLEAN /\ Overlap \in BOOLEAN /\ RebuildFaults \in BOOLEAN
    /\ MaxEvents \in Nat
    /\ \A K \in SUBSET Keys : K # Nothing
    /\ \A c \in Contents : c # Nothing
    /\ \A m \in Material : m # Nothing

Exclusions == [known : BOOLEAN, served : SUBSET Paths, paths : SUBSET Paths,
               override : BOOLEAN, on : SUBSET Inbounds]

VARIABLES
    panel,         \* the panel's content
    left,          \* the keys that were once gone or unserved at the panel
    inbs,          \* panel_inbounds: an inbound's enable flag, or "none"
    mat,           \* the poller's material (in memory)
    vocab,         \* the mon-client's paths column
    document,      \* its document in client_configs
    rows,          \* its rows in `targets`
    poll,          \* the poll cycle in progress
    build,         \* the rebuild of an administrator's request in progress
    beat,          \* the heartbeat in progress
    applied,       \* the document the mon-client applied
    events         \* changes, edits and faults so far

env  == <<panel, left>>
db   == <<inbs, vocab, document, rows>>
vars == <<env, db, mat, poll, build, beat, applied, events>>

Unknown  == [known |-> FALSE, served |-> {}, paths |-> {}, override |-> FALSE, on |-> {}]
NoPoll   == [at |-> "idle", st |-> Nothing, rev |-> Nothing, vocab |-> {}]
NoBuild  == [at |-> "idle", mat |-> Nothing, vocab |-> {}]
NoBeat   == [at |-> "idle", keys |-> {}, excl |-> Unknown]

-----------------------------------------------------------------------------
(* Material and document *)

\* Material.Served: with probed hops, proxy is no path.
Served(hops) == {"direct"} \union (IF hops # {} THEN hops ELSE {"proxy"})

ExpandPaths(v, m) ==
    (v \intersect {"direct"}) \union
    (IF "hops" \in v THEN Served(m.hops) \ {"direct"} ELSE v \intersect m.hops)

\* itemFor: the item of an AWG inbound is one mon-client's, by its probe peer.
ItemFor(k, m) == k[1] \in Awg => k \in m.rev.peers

\* Material.Items: every enabled inbound's, proxy only without a chain and under
\* override.
Items(m, p) ==
    { k \in Inbounds \X {p} : /\ m.rev.inb[k[1]] = "on"
                              /\ ItemFor(k, m)
                              /\ p = "proxy" => m.hops = {} /\ m.override }

\* The document, a function of what the rebuild read.
Build(v, m) == UNION { Items(m, p) : p \in ExpandPaths(v, m) }

-----------------------------------------------------------------------------
(* What the builder knows of targets outside the document *)

ExclusionsNow ==
    IF mat = Nothing THEN Unknown
    ELSE [known |-> TRUE, served |-> Served(mat.hops), paths |-> ExpandPaths(vocab, mat),
          override |-> mat.override, on |-> {i \in Inbounds : inbs[i] = "on"}]

Retired(x, k) == x.known /\ k[2] \notin x.served

\* Exclusions.Reason names no reason for the others.
Reason(x, k) ==
    IF ~x.known \/ Retired(x, k) \/ k[1] \notin x.on THEN ""
    ELSE IF k[2] \notin x.paths THEN "path_removed"
    ELSE IF k[2] = "proxy" /\ ~x.override THEN "override_disabled"
    ELSE "no_probe_link"

Expected(x) ==
    { k \in (Awg \intersect x.on) \X x.paths : k[2] = "proxy" => x.override }

-----------------------------------------------------------------------------
(* What a heartbeat's transaction does to the rows, in its order *)

\* Mutant: an inbound that is only disabled retires its targets too.
RetirePausedDisabled(r, keys) ==
    [k \in Keys |-> IF r[k] \in {"inbound", "config"} /\ k \notin keys /\ inbs[k[1]] # "on"
                    THEN "none" ELSE r[k]]

RetirePaused(r, keys) ==
    [k \in Keys |-> IF r[k] \in {"inbound", "config"} /\ k \notin keys /\ inbs[k[1]] = "none"
                    THEN "none" ELSE r[k]]

\* The rows reconcilePauses works on: without the retired ones, with one for each
\* rejected target and each AWG target that got no probe peer.
Reconcilable(r, keys, rejected, x) ==
    LET missing == rejected \union
                   {k \in Expected(x) \ keys : Reason(x, k) = "no_probe_link"}
    IN  [k \in Keys |-> IF r[k] # "none" /\ (k \in keys \/ ~Retired(x, k)) THEN r[k]
                        ELSE IF k \in missing THEN "open"
                        ELSE "none"]

\* Mutant: a target that is back in the document stays paused.
ReconcilePausesOnce(r, keys, rejected, x) ==
    LET rec    == Reconcilable(r, keys, rejected, x)
        out(k) == k \in rejected \/ (k \notin keys /\ Reason(x, k) # "")
    IN  [k \in Keys |-> IF rec[k] = "open" /\ out(k) THEN "config" ELSE rec[k]]

ReconcilePauses(r, keys, rejected, x) ==
    LET rec    == Reconcilable(r, keys, rejected, x)
        out(k) == k \in rejected \/ (k \notin keys /\ Reason(x, k) # "")
    IN  [k \in Keys |-> IF rec[k] = "open" /\ out(k) THEN "config"
                        ELSE IF rec[k] = "config" /\ ~out(k) /\ k \in keys THEN "open"
                        ELSE rec[k]]

\* A result of a target outside the document is dropped.
KeepKnown(results, keys) == results \intersect keys

\* A result creates the row of its target; a PAUSED one ignores it.
ApplyLive(r, results) ==
    [k \in Keys |-> IF k \in results /\ r[k] = "none" THEN "open" ELSE r[k]]

-----------------------------------------------------------------------------

Init ==
    /\ panel = Start
    /\ left = {k \in Keys : Start.inb[k[1]] = "gone" \/ k[2] \notin Served(Start.hops)}
    /\ inbs = [i \in Inbounds |-> "none"] /\ mat = Nothing
    /\ vocab = {"direct", "hops"} /\ document = Nothing
    /\ rows = [k \in Keys |-> "none"]
    /\ poll = NoPoll /\ build = NoBuild /\ beat = NoBeat /\ applied = {}
    /\ events = 0

-----------------------------------------------------------------------------
\* Whatever nobody has to do: bounded.
Event == events < MaxEvents /\ events' = events + 1

-----------------------------------------------------------------------------
(* The panel: its operator changes it, between two polls perhaps several times *)

PanelChanges(c) ==
    /\ Event
    /\ c # panel
    /\ panel' = c
    /\ left' = left \union {k \in Keys : c.inb[k[1]] = "gone" \/ k[2] \notin Served(c.hops)}
    /\ UNCHANGED <<db, mat, poll, build, beat, applied>>

-----------------------------------------------------------------------------
(* The poll, once a minute *)

\* GET /state: inbounds, chain, override and revision as of one moment.
HandleState == [NoPoll EXCEPT !.at = "state", !.st = panel, !.rev = panel]

PollState ==
    /\ poll.at = "idle"
    /\ poll' = HandleState
    /\ UNCHANGED <<env, db, mat, build, beat, applied, events>>

\* POST /probe/ensure answers with the revision of now, which takes the place of
\* that of /state; an ensure that failed leaves it.
HandleEnsure == {poll.rev, panel}

ProbeEnsure ==
    /\ poll.at = "state"
    /\ \E rev \in HandleEnsure :
           /\ SteadyChain => rev.hops = poll.st.hops /\ rev.override = poll.st.override
           /\ poll' = [poll EXCEPT !.at = "ensured", !.rev = rev]
    /\ UNCHANGED <<env, db, mat, build, beat, applied, events>>

\* savePanelInbounds never deletes.  An empty list is ignored, here and below.
SavePanelInbounds ==
    /\ poll.at = "ensured"
    /\ poll' = [poll EXCEPT !.at = "saved"]
    /\ inbs' = [i \in Inbounds |-> IF poll.st.inb[i] = "gone" THEN inbs[i] ELSE poll.st.inb[i]]
    /\ UNCHANGED <<env, mat, vocab, document, rows, build, beat, applied, events>>

AllGone(c) == \A i \in Inbounds : c.inb[i] = "gone"

\* pauseTargets and resumeTargets for every inbound: one that vanished is known
\* until now.
Synced(c) ==
    [k \in Keys |->
        LET vanished == c.inb[k[1]] = "gone" /\ inbs[k[1]] # "none"
        IN  IF rows[k] = "open" /\ (vanished \/ c.inb[k[1]] = "off") THEN "inbound"
            ELSE IF rows[k] = "inbound" /\ c.inb[k[1]] = "on" THEN "open"
            ELSE rows[k]]

SyncInbounds ==
    /\ poll.at = "saved"
    /\ poll' = [poll EXCEPT !.at = "synced"]
    /\ IF AllGone(poll.st)
       THEN UNCHANGED <<rows, inbs>>
       ELSE /\ rows' = Synced(poll.st)
            /\ inbs' = [i \in Inbounds |-> IF poll.st.inb[i] = "gone" THEN "none" ELSE inbs[i]]
    /\ UNCHANGED <<env, mat, vocab, document, build, beat, applied, events>>

\* Mutant: the chain's own revision is tracked instead of the panel's.
FreshChain == IF mat = Nothing THEN TRUE ELSE mat.hops # poll.rev.hops

Fresh == IF mat = Nothing THEN TRUE ELSE mat.rev # poll.rev

KeepMaterial ==
    /\ poll.at = "synced" /\ ~Fresh
    /\ poll' = NoPoll
    /\ UNCHANGED <<env, db, mat, build, beat, applied, events>>

\* What GET /probe/configs is asked for: the chain's hops take the place of proxy.
Requested ==
    {"direct"} \union (IF poll.st.hops # {} THEN poll.st.hops
                      ELSE IF poll.st.override THEN {"proxy"} ELSE {})

\* Its answer: the revision of now, or none for a hop that is not joined any more
\* and for proxy without the override.
HandleConfigs(p) ==
    IF p \in Hops \ panel.hops \/ (p = "proxy" /\ ~panel.override) THEN Nothing ELSE panel

Foreign == {p \in Requested : HandleConfigs(p) # poll.rev}

\* One answer of another revision, or one hop that is gone: all are discarded.
DiscardMaterial ==
    /\ poll.at = "synced" /\ Fresh
    /\ Foreign # {}
    /\ poll' = NoPoll
    /\ UNCHANGED <<env, db, mat, build, beat, applied, events>>

AcceptMaterial ==
    /\ poll.at = "synced" /\ Fresh
    /\ Foreign = {}
    /\ Overlap \/ build.at = "idle"
    /\ mat' = [rev |-> poll.rev, hops |-> poll.st.hops, override |-> poll.st.override]
    /\ poll' = [poll EXCEPT !.at = "accepted"]
    /\ UNCHANGED <<env, db, build, beat, applied, events>>

RebuildAllReads ==
    /\ poll.at = "accepted"
    /\ poll' = [poll EXCEPT !.at = "read", !.vocab = vocab]
    /\ UNCHANGED <<env, db, mat, build, beat, applied, events>>

RebuildAllStores ==
    /\ poll.at = "read"
    /\ document' = Build(poll.vocab, mat)
    /\ poll' = [poll EXCEPT !.at = "stored"]
    /\ UNCHANGED <<env, inbs, vocab, rows, mat, build, beat, applied, events>>

SyncPaths ==
    /\ poll.at = "stored"
    /\ rows' = [k \in Keys |-> IF k[2] \in Served(mat.hops) THEN rows[k] ELSE "none"]
    /\ poll' = NoPoll
    /\ UNCHANGED <<env, inbs, vocab, document, mat, build, beat, applied, events>>

\* A request or a write of the cycle failed: the cycle is over.
PollFails ==
    /\ Event
    /\ poll.at \in {"state", "ensured", "synced", "stored"} \union
                   (IF RebuildFaults THEN {"accepted", "read"} ELSE {})
    /\ poll' = NoPoll
    /\ UNCHANGED <<env, db, mat, build, beat, applied>>

\* savePanelInbounds or SyncInbounds failed: it is logged and the cycle goes on.
ApplyStateFails ==
    /\ Event
    /\ poll.at \in {"ensured", "saved"}
    /\ poll' = [poll EXCEPT !.at = IF @ = "ensured" THEN "saved" ELSE "synced"]
    /\ UNCHANGED <<env, db, mat, build, beat, applied>>

-----------------------------------------------------------------------------
(* An administrator edits the paths: Registry.Update, then Hooks.PathsChanged *)

Update(v) ==
    /\ Event
    /\ build.at = "idle"
    /\ Overlap \/ poll.at \notin {"accepted", "read"}
    /\ v \in Vocabularies \ {vocab}
    /\ vocab' = v
    /\ build' = [NoBuild EXCEPT !.at = "due"]
    /\ UNCHANGED <<env, inbs, document, rows, mat, poll, beat, applied>>

RebuildReads ==
    /\ build.at = "due"
    /\ build' = IF mat = Nothing THEN NoBuild ELSE [at |-> "read", mat |-> mat, vocab |-> vocab]
    /\ UNCHANGED <<env, db, mat, poll, beat, applied, events>>

RebuildStores ==
    /\ build.at = "read"
    /\ document' = Build(build.vocab, build.mat)
    /\ build' = NoBuild
    /\ UNCHANGED <<env, inbs, vocab, rows, mat, poll, beat, applied, events>>

-----------------------------------------------------------------------------
(* A heartbeat, and the config the mon-client fetches after it *)

\* Without a document no target is known.
KeySet(d) == IF d = Nothing THEN {} ELSE d

\* TargetKeys, which builds a missing document on demand.
TargetKeys ==
    /\ beat.at = "idle"
    /\ document' = IF document = Nothing /\ mat # Nothing THEN Build(vocab, mat) ELSE document
    /\ beat' = [NoBeat EXCEPT !.at = "keys", !.keys = KeySet(document')]
    /\ UNCHANGED <<env, inbs, vocab, rows, mat, poll, build, applied, events>>

ReadExclusions ==
    /\ beat.at = "keys"
    /\ beat' = [beat EXCEPT !.at = "exclusions", !.excl = ExclusionsNow]
    /\ UNCHANGED <<env, db, mat, poll, build, applied, events>>

\* The transaction, for a box that reports every target it applied.
Heartbeat ==
    LET rejected == beat.keys \intersect applied \intersect Broken
        results  == KeepKnown(applied \ Broken, beat.keys)
        retired  == RetirePaused(rows, beat.keys)
        settled  == ReconcilePauses(retired, beat.keys, rejected, beat.excl)
    IN  /\ beat.at = "exclusions"
        /\ rows' = ApplyLive(settled, results)
        /\ beat' = [NoBeat EXCEPT !.at = "answer"]
        /\ UNCHANGED <<env, inbs, vocab, document, mat, poll, build, applied, events>>

\* revisionFor: without a document the box hears its own revision.
RevisionFor ==
    /\ beat.at = "answer"
    /\ beat' = IF document = Nothing \/ document = applied THEN NoBeat
               ELSE [NoBeat EXCEPT !.at = "fetch"]
    /\ UNCHANGED <<env, db, mat, poll, build, applied, events>>

FetchAndApply ==
    /\ beat.at = "fetch"
    /\ applied' = document
    /\ beat' = NoBeat
    /\ UNCHANGED <<env, db, mat, poll, build, events>>

\* A request that is lost or fails: nothing of it is kept.
BeatFails ==
    /\ Event
    /\ beat.at \in {"keys", "exclusions", "answer", "fetch"}
    /\ beat' = NoBeat
    /\ UNCHANGED <<env, db, mat, poll, build, applied>>

-----------------------------------------------------------------------------

\* The material is in memory, the rest of mon-server is in its database.
Crash ==
    /\ Event
    /\ mat' = Nothing /\ poll' = NoPoll /\ build' = NoBuild /\ beat' = NoBeat
    /\ UNCHANGED <<env, db, applied>>

PollStep ==
    \/ PollState \/ ProbeEnsure \/ SavePanelInbounds \/ SyncInbounds
    \/ KeepMaterial \/ DiscardMaterial \/ AcceptMaterial
    \/ RebuildAllReads \/ RebuildAllStores \/ SyncPaths

RebuildStep == RebuildReads \/ RebuildStores

BeatStep == TargetKeys \/ ReadExclusions \/ Heartbeat \/ RevisionFor \/ FetchAndApply

Next ==
    \/ \E c \in Contents : PanelChanges(c)
    \/ PollStep \/ PollFails \/ ApplyStateFails
    \/ \E v \in Vocabularies : Update(v)
    \/ RebuildStep
    \/ BeatStep \/ BeatFails
    \/ Crash

\* The poll's ticker, a request that was begun and a live box go on; nobody owes a
\* change, an edit or a fault.
Fairness == WF_vars(PollStep) /\ WF_vars(RebuildStep) /\ WF_vars(BeatStep)

Spec == Init /\ [][Next]_vars /\ Fairness

-----------------------------------------------------------------------------
(* Properties *)

Current == [rev |-> panel, hops |-> panel.hops, override |-> panel.override]
Wanted  == Build(vocab, Current)

\* What the row of k must come to: judged if it is probed, paused if the box
\* rejects it or the panel or the administrator left it out, and no row once its
\* path is not served or its inbound is gone (which an empty list does not say).
Fits(k) ==
    LET state == panel.inb[k[1]]
    IN  IF k \in Wanted THEN rows[k] = (IF k \in Broken THEN "config" ELSE "open")
        ELSE IF k[2] \notin Served(panel.hops) THEN rows[k] = "none"
        ELSE IF state = "gone" /\ ~AllGone(panel) THEN rows[k] = "none"
        ELSE IF state = "off" THEN rows[k] \in {"none", "inbound", "config"}
        ELSE rows[k] \in {"none", "config"}

\* A row that a heartbeat opened for an inbound mon-server has already forgotten.
Orphan(k) == panel.inb[k[1]] = "gone" /\ inbs[k[1]] = "none" /\ rows[k] = "open"

\* Whatever the order of polls, rebuilds, heartbeats, fetches, faults and crashes,
\* every row comes to what the panel and the administrator last said of it
\* (mon-server.md 4 step 3), an orphan aside.
RowsConverge == <>[](\A k \in Keys : Fits(k) \/ Orphan(k))

\* The mon-client comes to probe exactly what the panel serves it now.
BoxConverges == <>[](applied = Wanted)

\* A row of a recorded inbound, and the history with it, is deleted only if the
\* panel once took its inbound or its path away: disabling, pausing, editing the
\* paths, faults and crashes never lose one (retirePaused, SyncPaths,
\* reconcilePauses).
HistoryKept ==
    [][\A k \in Keys \ left :
           rows[k] # "none" /\ inbs[k[1]] # "none" => rows'[k] # "none"]_vars

\* "A target that vanished loses that row [...] which is exactly the retiring mark
\* the next heartbeat reads to delete the target for good" (engine.go,
\* SyncInbounds): no target of a vanished inbound remains.
VanishedAreRemoved ==
    <>[](\A k \in Keys : panel.inb[k[1]] = "gone" /\ ~AllGone(panel) => rows[k] = "none")
===============================================================================
