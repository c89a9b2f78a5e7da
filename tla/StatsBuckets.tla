----------------------------- MODULE StatsBuckets -----------------------------
(***************************************************************************)
(* The five-minute statistics of internal/state/stats.go: Record folds the  *)
(* cycles of a heartbeat into rows of stats_buckets inside the heartbeat's  *)
(* transaction, Flush sends the closed ones to the panel, which keeps one   *)
(* row per key, and marks what it sent after the call has returned.         *)
(*                                                                         *)
(* A key is one target in one window.  A result carries the measurement of  *)
(* its kind: TLS time for xray, handshake time for AWG, or none.            *)
(***************************************************************************)
EXTENDS Integers, FiniteSets, Sequences, Functions

CONSTANTS
    Keys,         \* the buckets: (mon-client, target, window)
    Awg,          \* those of AWG targets
    Times,        \* milliseconds a probe may measure
    Refusable,    \* those the panel may refuse, whatever is in them
    BatchSize,    \* maxStatsPerBatch (2000)
    MaxCycles,    \* bound: cycles recorded
    MaxFaults     \* bound: requests and writes that fail

Null == -1

ASSUME StatsAssumption ==
    /\ Awg \subseteq Keys /\ Refusable \subseteq Keys
    /\ Times \subseteq Nat
    /\ BatchSize \in Nat \ {0} /\ MaxCycles \in Nat /\ MaxFaults \in Nat

VARIABLES
    rows,         \* stats_buckets
    closed,       \* the keys whose window ended a minute ago
    flush,        \* where Flush is
    batch,        \* the keys it read and their payloads
    panel,        \* what the panel holds
    refusing,     \* the keys it refuses
    log,          \* the results counted into each key, in the order of their seqs
    raced,        \* the keys that got results while their row was being sent
    seq,          \* cycles so far: the last seq
    faults

vars == <<rows, closed, flush, batch, panel, refusing, log, raced, seq, faults>>

Result == [ok : {TRUE}, ms : Times \cup {Null}] \cup [ok : {FALSE}, ms : {Null}]
Cycle  == [seq : Nat, unverified : BOOLEAN, key : Keys, result : Result]

\* A row of stats_buckets; `at` is queued, sent or dropped (sent_at and dropped).
NoRow == [nOk |-> 0, nFail |-> 0, latMin |-> Null, latMax |-> Null, latAvg |-> Null,
          latSum |-> 0, latN |-> 0, handshake |-> Null, at |-> "none"]

PayloadOf(r) == [nOk |-> r.nOk, nFail |-> r.nFail, latMin |-> r.latMin, latMax |-> r.latMax,
                 latAvg |-> r.latAvg, handshake |-> r.handshake]
NoPayload == PayloadOf(NoRow)

-----------------------------------------------------------------------------
(* Record *)

NoDelta == [nOk |-> 0, nFail |-> 0, latSum |-> 0, latN |-> 0, latMin |-> Null, latMax |-> Null,
            handshakeSet |-> FALSE, handshake |-> Null]

Lesser(a, b)  == IF a = Null \/ b < a THEN b ELSE a
Greater(a, b) == IF a = Null \/ b > a THEN b ELSE a

\* One result added to a delta, an xray or an AWG one.
Add(d, r, awg) ==
    CASE ~r.ok -> [d EXCEPT !.nFail = @ + 1]
      [] r.ok /\ awg -> [d EXCEPT !.nOk = @ + 1, !.handshakeSet = TRUE, !.handshake = r.ms]
      [] r.ok /\ ~awg /\ r.ms = Null -> [d EXCEPT !.nOk = @ + 1]
      [] OTHER -> [d EXCEPT !.nOk = @ + 1, !.latSum = @ + r.ms, !.latN = @ + 1,
                            !.latMin = Lesser(@, r.ms), !.latMax = Greater(@, r.ms)]

\* The delta of a heartbeat's results for one key.
Deltas(rs, awg) ==
    LET d[i \in 0..Len(rs)] == IF i = 0 THEN NoDelta ELSE Add(d[i-1], rs[i], awg) IN d

DeltaOf(rs, awg) == Deltas(rs, awg)[Len(rs)]

\* Mutant: the average is merged from the stored average.
AverageOfAverages(row, d) ==
    IF d.latN = 0 THEN row.latAvg
    ELSE IF row.latAvg = Null THEN (d.latSum + d.latN \div 2) \div d.latN
    ELSE (row.latAvg + (d.latSum \div d.latN) + 1) \div 2

\* Merged through the stored sum and count, to the nearest millisecond.
Average(row, d) ==
    IF d.latN = 0 THEN row.latAvg
    ELSE (row.latSum + d.latSum + (row.latN + d.latN) \div 2) \div (row.latN + d.latN)

\* New data: the row is to be sent, again if need be.
Merged(row, d) ==
    [row EXCEPT
        !.nOk = @ + d.nOk, !.nFail = @ + d.nFail,
        !.latMin = IF d.latN > 0 THEN Lesser(@, d.latMin) ELSE @,
        !.latMax = IF d.latN > 0 THEN Greater(@, d.latMax) ELSE @,
        !.latSum = @ + d.latSum, !.latN = @ + d.latN,
        !.latAvg = Average(row, d),
        !.handshake = IF d.handshakeSet THEN d.handshake ELSE @,
        !.at = "queued"]

\* Mutant: a row the panel has stays marked as sent.
ApplyDeltaQuietly(row, d) ==
    [Merged(row, d) EXCEPT !.at = IF row.at = "none" THEN "queued" ELSE row.at]

\* Without a success no latency is shown.
ApplyDelta(row, d) ==
    LET merged == Merged(row, d) IN
    IF merged.nOk # 0 THEN merged
    ELSE [merged EXCEPT !.latMin = Null, !.latAvg = Null, !.latMax = Null, !.handshake = Null]

\* What a heartbeat counts for a key: an unverified cycle's failure is a gap.
Counting(beat, k) == {c \in Range(beat) : c.key = k /\ (c.result.ok \/ ~c.unverified)}

\* In the order of the seqs.
Counted(beat, k) ==
    LET mine == Counting(beat, k)
    IN  [i \in 1..Cardinality(mine) |->
            (CHOOSE c \in mine : Cardinality({e \in mine : e.seq <= c.seq}) = i).result]

Record(beat) ==
    /\ seq + Len(beat) <= MaxCycles
    /\ seq' = seq + Len(beat)
    /\ LET got     == [k \in Keys |-> Counted(beat, k)]
           touched == {k \in Keys : got[k] # << >>}
       IN /\ rows' = [k \in Keys |-> IF k \in touched
                                     THEN ApplyDelta(rows[k], DeltaOf(got[k], k \in Awg))
                                     ELSE rows[k]]
          /\ log' = [k \in Keys |-> log[k] \o got[k]]
          /\ raced' = (raced \ touched) \cup (touched \cap DOMAIN batch)
    /\ UNCHANGED <<closed, flush, batch, panel, refusing, faults>>

\* A minute after the end of the window.
Close(k) ==
    /\ k \notin closed
    /\ closed' = closed \cup {k}
    /\ UNCHANGED <<rows, flush, batch, panel, refusing, log, raced, seq, faults>>

-----------------------------------------------------------------------------
(* Flush *)

Fault == faults < MaxFaults /\ faults' = faults + 1

FlushStart ==
    /\ flush = "idle" /\ flush' = "read"
    /\ UNCHANGED <<rows, closed, batch, panel, refusing, log, raced, seq, faults>>

Due == {k \in closed : rows[k].at = "queued"}

\* Closed rows to be sent, BatchSize at most; none: Flush is done.
FlushRead ==
    /\ flush = "read"
    /\ LET due == Due
       IN IF due = {} THEN flush' = "idle" /\ UNCHANGED batch
          ELSE /\ \E ks \in SUBSET due :
                    /\ Cardinality(ks) = IF Cardinality(due) < BatchSize THEN Cardinality(due) ELSE BatchSize
                    /\ batch' = [k \in ks |-> PayloadOf(rows[k])]
               /\ flush' = "post"
    /\ UNCHANGED <<rows, closed, panel, refusing, log, raced, seq, faults>>

\* handleStats: a row replaces the one of its key.
Upserted == [k \in Keys |-> IF k \in DOMAIN batch \ refusing THEN batch[k] ELSE panel[k]]

\* Mutant: what the panel refused is tried again.
MarkedSent(ks, place) ==
    [k \in Keys |-> IF k \in ks /\ place = "sent" THEN [rows[k] EXCEPT !.at = place] ELSE rows[k]]

Marked(ks, place) == [k \in Keys |-> IF k \in ks THEN [rows[k] EXCEPT !.at = place] ELSE rows[k]]

\* POST /stats: accepted; filed with the answer lost; failed; or refused for good.
PostStats(answer) ==
    /\ flush = "post"
    /\ panel' = IF answer \in {"ok", "lost"} THEN Upserted ELSE panel
    /\ IF answer = "ok" THEN UNCHANGED faults ELSE Fault
    /\ CASE answer = "ok" -> flush' = "mark" /\ UNCHANGED <<rows, batch, raced>>
         [] answer = "refused" -> /\ rows' = Marked(DOMAIN batch, "dropped")
                                  /\ raced' = raced \ DOMAIN batch
                                  /\ flush' = "read" /\ batch' = << >>
         [] OTHER -> /\ raced' = raced \ DOMAIN batch
                     /\ flush' = "idle" /\ batch' = << >> /\ UNCHANGED rows
    /\ UNCHANGED <<closed, refusing, log, seq>>

\* markSent: the accepted rows are marked, whatever was recorded meanwhile.
FlushMark ==
    /\ flush = "mark"
    /\ rows' = Marked(DOMAIN batch \ refusing, "sent")
    /\ flush' = "drop" /\ batch' = Restrict(batch, DOMAIN batch \cap refusing)
    /\ UNCHANGED <<closed, panel, refusing, log, raced, seq, faults>>

\* markDropped: then those the panel refused one by one.
FlushDrop ==
    /\ flush = "drop"
    /\ rows' = Marked(DOMAIN batch, "dropped")
    /\ raced' = raced \ DOMAIN batch
    /\ flush' = "read" /\ batch' = << >>
    /\ UNCHANGED <<closed, panel, refusing, log, seq, faults>>

\* The database is busy, the cycle's deadline has passed or mon-server stops.
FlushEnds ==
    /\ flush # "idle"
    /\ Fault
    /\ raced' = raced \ DOMAIN batch
    /\ flush' = "idle" /\ batch' = << >>
    /\ UNCHANGED <<rows, closed, panel, refusing, log, seq>>

Init ==
    /\ rows = [k \in Keys |-> NoRow]
    /\ closed = {}
    /\ flush = "idle" /\ batch = << >>
    /\ panel = [k \in Keys |-> NoPayload]
    /\ refusing \in SUBSET Refusable
    /\ log = [k \in Keys |-> << >>]
    /\ raced = {} /\ seq = 0 /\ faults = 0

\* One cycle, or two that the request does not list in the order of their seqs.
Beats ==
    LET C(n) == [seq : {n}, unverified : BOOLEAN, key : Keys, result : Result]
    IN  {<<c>> : c \in C(seq + 1)} \cup
        {<<d, c>> : c \in C(seq + 1), d \in C(seq + 2)}

Flush ==
    \/ FlushStart \/ FlushRead
    \/ \E answer \in {"ok", "lost", "silent", "refused"} : PostStats(answer)
    \/ FlushMark \/ FlushDrop \/ FlushEnds

Next ==
    \/ \E beat \in Beats : Record(beat)
    \/ \E k \in Keys : Close(k)
    \/ Flush

\* The poller flushes every minute, and windows end.
Fairness == WF_vars(Flush) /\ \A k \in Keys : WF_vars(Close(k))

Spec == Init /\ [][Next]_vars /\ Fairness

-----------------------------------------------------------------------------
(* Properties *)

Oks(rs)      == {i \in DOMAIN rs : rs[i].ok}
Measured(rs) == {i \in Oks(rs) : rs[i].ms # Null}

\* The measured times of the first i results together, for every i.
Totals(rs) ==
    LET t[i \in 0..Len(rs)] == IF i = 0 THEN 0
                               ELSE t[i-1] + (IF i \in Measured(rs) THEN rs[i].ms ELSE 0)
    IN  t

Total(rs) == Totals(rs)[Len(rs)]

\* Is ms what the latest success carries?
IsLatest(ms, rs) ==
    IF Oks(rs) = {} THEN ms = Null
    ELSE \E i \in Oks(rs) : ms = rs[i].ms /\ \A j \in Oks(rs) : j <= i

\* Extremes and rounded average of the measured times.
IsSummary(least, most, average, rs) ==
    LET n == Cardinality(Measured(rs)) IN
    IF n = 0 THEN least = Null /\ most = Null /\ average = Null
    ELSE /\ \E i \in Measured(rs) : least = rs[i].ms
         /\ \E i \in Measured(rs) : most = rs[i].ms
         /\ \A i \in Measured(rs) : least <= rs[i].ms /\ rs[i].ms <= most
         /\ 2 * Total(rs) - n <= 2 * n * average /\ 2 * n * average <= 2 * Total(rs) + n

\* However the cycles were spread over heartbeats, a row is the aggregate of
\* all results counted into it: its counts, the extremes and the rounded
\* average of the measured times, the handshake of the latest success.
\* (Record, add, applyDelta)
BucketIsExact ==
    \A k \in Keys :
        /\ rows[k].nOk = Cardinality(Oks(log[k]))
        /\ rows[k].nFail = Cardinality(DOMAIN log[k] \ Oks(log[k]))
        /\ IF k \in Awg
           THEN IsLatest(rows[k].handshake, log[k]) /\ rows[k].latAvg = Null
           ELSE /\ IsSummary(rows[k].latMin, rows[k].latMax, rows[k].latAvg, log[k])
                /\ rows[k].handshake = Null

\* The panel is shown closed windows only, and a row that counts as sent is
\* what it holds, but for one that got results while it was being sent.
\* (Flush, markSent, applyDelta)
SentIsShown ==
    \A k \in Keys :
        /\ panel[k] # NoPayload => k \in closed
        /\ rows[k].at = "sent" /\ k \notin raced => panel[k] = PayloadOf(rows[k])

\* Every bucket with results is decided in the end: the panel has it, or
\* refused it.  (Flush)
EveryBucketLeaves == \A k \in Keys : [](log[k] # << >> => <>(rows[k].at \in {"sent", "dropped"}))

\* A row that counts as sent is what the panel holds.  (stats.go: "A bucket
\* that the panel already has (sent_at set) and that receives new data has
\* sent_at cleared, so the next Flush sends it again")
SentIsCurrent == \A k \in Keys : rows[k].at = "sent" => panel[k] = PayloadOf(rows[k])
==============================================================================
