----------------------------- MODULE CycleDelivery -----------------------------
(***************************************************************************)
(* One mon-client and mon-server, and the probe cycles between them: the    *)
(* buffer in cycles.json (internal/client/heartbeat/buffer.go), the run     *)
(* loop that fills and sends it (internal/client/app/loop.go, Once) and the *)
(* half of Engine.Heartbeat that filters by last_ack_seq, acknowledges and  *)
(* hands the cycles to statistics (internal/state/engine.go, stats.go).     *)
(*                                                                         *)
(* A heartbeat may be lost, answered to nobody, or handled long after its   *)
(* sender gave up on it, also after a restart of the mon-client; mon-server *)
(* keeps its state in one database, so a crash of it is a lost request (the *)
(* transaction rolled back) or a lost answer (it had committed).  One token *)
(* generation: last_ack_seq is not reset here.                              *)
(*                                                                         *)
(* A cycle carries the number `id` of its making, which the program does    *)
(* not know, besides its seq, which the program may reuse.                  *)
(***************************************************************************)
EXTENDS Integers, FiniteSets

CONSTANTS
    MaxCycles,     \* the buffer's bound (60)
    DiskFaults,    \* may a save fail, or cycles.json be lost or unreadable?
    MaxMade,       \* bound: cycles probed
    MaxRestarts,   \* bound: restarts of the mon-client
    MaxFlying      \* bound: heartbeats in flight at once

ASSUME DeliveryAssumption ==
    /\ MaxCycles \in Nat \ {0}
    /\ DiskFaults \in BOOLEAN
    /\ MaxMade \in Nat /\ MaxRestarts \in Nat /\ MaxFlying \in Nat

VARIABLES
    phase,         \* what the run loop is doing
    buf,           \* Buffer.cycles
    nextSeq,       \* Buffer.nextSeq
    lastAck,       \* state.File.LastAckSeq
    disk,          \* cycles.json
    diskAck,       \* lastAckSeq in state.json
    restarts,      \* restarts so far: the number of the mon-client's life
    heard,         \* has this life had an answer that no heartbeat of an earlier life overtook?
    flying,        \* the heartbeats in flight
    answer,        \* the ackSeq on its way to the waiting mon-client
    srvAck,        \* mon_clients.last_ack_seq
    live,          \* the id of the last cycle that drove the state machine
    full, part,    \* the ids filed with failures, with successes only
    twice,         \* the ids filed again
    made,          \* ids given out
    evicted        \* ids the full buffer gave up

client  == <<phase, buf, nextSeq, lastAck>>
files   == <<disk, diskAck>>
server  == <<srvAck, live, full, part, twice>>
vars    == <<client, files, restarts, heard, flying, answer, server, made, evicted>>

NoAnswer == -1
Cycle    == [id : Nat, seq : Nat, unv : BOOLEAN]
Beat     == [own : Nat, life : Nat, cycles : SUBSET Cycle]

Filed        == full \cup part
Ids(cycles)  == {c.id : c \in cycles}
Larger(a, b) == IF a >= b THEN a ELSE b

TypeOK ==
    /\ phase \in {"idle", "sent", "acked"}
    /\ buf \subseteq Cycle
    /\ nextSeq \in Nat /\ lastAck \in Nat
    /\ disk \in [next : Nat, cycles : SUBSET Cycle]
    /\ diskAck \in Nat
    /\ restarts \in Nat /\ heard \in {"no", "coming", "yes"}
    /\ flying \subseteq Beat
    /\ answer \in Nat \cup {NoAnswer}
    /\ phase = "acked" => answer # NoAnswer
    /\ srvAck \in Nat /\ live \in Nat
    /\ full \subseteq Nat /\ part \subseteq Nat /\ twice \subseteq Nat
    /\ made \in Nat /\ evicted \subseteq Nat

-----------------------------------------------------------------------------
(* The buffer *)

\* Every mutation of the buffer is followed by a save, which may fail.
Save(cycles, next) ==
    \/ disk' = [next |-> next, cycles |-> cycles]
    \/ DiskFaults /\ UNCHANGED disk

\* Mutant: the counter ignores what was acknowledged.
ContinueAnyway(next, ack) == next

ContinueAfter(next, ack) == Larger(next, ack + 1)

\* Mutant: the newest cycle goes.
Youngest(cycles) == CHOOSE c \in cycles : \A d \in cycles : d.id <= c.id

Oldest(cycles) == CHOOSE c \in cycles : \A d \in cycles : c.id <= d.id

\* Mutant: a full buffer is taken for an overfull one.
TrimFull(cycles) ==
    IF Cardinality(cycles) >= MaxCycles THEN cycles \ {Oldest(cycles)} ELSE cycles

\* Adding one cycle too many evicts the oldest.
Trim(cycles) ==
    IF Cardinality(cycles) > MaxCycles THEN cycles \ {Oldest(cycles)} ELSE cycles

\* Mutant: nothing is marked.
MarkedNone(cycles) == cycles

\* MarkUnverified: everything held, the cycle just sent included.
Marked(cycles) == {[c EXCEPT !.unv = TRUE] : c \in cycles}

\* The counter never hands out a seq that is in the file.
Reopened(file) ==
    LET beyond == {c \in file.cycles : c.seq >= file.next}
    IN  IF beyond = {} THEN file.next
        ELSE (CHOOSE c \in beyond : \A d \in beyond : d.seq <= c.seq).seq + 1

Init ==
    /\ phase = "idle" /\ buf = {} /\ nextSeq = 1 /\ lastAck = 0
    /\ disk = [next |-> 1, cycles |-> {}] /\ diskAck = 0
    /\ restarts = 0 /\ heard = "no"
    /\ flying = {} /\ answer = NoAnswer
    /\ srvAck = 0 /\ live = 0 /\ full = {} /\ part = {} /\ twice = {}
    /\ made = 0 /\ evicted = {}

-----------------------------------------------------------------------------
(* The run loop *)

\* Once, first half: a cycle is probed and buffered, and everything pending is
\* sent.
Probe ==
    LET new  == [id |-> made + 1, seq |-> nextSeq, unv |-> FALSE]
        kept == Trim(buf \cup {new})
    IN  /\ phase = "idle"
        /\ made < MaxMade /\ Cardinality(flying) < MaxFlying
        /\ made' = made + 1
        /\ nextSeq' = nextSeq + 1
        /\ buf' = kept
        /\ Save(kept, nextSeq + 1)
        /\ evicted' = evicted \cup (Ids(buf \cup {new}) \ Ids(kept))
        /\ flying' = flying \cup {[own |-> new.id, life |-> restarts, cycles |-> kept]}
        /\ phase' = "sent"
        /\ UNCHANGED <<lastAck, diskAck, restarts, heard, answer, server>>

\* Once: no answer in time, a broken connection or a 5xx.  Whatever happened to
\* the request, the cycles stay, marked.
GiveUp ==
    /\ phase = "sent"
    /\ phase' = "idle"
    /\ buf' = Marked(buf)
    /\ Save(Marked(buf), nextSeq)
    /\ answer' = NoAnswer
    /\ heard' = IF heard = "coming" THEN "no" ELSE heard
    /\ UNCHANGED <<nextSeq, lastAck, diskAck, restarts, flying, server, made, evicted>>

\* Buffer.Ack: everything up to the ackSeq is let go.
Acked ==
    LET kept == {c \in buf : c.seq > answer}
        next == ContinueAfter(nextSeq, answer)
    IN  /\ phase = "sent" /\ answer # NoAnswer
        /\ phase' = "acked"
        /\ buf' = kept
        /\ nextSeq' = next
        /\ Save(kept, next)
        /\ heard' = IF heard = "coming" THEN "yes" ELSE heard
        /\ UNCHANGED <<lastAck, diskAck, restarts, flying, answer, server, made, evicted>>

\* rememberAck: the ackSeq is kept in state.json too.
RememberAck ==
    /\ phase = "acked"
    /\ phase' = "idle"
    /\ \/ answer <= lastAck /\ UNCHANGED <<lastAck, diskAck>>
       \/ /\ answer > lastAck
          /\ lastAck' = answer
          /\ diskAck' = answer \/ (DiskFaults /\ UNCHANGED diskAck)
    /\ answer' = NoAnswer
    /\ UNCHANGED <<buf, nextSeq, disk, restarts, heard, flying, server, made, evicted>>

\* The process dies and starts again on what its files hold.
Restart ==
    /\ restarts < MaxRestarts
    /\ restarts' = restarts + 1
    /\ \/ UNCHANGED disk
       \/ DiskFaults /\ disk' = [next |-> 1, cycles |-> {}]
    /\ phase' = "idle"
    /\ buf' = disk'.cycles
    /\ lastAck' = diskAck
    /\ nextSeq' = ContinueAfter(Reopened(disk'), diskAck)
    /\ answer' = NoAnswer
    /\ heard' = "no"
    /\ UNCHANGED <<diskAck, flying, server, made, evicted>>

-----------------------------------------------------------------------------
(* mon-server *)

\* Mutant: the oldest cycle is acknowledged.
OldestSeq(cycles) == CHOOSE s \in {c.seq : c \in cycles} : \A c \in cycles : s <= c.seq

NewestSeq(cycles) == CHOOSE s \in {c.seq : c \in cycles} : \A c \in cycles : c.seq <= s

\* liveCycle: the newest of the verified cycles.
LiveCycle(verified) == CHOOSE c \in verified : \A d \in verified : d.seq <= c.seq

\* Engine.Heartbeat's transaction: what is not above last_ack_seq is a duplicate,
\* the rest is filed, and the newest verified cycle drives the state machine.
Receive(beat) ==
    LET ack      == Larger(srvAck, NewestSeq(beat.cycles))
        new      == {c \in beat.cycles : c.seq > srvAck}
        verified == {c \in new : ~c.unv}
        awaited  == phase = "sent" /\ beat.own = made /\ beat.life = restarts
    IN  /\ beat \in flying
        /\ flying' = flying \ {beat}
        /\ srvAck' = ack
        /\ full' = full \cup Ids(verified)
        /\ part' = part \cup Ids(new \ verified)
        /\ twice' = twice \cup (Ids(new) \cap Filed)
        /\ live' = IF verified = {} THEN live
                   ELSE LiveCycle(verified).id
        /\ answer' = IF awaited THEN ack ELSE answer
        /\ heard' = IF beat.life # restarts THEN "no"
                    ELSE IF awaited /\ heard = "no" THEN "coming" ELSE heard
        /\ UNCHANGED <<client, files, restarts, made, evicted>>

\* A heartbeat is lost, or its transaction fails.
Lose(beat) ==
    /\ beat \in flying
    /\ flying' = flying \ {beat}
    /\ UNCHANGED <<client, files, restarts, heard, answer, server, made, evicted>>

\* The bounded model has no more cycles to probe.
Spent == phase = "idle" /\ made = MaxMade /\ flying = {} /\ UNCHANGED vars

Next ==
    \/ Probe \/ GiveUp \/ Acked \/ RememberAck \/ Restart \/ Spent
    \/ \E beat \in flying : Receive(beat) \/ Lose(beat)

Spec == Init /\ [][Next]_vars

-----------------------------------------------------------------------------
(* Properties *)

\* No cycle is counted twice, whatever is resent, answered too late, handled
\* after its sender gave up or restarted, and whatever becomes of its files.
FiledOnce == twice = {} /\ full \cap part = {}

\* While its files work, the mon-client lets go of a cycle only when mon-server
\* has it or the full buffer evicted it, MaxCycles newer ones being there: an
\* ackSeq means what it says, and a cycle that still had room is kept.
NothingLost ==
    /\ 1..made \subseteq Filed \cup Ids(buf) \cup {id \in evicted : made - id >= MaxCycles}
    /\ Cardinality(buf) <= MaxCycles

\* The state machine never sees a cycle older than one it has seen ("переходы
\* задним числом не переигрываются", mon-protocol.md §5.3).
LiveInOrder == [][live' >= live]_vars

\* A heartbeat's answer tells the mon-client where to go on: from then on no new
\* cycle of it starts at or below last_ack_seq, also after both files were lost
\* (Buffer.Ack, "so the next cycle is not dropped as a duplicate as well"), unless
\* mon-server handles a heartbeat of an earlier life after that.
HeardIsFresh == heard = "yes" => nextSeq > srvAck

\* A cycle travels unmarked in at most one heartbeat of each life of the
\* mon-client: the result of a try without an answer is never counted as a fresh
\* one by the next try (Buffer.MarkUnverified before the next Add).
UnmarkedOncePerLife ==
    \A first, second \in flying :
        first.life = second.life /\ first # second
            => \A c \in first.cycles, d \in second.cycles : c.id = d.id => c.unv \/ d.unv

\* A cycle that travels with another heartbeat than its own is marked unverified
\* (mon-protocol.md §5.3): its failures are not counted.
ResentIsUnverified ==
    \A beat \in flying : \A c \in beat.cycles : c.unv <=> c.id # beat.own

\* The ledger the protocol implements while the files work.
Ledger == INSTANCE CycleLedger WITH held <- Ids(buf)

LedgerSpec == Ledger!Spec
==============================================================================
