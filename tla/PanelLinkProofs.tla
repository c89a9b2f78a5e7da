---------------------------- MODULE PanelLinkProofs ----------------------------
(***************************************************************************)
(* Proofs about PanelLink, for any batch size, any bounds and any faults:   *)
(* a row leaves the queue for a reason, alerts are announced once, the feed *)
(* keeps the order of the stamps, and "panel back" is true.                 *)
(***************************************************************************)
EXTENDS PanelLink, FunctionTheorems, FiniteSetTheorems, SequenceTheorems,
        NaturalsInduction, WellFoundedInduction, TLAPS

Entry  == [id : Nat, notified : BOOLEAN]
Places == {"idle", "ensure", "flush", "read", "post", "mark", "drop", "finish"}

TypeOK ==
    /\ outbox \in Seq(Row) /\ feed \in Seq(Entry)
    /\ failures \in Nat /\ recoverySent \in Nat /\ faults \in Nat
    /\ down \in BOOLEAN /\ pendingRecovery \in BOOLEAN
    /\ tell \in [Goroutine -> {"none", "up", "down"}]
    /\ poll \in Places
    /\ batch \subseteq Entry /\ IsFiniteSet(batch)

(* Every id is that of a row. *)
Known == hand \cup told \cup owed \cup Ids \cup Filed \subseteq Rows

(* A row whose message is on its way or sent is marked so wherever it is, and *)
(* no row ages while its message is on its way.                               *)
Announced ==
    /\ hand \cap told = {}
    /\ \A i \in hand \cup told : outbox[i].notified
    /\ \A i \in hand : ~outbox[i].old
    /\ \A c \in batch : c.id \in hand \cup told => c.notified
    /\ \A k \in DOMAIN feed : feed[k].id \in hand \cup told => feed[k].notified

Good(i) == outbox[i].quality = "good"

(* The batch between its reading and the second of its writes. *)
Carried ==
    /\ \A c, d \in batch : c.id = d.id => c = d
    /\ \A c \in batch :
            outbox[c.id].at = IF poll = "drop" /\ Good(c.id) THEN "sent" ELSE "queued"
    /\ batch # {} => poll \in {"post", "mark", "drop"}
    /\ poll \in {"mark", "drop"} => \A c \in batch : Good(c.id) => c.id \in Filed

(* What is still to be filed is stamped after what was filed, and what is not *)
(* in the batch after what is, but for rows committed late.                   *)
FiledFirst == \A i \in Filed, j \in Queued \ Filed : Good(j) => Key(i) < Key(j) \/ outbox[j].late
BatchFirst == \A c \in batch, j \in Queued \ Ids : Key(c.id) < Key(j) \/ outbox[j].late

OwedSent == {i \in owed : outbox[i].at = "sent"}

(* What a recovery owes is out of the queue when it is finished. *)
Owes ==
    /\ owed # {} => pendingRecovery
    /\ poll = "finish" /\ ~Overlap => owed \cap Queued = {}

(* The rows stamped sent that the batch in hand has yet to be counted for. *)
Fresh   == IF poll = "drop" THEN AcceptedIds ELSE {}
Counted == (resent \ uncounted) \ Fresh

(* The count of a recovery is that of the rows stamped sent in it, but for the *)
(* batch between its two writes and those whose second write failed.          *)
Counts ==
    /\ \A i \in resent \cup uncounted : i \in Rows /\ outbox[i].at = "sent"
    /\ resent # {} => pendingRecovery
    /\ OwedSent \subseteq resent
    /\ ~Overlap => /\ recoverySent = Cardinality(Counted)
                   /\ pendingRecovery => Fresh \subseteq resent \ uncounted

IInv == /\ TypeOK /\ Known /\ Announced /\ Carried /\ FiledFirst /\ BatchFirst /\ Owes /\ Counts
        /\ NothingLost /\ AlertsCovered /\ InOrder

-----------------------------------------------------------------------------
(* Ranks *)

(* Every non-empty set of naturals has a least element. *)
LEMMA LeastNatural ==
    ASSUME NEW T \in SUBSET Nat, T # {}
    PROVE  \E x \in T : \A y \in T : x <= y
<1>1. PICK x \in T : \A y \in T : <<y, x>> \notin OpToRel(<, Nat)
  BY NatLessThanWellFounded, WFMin
<1>2. \A y \in T : ~(y < x)
  BY <1>1, Zenon DEF OpToRel
<1> QED BY <1>2

(* Counting the elements with no larger value numbers a finite set in the     *)
(* order of its values.                                                       *)
RanksIn(S, value) == [a \in S |-> Cardinality({b \in S : value[b] <= value[a]})]

LEMMA RankNumbers ==
    ASSUME NEW S, IsFiniteSet(S), NEW value \in [S -> Int],
           \A a, b \in S : value[a] = value[b] => a = b
    PROVE  /\ RanksIn(S, value) \in Bijection(S, 1..Cardinality(S))
           /\ \A a, b \in S : value[a] < value[b] => RanksIn(S, value)[a] < RanksIn(S, value)[b]
<1> DEFINE upTo(a) == {b \in S : value[b] <= value[a]}
           place   == [a \in S |-> Cardinality(upTo(a))]
           n       == Cardinality(S)
<1>0. place = RanksIn(S, value)
  BY DEF RanksIn
<1>1. \A a \in S : IsFiniteSet(upTo(a)) /\ Cardinality(upTo(a)) \in Nat /\ Cardinality(upTo(a)) <= n
  BY FS_Subset, FS_CardinalityType
<1>2. \A a \in S : Cardinality(upTo(a)) # 0
  <2>1. \A a \in S : a \in upTo(a)
    OBVIOUS
  <2> QED BY <1>1, <2>1, FS_EmptySet
<1>3. n \in Nat /\ IsFiniteSet(1..n) /\ Cardinality(1..n) = n
  <2>1. n \in Nat
    BY FS_CardinalityType
  <2> HIDE DEF n
  <2> QED BY <2>1, FS_Interval
<1>4. place \in [S -> 1..n]
  BY <1>1, <1>2, <1>3
<1>5. ASSUME NEW a \in S, NEW b \in S, value[a] < value[b] PROVE place[a] < place[b]
  <2>1. upTo(a) \in SUBSET upTo(b) /\ b \in upTo(b) /\ b \notin upTo(a)
    BY <1>5
  <2>2. Cardinality(upTo(a)) <= Cardinality(upTo(b)) /\ Cardinality(upTo(a)) # Cardinality(upTo(b))
    <3> HIDE DEF upTo
    <3> QED BY <1>1, <2>1, FS_Subset
  <2> HIDE DEF upTo
  <2> QED BY <1>1, <2>2
<1>6. \A a, b \in S : a # b => place[a] # place[b]
  <2>1. SUFFICES ASSUME NEW a \in S, NEW b \in S, a # b PROVE place[a] # place[b]
    OBVIOUS
  <2>2. value[a] < value[b] \/ value[b] < value[a]
    BY <2>1
  <2> HIDE DEF place
  <2> QED BY <1>3, <1>4, <1>5, <2>2
<1>7. place \in Injection(S, 1..n)
  <2> HIDE DEF place, n
  <2> QED BY <1>4, <1>6 DEF Injection, IsInjective
<1>8. place \in Surjection(S, 1..n)
  <2> HIDE DEF place
  <2> QED BY <1>3, <1>7, FS_Injection
<1> HIDE DEF place, n
<1>9. place \in Bijection(S, 1..n)
  BY <1>7, <1>8 DEF Bijection
<1> QED BY <1>0, <1>5, <1>9 DEF n

-----------------------------------------------------------------------------
(* Rows *)

LEMMA RowsAreTyped ==
    ASSUME TypeOK
    PROVE  /\ Len(outbox) \in Nat /\ Rows = 1..Len(outbox)
           /\ \A i \in Rows : outbox[i] \in Row
           /\ IsFiniteSet(Rows) /\ IsFiniteSet(Queued)
<1>1. Len(outbox) \in Nat /\ Rows = 1..Len(outbox) /\ \A i \in Rows : outbox[i] \in Row
  BY DEF TypeOK, Rows
<1>2. IsFiniteSet(Rows)
  BY <1>1, FS_Interval
<1>3. Queued \in SUBSET Rows
  BY DEF Queued
<1> QED BY <1>1, <1>2, <1>3, FS_Subset

(* A row is added at the end. *)
LEMMA AppendsRow ==
    ASSUME TypeOK, NEW r \in Row, outbox' = Append(outbox, r)
    PROVE  /\ outbox' \in Seq(Row)
           /\ Rows' = Rows \cup {Len(outbox) + 1} /\ Len(outbox) + 1 \notin Rows
           /\ \A i \in Rows : outbox'[i] = outbox[i] /\ i <= Len(outbox) /\ i \in Nat
           /\ outbox'[Len(outbox) + 1] = r
<1>1. outbox \in Seq(Row)
  BY DEF TypeOK
<1>2. /\ outbox' \in Seq(Row) /\ Len(outbox') = Len(outbox) + 1
      /\ \A i \in 1..Len(outbox) : outbox'[i] = outbox[i]
      /\ outbox'[Len(outbox) + 1] = r
  BY <1>1, AppendProperties
<1>3. Rows = 1..Len(outbox) /\ Rows' = 1..Len(outbox') /\ Len(outbox) \in Nat
  BY <1>1, <1>2 DEF Rows
<1> QED BY <1>2, <1>3

(* The rows are rewritten where they are. *)
LEMMA RewritesRows ==
    ASSUME TypeOK, outbox' \in [Rows -> Row]
    PROVE  outbox' \in Seq(Row) /\ Rows' = Rows
<1>1. Len(outbox) \in Nat /\ Rows = 1..Len(outbox)
  BY RowsAreTyped
<1> QED BY <1>1 DEF Rows

(* A step that moves or marks rows, leaving what they are. *)
Kept ==
    /\ Rows' = Rows
    /\ \A i \in Rows : /\ outbox'[i].late = outbox[i].late
                       /\ outbox'[i].kind = outbox[i].kind
                       /\ outbox'[i].quality = outbox[i].quality

LEMMA KeptKeys == ASSUME Kept PROVE /\ \A i \in Rows : Key(i)' = Key(i) /\ Good(i)' = Good(i)
                                    /\ OfEngine' = OfEngine
BY DEF Kept, Key, Good, OfEngine

(* Rows that leave the queue, or a batch that is let go, disturb no order. *)
LEMMA OrderAfter ==
    ASSUME IInv, Kept, Queued' \subseteq Queued, feed' = feed
    PROVE  /\ FiledFirst' /\ InOrder' /\ Filed' = Filed
           /\ batch' \in {batch, {}} => BatchFirst' /\ Ids' \subseteq Ids
<1>1. Filed' = Filed /\ Filed \subseteq Rows /\ Ids \subseteq Rows
  BY DEF Filed, IInv, Known
<1>2. Queued \subseteq Rows
  BY DEF Queued
<1>3. \A i \in Rows : Key(i)' = Key(i) /\ Good(i)' = Good(i) /\ outbox'[i].late = outbox[i].late
  BY KeptKeys DEF Kept
<1>4. FiledFirst'
  BY <1>1, <1>2, <1>3 DEF IInv, FiledFirst
<1>5. InOrder'
  <2>1. \A k \in DOMAIN feed : feed[k].id \in Rows
    BY <1>1 DEF Filed
  <2> QED BY <1>3, <2>1 DEF IInv, InOrder
<1>6. ASSUME batch' \in {batch, {}} PROVE BatchFirst' /\ Ids' \subseteq Ids
  <2>1. CASE batch' = {}
    BY <2>1 DEF BatchFirst, Ids
  <2>2. CASE batch' = batch
    <3>1. Ids' = Ids /\ \A c \in batch : c.id \in Ids
      BY <2>2 DEF Ids
    <3> QED BY <1>1, <1>2, <1>3, <2>2, <3>1 DEF IInv, BatchFirst
  <2> QED BY <1>6, <2>1, <2>2
<1> QED BY <1>1, <1>4, <1>5, <1>6

(* A row leaves the queue for one of the reasons NothingLost names. *)
Leaves(i) ==
    /\ outbox[i].at = "queued"
    /\ \/ outbox'[i].at = "sent" /\ i \in Filed
       \/ outbox'[i].at = "dropped" /\ (~Good(i) \/ i \in spurned')
       \/ outbox'[i].at = "pruned" /\ (i \in OfEngine => i \in told \cup mute)

Moves ==
    /\ Kept /\ outbox' \in Seq(Row)
    /\ \A i \in Rows : /\ outbox'[i].notified = outbox[i].notified
                       /\ outbox'[i].old = outbox[i].old
                       /\ outbox'[i].at = outbox[i].at \/ Leaves(i)

LEMMA MovesKeep ==
    ASSUME IInv, Moves, spurned \subseteq spurned', UNCHANGED <<alert, feed>>
    PROVE  /\ Queued' \subseteq Queued /\ Filed' = Filed
           /\ FiledFirst' /\ InOrder' /\ NothingLost' /\ AlertsCovered'
           /\ batch' \in {batch, {}} => Announced' /\ BatchFirst' /\ Ids' \subseteq Ids
<1>1. hand' = hand /\ told' = told /\ mute' = mute /\ feed' = feed /\ Filed' = Filed
  BY DEF alert, Filed
<1>2. Queued' \subseteq Queued /\ Queued \subseteq Rows
  BY DEF Queued, Moves, Kept, Leaves
<1>3. FiledFirst' /\ InOrder' /\ (batch' \in {batch, {}} => BatchFirst' /\ Ids' \subseteq Ids)
  BY <1>1, <1>2, OrderAfter DEF Moves
<1>4. \A i \in Rows : Good(i)' = Good(i) /\ (i \in OfEngine' <=> i \in OfEngine)
  BY KeptKeys DEF Moves
<1>5. NothingLost'
  BY <1>1, <1>4 DEF Moves, Kept, Leaves, IInv, NothingLost, Good
<1>6. AlertsCovered'
  BY <1>1, <1>2, <1>4 DEF Moves, Kept, IInv, AlertsCovered, OfEngine, Queued
<1>7. ASSUME batch' \in {batch, {}} PROVE Announced'
  BY <1>1, <1>7 DEF Moves, Kept, IInv, Announced, Known
<1> QED BY <1>1, <1>2, <1>3, <1>5, <1>6, <1>7

(* The ways the poller writes places are moves, if the reason is there. *)
LEMMA PlacesRows ==
    ASSUME TypeOK, NEW ids, NEW place \in Place,
           outbox' = PlaceAll(ids, place)
    PROVE  /\ Kept /\ outbox' \in Seq(Row)
           /\ \A i \in Rows : /\ outbox'[i].notified = outbox[i].notified
                              /\ outbox'[i].old = outbox[i].old
                              /\ outbox'[i].at = IF i \in ids THEN place ELSE outbox[i].at
<1>1. \A i \in Rows : outbox[i] \in Row
  BY RowsAreTyped
<1>2. \A i \in Rows : /\ [outbox[i] EXCEPT !.at = place] \in Row
                      /\ [outbox[i] EXCEPT !.at = place].at = place
                      /\ [outbox[i] EXCEPT !.at = place].kind = outbox[i].kind
                      /\ [outbox[i] EXCEPT !.at = place].late = outbox[i].late
                      /\ [outbox[i] EXCEPT !.at = place].quality = outbox[i].quality
                      /\ [outbox[i] EXCEPT !.at = place].notified = outbox[i].notified
                      /\ [outbox[i] EXCEPT !.at = place].old = outbox[i].old
  BY <1>1 DEF Row
<1>3. outbox' \in [Rows -> Row]
  BY <1>1, <1>2 DEF PlaceAll
<1>4. outbox' \in Seq(Row) /\ Rows' = Rows
  BY <1>3, RewritesRows
<1> QED BY <1>2, <1>4 DEF Kept, PlaceAll

LEMMA PruneMoves == ASSUME IInv, Prune PROVE Moves
<1>1. outbox' = PlaceAll(Outdated, "pruned")
  BY DEF Prune, PlaceAll
<1>2. "pruned" \in Place
  BY DEF Place
<1>3. \A i \in Outdated : outbox[i].at = "queued" /\ (i \in OfEngine => i \in told \cup mute)
  BY DEF Outdated, Queued, IInv, Announced, AlertsCovered
<1>4. /\ Kept /\ outbox' \in Seq(Row)
      /\ \A i \in Rows : /\ outbox'[i].notified = outbox[i].notified
                         /\ outbox'[i].old = outbox[i].old
                         /\ outbox'[i].at = IF i \in Outdated THEN "pruned" ELSE outbox[i].at
  BY <1>1, <1>2, PlacesRows DEF IInv
<1> QED BY <1>3, <1>4 DEF Moves, Leaves

(* What a request may do to the state of the link. *)
LinkStep ==
    /\ failures' \in Nat /\ recoverySent' = recoverySent /\ faults' \in Nat
    /\ resent' = resent /\ uncounted' = uncounted
    /\ down' \in BOOLEAN /\ pendingRecovery' \in BOOLEAN
    /\ tell' \in [Goroutine -> {"none", "up", "down"}]
    /\ \/ owed' = owed /\ (pendingRecovery => pendingRecovery')
       \/ owed' = owed \cup Queued /\ pendingRecovery'

LEMMA ObserveIsLinkStep ==
    ASSUME TypeOK, NEW g \in Goroutine, NEW answer, Observe(g, answer)
    PROVE  LinkStep
<1>1. CASE MarkUp(g) /\ UNCHANGED faults
  <2>1. tell' \in [Goroutine -> {"none", "up", "down"}]
    BY <1>1 DEF MarkUp, TypeOK
  <2>2. failures' \in Nat /\ recoverySent' = recoverySent /\ faults' \in Nat
        /\ resent' = resent /\ uncounted' = uncounted
    BY <1>1 DEF MarkUp, TypeOK, recovery
  <2>3. down' \in BOOLEAN /\ pendingRecovery' \in BOOLEAN
    BY <1>1, Zenon DEF MarkUp, TypeOK
  <2>4. \/ owed' = owed /\ (pendingRecovery => pendingRecovery')
        \/ owed' = owed \cup Queued /\ pendingRecovery'
    BY <1>1, Zenon DEF MarkUp, TypeOK
  <2> QED BY <2>1, <2>2, <2>3, <2>4 DEF LinkStep
<1>2. CASE MarkDown(g) /\ Fault
  <2>1. tell' \in [Goroutine -> {"none", "up", "down"}]
    BY <1>2 DEF MarkDown, TypeOK
  <2>2. failures' \in Nat /\ recoverySent' = recoverySent /\ faults' \in Nat
        /\ resent' = resent /\ uncounted' = uncounted
    BY <1>2, PanelLinkAssumption DEF MarkDown, Fault, Capped, TypeOK, recovery
  <2>3. down' \in BOOLEAN
    BY <1>2 DEF MarkDown
  <2>4. pendingRecovery' = pendingRecovery /\ owed' = owed
    BY <1>2 DEF MarkDown
  <2> QED BY <2>1, <2>2, <2>3, <2>4 DEF LinkStep, TypeOK
<1>3. CASE UNCHANGED link /\ Fault
  <2>1. faults' \in Nat
    BY <1>3 DEF Fault, TypeOK
  <2>2. UNCHANGED <<down, failures, pendingRecovery, recoverySent, tell, owed, resent, uncounted>>
    BY <1>3 DEF link, recovery
  <2> QED BY <2>1, <2>2 DEF LinkStep, TypeOK
<1> QED BY <1>1, <1>2, <1>3 DEF Observe

(* Rows are counted where flush writes, and nowhere else. *)
LEMMA CountsStay ==
    ASSUME IInv, UNCHANGED <<recoverySent, resent, uncounted>>,
           \A i \in Rows : /\ i \in Rows'
                           /\ outbox'[i].quality = outbox[i].quality
                           /\ outbox'[i].at = "sent" <=> outbox[i].at = "sent",
           pendingRecovery => pendingRecovery', OwedSent' \subseteq OwedSent,
           \/ poll # "drop" /\ poll' # "drop"
           \/ poll' = poll /\ batch' = batch /\ (Overlap \/ pendingRecovery' = pendingRecovery)
    PROVE  Counts'
<1>1. Fresh' = Fresh
  <2>1. CASE poll # "drop" /\ poll' # "drop"
    BY <2>1 DEF Fresh
  <2>2. CASE poll' = poll /\ batch' = batch
    <3>1. Ids' = Ids /\ Ids \subseteq Rows
      BY <2>2 DEF Ids, IInv, Known
    <3>2. AcceptedIds' = AcceptedIds
      BY <3>1 DEF AcceptedIds
    <3> QED BY <2>2, <3>2 DEF Fresh
  <2> QED BY <2>1, <2>2
<1>2. Counted' = Counted
  BY <1>1 DEF Counted
<1>3. ~Overlap /\ pendingRecovery' => Fresh \subseteq resent \ uncounted
  BY DEF IInv, Counts, Fresh
<1> QED BY <1>1, <1>2, <1>3 DEF IInv, Counts

LEMMA CountsReset ==
    ASSUME resent' = {}, uncounted' = {}, owed' = {}, recoverySent' = 0, poll' = "idle"
    PROVE  Counts'
<1>1. Counted' = {} /\ Fresh' = {} /\ OwedSent' = {}
  BY DEF Counted, Fresh, OwedSent
<1> QED BY <1>1, FS_EmptySet DEF Counts

(* What is owed grows by rows that are not sent yet. *)
LEMMA OwesAfter ==
    ASSUME IInv, LinkStep, Kept,
           \A i \in Rows : outbox'[i].at = "sent" <=> outbox[i].at = "sent",
           \/ poll # "drop" /\ poll' # "drop"
           \/ poll' = poll /\ batch' = batch /\ (Overlap \/ pendingRecovery' = pendingRecovery)
    PROVE  /\ owed' \subseteq Rows
           /\ owed' # {} => pendingRecovery'
           /\ Counts'
<1>1. owed \subseteq Rows /\ Queued \subseteq Rows
  BY DEF IInv, Known, Queued
<1>2. OwedSent' = OwedSent
  BY <1>1 DEF OwedSent, Queued, LinkStep
<1>3. pendingRecovery => pendingRecovery'
  BY DEF LinkStep
<1>4. Counts'
  BY <1>2, <1>3, CountsStay DEF LinkStep, Kept
<1> QED BY <1>1, <1>4 DEF IInv, Owes, LinkStep
-----------------------------------------------------------------------------
(* Each action keeps the invariant. *)

LEMMA InitKeeps == Init => IInv
<1> SUFFICES ASSUME Init PROVE IInv
  OBVIOUS
<1>1. /\ outbox = <<>> /\ feed = <<>> /\ batch = {} /\ owed = {} /\ hand = {} /\ told = {}
      /\ mute = {} /\ spurned = {} /\ recoverySent = 0 /\ poll = "idle"
      /\ resent = {} /\ uncounted = {}
  BY DEF Init
<1>2. TypeOK
  <2>1. down \in BOOLEAN /\ pendingRecovery \in BOOLEAN
    BY Zenon DEF Init
  <2>2. failures \in Nat /\ faults \in Nat /\ tell \in [Goroutine -> {"none", "up", "down"}]
    BY DEF Init
  <2> QED BY <1>1, <2>1, <2>2, FS_EmptySet DEF TypeOK, Places
<1>3. Rows = {} /\ Ids = {} /\ Filed = {} /\ OwedSent = {} /\ Queued = {}
      /\ Fresh = {} /\ Counted = {}
  BY <1>1 DEF Rows, Ids, Filed, OwedSent, Queued, Fresh, Counted
<1>4. Counts
  BY <1>1, <1>3, FS_EmptySet DEF Counts
<1> QED BY <1>1, <1>2, <1>3, <1>4 DEF IInv, Known, Announced, Carried, FiledFirst,
      BatchFirst, Owes, NothingLost, AlertsCovered, InOrder

(* A transaction commits a row. *)
LEMMA GrowKeeps ==
    ASSUME IInv, NEW r \in Row, outbox' = Append(outbox, r), r.at = "queued", ~r.old,
           \/ hand' = hand /\ (r.notified => r.kind \notin {"alert", "quiet"})
           \/ hand' = hand \cup {Len(outbox) + 1} /\ r.notified,
           tell' \in [Goroutine -> {"none", "up", "down"}], faults' \in Nat,
           UNCHANGED <<down, failures, pendingRecovery, recoverySent, owed, resent, uncounted,
                       poll, batch, told, mute, feed, spurned>>
    PROVE  IInv'
<1>1. TypeOK
  BY DEF IInv
<1>21. PICK new \in Nat : new = Len(outbox) + 1
  BY <1>1, RowsAreTyped
<1>2. /\ outbox' \in Seq(Row) /\ Rows' = Rows \cup {new} /\ new \notin Rows
      /\ \A i \in Rows : outbox'[i] = outbox[i] /\ i <= Len(outbox) /\ i \in Nat
      /\ outbox'[new] = r
  BY <1>1, <1>21, AppendsRow
<1>3. Len(outbox) \in Nat /\ \A i \in Rows : outbox[i] \in Row
  BY <1>1, RowsAreTyped
<1>4. /\ \A i \in Rows : Key(i)' = Key(i) /\ Key(i) \in Int
      /\ \A i \in Rows : r.late \/ Key(i) < Key(new)'
  <2>1. \A i \in Rows : i \in Nat /\ i <= Len(outbox) /\ outbox'[i].late = outbox[i].late
    BY <1>2
  <2>2. \A i \in Rows : Key(i)' = Key(i)
    BY <2>1 DEF Key
  <2>4. \A i \in Rows : Key(i) \in {2 * i, 2 * i - 3}
    BY DEF Key
  <2>3. ~r.late => Key(new)' = 2 * new
    BY <1>2 DEF Key
  <2> QED BY <1>21, <1>3, <2>1, <2>2, <2>3, <2>4
<1>5. Ids' = Ids /\ Filed' = Filed
  BY DEF Ids, Filed
<1>6. /\ hand \subseteq Rows /\ told \subseteq Rows /\ owed \subseteq Rows /\ Ids \subseteq Rows
      /\ Filed \subseteq Rows /\ \A c \in batch : c.id \in Rows
      /\ \A k \in DOMAIN feed : feed[k].id \in Rows
  BY DEF IInv, Known, Ids, Filed
<1>7. Queued' = Queued \cup {new} /\ Queued \subseteq Rows
  BY <1>2 DEF Queued
<1>8. hand' \in {hand, hand \cup {new}}
  BY <1>21
<1>9. TypeOK'
  BY <1>1, <1>2 DEF TypeOK
<1>10. Known'
  BY <1>2, <1>5, <1>6, <1>8 DEF Known
<1>11. Announced'
  <2>2. hand' = hand \cup {new} => r.notified
    BY <1>2, <1>6, <1>21
  <2>3. /\ told' = told /\ feed' = feed /\ batch' = batch
        /\ outbox'[new].notified = r.notified /\ ~outbox'[new].old
        /\ \A i \in Rows : outbox'[i].notified = outbox[i].notified /\ outbox'[i].old = outbox[i].old
    BY <1>2
  <2>4. /\ \A i \in hand' \cup told' : outbox'[i].notified
        /\ \A i \in hand' : ~outbox'[i].old
    BY <1>6, <1>8, <2>2, <2>3 DEF IInv, Announced
  <2>5. /\ hand' \cap told' = {}
        /\ \A c \in batch : c.id \in hand' \cup told' => c.notified
        /\ \A k \in DOMAIN feed : feed[k].id \in hand' \cup told' => feed[k].notified
    BY <1>2, <1>6, <1>8, <2>3 DEF IInv, Announced
  <2> QED BY <2>3, <2>4, <2>5 DEF Announced
<1>12. Carried'
  BY <1>2, <1>5, <1>6 DEF IInv, Carried, Good
<1>19. \A i \in Rows : Good(i)' = Good(i) /\ outbox'[i].late = outbox[i].late
  BY <1>2 DEF Good
<1>20. outbox'[new].late = r.late
  BY <1>2
<1>13. FiledFirst'
  <2>1. SUFFICES ASSUME NEW i \in Filed, NEW j \in Queued' \ Filed, Good(j)'
                 PROVE  Key(i)' < Key(j)' \/ outbox'[j].late
    BY <1>5 DEF FiledFirst
  <2>2. i \in Rows
    BY <1>6
  <2>3. CASE j = new
    BY <1>4, <1>20, <2>2, <2>3
  <2>4. CASE j \in Queued
    BY <1>4, <1>7, <1>19, <2>1, <2>2, <2>4 DEF IInv, FiledFirst
  <2> QED BY <1>7, <2>3, <2>4
<1>14. BatchFirst'
  <2>1. SUFFICES ASSUME NEW c \in batch, NEW j \in Queued' \ Ids
                 PROVE  Key(c.id)' < Key(j)' \/ outbox'[j].late
    BY <1>5 DEF BatchFirst
  <2>2. c.id \in Rows
    BY <1>6
  <2>3. CASE j = new
    BY <1>4, <1>20, <2>2, <2>3
  <2>4. CASE j \in Queued
    BY <1>4, <1>7, <1>19, <2>1, <2>2, <2>4 DEF IInv, BatchFirst
  <2> QED BY <1>7, <2>3, <2>4
<1>15. Owes' /\ Counts'
  <2>1. OwedSent' = OwedSent
    BY <1>2, <1>6 DEF OwedSent
  <2>2. owed \cap Queued' = owed \cap Queued
    BY <1>2, <1>6, <1>7
  <2>3. Counts'
    BY <1>2, <2>1, CountsStay
  <2> QED BY <2>2, <2>3 DEF IInv, Owes
<1>16. NothingLost'
  <2>1. \A i \in Rows : i \in OfEngine' <=> i \in OfEngine
    BY <1>2 DEF OfEngine
  <2> QED BY <1>2, <1>5, <2>1 DEF IInv, NothingLost
<1>17. AlertsCovered'
  <2>1. \A i \in Rows : i \in OfEngine' <=> i \in OfEngine
    BY <1>2 DEF OfEngine
  <2>2. new \in OfEngine' /\ r.notified => new \in hand'
    BY <1>2, <1>21 DEF OfEngine
  <2> QED BY <1>2, <1>7, <1>8, <2>1, <2>2 DEF IInv, AlertsCovered
<1>18. InOrder'
  BY <1>2, <1>4, <1>6 DEF IInv, InOrder
<1> QED BY <1>9, <1>10, <1>11, <1>12, <1>13, <1>14, <1>15, <1>16, <1>17, <1>18 DEF IInv

LEMMA EmitKeeps ==
    ASSUME IInv, NEW kind \in {"alert", "quiet"}, NEW late \in BOOLEAN, NEW quality \in Quality,
           Emit(kind, late, quality)
    PROVE  IInv'
<1> DEFINE worthy == TelegramWorthy(kind)
           r == NewRow(kind, late, quality, worthy)
<1>1. worthy \in BOOLEAN
  BY DEF TelegramWorthy
<1> HIDE DEF worthy
<1>2. /\ r \in Row /\ r.at = "queued" /\ ~r.old /\ r.notified = worthy
  BY <1>1 DEF NewRow, Row, Kind, Place
<1>3. /\ outbox' = Append(outbox, r)
      /\ hand' = IF worthy THEN hand \cup {Len(outbox) + 1} ELSE hand
      /\ UNCHANGED <<down, failures, pendingRecovery, recoverySent, tell, owed, resent, uncounted>>
      /\ UNCHANGED <<poll, batch, told, mute, feed, spurned, faults>>
  BY DEF Emit, link, recovery, worthy
<1> HIDE DEF r
<1>4. \/ hand' = hand /\ (r.notified => r.kind \notin {"alert", "quiet"})
      \/ hand' = hand \cup {Len(outbox) + 1} /\ r.notified
  BY <1>2, <1>3
<1>5. tell' \in [Goroutine -> {"none", "up", "down"}] /\ faults' \in Nat
  BY <1>3 DEF IInv, TypeOK
<1> QED BY <1>2, <1>3, <1>4, <1>5, GrowKeeps

LEMMA FaultCounts == ASSUME IInv, Fault \/ UNCHANGED faults PROVE faults' \in Nat
BY DEF IInv, TypeOK, Fault

LEMMA TellsTyped ==
    ASSUME IInv, NEW g \in Goroutine, tell' = [tell EXCEPT ![g] = "none"]
    PROVE  tell' \in [Goroutine -> {"none", "up", "down"}]
BY DEF IInv, TypeOK

(* Nothing but the link and the poll's place changes. *)
LEMMA LinkKeeps ==
    ASSUME IInv, LinkStep, UNCHANGED <<outbox, batch, alert, feed, spurned>>,
           poll' \in Places, poll' = "finish" => poll = "finish" /\ (Overlap \/ owed' = owed),
           batch # {} => poll' = poll, poll' \in {"mark", "drop"} => poll' = poll,
           poll = "drop" => poll' = poll /\ (Overlap \/ pendingRecovery' = pendingRecovery)
    PROVE  IInv'
<1>1. hand' = hand /\ told' = told /\ mute' = mute /\ feed' = feed
      /\ outbox' = outbox /\ batch' = batch /\ spurned' = spurned
  BY DEF alert
<1>2. TypeOK'
  BY <1>1 DEF IInv, TypeOK, LinkStep
<1>3. owed' \subseteq Rows /\ (owed' # {} => pendingRecovery') /\ Counts'
  <2>1. Kept /\ \A i \in Rows : outbox'[i].at = "sent" <=> outbox[i].at = "sent"
    BY <1>1 DEF Rows, Kept
  <2> QED BY <1>1, <2>1, OwesAfter
<1>4. Known'
  <2>1. Rows' = Rows /\ Ids' = Ids /\ Filed' = Filed
    BY <1>1 DEF Rows, Ids, Filed
  <2> QED BY <1>1, <1>3, <2>1 DEF IInv, Known
<1>5. Announced'
  BY <1>1 DEF IInv, Announced
<1>6. Carried'
  BY <1>1 DEF IInv, Carried, Good, Filed
<1>7. FiledFirst' /\ BatchFirst' /\ NothingLost' /\ AlertsCovered' /\ InOrder'
  BY <1>1 DEF IInv, FiledFirst, BatchFirst, NothingLost, AlertsCovered, InOrder,
     Good, Filed, Ids, Queued, OfEngine, Key, Rows
<1>8. Owes'
  BY <1>1, <1>3 DEF IInv, Owes, Queued, Rows
<1> QED BY <1>2, <1>3, <1>4, <1>5, <1>6, <1>7, <1>8 DEF IInv

(* Rows leave the queue, and nothing is carried after it. *)
LEMMA DrainKeeps ==
    ASSUME IInv, Moves, spurned \subseteq spurned', UNCHANGED <<alert, feed>>, batch' = {},
           failures' \in Nat, recoverySent' \in Nat, faults' \in Nat,
           down' \in BOOLEAN, pendingRecovery' \in BOOLEAN,
           tell' \in [Goroutine -> {"none", "up", "down"}],
           poll' \in Places, owed' \subseteq Rows, Owes', Counts'
    PROVE  IInv'
<1>1. hand' = hand /\ told' = told /\ mute' = mute /\ feed' = feed
  BY DEF alert
<1>2. /\ Queued' \subseteq Queued /\ Filed' = Filed
      /\ FiledFirst' /\ InOrder' /\ NothingLost' /\ AlertsCovered'
      /\ Announced' /\ BatchFirst' /\ Ids' \subseteq Ids
  BY MovesKeep
<1>3. TypeOK'
  BY <1>1, FS_EmptySet DEF IInv, TypeOK, Moves
<1>4. Known'
  BY <1>1, <1>2 DEF IInv, Known, Moves, Kept
<1>5. Carried'
  BY DEF Carried
<1> QED BY <1>2, <1>3, <1>4, <1>5 DEF IInv

(* Nothing is carried outside a request. *)
LEMMA Idle == ASSUME IInv, poll \notin {"post", "mark", "drop"} PROVE batch = {}
BY DEF IInv, Carried

LEMMA StaysIsMoves ==
    ASSUME IInv, UNCHANGED outbox
    PROVE  Moves
BY DEF Moves, Kept, IInv, TypeOK, Rows

LEMMA EnqueueKeeps ==
    ASSUME IInv, NEW g \in Goroutine, EnqueuePanelEvent(g)
    PROVE  IInv'
<1>1. /\ tell' = [tell EXCEPT ![g] = "none"]
      /\ UNCHANGED <<down, failures, pendingRecovery, recoverySent, owed, resent, uncounted>>
      /\ UNCHANGED <<poll, batch, hand, told, mute, feed, spurned>>
  BY DEF EnqueuePanelEvent, recovery, alert
<1>2. tell' \in [Goroutine -> {"none", "up", "down"}]
  BY <1>1, TellsTyped
<1>3. faults' \in Nat
  BY FaultCounts DEF EnqueuePanelEvent
<1>4. CASE outbox' = Append(outbox, PanelEvent(g))
  <2> DEFINE r == PanelEvent(g)
  <2>1. r \in Row /\ r.at = "queued" /\ ~r.old /\ r.kind \notin {"alert", "quiet"}
    BY DEF PanelEvent, NewRow, Row, Kind, Quality, Place
  <2> HIDE DEF r
  <2>2. outbox' = Append(outbox, r)
    BY <1>4 DEF r
  <2> QED BY <1>1, <1>2, <1>3, <2>1, <2>2, GrowKeeps
<1>5. CASE UNCHANGED outbox
  <2>1. LinkStep
    BY <1>1, <1>2, <1>3 DEF LinkStep, IInv, TypeOK
  <2>2. poll' \in Places /\ UNCHANGED <<outbox, batch, alert, feed, spurned>>
    BY <1>1, <1>5 DEF IInv, TypeOK, alert
  <2> QED BY <1>1, <2>1, <2>2, LinkKeeps
<1> QED BY <1>4, <1>5 DEF EnqueuePanelEvent

LEMMA PollStateKeeps ==
    ASSUME IInv, NEW answer \in {"ok", "mismatch", "silent", "neutral", "refused"}, PollState(answer)
    PROVE  IInv'
<1>1. TypeOK /\ "poll" \in Goroutine /\ poll = "idle"
  BY DEF IInv, Goroutine, PollState
<1>2. LinkStep
  BY <1>1, ObserveIsLinkStep DEF PollState
<1>3. poll' \in Places \ {"finish", "mark", "drop", "post"}
  BY DEF PollState, AfterState, Places
<1>4. batch = {} /\ UNCHANGED <<batch, alert, feed, spurned>>
  BY <1>1, Idle DEF PollState
<1>5. CASE Prune
  <2>1. Moves
    BY <1>5, PruneMoves
  <2>2. Prune /\ Kept
    BY <1>5, <2>1 DEF Moves
  <2>3. \A i \in Rows : outbox'[i].at = "sent" <=> outbox[i].at = "sent"
    <3>1. outbox' = PlaceAll(Outdated, "pruned") /\ "pruned" \in Place
      BY <2>2 DEF Prune, PlaceAll, Place
    <3>2. \A i \in Rows : outbox'[i].at = IF i \in Outdated THEN "pruned" ELSE outbox[i].at
      BY <1>1, <3>1, PlacesRows
    <3> QED BY <3>2 DEF Outdated, Queued
  <2>4. owed' \subseteq Rows /\ Owes' /\ Counts'
    BY <1>1, <1>2, <1>3, <2>2, <2>3, OwesAfter DEF Owes
  <2>5. /\ failures' \in Nat /\ recoverySent' \in Nat /\ faults' \in Nat
        /\ down' \in BOOLEAN /\ pendingRecovery' \in BOOLEAN
        /\ tell' \in [Goroutine -> {"none", "up", "down"}]
    BY <1>1, <1>2 DEF LinkStep, TypeOK
  <2> QED BY <1>3, <1>4, <2>1, <2>4, <2>5, DrainKeeps
<1>6. CASE UNCHANGED outbox
  BY <1>1, <1>2, <1>3, <1>4, <1>6, LinkKeeps
<1> QED BY <1>5, <1>6 DEF PollState

LEMMA PollEnsureKeeps ==
    ASSUME IInv, NEW answer \in {"ok", "silent", "neutral"}, PollEnsure(answer)
    PROVE  IInv'
<1>1. TypeOK /\ "poll" \in Goroutine /\ poll = "ensure" /\ poll' = "flush"
  BY DEF IInv, Goroutine, PollEnsure
<1>2. LinkStep
  BY <1>1, ObserveIsLinkStep DEF PollEnsure
<1>3. batch = {} /\ UNCHANGED <<outbox, batch, alert, feed, spurned>>
  BY <1>1, Idle DEF PollEnsure
<1> QED BY <1>1, <1>2, <1>3, LinkKeeps DEF Places

LEMMA RefreshKeeps ==
    ASSUME IInv, NEW answer \in {"ok", "silent"}, RefreshMaterial(answer)
    PROVE  IInv'
<1>1. TypeOK /\ "refresh" \in Goroutine /\ poll' = poll /\ poll \in Places
  BY DEF IInv, TypeOK, Goroutine, RefreshMaterial
<1>2. LinkStep
  BY <1>1, ObserveIsLinkStep DEF RefreshMaterial
<1>3. UNCHANGED <<outbox, batch, alert, feed, spurned>>
  BY DEF RefreshMaterial
<1>4. poll \in {"finish", "drop"} => Overlap
  BY DEF RefreshMaterial, MayAsk
<1> QED BY <1>1, <1>2, <1>3, <1>4, LinkKeeps

LEMMA FlushPruneKeeps ==
    ASSUME IInv, FlushPrune
    PROVE  IInv'
<1>1. TypeOK /\ poll = "flush" /\ poll' = "read"
  BY DEF IInv, FlushPrune
<1>2. batch = {} /\ batch' = {} /\ UNCHANGED <<batch, alert, feed, spurned>>
  BY <1>1, Idle DEF FlushPrune
<1>3. /\ UNCHANGED <<down, failures, pendingRecovery, recoverySent, tell, owed, resent, uncounted>>
      /\ faults' \in Nat
  BY FaultCounts DEF FlushPrune, link, recovery
<1>6. LinkStep
  BY <1>1, <1>3 DEF LinkStep, TypeOK
<1>9. CASE Prune
  <2>4. Moves
    BY <1>9, PruneMoves
  <2>5. \A i \in Rows : outbox'[i].at = "sent" <=> outbox[i].at = "sent"
    <3>1. outbox' = PlaceAll(Outdated, "pruned") /\ "pruned" \in Place
      BY <1>9 DEF Prune, PlaceAll, Place
    <3>2. \A i \in Rows : outbox'[i].at = IF i \in Outdated THEN "pruned" ELSE outbox[i].at
      BY <1>1, <3>1, PlacesRows
    <3> QED BY <3>2 DEF Outdated, Queued
  <2>7. owed' \subseteq Rows /\ Owes' /\ Counts'
    BY <1>1, <1>6, <2>4, <2>5, OwesAfter DEF Moves, Owes
  <2>8. /\ failures' \in Nat /\ recoverySent' \in Nat /\ faults' \in Nat
        /\ down' \in BOOLEAN /\ pendingRecovery' \in BOOLEAN
        /\ tell' \in [Goroutine -> {"none", "up", "down"}]
    BY <1>1, <1>6 DEF LinkStep, TypeOK
  <2> QED BY <1>1, <1>2, <2>4, <2>7, <2>8, DrainKeeps DEF Places
<1>10. CASE UNCHANGED outbox
  BY <1>1, <1>2, <1>6, <1>10, LinkKeeps DEF Places
<1> QED BY <1>9, <1>10 DEF FlushPrune

LEMMA KeysAreNumbers == ASSUME TypeOK PROVE \A i \in Rows : Key(i) \in Int /\ Key(i) + 3 \in Nat
<1>1. \A i \in Rows : i \in Nat /\ i >= 1
  BY RowsAreTyped
<1>2. \A i \in Rows : Key(i) \in {2 * i, 2 * i - 3}
  BY DEF Key
<1> QED BY <1>1, <1>2

LEMMA KeysDiffer == ASSUME TypeOK, NEW i \in Rows, NEW j \in Rows, Key(i) = Key(j) PROVE i = j
<1>1. i \in Nat /\ j \in Nat
  BY RowsAreTyped
<1>2. Key(i) \in {2 * i, 2 * i - 3} /\ Key(j) \in {2 * j, 2 * j - 3}
  BY DEF Key
<1> QED BY <1>1, <1>2

(* What is read is the head of the queue, and not empty if the queue is not. *)
LEMMA NextBatchIsHead ==
    ASSUME TypeOK
    PROVE  /\ NextBatch \subseteq Queued
           /\ \A i \in NextBatch, j \in Queued \ NextBatch : Key(i) < Key(j)
           /\ NextBatch = {} => Queued = {}
<1> DEFINE below(i) == {j \in Queued : Key(j) < Key(i)}
<1>1. /\ Queued \subseteq Rows /\ IsFiniteSet(Queued)
      /\ \A i \in Queued : Key(i) \in Int /\ Key(i) + 3 \in Nat
  BY RowsAreTyped, KeysAreNumbers DEF Queued
<1>2. NextBatch = {i \in Queued : Cardinality(below(i)) < BatchSize}
  BY DEF NextBatch
<1>3. \A i \in Queued : IsFiniteSet(below(i)) /\ Cardinality(below(i)) \in Nat
  BY <1>1, FS_Subset, FS_CardinalityType
<1>4. BatchSize \in Nat /\ BatchSize > 0
  BY PanelLinkAssumption
<1>5. ASSUME NEW i \in NextBatch, NEW j \in Queued \ NextBatch PROVE Key(i) < Key(j)
  <2>1. SUFFICES ASSUME Key(j) <= Key(i) PROVE FALSE
    BY <1>1, <1>2
  <2>2. below(j) \in SUBSET below(i)
    BY <1>1, <1>2, <2>1
  <2>3. Cardinality(below(j)) <= Cardinality(below(i))
    <3> HIDE DEF below
    <3> QED BY <1>2, <1>3, <2>2, FS_Subset
  <2> HIDE DEF below
  <2> QED BY <1>2, <1>3, <1>4, <2>3
<1>6. ASSUME Queued # {} PROVE NextBatch # {}
  <2> DEFINE T == {Key(i) + 3 : i \in Queued}
  <2>1. T \in SUBSET Nat /\ T # {}
    BY <1>1, <1>6
  <2>2. PICK x \in T : \A y \in T : x <= y
    <3> HIDE DEF T
    <3> QED BY <2>1, LeastNatural
  <2>3. PICK i \in Queued : x = Key(i) + 3
    BY <2>2
  <2>4. \A j \in Queued : Key(i) <= Key(j)
    BY <1>1, <2>2, <2>3
  <2>5. below(i) = {}
    BY <1>1, <2>4
  <2>6. Cardinality(below(i)) = 0
    <3> HIDE DEF below
    <3> QED BY <2>5, FS_EmptySet
  <2> HIDE DEF below
  <2> QED BY <1>2, <1>4, <2>6
<1> QED BY <1>2, <1>5, <1>6

LEMMA FlushReadKeeps ==
    ASSUME IInv, FlushRead
    PROVE  IInv'
<1> DEFINE readable == DecodeBatch(NextBatch)
           passed   == NextBatch \ readable
           carry    == [i \in readable |-> [id |-> i, notified |-> outbox[i].notified]]
<1>1. /\ TypeOK /\ poll = "read" /\ batch = {}
      /\ NextBatch \subseteq Queued /\ readable \subseteq NextBatch /\ Queued \subseteq Rows
      /\ \A i \in readable : outbox[i].quality # "unreadable"
      /\ \A i \in passed : outbox[i].quality = "unreadable" /\ outbox[i].at = "queued"
  BY Idle, NextBatchIsHead DEF IInv, FlushRead, DecodeBatch, Queued
<1>2. /\ batch' = {[id |-> i, notified |-> outbox[i].notified] : i \in readable}
      /\ outbox' = PlaceAll(passed, "dropped")
      /\ poll' \in Places
      /\ poll' = "finish" => NextBatch = {}
      /\ readable # {} => poll' = "post"
      /\ poll' \notin {"mark", "drop"}
  <2>1. batch' = {[id |-> i, notified |-> outbox[i].notified] : i \in readable}
    BY DEF FlushRead
  <2>2. outbox' = PlaceAll(passed, "dropped")
    BY Zenon DEF FlushRead, PlaceAll
  <2>3. poll' = CASE NextBatch = {} -> "finish"
                  [] NextBatch # {} /\ readable = {} -> "read"
                  [] OTHER -> "post"
    BY DEF FlushRead
  <2>4. NextBatch = {} => readable = {}
    BY DEF DecodeBatch
  <2> HIDE DEF readable, passed
  <2> QED BY <2>1, <2>2, <2>3, <2>4 DEF Places
<1>3. /\ hand' = hand /\ told' = told /\ mute' = mute /\ feed' = feed
      /\ UNCHANGED <<alert, feed, spurned>>
      /\ UNCHANGED <<down, failures, pendingRecovery, recoverySent, tell, owed, faults>>
      /\ UNCHANGED <<resent, uncounted>>
  BY DEF FlushRead, link, recovery, alert
<1>4. /\ \A i \in Rows : outbox[i] \in Row /\ i \in Nat
      /\ IsFiniteSet(Queued)
  BY <1>1, RowsAreTyped
<1> HIDE DEF readable, passed
<1>5. /\ Kept /\ outbox' \in Seq(Row) /\ Rows' = Rows
      /\ \A i \in Rows : /\ outbox'[i].notified = outbox[i].notified
                         /\ outbox'[i].old = outbox[i].old
                         /\ outbox'[i].at = IF i \in passed THEN "dropped" ELSE outbox[i].at
  BY <1>1, <1>2, PlacesRows DEF Place, Kept
<1>6. Moves
  BY <1>1, <1>5 DEF Moves, Leaves, Good
<1>7. /\ Queued' \subseteq Queued /\ Filed' = Filed
      /\ FiledFirst' /\ InOrder' /\ NothingLost' /\ AlertsCovered'
  BY <1>3, <1>6, MovesKeep
<1>8. \A c \in batch' : c.id \in readable /\ c = [id |-> c.id, notified |-> outbox[c.id].notified]
  BY <1>2
<1>9. Ids' = readable
  <2>1. ASSUME NEW i \in readable PROVE \E c \in batch' : c.id = i
    <3>1. [id |-> i, notified |-> outbox[i].notified] \in batch'
      BY <1>2
    <3>2. [id |-> i, notified |-> outbox[i].notified].id = i
      OBVIOUS
    <3> QED BY <3>1, <3>2, Zenon
  <2> QED BY <1>8, <2>1 DEF Ids
<1>10. readable \subseteq Rows /\ readable \cap passed = {} /\ NextBatch = readable \cup passed
  BY <1>1 DEF passed
<1>11. \A c \in batch' : c \in Entry
  BY <1>4, <1>8, <1>10 DEF Row, Entry
<1>12. IsFiniteSet(batch')
  <2>1. carry \in [readable -> batch'] /\ \A c \in batch' : \E i \in readable : carry[i] = c
    BY <1>2
  <2>2. carry \in Surjection(readable, batch')
    <3> HIDE DEF carry
    <3> QED BY <2>1 DEF Surjection
  <2>3. IsFiniteSet(readable)
    BY <1>1, <1>4, FS_Subset
  <2> HIDE DEF carry
  <2> QED BY <2>2, <2>3, FS_Surjection
<1>13. TypeOK'
  BY <1>1, <1>2, <1>3, <1>5, <1>11, <1>12 DEF TypeOK
<1>14. Known'
  BY <1>3, <1>5, <1>7, <1>9, <1>10 DEF IInv, Known
<1>15. Announced'
  <2>1. \A c \in batch' : c.id \in hand \cup told => c.notified
    BY <1>8 DEF IInv, Announced
  <2> QED BY <1>3, <1>5, <2>1 DEF IInv, Announced, Known
<1>16. Carried'
  <2>1. \A c \in batch' : outbox'[c.id].at = "queued"
    BY <1>1, <1>5, <1>8, <1>10 DEF Queued
  <2>2. \A c, d \in batch' : c.id = d.id => c = d
    BY <1>8
  <2>3. batch' # {} => poll' = "post"
    BY <1>2
  <2> QED BY <1>2, <2>1, <2>2, <2>3 DEF Carried
<1>17. BatchFirst'
  <2>1. SUFFICES ASSUME NEW c \in batch', NEW j \in Queued' \ Ids' PROVE Key(c.id)' < Key(j)'
    BY DEF BatchFirst
  <2>2. j \in Queued \ readable /\ j \in Rows /\ c.id \in readable /\ c.id \in Rows
    BY <1>1, <1>7, <1>8, <1>9, <1>10
  <2>3. j \notin passed
    BY <1>5, <2>1, <2>2 DEF Queued
  <2>4. Key(c.id) < Key(j)
    BY <1>1, <1>10, <2>2, <2>3, NextBatchIsHead
  <2> QED BY <1>5, <2>2, <2>4, KeptKeys
<1>18. Owes' /\ Counts'
  <2>1. LinkStep
    BY <1>1, <1>3 DEF LinkStep, TypeOK
  <2>2. \A i \in Rows : outbox'[i].at = "sent" <=> outbox[i].at = "sent"
    BY <1>1, <1>5 
  <2>3. poll' = "finish" => Queued' = {}
    BY <1>1, <1>2, <1>7, NextBatchIsHead
  <2> QED BY <1>1, <1>2, <1>5, <2>1, <2>2, <2>3, OwesAfter DEF Owes
<1> QED BY <1>7, <1>13, <1>14, <1>15, <1>16, <1>17, <1>18 DEF IInv

(* What the panel files of a batch: its new and valid elements, by their      *)
(* stamps, behind what it has.                                                *)
NewOf == {c \in batch : c.id \notin Filed /\ Good(c.id)}

LEMMA FilesBatch ==
    ASSUME IInv
    PROVE  LET after == FiledAfter
               n == Len(feed)
           IN  /\ after \in Seq(Entry) /\ n \in Nat /\ n <= Len(after) /\ DOMAIN feed = 1..n
               /\ \A k \in 1..n : after[k] = feed[k]
               /\ \A k \in DOMAIN after : k > n => after[k] \in NewOf
               /\ \A c \in NewOf : \E k \in DOMAIN after : after[k] = c
               /\ \A a, b \in DOMAIN after : n < a /\ a < b => Key(after[a].id) < Key(after[b].id)
<1> DEFINE n     == Len(feed)
           m     == Cardinality(NewOf)
           value == [c \in NewOf |-> Key(c.id)]
           place == [c \in NewOf |-> Rank(c, NewOf)]
           tail  == [k \in 1..m |-> CHOOSE c \in NewOf : Rank(c, NewOf) = k]
           after == feed \o tail
<1>1. /\ TypeOK /\ NewOf \in SUBSET batch /\ batch \subseteq Entry /\ IsFiniteSet(batch)
      /\ \A c \in batch : c.id \in Rows
  BY DEF IInv, TypeOK, NewOf, Known, Ids
<1>2. IsFiniteSet(NewOf) /\ m \in Nat
  BY <1>1, FS_Subset, FS_CardinalityType
<1>3. value \in [NewOf -> Int]
  BY <1>1, KeysAreNumbers
<1>4. \A c, d \in NewOf : value[c] = value[d] => c = d
  BY <1>1, KeysDiffer DEF IInv, Carried
<1>5. /\ place \in Bijection(NewOf, 1..m)
      /\ \A c, d \in NewOf : value[c] < value[d] => place[c] < place[d]
  <2>1. place = RanksIn(NewOf, value)
    BY DEF Rank, RanksIn
  <2> HIDE DEF value, place
  <2> QED BY <1>2, <1>3, <1>4, <2>1, RankNumbers
<1>6. /\ \A c \in NewOf : place[c] = Rank(c, NewOf) /\ place[c] \in 1..m
      /\ \A c, d \in NewOf : place[c] = place[d] => c = d
      /\ \A k \in 1..m : \E c \in NewOf : place[c] = k
  <2>1. \A c \in NewOf : place[c] = Rank(c, NewOf)
    OBVIOUS
  <2> HIDE DEF place
  <2> QED BY <1>5, <2>1 DEF Bijection, Injection, IsInjective, Surjection
<1> HIDE DEF place
<1>7. \A k \in 1..m : tail[k] \in NewOf /\ place[tail[k]] = k
  <2>1. \A k \in 1..m : \E c \in NewOf : Rank(c, NewOf) = k
    BY <1>6
  <2> QED BY <1>6, <2>1
<1>8. tail \in Seq(Entry) /\ Len(tail) = m /\ DOMAIN tail = 1..m
  <2>1. tail \in [1..m -> Entry]
    BY <1>1, <1>7
  <2> HIDE DEF tail, m
  <2> QED BY <1>2, <2>1
<1> HIDE DEF tail, m
<1>9. feed \in Seq(Entry) /\ n \in Nat /\ DOMAIN feed = 1..n
  BY <1>1 DEF TypeOK
<1>10. /\ after \in Seq(Entry) /\ Len(after) = n + m /\ DOMAIN after = 1..n + m
       /\ \A k \in 1..n + m : after[k] = IF k <= n THEN feed[k] ELSE tail[k - n]
  <2>1. /\ after \in Seq(Entry) /\ Len(after) = n + m
        /\ \A k \in 1..n + m : after[k] = IF k <= n THEN feed[k] ELSE tail[k - n]
    BY <1>8, <1>9, ConcatProperties
  <2> HIDE DEF after
  <2> QED BY <2>1
<1>11. FiledAfter = after
  BY DEF FiledAfter, NewOf, Good, tail, m
<1> HIDE DEF n, after
<1>12. \A k \in DOMAIN after : k > n => k - n \in 1..m /\ after[k] = tail[k - n] /\ after[k] \in NewOf
  BY <1>2, <1>7, <1>9, <1>10
<1>13. ASSUME NEW c \in NewOf PROVE \E k \in DOMAIN after : after[k] = c
  <2>1. PICK j \in Nat : j = place[c] /\ j \in 1..m
    BY <1>2, <1>6
  <2>2. tail[j] = c
    BY <1>6, <1>7, <2>1
  <2>3. n + j \in DOMAIN after /\ n + j > n /\ (n + j) - n = j
    BY <1>2, <1>9, <1>10, <2>1
  <2> QED BY <1>12, <2>2, <2>3
<1>14. ASSUME NEW a \in DOMAIN after, NEW b \in DOMAIN after, n < a, a < b
       PROVE  Key(after[a].id) < Key(after[b].id)
  <2>1. /\ a - n \in 1..m /\ after[a] = tail[a - n] /\ after[a] \in NewOf
        /\ b - n \in 1..m /\ after[b] = tail[b - n] /\ after[b] \in NewOf
        /\ a - n < b - n /\ a - n \in Nat /\ b - n \in Nat
    BY <1>2, <1>9, <1>10, <1>12, <1>14
  <2>2. place[after[a]] = a - n /\ place[after[b]] = b - n
    BY <1>7, <2>1
  <2>3. ~(value[after[b]] < value[after[a]]) /\ value[after[a]] # value[after[b]]
    <3> HIDE DEF value
    <3> QED BY <1>4, <1>5, <2>1, <2>2
  <2>4. value[after[a]] \in Int /\ value[after[b]] \in Int
    <3> HIDE DEF value
    <3> QED BY <1>3, <2>1
  <2>5. value[after[a]] < value[after[b]]
    <3> HIDE DEF value
    <3> QED BY <2>3, <2>4
  <2> QED BY <2>1, <2>5
<1> USE DEF n
<1>15. n <= Len(after)
  BY <1>2, <1>9, <1>10
<1>16. \A k \in 1..n : after[k] = feed[k]
  BY <1>2, <1>9, <1>10
<1> QED BY <1>9, <1>10, <1>11, <1>12, <1>13, <1>14, <1>15, <1>16

(* The panel files what is valid and new, whether its answer arrives or not. *)
LEMMA FilingKeeps ==
    ASSUME IInv, LinkStep, poll = "post", feed' = FiledAfter, UNCHANGED <<outbox, alert, spurned>>,
           \/ poll' = "mark" /\ batch' = batch
           \/ poll' = "idle" /\ batch' = {}
    PROVE  IInv'
<1> DEFINE n == Len(feed)
<1>1. hand' = hand /\ told' = told /\ mute' = mute /\ outbox' = outbox /\ spurned' = spurned
  BY DEF alert
<1>2. /\ feed' \in Seq(Entry) /\ n \in Nat /\ n <= Len(feed') /\ DOMAIN feed = 1..n
      /\ DOMAIN feed' = 1..Len(feed') /\ Len(feed') \in Nat
      /\ \A k \in 1..n : feed'[k] = feed[k]
      /\ \A k \in DOMAIN feed' : k > n => feed'[k] \in NewOf
      /\ \A c \in NewOf : \E k \in DOMAIN feed' : feed'[k] = c
      /\ \A a, b \in DOMAIN feed' : n < a /\ a < b => Key(feed'[a].id) < Key(feed'[b].id)
  <2>1. feed' \in Seq(Entry)
    BY FilesBatch
  <2>2. DOMAIN feed' = 1..Len(feed') /\ Len(feed') \in Nat
    BY <2>1
  <2> QED BY <2>1, <2>2, FilesBatch
<1> HIDE DEF n
<1>3. Rows' = Rows /\ Queued' = Queued /\ OfEngine' = OfEngine
      /\ \A i : Key(i)' = Key(i) /\ Good(i)' = Good(i)
  BY <1>1 DEF Rows, Queued, OfEngine, Key, Good
<1>4. /\ \A c \in batch : c.id \in Ids /\ c.id \in Rows /\ outbox[c.id].at = "queued" /\ c.id \in Queued
      /\ \A i \in Ids : \E c \in batch : c.id = i
      /\ Ids \subseteq Rows /\ Filed \subseteq Rows /\ Queued \subseteq Rows
  BY DEF IInv, Carried, Known, Ids, Queued
<1>5. /\ \A c \in NewOf : c \in batch /\ c.id \notin Filed /\ Good(c.id)
      /\ \A c \in batch : Good(c.id) => c.id \in Filed \/ c \in NewOf
  BY DEF NewOf
<1>6. \A k \in DOMAIN feed' : \/ k \in 1..n /\ feed'[k] = feed[k] /\ feed[k].id \in Filed
                              \/ k > n /\ feed'[k] \in NewOf
  BY <1>2 DEF Filed
<1>7. /\ Filed \subseteq Filed'
      /\ \A i \in Filed' : i \in Filed \/ \E c \in NewOf : c.id = i
      /\ \A c \in NewOf : c.id \in Filed'
  <2>1. \A k \in DOMAIN feed : k \in DOMAIN feed' /\ feed'[k] = feed[k]
    BY <1>2
  <2>2. Filed \subseteq Filed'
    BY <2>1 DEF Filed
  <2>3. \A i \in Filed' : i \in Filed \/ \E c \in NewOf : c.id = i
    BY <1>6 DEF Filed
  <2>4. \A c \in NewOf : c.id \in Filed'
    BY <1>2 DEF Filed
  <2> QED BY <2>2, <2>3, <2>4
<1>8. TypeOK'
  BY <1>1, <1>2, FS_EmptySet DEF IInv, TypeOK, LinkStep, Places
<1>9. /\ owed' \subseteq Rows /\ Owes' /\ Counts'
  <2>1. Kept /\ \A i \in Rows : outbox'[i].at = "sent" <=> outbox[i].at = "sent"
    BY <1>1, <1>3 DEF Kept
  <2>2. poll' \notin {"finish", "drop"}
    OBVIOUS
  <2> QED BY <2>1, <2>2, OwesAfter DEF Owes
<1>10. Known'
  <2>1. Ids' \subseteq Rows
    BY <1>4 DEF Ids
  <2>2. Filed' \subseteq Rows
    BY <1>4, <1>5, <1>7
  <2> QED BY <1>1, <1>3, <1>9, <2>1, <2>2 DEF IInv, Known
<1>11. Announced'
  <2>1. \A k \in DOMAIN feed' : feed'[k].id \in hand \cup told => feed'[k].notified
    BY <1>2, <1>5, <1>6 DEF IInv, Announced
  <2>2. \A c \in batch' : c.id \in hand \cup told => c.notified
    BY DEF IInv, Announced
  <2> QED BY <1>1, <2>1, <2>2 DEF IInv, Announced
<1>12. Carried'
  <2>1. CASE poll' = "mark" /\ batch' = batch
    <3>1. \A c \in batch : Good(c.id) => c.id \in Filed'
      BY <1>5, <1>7
    <3> QED BY <1>1, <1>3, <2>1, <3>1 DEF IInv, Carried
  <2>2. CASE poll' = "idle" /\ batch' = {}
    BY <2>2 DEF Carried
  <2> QED BY <2>1, <2>2
<1>13. FiledFirst'
  <2>1. SUFFICES ASSUME NEW i \in Filed', NEW j \in Queued \ Filed', Good(j)
                 PROVE  Key(i) < Key(j) \/ outbox[j].late
    BY <1>1, <1>3 DEF FiledFirst
  <2>2. CASE i \in Filed
    BY <1>7, <2>1, <2>2 DEF IInv, FiledFirst
  <2>3. CASE i \notin Filed
    <3>1. PICK c \in NewOf : c.id = i
      BY <1>7, <2>3
    <3>2. j \notin Ids
      BY <1>4, <1>5, <1>7, <2>1
    <3> QED BY <1>5, <2>1, <3>1, <3>2 DEF IInv, BatchFirst
  <2> QED BY <2>2, <2>3
<1>14. BatchFirst'
  <2>1. CASE batch' = batch
    <3>1. Ids' = Ids
      BY <2>1 DEF Ids
    <3> QED BY <1>1, <1>3, <2>1, <3>1 DEF IInv, BatchFirst
  <2>2. CASE batch' = {}
    BY <2>2 DEF BatchFirst
  <2> QED BY <2>1, <2>2
<1>15. NothingLost'
  BY <1>1, <1>3, <1>7 DEF IInv, NothingLost
<1>16. AlertsCovered'
  BY <1>1, <1>3, <1>11 DEF IInv, AlertsCovered, Announced
<1>17. InOrder'
  <2>1. SUFFICES ASSUME NEW a \in DOMAIN feed', NEW b \in DOMAIN feed', a < b
                 PROVE  Key(feed'[a].id) < Key(feed'[b].id) \/ outbox[feed'[b].id].late
    BY <1>1, <1>3 DEF InOrder
  <2>2. CASE n < a
    BY <1>2, <2>1, <2>2
  <2>3. CASE a \in 1..n /\ b \in 1..n
    BY <1>2, <2>1, <2>3 DEF IInv, InOrder
  <2>4. CASE a \in 1..n /\ n < b
    <3>1. feed'[a].id \in Filed /\ feed'[b] \in NewOf
      BY <1>2, <1>6, <2>1, <2>4
    <3>2. feed'[b].id \in Queued \ Filed /\ Good(feed'[b].id)
      BY <1>4, <1>5, <3>1
    <3> QED BY <3>1, <3>2 DEF IInv, FiledFirst
  <2> QED BY <1>2, <2>1, <2>2, <2>3, <2>4
<1> QED BY <1>8, <1>9, <1>10, <1>11, <1>12, <1>13, <1>14, <1>15, <1>16, <1>17 DEF IInv

LEMMA PostEventsKeeps ==
    ASSUME IInv, NEW answer \in {"ok", "lost", "silent", "neutral", "refused"}, PostEvents(answer)
    PROVE  IInv'
<1>1. TypeOK /\ "poll" \in Goroutine /\ poll = "post" /\ UNCHANGED alert
  BY DEF IInv, Goroutine, PostEvents
<1>2. LinkStep
  BY <1>1, ObserveIsLinkStep DEF PostEvents
<1>3. CASE answer \in {"ok", "lost"}
  <2>1. feed' = FiledAfter /\ UNCHANGED <<outbox, spurned>>
    BY <1>3 DEF PostEvents
  <2>2. \/ poll' = "mark" /\ batch' = batch
        \/ poll' = "idle" /\ batch' = {}
    BY <1>3 DEF PostEvents
  <2> QED BY <1>1, <1>2, <2>1, <2>2, FilingKeeps
<1>4. CASE answer \notin {"ok", "lost"}
  <2>1. UNCHANGED <<alert, feed>> /\ batch' = {} /\ poll' \in {"read", "idle"}
    BY <1>1, <1>4 DEF PostEvents
  <2>2. /\ Moves /\ spurned \subseteq spurned'
        /\ \A i \in Rows : outbox'[i].at = "sent" <=> outbox[i].at = "sent"
    <3>1. CASE answer = "refused" /\ outbox' # outbox
      <4>1. outbox' = PlaceAll(Ids, "dropped") /\ "dropped" \in Place /\ spurned' = spurned \cup Ids
        BY <3>1, Zenon DEF PostEvents, Place
      <4>2. \A i \in Ids : outbox[i].at = "queued"
        BY <1>1 DEF IInv, Carried, Ids
      <4>3. /\ Kept /\ outbox' \in Seq(Row)
            /\ \A i \in Rows : /\ outbox'[i].notified = outbox[i].notified
                               /\ outbox'[i].old = outbox[i].old
                               /\ outbox'[i].at = IF i \in Ids THEN "dropped" ELSE outbox[i].at
        BY <1>1, <4>1, PlacesRows
      <4> QED BY <4>1, <4>2, <4>3 DEF Moves, Leaves, Kept
    <3>2. CASE answer # "refused" \/ outbox' = outbox
      <4>1. outbox' = outbox /\ spurned \subseteq spurned'
        BY <1>4, <3>2 DEF PostEvents
      <4> QED BY <4>1, StaysIsMoves
    <3> QED BY <3>1, <3>2
  <2>3. owed' \subseteq Rows /\ Owes' /\ Counts'
    BY <1>1, <1>2, <2>1, <2>2, OwesAfter DEF Moves, Owes
  <2>4. /\ failures' \in Nat /\ recoverySent' \in Nat /\ faults' \in Nat
        /\ down' \in BOOLEAN /\ pendingRecovery' \in BOOLEAN
        /\ tell' \in [Goroutine -> {"none", "up", "down"}]
    BY <1>1, <1>2 DEF LinkStep, TypeOK
  <2>5. poll' \in Places
    BY <2>1 DEF Places
  <2> QED BY <2>1, <2>2, <2>3, <2>4, <2>5, DrainKeeps
<1> QED BY <1>3, <1>4

(* The batch in hand: what its ids are. *)
LEMMA BatchIds ==
    ASSUME IInv
    PROVE  /\ Ids \subseteq Rows /\ AcceptedIds \subseteq Ids /\ RefusedIds \subseteq Ids
           /\ AcceptedIds \cap RefusedIds = {} /\ IsFiniteSet(AcceptedIds)
           /\ \A i \in AcceptedIds : Good(i) /\ outbox[i].at = IF poll = "drop" THEN "sent" ELSE "queued"
           /\ \A i \in RefusedIds : ~Good(i) /\ outbox[i].at = "queued"
           /\ poll \in {"mark", "drop"} => AcceptedIds \subseteq Filed
<1>1. Ids \subseteq Rows /\ IsFiniteSet(Rows)
  BY RowsAreTyped DEF IInv, Known
<1>2. AcceptedIds \subseteq Ids /\ RefusedIds \subseteq Ids /\ AcceptedIds \cap RefusedIds = {}
  BY DEF AcceptedIds, RefusedIds
<1>3. IsFiniteSet(AcceptedIds)
  BY <1>1, <1>2, FS_Subset
<1>4. /\ \A i \in AcceptedIds : Good(i)
      /\ \A i \in RefusedIds : ~Good(i)
  BY DEF AcceptedIds, RefusedIds, Good
<1>5. \A i \in Ids : \E c \in batch : c.id = i
  BY DEF Ids
<1> QED BY <1>1, <1>2, <1>3, <1>4, <1>5 DEF IInv, Carried

(* The first write: the accepted rows are sent, and the batch is still in hand. *)
LEMMA MarkSentKeeps ==
    ASSUME IInv, MarkSent
    PROVE  IInv'
<1>1. /\ TypeOK /\ poll = "mark" /\ poll' = "drop" /\ batch' = batch
      /\ outbox' = PlaceAll(AcceptedIds, "sent") /\ "sent" \in Place
      /\ resent' = IF pendingRecovery THEN resent \cup AcceptedIds ELSE resent
      /\ UNCHANGED <<down, failures, pendingRecovery, recoverySent, tell, owed, uncounted>>
      /\ UNCHANGED <<alert, feed, spurned, faults>>
  BY DEF IInv, MarkSent, Place
<1>2. /\ Ids \subseteq Rows /\ AcceptedIds \subseteq Ids /\ AcceptedIds \subseteq Filed
      /\ \A i \in AcceptedIds : Good(i) /\ outbox[i].at = "queued"
  BY <1>1, BatchIds
<1>3. /\ Kept /\ outbox' \in Seq(Row)
      /\ \A i \in Rows : /\ outbox'[i].notified = outbox[i].notified
                         /\ outbox'[i].old = outbox[i].old
                         /\ outbox'[i].at = IF i \in AcceptedIds THEN "sent" ELSE outbox[i].at
  BY <1>1, PlacesRows
<1>4. Moves
  BY <1>2, <1>3 DEF Moves, Leaves
<1>5. /\ Filed' = Filed /\ FiledFirst' /\ InOrder' /\ NothingLost' /\ AlertsCovered'
      /\ Announced' /\ BatchFirst' /\ Ids' \subseteq Ids
  BY <1>1, <1>4, MovesKeep
<1>6. hand' = hand /\ told' = told /\ Rows' = Rows
  BY <1>1, <1>3 DEF alert, Kept
<1>7. TypeOK'
  BY <1>1, <1>3 DEF TypeOK, Places
<1>8. Known'
  BY <1>1, <1>5, <1>6 DEF IInv, Known
<1>9. Ids' = Ids /\ AcceptedIds' = AcceptedIds
  <2>1. Ids' = Ids
    BY <1>1 DEF Ids
  <2>2. \A i \in Ids : outbox'[i].quality = outbox[i].quality
    BY <1>2, <1>3 DEF Kept
  <2> QED BY <2>1, <2>2 DEF AcceptedIds
<1>10. Carried'
  <2>1. \A c \in batch : /\ c.id \in Ids /\ c.id \in Rows /\ Good(c.id)' = Good(c.id)
                         /\ c.id \in AcceptedIds <=> Good(c.id)
    <3>1. \A c \in batch : c.id \in Ids
      BY DEF Ids
    <3> QED BY <1>2, <1>3, <3>1, KeptKeys DEF AcceptedIds, Good
  <2> QED BY <1>1, <1>3, <1>5, <2>1 DEF IInv, Carried
<1>11. Owes'
  BY <1>1 DEF IInv, Owes
<1>12. Counts'
  <2>1. \A i \in resent \cup uncounted : i \in Rows /\ i \notin AcceptedIds /\ outbox'[i].at = "sent"
    BY <1>2, <1>3 DEF IInv, Counts
  <2>2. Counted' = Counted
    <3>1. Fresh = {} /\ Fresh' = AcceptedIds
      BY <1>1, <1>9 DEF Fresh
    <3> QED BY <1>1, <2>1, <3>1 DEF Counted
  <2>3. OwedSent' \subseteq resent'
    <3>1. \A i \in OwedSent' : i \in OwedSent \/ i \in owed \cap AcceptedIds
      BY <1>1, <1>3 DEF OwedSent, IInv, Known
    <3> QED BY <1>1, <3>1 DEF IInv, Counts, Owes
  <2>4. \A i \in resent' \cup uncounted' : i \in Rows' /\ outbox'[i].at = "sent"
    BY <1>1, <1>2, <1>3, <1>6, <2>1
  <2>5. pendingRecovery' => Fresh' \subseteq resent' \ uncounted'
    BY <1>1, <1>9, <2>1 DEF Fresh
  <2>6. resent' # {} => pendingRecovery'
    BY <1>1 DEF IInv, Counts
  <2> QED BY <1>1, <2>2, <2>3, <2>4, <2>5, <2>6 DEF IInv, Counts
<1> QED BY <1>5, <1>7, <1>8, <1>10, <1>11, <1>12 DEF IInv

(* The second write: the refused rows are dropped, and the batch is counted. *)
LEMMA MarkDroppedKeeps ==
    ASSUME IInv, MarkDropped
    PROVE  IInv'
<1>1. /\ TypeOK /\ poll = "drop" /\ poll' = "read" /\ batch' = {}
      /\ outbox' = PlaceAll(RefusedIds, "dropped") /\ "dropped" \in Place
      /\ recoverySent' = IF pendingRecovery THEN recoverySent + Cardinality(AcceptedIds)
                         ELSE recoverySent
      /\ UNCHANGED <<down, failures, pendingRecovery, tell, owed, resent, uncounted>>
      /\ UNCHANGED <<alert, feed, spurned, faults>>
  BY DEF IInv, MarkDropped, AddRecoverySent, recovery, Place
<1>2. /\ Ids \subseteq Rows /\ RefusedIds \subseteq Ids
      /\ \A i \in RefusedIds : ~Good(i) /\ outbox[i].at = "queued"
      /\ IsFiniteSet(AcceptedIds) /\ Cardinality(AcceptedIds) \in Nat
  BY BatchIds, FS_CardinalityType
<1>3. /\ Kept /\ outbox' \in Seq(Row)
      /\ \A i \in Rows : /\ outbox'[i].notified = outbox[i].notified
                         /\ outbox'[i].old = outbox[i].old
                         /\ outbox'[i].at = IF i \in RefusedIds THEN "dropped" ELSE outbox[i].at
  BY <1>1, PlacesRows
<1>4. Moves
  BY <1>2, <1>3 DEF Moves, Leaves
<1>5. Owes'
  BY <1>1 DEF IInv, Owes
<1>6. Counts'
  <2>1. \A i \in resent \cup uncounted : i \in Rows /\ i \notin RefusedIds /\ outbox'[i].at = "sent"
    BY <1>2, <1>3 DEF IInv, Counts
  <2>2. OwedSent' \subseteq OwedSent
    BY <1>1, <1>3 DEF OwedSent, IInv, Known
  <2>3. ~Overlap => recoverySent' = Cardinality(Counted')
    <3>1. SUFFICES ASSUME ~Overlap PROVE recoverySent' = Cardinality(Counted')
      OBVIOUS
    <3>2. /\ recoverySent = Cardinality(Counted) /\ Fresh = AcceptedIds
          /\ Counted' = resent \ uncounted /\ Fresh' = {}
      BY <1>1, <3>1 DEF IInv, Counts, Counted, Fresh
    <3>3. CASE pendingRecovery
      <4>1. Counted' = Counted \cup AcceptedIds /\ Counted \cap AcceptedIds = {}
        BY <3>1, <3>2, <3>3 DEF IInv, Counts, Counted
      <4>2. IsFiniteSet(Counted)
        <5>1. Counted \in SUBSET Rows
          BY DEF IInv, Counts, Counted
        <5> QED BY <1>1, <5>1, RowsAreTyped, FS_Subset
      <4>3. Cardinality(Counted \cup AcceptedIds)
               = Cardinality(Counted) + Cardinality(AcceptedIds) - Cardinality(Counted \cap AcceptedIds)
        BY <1>2, <4>2, FS_Union
      <4>4. Cardinality(Counted) \in Nat /\ Cardinality(Counted \cap AcceptedIds) = 0
        BY <4>1, <4>2, FS_CardinalityType, FS_EmptySet
      <4>5. Cardinality(Counted') = Cardinality(Counted) + Cardinality(AcceptedIds)
        <5>1. Cardinality(Counted') = Cardinality(Counted \cup AcceptedIds)
          BY <4>1, Zenon
        <5> QED BY ONLY <1>2, <4>3, <4>4, <5>1
      <4>6. recoverySent' = recoverySent + Cardinality(AcceptedIds) /\ recoverySent = Cardinality(Counted)
        BY <1>1, <3>2, <3>3
      <4> QED BY ONLY <4>5, <4>6
    <3>4. CASE ~pendingRecovery
      <4>1. Counted' = {} /\ Counted = {}
        BY <3>2, <3>4 DEF IInv, Counts, Counted
      <4> QED BY <1>1, <3>2, <3>4, <4>1
    <3> QED BY <3>3, <3>4
  <2>4. Fresh' = {}
    BY <1>1 DEF Fresh
  <2>5. Rows' = Rows
    BY <1>3 DEF Kept
  <2> QED BY <1>1, <2>1, <2>2, <2>3, <2>4, <2>5 DEF IInv, Counts
<1>8. /\ failures' \in Nat /\ recoverySent' \in Nat /\ faults' \in Nat
      /\ tell' \in [Goroutine -> {"none", "up", "down"}]
      /\ poll' \in Places /\ owed' \subseteq Rows
  BY <1>1, <1>2 DEF TypeOK, Places, IInv, Known
<1>9. down' \in BOOLEAN /\ pendingRecovery' \in BOOLEAN
  BY <1>1, Zenon DEF TypeOK
<1> QED BY <1>1, <1>4, <1>5, <1>6, <1>8, <1>9, DrainKeeps

(* A batch that is let go between its two writes is never counted. *)
LEMMA FlushFailsKeeps ==
    ASSUME IInv, FlushFails
    PROVE  IInv'
<1>1. /\ TypeOK /\ poll' = "idle" /\ batch' = {} /\ poll \in {"read", "mark", "drop"}
      /\ UNCHANGED <<outbox, alert, feed, spurned>>
      /\ UNCHANGED <<down, failures, pendingRecovery, recoverySent, tell, owed, resent>>
      /\ uncounted' = IF poll = "drop" THEN uncounted \cup AcceptedIds ELSE uncounted
  BY DEF IInv, FlushFails
<1>2. Moves /\ Rows' = Rows
  BY <1>1, StaysIsMoves DEF Moves, Kept
<1>3. faults' \in Nat
  BY FaultCounts DEF FlushFails
<1>4. Owes'
  BY <1>1 DEF IInv, Owes
<1>5. Counts'
  <2>1. uncounted' = uncounted \cup Fresh /\ Fresh' = {}
    BY <1>1 DEF Fresh
  <2>2. Counted' = Counted
    BY <1>1, <2>1 DEF Counted
  <2>3. \A i \in Fresh : i \in Rows /\ outbox[i].at = "sent"
    BY BatchIds DEF Fresh
  <2>4. OwedSent' = OwedSent
    BY <1>1 DEF OwedSent
  <2> QED BY <1>1, <1>2, <2>1, <2>2, <2>3, <2>4 DEF IInv, Counts
<1>6. /\ failures' \in Nat /\ recoverySent' \in Nat
      /\ tell' \in [Goroutine -> {"none", "up", "down"}] /\ poll' \in Places /\ owed' \subseteq Rows
  BY <1>1 DEF TypeOK, Places, IInv, Known
<1>7. down' \in BOOLEAN /\ pendingRecovery' \in BOOLEAN
  BY <1>1, Zenon DEF TypeOK
<1> QED BY <1>1, <1>2, <1>3, <1>4, <1>5, <1>6, <1>7, DrainKeeps

LEMMA FinishRecoveryKeeps ==
    ASSUME IInv, FinishRecovery
    PROVE  IInv'
<1>1. /\ TypeOK /\ poll = "finish" /\ poll' = "idle" /\ owed' = {} /\ recoverySent' = 0
      /\ pendingRecovery' = FALSE /\ resent' = {} /\ uncounted' = {}
      /\ UNCHANGED <<outbox, down, failures, tell, batch, alert, feed, spurned, faults>>
  BY DEF IInv, FinishRecovery
<1>2. batch' = {}
  BY <1>1, Idle
<1>3. Moves
  BY <1>1, StaysIsMoves
<1>4. Owes' /\ Counts'
  BY <1>1, CountsReset DEF Owes
<1>5. down' \in BOOLEAN /\ pendingRecovery' \in BOOLEAN
  BY <1>1, Zenon DEF TypeOK
<1>6. /\ failures' \in Nat /\ recoverySent' \in Nat /\ faults' \in Nat
      /\ tell' \in [Goroutine -> {"none", "up", "down"}] /\ poll' \in Places
  BY <1>1 DEF TypeOK, Places
<1> QED BY <1>1, <1>2, <1>3, <1>4, <1>5, <1>6, DrainKeeps

(* Rows keep their places; what is known of their messages changes. *)
LEMMA RemarkKeeps ==
    ASSUME IInv, Kept, outbox' \in Seq(Row), \A i \in Rows : outbox'[i].at = outbox[i].at,
           told \subseteq told', mute \subseteq mute', hand' \cup told' \subseteq Rows,
           UNCHANGED <<feed, spurned>>, faults' \in Nat,
           \/ /\ UNCHANGED <<down, failures, pendingRecovery, recoverySent, tell, owed, poll, batch>>
              /\ UNCHANGED <<resent, uncounted>>
           \/ /\ down' = FALSE /\ failures' = 0 /\ pendingRecovery' = FALSE
              /\ recoverySent' = 0 /\ owed' = {} /\ tell' = [g \in Goroutine |-> "none"]
              /\ resent' = {} /\ uncounted' = {}
              /\ poll' = "idle" /\ batch' = {},
           Announced', AlertsCovered'
    PROVE  IInv'
<1>1. Queued' = Queued /\ Rows' = Rows
  BY DEF Queued, Kept
<1>2. batch' \in {batch, {}} /\ (batch' # batch => poll' = "idle")
  OBVIOUS
<1>3. FiledFirst' /\ InOrder' /\ Filed' = Filed /\ BatchFirst' /\ Ids' \subseteq Ids
  BY <1>1, <1>2, OrderAfter
<1>4. \A i \in Rows : Good(i)' = Good(i) /\ (i \in OfEngine' <=> i \in OfEngine)
  BY KeptKeys
<1>5. TypeOK'
  <2>1. down' \in BOOLEAN /\ pendingRecovery' \in BOOLEAN
    BY Zenon DEF IInv, TypeOK
  <2>2. failures' \in Nat /\ recoverySent' \in Nat /\ poll' \in Places
        /\ tell' \in [Goroutine -> {"none", "up", "down"}]
    BY DEF IInv, TypeOK, Places
  <2> QED BY <1>2, <2>1, <2>2, FS_EmptySet DEF IInv, TypeOK
<1>6. Known'
  <2>1. owed' \subseteq owed
    OBVIOUS
  <2> QED BY <1>1, <1>3, <2>1 DEF IInv, Known
<1>7. Carried'
  <2>1. CASE batch' = batch /\ poll' = poll
    BY <1>1, <1>3, <1>4, <2>1 DEF IInv, Carried, Known, Ids
  <2>2. CASE batch' = {} /\ poll' = "idle"
    BY <2>2 DEF Carried
  <2> QED BY <2>1, <2>2
<1>8. NothingLost'
  BY <1>1, <1>3, <1>4 DEF IInv, NothingLost, Kept, Good
<1>9. Owes' /\ Counts'
  <2>1. CASE UNCHANGED <<pendingRecovery, recoverySent, owed, poll, batch, resent, uncounted>>
    <3>1. OwedSent' = OwedSent
      BY <1>1, <2>1 DEF OwedSent, IInv, Known
    <3>2. Counts'
      BY <1>1, <2>1, <3>1, CountsStay DEF Kept
    <3> QED BY <1>1, <2>1, <3>2 DEF IInv, Owes
  <2>2. CASE recoverySent' = 0 /\ owed' = {} /\ poll' = "idle" /\ resent' = {} /\ uncounted' = {}
    BY <2>2, CountsReset DEF Owes
  <2> QED BY <2>1, <2>2
<1> QED BY <1>3, <1>5, <1>6, <1>7, <1>8, <1>9 DEF IInv

LEMMA AgeKeeps ==
    ASSUME IInv, NEW i \in Rows, Age(i)
    PROVE  IInv'
<1>1. /\ TypeOK /\ i \notin hand /\ outbox' = [outbox EXCEPT ![i].old = TRUE]
      /\ UNCHANGED <<down, failures, pendingRecovery, recoverySent, tell, owed, poll, batch>>
      /\ UNCHANGED <<hand, told, mute, resent, uncounted, feed, spurned>>
  BY DEF IInv, Age, link, recovery, alert
<1>2. faults' \in Nat
  BY FaultCounts DEF Age
<1>3. outbox[i] \in Row /\ DOMAIN outbox = Rows /\ \A j \in Rows : outbox[j] \in Row
  BY <1>1, RowsAreTyped DEF Rows
<1>4. /\ outbox' \in [Rows -> Row]
      /\ \A j \in Rows : /\ outbox'[j].at = outbox[j].at
                         /\ outbox'[j].kind = outbox[j].kind
                         /\ outbox'[j].late = outbox[j].late
                         /\ outbox'[j].quality = outbox[j].quality
                         /\ outbox'[j].notified = outbox[j].notified
                         /\ j # i => outbox'[j].old = outbox[j].old
  <2>1. /\ [outbox[i] EXCEPT !.old = TRUE] \in Row
        /\ \A j \in Rows : outbox'[j] = IF j = i THEN [outbox[i] EXCEPT !.old = TRUE] ELSE outbox[j]
    BY <1>1, <1>3 DEF Row
  <2>2. outbox' \in [Rows -> Row]
    BY <1>1, <1>3, <2>1
  <2> QED BY <1>3, <2>1, <2>2 DEF Row
<1>5. outbox' \in Seq(Row) /\ Rows' = Rows /\ Kept
  BY <1>1, <1>4, RewritesRows DEF Kept
<1>6. Announced'
  BY <1>1, <1>4 DEF IInv, Announced, Known
<1>7. AlertsCovered'
  <2>1. Queued' = Queued /\ OfEngine' = OfEngine /\ Queued \subseteq Rows
    BY <1>4, <1>5, KeptKeys DEF Queued
  <2> QED BY <1>1, <1>4, <2>1 DEF IInv, AlertsCovered
<1>8. hand' \cup told' \subseteq Rows
  BY <1>1 DEF IInv, Known
<1> QED BY <1>1, <1>2, <1>4, <1>5, <1>6, <1>7, <1>8, RemarkKeeps

LEMMA TelegramSentKeeps ==
    ASSUME IInv, NEW i \in Rows, TelegramSent(i)
    PROVE  IInv'
<1>1. /\ TypeOK /\ i \in hand /\ hand' = hand \ {i} /\ told' = told \cup {i}
      /\ UNCHANGED <<down, failures, pendingRecovery, recoverySent, tell, owed, poll, batch>>
      /\ UNCHANGED <<outbox, mute, resent, uncounted, feed, spurned, faults>>
  BY DEF IInv, TelegramSent, link, recovery
<1>2. outbox' \in Seq(Row) /\ faults' \in Nat /\ Kept
  BY <1>1 DEF TypeOK, Kept, Rows
<1>3. Announced'
  BY <1>1 DEF IInv, Announced
<1>4. AlertsCovered'
  BY <1>1 DEF IInv, Announced, AlertsCovered, Queued, OfEngine, Rows
<1>5. hand' \cup told' \subseteq Rows
  BY <1>1 DEF IInv, Known
<1> QED BY <1>1, <1>2, <1>3, <1>4, <1>5, RemarkKeeps

LEMMA TelegramFailsKeeps ==
    ASSUME IInv, NEW i \in Rows, TelegramFails(i)
    PROVE  IInv'
<1>1. /\ TypeOK /\ i \in hand /\ hand' = hand \ {i} /\ told' = told
      /\ UNCHANGED <<down, failures, pendingRecovery, recoverySent, tell, owed, poll, batch>>
      /\ UNCHANGED <<resent, uncounted, feed, spurned>>
      /\ \/ outbox' = [outbox EXCEPT ![i].notified = FALSE] /\ mute' = mute
         \/ outbox' = outbox /\ mute' = mute \cup {i}
  BY DEF IInv, TelegramFails, Unnotified, link, recovery
<1>2. faults' \in Nat
  BY FaultCounts DEF TelegramFails
<1>3. outbox[i] \in Row /\ DOMAIN outbox = Rows /\ \A j \in Rows : outbox[j] \in Row
  BY <1>1, RowsAreTyped DEF Rows
<1>4. /\ outbox' \in [Rows -> Row]
      /\ \A j \in Rows : /\ outbox'[j].at = outbox[j].at
                         /\ outbox'[j].kind = outbox[j].kind
                         /\ outbox'[j].late = outbox[j].late
                         /\ outbox'[j].quality = outbox[j].quality
                         /\ outbox'[j].old = outbox[j].old
                         /\ j # i => outbox'[j].notified = outbox[j].notified
                         /\ outbox'[j].notified => outbox[j].notified
      /\ outbox'[i].notified => i \in mute'
  <2>1. CASE outbox' = [outbox EXCEPT ![i].notified = FALSE]
    <3>1. /\ [outbox[i] EXCEPT !.notified = FALSE] \in Row
          /\ \A j \in Rows : outbox'[j] = IF j = i THEN [outbox[i] EXCEPT !.notified = FALSE]
                                          ELSE outbox[j]
      BY <1>3, <2>1 DEF Row
    <3>2. outbox' \in [Rows -> Row]
      BY <1>3, <2>1, <3>1
    <3> QED BY <1>3, <3>1, <3>2 DEF Row
  <2>2. CASE outbox' = outbox /\ mute' = mute \cup {i}
    <3>1. outbox \in [Rows -> Row]
      BY <1>1, <1>3 DEF TypeOK
    <3> QED BY <2>2, <3>1
  <2> QED BY <1>1, <2>1, <2>2
<1>5. outbox' \in Seq(Row) /\ Rows' = Rows /\ Kept
  BY <1>1, <1>4, RewritesRows DEF Kept
<1>6. Announced'
  BY <1>1, <1>4 DEF IInv, Announced, Known
<1>7. AlertsCovered'
  <2>1. Queued' = Queued /\ OfEngine' = OfEngine /\ Queued \subseteq Rows
    BY <1>4, <1>5, KeptKeys DEF Queued
  <2> QED BY <1>1, <1>4, <2>1 DEF IInv, AlertsCovered
<1>8. hand' \cup told' \subseteq Rows /\ mute \subseteq mute'
  BY <1>1 DEF IInv, Known
<1> QED BY <1>1, <1>2, <1>4, <1>5, <1>6, <1>7, <1>8, RemarkKeeps

LEMMA CrashKeeps ==
    ASSUME IInv, Crash
    PROVE  IInv'
<1>1. /\ TypeOK /\ hand' = {} /\ told' = told /\ mute' = mute \cup hand /\ batch' = {}
      /\ UNCHANGED <<outbox, feed, spurned>>
  BY DEF IInv, Crash
<1>2. outbox' \in Seq(Row) /\ Kept
  BY <1>1 DEF TypeOK, Kept, Rows
<1>3. faults' \in Nat
  BY FaultCounts DEF Crash
<1>4. Announced'
  BY <1>1 DEF IInv, Announced
<1>5. AlertsCovered'
  BY <1>1 DEF IInv, AlertsCovered, Queued, OfEngine, Rows
<1>6. hand' \cup told' \subseteq Rows
  BY <1>1 DEF IInv, Known
<1> QED BY <1>1, <1>2, <1>3, <1>4, <1>5, <1>6, RemarkKeeps DEF Crash

LEMMA StutterKeeps ==
    ASSUME IInv, UNCHANGED vars
    PROVE  IInv'
<1>1. UNCHANGED <<outbox, down, failures, pendingRecovery, recoverySent, tell, owed, poll, batch,
                  hand, told, mute, feed, spurned, faults, resent, uncounted>>
  BY DEF vars, link, recovery, alert
<1> QED BY <1>1 DEF IInv, TypeOK, Known, Announced, Carried, FiledFirst, BatchFirst, Owes, OwedSent, Counts,
     Counted, Fresh, AcceptedIds, NothingLost, AlertsCovered, InOrder, Good, Filed, Ids, Queued, OfEngine, Key, Rows

LEMMA NextKeeps ==
    ASSUME IInv, [Next]_vars
    PROVE  IInv'
<1>1. CASE PollLoop
  <2>1. "poll" \in Goroutine
    BY DEF Goroutine
  <2> QED BY <1>1, <2>1, PollStateKeeps, PollEnsureKeeps, FlushPruneKeeps, FlushReadKeeps,
       PostEventsKeeps, MarkSentKeeps, MarkDroppedKeeps, FlushFailsKeeps, FinishRecoveryKeeps, EnqueueKeeps
       DEF PollLoop
<1>2. CASE Engine
  BY <1>2, EmitKeeps, TelegramSentKeeps, TelegramFailsKeeps DEF Engine
<1>3. CASE \E answer \in {"ok", "silent"} : RefreshMaterial(answer)
  BY <1>3, RefreshKeeps
<1>4. CASE EnqueuePanelEvent("refresh")
  BY <1>4, EnqueueKeeps DEF Goroutine
<1>5. CASE \E i \in Rows : Age(i)
  BY <1>5, AgeKeeps
<1>6. CASE Crash
  BY <1>6, CrashKeeps
<1>7. CASE UNCHANGED vars
  BY <1>7, StutterKeeps
<1> QED BY <1>1, <1>2, <1>3, <1>4, <1>5, <1>6, <1>7 DEF Next

LEMMA Inductive == Spec => []IInv
BY InitKeeps, NextKeeps, PTL DEF Spec

-----------------------------------------------------------------------------
(* Theorems *)

(* Everything keeps its shape, the counters of a recovery included.           *)
THEOREM TypeCorrect == Spec => []TypeOK
BY Inductive, PTL DEF IInv

(* A row leaves events_outbox only into the panel's feed, or because the      *)
(* panel refused it or nobody could read it, or because it was announced and  *)
(* is a day old: for any batch size, any crash and any lost answer.  (flush,  *)
(* markSent, markDropped, Prune)                                              *)
THEOREM RowsAreAccountedFor == Spec => []NothingLost
BY Inductive, PTL DEF IInv

(* An alert mon-server announced is never announced again by the panel, and   *)
(* what waits as announced has been, is being, or was cut off by a crash.     *)
(* (emitTarget, flush, unnotify)                                              *)
THEOREM AnnouncedOnce == Spec => []AlertsCovered
BY Inductive, PTL DEF IInv

(* The feed keeps the order of the stamps but for rows committed late,        *)
(* whatever is sent again or dropped in between.  (flush: ORDER BY ts, id)    *)
THEOREM FeedIsOrdered == Spec => []InOrder
BY Inductive, PTL DEF IInv

(* "Panel back, N events resent" goes out when what waited at the panel's      *)
(* return has left the queue, and N is exactly the number of rows stamped sent *)
(* since then but those of a batch whose second write failed, if               *)
(* RefreshMaterial does not run while a poll does.  (flush, addRecoverySent,   *)
(* finishRecovery)                                                            *)
THEOREM BackIsTrue ==
    ASSUME ~Overlap
    PROVE  Spec => BackMeansDrained
<1>1. IInv /\ poll = "finish" =>
        /\ owed \cap Queued = {}
        /\ {i \in owed : outbox[i].at = "sent"} \subseteq resent
        /\ recoverySent = Cardinality(resent \ uncounted)
  <2>1. SUFFICES ASSUME IInv, poll = "finish"
                 PROVE  /\ owed \cap Queued = {}
                        /\ {i \in owed : outbox[i].at = "sent"} \subseteq resent
                        /\ recoverySent = Cardinality(resent \ uncounted)
    OBVIOUS
  <2>2. Counted = resent \ uncounted
    BY <2>1 DEF Counted, Fresh
  <2> QED BY <2>1, <2>2 DEF IInv, Owes, Counts, OwedSent
<1> QED BY <1>1, Inductive, PTL DEF BackMeansDrained, SaysBack
================================================================================
