------------------------------ MODULE ConfigProofs ------------------------------
(***************************************************************************)
(* Proofs about the way of a configuration: from the panel to a             *)
(* mon-client's document and target rows (ConfigSync), and from the         *)
(* document to the probes of the box (ConfigApply).  The two specifications *)
(* have no state in common; each has its own inductive invariant.           *)
(***************************************************************************)
EXTENDS ConfigSync, ConfigApply, TLAPS

-----------------------------------------------------------------------------
(* The box, for any documents.  While the disk works, every measurement is  *)
(* filed under the target it was made of, whatever fails to start, dies or  *)
(* is restarted and whatever documents come in which order.                 *)
(*                                                                         *)
(* The argument is what xray.json was made from.  Between two applications  *)
(* it is the document in force, and the child was started on it or is gone; *)
(* during one the document in force is kept aside in xray.json.prev, until  *)
(* the new one is in force or recover has put it back.                      *)

\* The document in force has xray targets.
InForce == Plan(doc) # <<>>

\* Between two applications the file and the child are those of the document in force.
SettledOK ==
    pc \in {"tick", "test", "install", "revive", "cycle", "beat"} /\ InForce
        => xrayJson = doc /\ child \in {None, doc}

\* During one, what recover would put back is.
AsideOK == pc \in {"restart", "recover"} /\ InForce => prev = doc

\* Before the swap they are those of the document that is about to be in force.
SwapOK ==
    pc = "save" => xrayJson = new /\ (Plan(new) # <<>> => child \in {None, new})

\* The child is restarted on what was just installed.
RestartOK == pc = "restart" => xrayJson = new

PcOK == pc \in {"tick", "test", "install", "restart", "recover", "save", "revive", "cycle", "beat"}

BoxInv == PcOK /\ SettledOK /\ AsideOK /\ SwapOK /\ RestartOK /\ HonestMeasures

-----------------------------------------------------------------------------

LEMMA NoPlanOfNone == Plan(None) = <<>>
BY DEF Plan

\* A child on the document in force, or none, sends no probe to another target.
LEMMA OwnPorts ==
    ASSUME InForce => child \in {None, doc},
           NEW m \in {<<Plan(doc)[i], Behind(i)>> : i \in Probed}
    PROVE  m[2] \in {None, m[1]}
<1>1. PICK i \in Probed : m = <<Plan(doc)[i], Behind(i)>>
  OBVIOUS
<1>2. i \in DOMAIN Plan(doc)
  BY DEF Probed
<1>3. InForce
  BY <1>2 DEF InForce
<1>4. CASE child = None
  <2>1. Behind(i) = None
    BY <1>4, NoPlanOfNone DEF Behind
  <2> QED BY <1>1, <2>1
<1>5. CASE child = doc
  <2>1. Behind(i) = Plan(doc)[i]
    BY <1>2, <1>5 DEF Behind
  <2> QED BY <1>1, <2>1
<1> QED BY <1>3, <1>4, <1>5

LEMMA InitEstablishes == BoxInit => BoxInv
BY NoPlanOfNone DEF BoxInit, BoxInv, PcOK, SettledOK, AsideOK, SwapOK, RestartOK, InForce, HonestMeasures

\* What an iteration does before the document is installed touches neither
\* the files nor the child.
LEMMA FetchPreserves ==
    ASSUME BoxInv, Fetches \/ FetchFails \/ NotDue
    PROVE  BoxInv'
BY DEF Fetches, FetchFails, NotDue, Idle, applier, disk, Fault,
       BoxInv, PcOK, SettledOK, AsideOK, SwapOK, RestartOK, InForce, HonestMeasures

\* While the disk works, a document is installed with the old file kept aside.
LEMMA InstallPreserves ==
    ASSUME BoxInv, ~DiskFails, Test \/ InstallEmpty \/ Install
    PROVE  BoxInv'
BY DEF Test, InstallEmpty, Install, Goes, Fails, Refused, Unmoved, applier, disk, Fault,
       BoxInv, PcOK, SettledOK, AsideOK, SwapOK, RestartOK, InForce, HonestMeasures

LEMMA RestartPreserves ==
    ASSUME BoxInv, Restart
    PROVE  BoxInv'
BY DEF Restart, Goes, Fails, Refused, Unmoved, applier, disk, Fault, Listens,
       BoxInv, PcOK, SettledOK, AsideOK, SwapOK, RestartOK, InForce, HonestMeasures

\* recover puts the file of the document in force back, and starts that or nothing.
LEMMA RecoverPreserves ==
    ASSUME BoxInv, ~DiskFails, Recover
    PROVE  BoxInv'
BY NoPlanOfNone DEF Recover, Restored, Comes, Stays, Refused, Unmoved, disk, Fault, Listens,
       BoxInv, PcOK, SettledOK, AsideOK, SwapOK, RestartOK, InForce, HonestMeasures

LEMMA SavePreserves ==
    ASSUME BoxInv, ~DiskFails, Save
    PROVE  BoxInv'
BY DEF Save, Refused, Unmoved, disk, Fault,
       BoxInv, PcOK, SettledOK, AsideOK, SwapOK, RestartOK, InForce, HonestMeasures

LEMMA RevivePreserves ==
    ASSUME BoxInv, Revive
    PROVE  BoxInv'
BY DEF Revive, Dead, Comes, Stays, Beaten, disk, Fault, Listens,
       BoxInv, PcOK, SettledOK, AsideOK, SwapOK, RestartOK, InForce, HonestMeasures

LEMMA CyclePreserves ==
    ASSUME BoxInv, Cycle
    PROVE  BoxInv'
<1>1. HonestMeasures'
  <2>1. InForce => child \in {None, doc}
    BY DEF Cycle, BoxInv, SettledOK
  <2>2. \A m \in {<<Plan(doc)[i], Behind(i)>> : i \in Probed} : m[2] \in {None, m[1]}
    BY <2>1, OwnPorts
  <2>3. \A m \in {<<t, t>> : t \in Awgs(doc)} : m[2] \in {None, m[1]}
    OBVIOUS
  <2> QED BY <2>2, <2>3 DEF Cycle, HonestMeasures
<1>2. (PcOK /\ SettledOK /\ AsideOK /\ SwapOK /\ RestartOK)'
  BY DEF Cycle, Beaten, disk, BoxInv, PcOK, SettledOK, AsideOK, SwapOK, RestartOK, InForce
<1> QED BY <1>1, <1>2 DEF BoxInv

\* The heartbeat, mon-server and what may happen to the child at any time.
LEMMA OutsidePreserves ==
    ASSUME BoxInv, SendHeartbeat \/ (\E r \in Revisions : Changes(r)) \/ ChildDies \/ LoopRebuilt
    PROVE  BoxInv'
BY NoPlanOfNone DEF SendHeartbeat, Changes, ChildDies, LoopRebuilt, applier, disk, Fault,
       BoxInv, PcOK, SettledOK, AsideOK, SwapOK, RestartOK, InForce, HonestMeasures

LEMMA StutterPreserves == ASSUME BoxInv, UNCHANGED boxVars PROVE BoxInv'
BY DEF boxVars, applier, disk, BoxInv, PcOK, SettledOK, AsideOK, SwapOK, RestartOK, InForce, HonestMeasures

LEMMA StepPreserves ==
    ASSUME ~DiskFails, BoxInv, [BoxNext]_boxVars
    PROVE  BoxInv'
<1>1. CASE Once
  BY <1>1, FetchPreserves, InstallPreserves, RestartPreserves, RecoverPreserves, SavePreserves,
     RevivePreserves, CyclePreserves, OutsidePreserves DEF Once
<1>2. CASE (\E r \in Revisions : Changes(r)) \/ ChildDies \/ LoopRebuilt
  BY <1>2, OutsidePreserves
<1>3. CASE UNCHANGED boxVars
  BY <1>3, StutterPreserves
<1> QED BY <1>1, <1>2, <1>3 DEF BoxNext

\* With a disk that works, no probe result is ever filed under another target
\* than the one its probe went to (RevisionApplier.apply, installConfig, recover,
\* Revive; probes through the socks ports of the running child).
THEOREM MeasuresAreHonest == ASSUME ~DiskFails PROVE BoxSpec => []HonestMeasures
<1>1. BoxInit => BoxInv
  BY InitEstablishes
<1>2. BoxInv /\ [BoxNext]_boxVars => BoxInv'
  BY StepPreserves
<1>3. BoxInv => HonestMeasures
  BY DEF BoxInv
<1> QED BY <1>1, <1>2, <1>3, PTL DEF BoxSpec

(* The flags of the box, and the rest of its type. *)
Flags == need \in BOOLEAN /\ lastErr \in BOOLEAN /\ xrayDown \in BOOLEAN

BoxPlaces ==
    /\ current \in Revisions
    /\ PcOK
    /\ new \in Maybe /\ doc \in Maybe
    /\ xrayJson \in Maybe /\ prev \in Maybe /\ child \in Maybe
    /\ new # None <=> pc \in {"test", "install", "restart", "recover", "save"}
    /\ appliedRevision \in Documents
    /\ pc = "restart" => xrayJson = new
    /\ pc = "recover" => child = None
    /\ faults \in 0..MaxFaults /\ edits \in 0..MaxEdits

DownWithTargets == xrayDown => Plan(doc) # <<>>

LEMMA FlagsKept == ASSUME Flags, [BoxNext]_boxVars PROVE Flags'
<1> USE Zenon DEF Flags
<1>1. CASE Fetches \/ FetchFails \/ NotDue
  BY <1>1 DEF Fetches, FetchFails, NotDue, Idle, applier
<1>2. CASE Test \/ InstallEmpty \/ Install
  BY <1>2 DEF Test, InstallEmpty, Install, Goes, Refused, Unmoved, applier
<1>3. CASE Restart \/ Recover
  BY <1>3 DEF Restart, Recover, Goes, Refused, Unmoved, applier
<1>4. CASE Save
  BY <1>4 DEF Save, DownAfterApply, Refused, Unmoved
<1>5. CASE Revive
  BY <1>5 DEF Revive, Beaten
<1>6. CASE Cycle \/ SendHeartbeat
  BY <1>6 DEF Cycle, SendHeartbeat, Beaten, applier
<1>7. CASE (\E r \in Revisions : Changes(r)) \/ ChildDies \/ LoopRebuilt
  BY <1>7 DEF Changes, ChildDies, LoopRebuilt, applier
<1>8. CASE UNCHANGED boxVars
  BY <1>8 DEF boxVars, applier
<1> QED BY <1>1, <1>2, <1>3, <1>4, <1>5, <1>6, <1>7, <1>8 DEF BoxNext, Once

LEMMA PlacesKept == ASSUME BoxPlaces, [BoxNext]_boxVars PROVE BoxPlaces'
<1> USE ConfigApplyAssumption DEF BoxPlaces, PcOK, Maybe, Documents
<1>1. CASE Fetches \/ FetchFails \/ NotDue
  BY <1>1 DEF Fetches, FetchFails, NotDue, Idle, applier, disk, Fault
<1>2. CASE Test \/ InstallEmpty \/ Install
  BY <1>2 DEF Test, InstallEmpty, Install, Goes, Fails, Refused, Unmoved, applier, disk, Fault
<1>3. CASE Restart
  BY <1>3 DEF Restart, Goes, Fails, Unmoved, applier, disk, Fault
<1>4. CASE Recover
  BY <1>4 DEF Recover, Restored, Comes, Stays, Refused, Unmoved, disk, Fault
<1>5. CASE Save
  BY <1>5 DEF Save, Refused, Unmoved, disk, Fault
<1>6. CASE Revive
  BY <1>6 DEF Revive, Dead, Comes, Stays, Beaten, disk, Fault
<1>7. CASE Cycle \/ SendHeartbeat
  BY <1>7 DEF Cycle, SendHeartbeat, Beaten, applier, disk, Fault
<1>8. CASE (\E r \in Revisions : Changes(r)) \/ ChildDies \/ LoopRebuilt
  BY <1>8 DEF Changes, ChildDies, LoopRebuilt, applier, disk, Fault
<1>9. CASE UNCHANGED boxVars
  BY <1>9 DEF boxVars, applier, disk
<1> QED BY <1>1, <1>2, <1>3, <1>4, <1>5, <1>6, <1>7, <1>8, <1>9 DEF BoxNext, Once

LEMMA DownKept == ASSUME DownWithTargets, [BoxNext]_boxVars PROVE DownWithTargets'
<1> USE Zenon DEF DownWithTargets
<1>1. CASE Fetches \/ FetchFails \/ NotDue
  BY <1>1 DEF Fetches, FetchFails, NotDue, Idle, applier
<1>2. CASE Test \/ InstallEmpty \/ Install
  BY <1>2 DEF Test, InstallEmpty, Install, Goes, Refused, Unmoved, applier
<1>3. CASE Restart \/ Recover
  BY <1>3 DEF Restart, Recover, Goes, Refused, Unmoved, applier
<1>4. CASE Save
  BY <1>4 DEF Save, DownAfterApply, Refused, Unmoved
<1>5. CASE Revive
  BY <1>5 DEF Revive, Dead, Beaten
<1>6. CASE Cycle \/ SendHeartbeat
  BY <1>6 DEF Cycle, SendHeartbeat, Beaten, applier
<1>7. CASE (\E r \in Revisions : Changes(r)) \/ ChildDies \/ LoopRebuilt
  BY <1>7 DEF Changes, ChildDies, LoopRebuilt, applier
<1>8. CASE UNCHANGED boxVars
  BY <1>8 DEF boxVars, applier
<1> QED BY <1>1, <1>2, <1>3, <1>4, <1>5, <1>6, <1>7, <1>8 DEF BoxNext, Once

(* What the box keeps is of its type also where the disk fails: the child is *)
(* only missed while the document in force has xray targets, recover begins  *)
(* without a child, and the child is restarted on what was just installed    *)
(* (RevisionApplier.Apply, installConfig, recover, Revive).                  *)
THEOREM BoxTypeCorrect == BoxSpec => []BoxTypeOK
<1>1. BoxInit => Flags
  BY Zenon DEF BoxInit, Flags
<1>2. BoxInit => BoxPlaces
  BY ConfigApplyAssumption DEF BoxInit, BoxPlaces, PcOK, Maybe, Documents
<1>3. BoxInit => DownWithTargets
  BY Zenon DEF BoxInit, DownWithTargets
<1>4. Flags /\ BoxPlaces /\ DownWithTargets => BoxTypeOK
  BY DEF Flags, BoxPlaces, PcOK, DownWithTargets, BoxTypeOK
<1> QED BY <1>1, <1>2, <1>3, <1>4, FlagsKept, PlacesKept, DownKept, PTL DEF BoxSpec

-----------------------------------------------------------------------------
(* The panel and the target rows, for any inbounds, hops, contents and      *)
(* vocabularies, and also where polls and rebuilds overlap, rebuilds fail   *)
(* and the chain changes within a poll: no history is lost that the panel   *)
(* did not take away.                                                       *)
(*                                                                         *)
(* A row is deleted on the word of a reading that may be old by then: the   *)
(* material's chain or what a heartbeat read of it.  Whatever such a        *)
(* reading does not serve was not served when it was read, and `left`       *)
(* remembers it.                                                            *)

(* What these hops do not serve the panel did not serve once. *)
Unserved(hops)   == {k \in Keys : k[2] \notin Served(hops)}
Remembered(hops) == Unserved(hops) \subseteq left

(* Every reading of the chain that a row may be deleted by. *)
PanelRead == Remembered(panel.hops)
PollRead  == poll.at # "idle" => Remembered(poll.st.hops)
MatRead   == mat # Nothing => Remembered(mat.hops)
BeatRead  == beat.excl.known => \A k \in Keys : k[2] \notin beat.excl.served => k \in left

(* SyncPaths has material to go by. *)
MatThere == poll.at \in {"accepted", "read", "stored"} => mat # Nothing

Vocab    == SUBSET ({"direct", "hops"} \union Hops)
MaybeDoc == (SUBSET Keys) \union {Nothing}
MaybeMat == Material \union {Nothing}
Reading  == Contents \union {Nothing}

PollPlace == {"idle", "state", "ensured", "saved", "synced", "accepted", "read", "stored"}

BeatSet == [at : {"idle", "keys", "exclusions", "answer", "fetch"}, keys : SUBSET Keys, excl : Exclusions]
PollSet == [at : PollPlace, st : Reading, rev : Reading, vocab : Vocab]
BuildSet == [at : {"idle", "due", "read"}, mat : MaybeMat, vocab : Vocab]

TypeOK ==
    /\ panel \in Contents /\ left \in SUBSET Keys
    /\ inbs \in [Inbounds -> {"none", "on", "off"}]
    /\ mat \in MaybeMat
    /\ vocab \in Vocab /\ document \in MaybeDoc /\ applied \in SUBSET Keys
    /\ rows \in [Keys -> {"none", "open", "inbound", "config"}]
    /\ poll \in PollSet
    /\ poll.at # "idle" => poll.st \in Contents /\ poll.rev \in Contents
    /\ build \in BuildSet
    /\ build.at = "read" => build.mat # Nothing
    /\ beat \in BeatSet
    /\ beat.at = "fetch" => document # Nothing
    /\ events \in 0..MaxEvents

IInv == TypeOK /\ PanelRead /\ PollRead /\ MatRead /\ BeatRead /\ MatThere

-----------------------------------------------------------------------------
(* What the operators of the model return *)

USE SyncAssumption DEF PollSet, BuildSet, BeatSet

LEMMA ServedPaths ==
    ASSUME NEW hops \in SUBSET Hops
    PROVE  Served(hops) \in SUBSET Paths
BY DEF Served, Paths

LEMMA ContentParts ==
    ASSUME NEW c \in Contents
    PROVE  /\ c.inb \in [Inbounds -> {"on", "off", "gone"}] /\ c.hops \in SUBSET Hops
           /\ c.override \in BOOLEAN /\ c # Nothing
BY DEF Content

LEMMA MaterialParts ==
    ASSUME NEW m \in Material
    PROVE  /\ m.rev \in Contents /\ m.hops \in SUBSET Hops /\ m.override \in BOOLEAN
BY DEF Material

LEMMA ExpandedPaths ==
    ASSUME NEW v \in Vocab, NEW m \in Material
    PROVE  ExpandPaths(v, m) \in SUBSET Paths
BY MaterialParts, ServedPaths DEF ExpandPaths, Vocab, Paths

(* A document is a set of target keys. *)
LEMMA BuildsDocument ==
    ASSUME NEW v \in Vocab, NEW m \in Material
    PROVE  Build(v, m) \in SUBSET Keys
<1>1. \A p \in ExpandPaths(v, m) : Items(m, p) \in SUBSET Keys
  BY ExpandedPaths DEF Items, Keys
<1> QED BY <1>1 DEF Build

LEMMA DocumentKeys ==
    ASSUME NEW d \in SUBSET Keys
    PROVE  d # Nothing /\ d \in MaybeDoc /\ KeySet(d) = d
BY DEF MaybeDoc, KeySet

(* What a heartbeat reads of the targets outside the document. *)
LEMMA ExclusionsRead ==
    ASSUME IInv
    PROVE  /\ ExclusionsNow \in Exclusions
           /\ ExclusionsNow.known => \A k \in Keys : k[2] \notin ExclusionsNow.served => k \in left
<1>1. CASE mat = Nothing
  BY <1>1 DEF ExclusionsNow, Unknown, Exclusions
<1>2. CASE mat # Nothing
  <2>1. mat \in Material
    BY <1>2 DEF IInv, TypeOK, MaybeMat
  <2> DEFINE now == [known |-> TRUE, served |-> Served(mat.hops), paths |-> ExpandPaths(vocab, mat),
                     override |-> mat.override, on |-> {i \in Inbounds : inbs[i] = "on"}]
  <2>2. ExclusionsNow = now
    BY <1>2 DEF ExclusionsNow
  <2>3. now \in Exclusions
    BY <2>1, MaterialParts, ServedPaths, ExpandedPaths DEF IInv, TypeOK, Exclusions
  <2>4. now.served = Served(mat.hops)
    OBVIOUS
  <2> QED BY <1>2, <2>2, <2>3, <2>4 DEF IInv, MatRead, Remembered, Unserved
<1> QED BY <1>1, <1>2

(* Rows keep their states, and a row that is there keeps being there unless    *)
(* the heartbeat's keys and exclusions say otherwise.                          *)
States == {"none", "open", "inbound", "config"}

LEMMA Reconciles ==
    ASSUME NEW r \in [Keys -> States], NEW keys \in SUBSET Keys, NEW rejected, NEW x,
           NEW results
    PROVE  /\ RetirePaused(r, keys) \in [Keys -> States]
           /\ ReconcilePauses(r, keys, rejected, x) \in [Keys -> States]
           /\ ApplyLive(r, results) \in [Keys -> States]
           /\ \A k \in Keys : r[k] # "none" /\ inbs[k[1]] # "none" => RetirePaused(r, keys)[k] # "none"
           /\ \A k \in Keys : r[k] # "none" /\ ~Retired(x, k)
                => ReconcilePauses(r, keys, rejected, x)[k] # "none"
           /\ \A k \in Keys : r[k] # "none" => ApplyLive(r, results)[k] # "none"
<1> DEFINE rec == Reconcilable(r, keys, rejected, x)
<1>1. /\ rec \in [Keys -> States]
      /\ \A k \in Keys : r[k] # "none" /\ ~Retired(x, k) => rec[k] # "none"
  BY DEF Reconcilable, States
<1> HIDE DEF rec
<1>2. /\ ReconcilePauses(r, keys, rejected, x) \in [Keys -> States]
      /\ \A k \in Keys : rec[k] # "none" => ReconcilePauses(r, keys, rejected, x)[k] # "none"
  BY <1>1 DEF ReconcilePauses, States, rec
<1> QED BY <1>1, <1>2 DEF RetirePaused, ApplyLive, States

-----------------------------------------------------------------------------
(* What the panel took away stays remembered *)

LEMMA StillRemembered ==
    ASSUME NEW hops, Remembered(hops), left \subseteq left'
    PROVE  Remembered(hops)'
BY DEF Remembered, Unserved

LEMMA InitKeeps == Init => IInv
<1> SUFFICES ASSUME Init PROVE IInv
  OBVIOUS
<1>1. TypeOK
  <2>1. /\ poll \in PollSet
        /\ poll.at # "idle" => poll.st \in Contents /\ poll.rev \in Contents
    BY DEF Init, NoPoll, Reading, Vocab, PollPlace
  <2>2. /\ build \in BuildSet
        /\ build.at = "read" => build.mat # Nothing
    BY DEF Init, NoBuild, MaybeMat, Vocab
  <2>3. /\ beat \in BeatSet
        /\ beat.at = "fetch" => document # Nothing
    BY DEF Init, NoBeat, Unknown, Exclusions
  <2> QED BY <2>1, <2>2, <2>3 DEF Init, TypeOK, MaybeMat, MaybeDoc, Vocab
<1>2. PanelRead
  BY DEF Init, PanelRead, Remembered, Unserved
<1> QED BY <1>1, <1>2 DEF Init, IInv, PollRead, MatRead, BeatRead, MatThere, NoPoll, NoBeat, Unknown

LEMMA PanelChangesKeeps == ASSUME IInv, NEW c \in Contents, PanelChanges(c) PROVE IInv'
<1>1. TypeOK'
  BY DEF IInv, TypeOK, PanelChanges, Event, db
<1>2. left \subseteq left' /\ Remembered(c.hops)'
  BY DEF PanelChanges, Remembered, Unserved
<1>3. PanelRead' /\ PollRead' /\ MatRead' /\ BeatRead' /\ MatThere'
  BY <1>2 DEF IInv, PanelChanges, PanelRead, PollRead, MatRead, BeatRead, MatThere, Remembered, Unserved
<1> QED BY <1>1, <1>3 DEF IInv

(* Steps of the poll that neither touch the rows nor accept material. *)
LEMMA PollReads ==
    ASSUME IInv, PollState \/ ProbeEnsure
    PROVE  IInv'
<1>1. TypeOK'
  <2>1. CASE PollState
    <3>1. poll' = [at |-> "state", st |-> panel, rev |-> panel, vocab |-> {}]
      BY <2>1 DEF PollState, HandleState, NoPoll
    <3> QED BY <2>1, <3>1 DEF IInv, TypeOK, PollState, Reading, Vocab, PollPlace, env, db
  <2>2. CASE ProbeEnsure
    <3>1. PICK rev \in HandleEnsure : poll' = [poll EXCEPT !.at = "ensured", !.rev = rev]
      BY <2>2 DEF ProbeEnsure
    <3>2. poll.st \in Contents /\ rev \in Contents
      BY <2>2, <3>1 DEF IInv, TypeOK, ProbeEnsure, HandleEnsure
    <3>3. /\ poll' \in PollSet
          /\ poll'.st = poll.st /\ poll'.rev = rev
      BY <3>1, <3>2 DEF IInv, TypeOK, Reading, PollPlace
    <3> QED BY <2>2, <3>2, <3>3 DEF IInv, TypeOK, ProbeEnsure, env, db
  <2> QED BY <2>1, <2>2
<1>2. PanelRead' /\ PollRead' /\ MatRead' /\ BeatRead' /\ MatThere'
  BY DEF IInv, TypeOK, PollState, ProbeEnsure, HandleState, NoPoll, env, db,
         PanelRead, PollRead, MatRead, BeatRead, MatThere, Remembered, Unserved
<1> QED BY <1>1, <1>2 DEF IInv

LEMMA PollEnds ==
    ASSUME IInv, KeepMaterial \/ DiscardMaterial \/ PollFails \/ ApplyStateFails
    PROVE  IInv'
<1>1. TypeOK'
  BY DEF IInv, TypeOK, KeepMaterial, DiscardMaterial, PollFails, ApplyStateFails, Event, NoPoll,
         Reading, Vocab, PollPlace, env, db
<1>2. PanelRead' /\ PollRead' /\ MatRead' /\ BeatRead' /\ MatThere'
  BY DEF IInv, TypeOK, KeepMaterial, DiscardMaterial, PollFails, ApplyStateFails, NoPoll, env, db,
         PanelRead, PollRead, MatRead, BeatRead, MatThere, Remembered, Unserved
<1> QED BY <1>1, <1>2 DEF IInv

LEMMA SavesInbounds == ASSUME IInv, SavePanelInbounds \/ SyncInbounds PROVE IInv'
<1>1. poll.st \in Contents
  BY DEF IInv, TypeOK, SavePanelInbounds, SyncInbounds
<1>2. Synced(poll.st) \in [Keys -> {"none", "open", "inbound", "config"}]
  BY DEF IInv, TypeOK, Synced
<1>3. TypeOK'
  BY <1>1, <1>2, ContentParts DEF IInv, TypeOK, SavePanelInbounds, SyncInbounds, PollPlace, env, db
<1>4. PanelRead' /\ PollRead' /\ MatRead' /\ BeatRead' /\ MatThere'
  BY DEF IInv, TypeOK, SavePanelInbounds, SyncInbounds, env,
         PanelRead, PollRead, MatRead, BeatRead, MatThere, Remembered, Unserved
<1> QED BY <1>3, <1>4 DEF IInv

LEMMA AcceptKeeps == ASSUME IInv, AcceptMaterial PROVE IInv'
<1> DEFINE fresh == [rev |-> poll.rev, hops |-> poll.st.hops, override |-> poll.st.override]
<1>1. poll.st \in Contents /\ poll.rev \in Contents
  BY DEF IInv, TypeOK, AcceptMaterial
<1>2. fresh \in Material /\ mat' = fresh
  BY <1>1, ContentParts DEF Material, AcceptMaterial
<1>3. TypeOK'
  BY <1>2 DEF IInv, TypeOK, AcceptMaterial, MaybeMat, PollPlace, env, db
<1>4. mat' # Nothing => Remembered(mat'.hops)
  BY <1>2 DEF IInv, AcceptMaterial, PollRead
<1>5. mat' # Nothing
  BY <1>2 DEF AcceptMaterial
<1>6. PanelRead' /\ PollRead' /\ MatRead' /\ BeatRead' /\ MatThere'
  BY <1>4, <1>5 DEF IInv, TypeOK, AcceptMaterial, env, PanelRead, PollRead, MatRead, BeatRead, MatThere,
                    Remembered, Unserved
<1> QED BY <1>3, <1>6 DEF IInv

(* Rebuilds store documents, and nothing else. *)
LEMMA RebuildKeeps ==
    ASSUME IInv, RebuildAllReads \/ RebuildAllStores \/ RebuildReads \/ RebuildStores
    PROVE  IInv'
<1>1. TypeOK'
  <2>1. CASE RebuildAllReads
    BY <2>1 DEF IInv, TypeOK, RebuildAllReads, PollPlace, env, db
  <2>2. CASE RebuildAllStores
    <3>1. poll.vocab \in Vocab /\ mat \in Material
      BY <2>2 DEF IInv, TypeOK, MatThere, MaybeMat, RebuildAllStores
    <3>2. document' \in SUBSET Keys /\ document' # Nothing
      BY <2>2, <3>1, BuildsDocument, DocumentKeys DEF RebuildAllStores
    <3> QED BY <2>2, <3>2 DEF IInv, TypeOK, RebuildAllStores, MaybeDoc, PollPlace, env
  <2>3. CASE RebuildReads
    BY <2>3 DEF IInv, TypeOK, RebuildReads, NoBuild, MaybeMat, Vocab, env, db
  <2>4. CASE RebuildStores
    <3>1. build.vocab \in Vocab /\ build.mat \in Material
      BY <2>4 DEF IInv, TypeOK, MaybeMat, RebuildStores
    <3>2. document' \in SUBSET Keys /\ document' # Nothing
      BY <2>4, <3>1, BuildsDocument, DocumentKeys DEF RebuildStores
    <3> QED BY <2>4, <3>2 DEF IInv, TypeOK, RebuildStores, NoBuild, MaybeDoc, MaybeMat, Vocab, env
  <2> QED BY <2>1, <2>2, <2>3, <2>4
<1>2. PanelRead' /\ PollRead' /\ MatRead' /\ BeatRead' /\ MatThere'
  BY DEF IInv, TypeOK, RebuildAllReads, RebuildAllStores, RebuildReads, RebuildStores, env, db,
         PanelRead, PollRead, MatRead, BeatRead, MatThere, Remembered, Unserved
<1> QED BY <1>1, <1>2 DEF IInv

LEMMA UpdateKeeps == ASSUME IInv, NEW v \in Vocabularies, Update(v) PROVE IInv'
<1>1. TypeOK'
  BY DEF IInv, TypeOK, Update, Event, NoBuild, MaybeMat, Vocab, env
<1>2. PanelRead' /\ PollRead' /\ MatRead' /\ BeatRead' /\ MatThere'
  BY DEF IInv, TypeOK, Update, env, PanelRead, PollRead, MatRead, BeatRead, MatThere, Remembered, Unserved
<1> QED BY <1>1, <1>2 DEF IInv

LEMMA SyncPathsKeeps == ASSUME IInv, SyncPaths PROVE IInv'
<1>1. TypeOK'
  BY DEF IInv, TypeOK, SyncPaths, NoPoll, Reading, Vocab, PollPlace, env
<1>2. PanelRead' /\ PollRead' /\ MatRead' /\ BeatRead' /\ MatThere'
  BY DEF IInv, TypeOK, SyncPaths, NoPoll, env,
         PanelRead, PollRead, MatRead, BeatRead, MatThere, Remembered, Unserved
<1> QED BY <1>1, <1>2 DEF IInv

(* A heartbeat that is begun or goes on to its answer knows no exclusions. *)
Places == {"idle", "keys", "exclusions", "answer", "fetch"}

LEMMA PlainBeat ==
    ASSUME NEW b \in BeatSet, NEW at \in Places
    PROVE  /\ [b EXCEPT !.at = at] \in BeatSet
           /\ [b EXCEPT !.at = at].at = at
           /\ [b EXCEPT !.at = at].excl = b.excl
BY DEF Places

LEMMA BeatBegins ==
    ASSUME NEW b \in BeatSet, NEW keys \in SUBSET Keys,
           NEW c, c = [b EXCEPT !.at = "keys", !.keys = keys]
    PROVE  c \in BeatSet /\ c.at = "keys" /\ c.excl = b.excl
OBVIOUS

LEMMA NoBeatIsPlain == NoBeat \in BeatSet /\ NoBeat.at = "idle" /\ ~NoBeat.excl.known
<1>1. Unknown \in Exclusions /\ ~Unknown.known
  BY DEF Unknown, Exclusions
<1> QED BY <1>1 DEF NoBeat

(* A heartbeat may build the missing document, and deletes rows by what it read. *)
LEMMA TargetKeysKeeps == ASSUME IInv, TargetKeys PROVE IInv'
<1> HIDE DEF BeatSet
<1>1. document' \in MaybeDoc /\ KeySet(document') \in SUBSET Keys /\ (document # Nothing => document' # Nothing)
  <2>1. CASE document = Nothing /\ mat # Nothing
    <3>1. Build(vocab, mat) \in SUBSET Keys
      BY <2>1, BuildsDocument DEF IInv, TypeOK, MaybeMat
    <3> QED BY <2>1, <3>1, DocumentKeys DEF TargetKeys
  <2>2. CASE ~(document = Nothing /\ mat # Nothing)
    BY <2>2 DEF TargetKeys, IInv, TypeOK, MaybeDoc, KeySet
  <2> QED BY <2>1, <2>2
<1>2. /\ beat' \in BeatSet
      /\ beat'.at = "keys" /\ ~beat'.excl.known
  <2> DEFINE b == [NoBeat EXCEPT !.at = "keys", !.keys = KeySet(document')]
  <2>1. b \in BeatSet /\ b.at = "keys" /\ b.excl = NoBeat.excl
    <3>1. PICK keys \in SUBSET Keys : keys = KeySet(document')
      BY <1>1
    <3> QED BY <3>1, BeatBegins, NoBeatIsPlain
  <2>2. beat' = b
    BY DEF TargetKeys
  <2> QED BY <2>1, <2>2, NoBeatIsPlain
<1>3. TypeOK'
  BY <1>1, <1>2 DEF IInv, TypeOK, BeatSet, TargetKeys, env
<1>4. PanelRead' /\ PollRead' /\ MatRead' /\ BeatRead' /\ MatThere'
  BY <1>2 DEF IInv, TypeOK, BeatSet, TargetKeys, env,
         PanelRead, PollRead, MatRead, BeatRead, MatThere, Remembered, Unserved
<1> QED BY <1>3, <1>4 DEF IInv

LEMMA ReadExclusionsKeeps == ASSUME IInv, ReadExclusions PROVE IInv'
<1>1. beat' = [beat EXCEPT !.at = "exclusions", !.excl = ExclusionsNow]
  BY DEF ReadExclusions
<1>2. /\ beat' \in BeatSet
      /\ beat'.at = "exclusions" /\ beat'.excl = ExclusionsNow
  BY <1>1, ExclusionsRead DEF IInv, TypeOK
<1>3. TypeOK'
  BY <1>2 DEF IInv, TypeOK, ReadExclusions, env, db
<1>4. BeatRead'
  BY <1>2, ExclusionsRead DEF BeatRead, ReadExclusions, env
<1>5. PanelRead' /\ PollRead' /\ MatRead' /\ MatThere'
  BY DEF IInv, ReadExclusions, env, PanelRead, PollRead, MatRead, MatThere, Remembered, Unserved
<1> QED BY <1>3, <1>4, <1>5 DEF IInv

LEMMA HeartbeatKeeps == ASSUME IInv, Heartbeat PROVE IInv'
<1> HIDE DEF BeatSet
<1> DEFINE rejected == beat.keys \intersect applied \intersect Broken
           results  == KeepKnown(applied \ Broken, beat.keys)
           retired  == RetirePaused(rows, beat.keys)
           settled  == ReconcilePauses(retired, beat.keys, rejected, beat.excl)
<1>1. rows' = ApplyLive(settled, results)
  BY DEF Heartbeat
<1> HIDE DEF rejected, results
<1>2. rows \in [Keys -> States] /\ beat.keys \in SUBSET Keys
  BY DEF IInv, TypeOK, BeatSet, States
<1>3. retired \in [Keys -> States]
  BY <1>2, Reconciles
<1> HIDE DEF retired
<1>4. settled \in [Keys -> States]
  BY <1>2, <1>3, Reconciles
<1> HIDE DEF settled
<1>5. rows' \in [Keys -> States]
  BY <1>1, <1>2, <1>4, Reconciles
<1>6. /\ beat' \in BeatSet
      /\ beat'.at = "answer" /\ ~beat'.excl.known
  BY PlainBeat, NoBeatIsPlain DEF Heartbeat, Places
<1>7. TypeOK'
  BY <1>5, <1>6 DEF IInv, TypeOK, BeatSet, Heartbeat, States, env
<1>8. PanelRead' /\ PollRead' /\ MatRead' /\ BeatRead' /\ MatThere'
  BY <1>6 DEF IInv, Heartbeat, env, PanelRead, PollRead, MatRead, BeatRead, MatThere, Remembered, Unserved
<1> QED BY <1>7, <1>8 DEF IInv

LEMMA AnswerKeeps == ASSUME IInv, RevisionFor \/ FetchAndApply \/ BeatFails PROVE IInv'
<1> HIDE DEF BeatSet
<1>1. beat' = NoBeat \/ (beat' = [NoBeat EXCEPT !.at = "fetch"] /\ document # Nothing)
  BY DEF RevisionFor, FetchAndApply, BeatFails
<1>2. /\ beat' \in BeatSet
      /\ beat'.at = "fetch" => document # Nothing
      /\ ~beat'.excl.known
  <2> DEFINE b == [NoBeat EXCEPT !.at = "fetch"]
  <2>1. "fetch" \in Places
    BY DEF Places
  <2>2. b \in BeatSet /\ b.at = "fetch" /\ b.excl = NoBeat.excl
    BY <2>1, PlainBeat, NoBeatIsPlain, Zenon
  <2>3. beat' = NoBeat \/ (beat' = b /\ document # Nothing)
    BY <1>1
  <2> QED BY <2>2, <2>3, NoBeatIsPlain
<1>3. applied' \in SUBSET Keys
  BY DEF IInv, TypeOK, MaybeDoc, RevisionFor, FetchAndApply, BeatFails
<1>4. TypeOK'
  BY <1>2, <1>3 DEF IInv, TypeOK, BeatSet, RevisionFor, FetchAndApply, BeatFails, Event, env, db
<1>5. PanelRead' /\ PollRead' /\ MatRead' /\ BeatRead' /\ MatThere'
  BY <1>2 DEF IInv, RevisionFor, FetchAndApply, BeatFails, env, db,
         PanelRead, PollRead, MatRead, BeatRead, MatThere, Remembered, Unserved
<1> QED BY <1>4, <1>5 DEF IInv

LEMMA CrashKeeps == ASSUME IInv, Crash PROVE IInv'
<1>1. TypeOK'
  <2>1. poll' \in PollSet /\ poll'.at = "idle"
    BY DEF Crash, NoPoll, PollPlace, Reading, Vocab
  <2>2. build' \in BuildSet /\ build'.at = "idle"
    BY DEF Crash, NoBuild, MaybeMat, Vocab
  <2>3. /\ beat' \in BeatSet
        /\ beat'.at = "idle"
    BY DEF Crash, NoBeat, Unknown, Exclusions
  <2> QED BY <2>1, <2>2, <2>3 DEF IInv, TypeOK, Crash, Event, MaybeMat, env, db
<1>2. PanelRead' /\ PollRead' /\ MatRead' /\ BeatRead' /\ MatThere'
  BY DEF IInv, Crash, NoPoll, NoBeat, Unknown, env, PanelRead, PollRead, MatRead, BeatRead, MatThere,
         Remembered, Unserved
<1> QED BY <1>1, <1>2 DEF IInv

LEMMA StutterKeeps == ASSUME IInv, UNCHANGED vars PROVE IInv'
BY DEF vars, env, db, IInv, TypeOK, PanelRead, PollRead, MatRead, BeatRead, MatThere, Remembered, Unserved

LEMMA StepKeeps == IInv /\ [Next]_vars => IInv'
<1> SUFFICES ASSUME IInv, [Next]_vars PROVE IInv'
  OBVIOUS
<1>1. CASE \E c \in Contents : PanelChanges(c)
  BY <1>1, PanelChangesKeeps
<1>2. CASE PollStep \/ PollFails \/ ApplyStateFails
  BY <1>2, PollReads, PollEnds, SavesInbounds, AcceptKeeps, RebuildKeeps, SyncPathsKeeps DEF PollStep
<1>3. CASE \E v \in Vocabularies : Update(v)
  BY <1>3, UpdateKeeps
<1>4. CASE RebuildStep
  BY <1>4, RebuildKeeps DEF RebuildStep
<1>5. CASE BeatStep \/ BeatFails
  BY <1>5, TargetKeysKeeps, ReadExclusionsKeeps, HeartbeatKeeps, AnswerKeeps DEF BeatStep
<1>6. CASE Crash
  BY <1>6, CrashKeeps
<1>7. CASE UNCHANGED vars
  BY <1>7, StutterKeeps
<1> QED BY <1>1, <1>2, <1>3, <1>4, <1>5, <1>6, <1>7 DEF Next

LEMMA Always == Spec => []IInv
BY InitKeeps, StepKeeps, PTL DEF Spec

(* The poll, the builder, the engine and the box keep their types, whatever     *)
(* overlaps, fails or changes.                                                  *)
THEOREM TypeCorrect == Spec => []TypeOK
<1>1. IInv => TypeOK
  BY DEF IInv
<1> QED BY <1>1, Always, PTL

(* A row of a recorded inbound is deleted only if the panel once took its       *)
(* inbound or its path away: by SyncPaths on the material's chain, or by a      *)
(* heartbeat on the chain it read.  (SyncPaths, retirePaused, reconcilePauses)  *)
THEOREM HistoryIsKept == Spec => HistoryKept
<1>1. ASSUME IInv, [Next]_vars, NEW k \in Keys \ left, rows[k] # "none", inbs[k[1]] # "none"
      PROVE  rows'[k] # "none"
  <2>1. CASE SyncInbounds
    BY <1>1, <2>1 DEF SyncInbounds, Synced
  <2>2. CASE SyncPaths
    <3>1. Remembered(mat.hops)
      BY <1>1, <2>2 DEF IInv, MatThere, MatRead, SyncPaths
    <3> QED BY <1>1, <2>2, <3>1 DEF SyncPaths, Remembered, Unserved
  <2>3. CASE Heartbeat
    <3> DEFINE rejected == beat.keys \intersect applied \intersect Broken
               results  == KeepKnown(applied \ Broken, beat.keys)
               retired  == RetirePaused(rows, beat.keys)
               settled  == ReconcilePauses(retired, beat.keys, rejected, beat.excl)
    <3>1. rows' = ApplyLive(settled, results)
      BY <2>3 DEF Heartbeat
    <3> HIDE DEF rejected, results
    <3>2. rows \in [Keys -> States] /\ beat.keys \in SUBSET Keys /\ ~Retired(beat.excl, k)
      BY <1>1 DEF IInv, TypeOK, States, BeatRead, Retired
    <3>3. retired \in [Keys -> States] /\ retired[k] # "none"
      BY <1>1, <3>2, Reconciles
    <3> HIDE DEF retired
    <3>4. settled \in [Keys -> States] /\ settled[k] # "none"
      BY <3>2, <3>3, Reconciles
    <3> HIDE DEF settled
    <3> QED BY <3>1, <3>2, <3>4, Reconciles
  <2>4. CASE UNCHANGED rows
    BY <1>1, <2>4
  <2>5. SyncInbounds \/ SyncPaths \/ Heartbeat \/ UNCHANGED rows
    BY <1>1 DEF Next, PollStep, RebuildStep, BeatStep, PanelChanges, PollFails, ApplyStateFails, Update,
                BeatFails, Crash, PollState, ProbeEnsure, SavePanelInbounds, KeepMaterial,
                DiscardMaterial, AcceptMaterial, RebuildAllReads, RebuildAllStores, RebuildReads,
                RebuildStores, TargetKeys, ReadExclusions, RevisionFor, FetchAndApply, vars, db
  <2> QED BY <2>1, <2>2, <2>3, <2>4, <2>5
<1>2. IInv /\ [Next]_vars =>
        [\A k \in Keys \ left : rows[k] # "none" /\ inbs[k[1]] # "none" => rows'[k] # "none"]_vars
  BY <1>1
<1> QED BY <1>2, Always, PTL DEF Spec, HistoryKept
===============================================================================
