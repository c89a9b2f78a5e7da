------------------------------ MODULE ConfigApply ------------------------------
(***************************************************************************)
(* How a mon-client takes a config document into use and keeps probing by   *)
(* it: Loop.Once fetches it when it is due, RevisionApplier                 *)
(* (internal/client/app/apply.go) tests it, installs it as xray.json,       *)
(* restarts the xray child (internal/client/xray/process.go), records the   *)
(* revision in state.json and swaps the probe set; before every cycle       *)
(* Revive brings a dead child back.                                         *)
(*                                                                         *)
(* A document is named by its revision.  An xray target is probed through   *)
(* the socks port of its place in the generated config: port i of a child   *)
(* leads to the i-th accepted target of the document the child was started  *)
(* on, whichever document the box believes it is.                           *)
(***************************************************************************)
EXTENDS Integers, Sequences

CONSTANTS
    Revisions,       \* documents mon-server may have
    Empty,           \* the document a box runs on while mon-server has none
    Links,           \* the xray targets of a document, in its order
    Confs,           \* its AWG targets
    Bad,             \* the targets that do not parse
    Fate,            \* of a document: "fine", "untestable" or "unstartable"
    DiskFails,       \* may renaming xray.json or saving state.json fail?
    Restarts,        \* may the loop be built anew: a crash, or disabled and enabled?
    MaxFaults,       \* bound: failed requests, tests, starts, writes, dead children, restarts
    MaxEdits,        \* bound: changes of mon-server's document
    None

Documents == Revisions \cup {Empty}

ASSUME ConfigApplyAssumption ==
    /\ None \notin Documents /\ Empty \notin Revisions /\ Revisions # {}
    /\ Fate \in [Documents -> {"fine", "untestable", "unstartable"}] /\ Fate[Empty] = "fine"
    /\ Links[Empty] = <<>> /\ Confs[Empty] = {}
    /\ DiskFails \in BOOLEAN /\ Restarts \in BOOLEAN
    /\ MaxFaults \in Nat /\ MaxEdits \in Nat

VARIABLES
    current,         \* mon-server's document
    need,            \* Loop.needConfig
    pc, new,         \* where the iteration is; the document being applied
    doc,             \* RevisionApplier.doc, and the probes, ports and rejections made of it
    lastErr, xrayDown,
    appliedRevision, \* of state.json, in the file and in memory
    xrayJson, prev,  \* what the files xray.json and xray.json.prev were made from
    child,           \* what the running xray was started on
    measured,        \* the last cycle: <<target, the target its probe went to>>
    faults, edits

applier == <<doc, lastErr, xrayDown, appliedRevision>>
disk    == <<xrayJson, prev>>
boxVars == <<current, need, pc, new, applier, disk, child, measured, faults, edits>>

\* parseDoc and socksPorts: target Plan(d)[i] is behind port i.
Plan(d) == IF d = None THEN <<>> ELSE SelectSeq(Links[d], LAMBDA t : t \notin Bad)
Awgs(d) == IF d = None THEN {} ELSE Confs[d] \ Bad

Maybe == {None} \cup Documents

BoxTypeOK ==
    /\ current \in Revisions
    /\ need \in BOOLEAN /\ lastErr \in BOOLEAN /\ xrayDown \in BOOLEAN
    /\ pc \in {"tick", "test", "install", "restart", "recover", "save", "revive", "cycle", "beat"}
    /\ new \in Maybe /\ doc \in Maybe
    /\ xrayJson \in Maybe /\ prev \in Maybe /\ child \in Maybe
    /\ new # None <=> pc \in {"test", "install", "restart", "recover", "save"}
    /\ appliedRevision \in Documents
    /\ pc = "restart" => xrayJson = new
    /\ pc = "recover" => child = None
    /\ xrayDown => Plan(doc) # <<>>
    /\ faults \in 0..MaxFaults /\ edits \in 0..MaxEdits

BoxInit ==
    /\ current \in Revisions
    /\ need = TRUE /\ pc = "tick" /\ new = None
    /\ doc = None /\ lastErr = FALSE /\ xrayDown = FALSE /\ appliedRevision = Empty
    /\ xrayJson = None /\ prev = None /\ child = None
    /\ measured = {}
    /\ faults = 0 /\ edits = 0

Fault == faults < MaxFaults /\ faults' = faults + 1

\* A failure of something that works for document d by itself.
Fails(d, when) == IF d \in Documents /\ Fate[d] = when THEN UNCHANGED faults ELSE Fault

-----------------------------------------------------------------------------
(* Fetching *)

Idle == UNCHANGED <<current, applier, disk, child, measured, edits>>

Fetches ==
    /\ pc = "tick" /\ need
    /\ need' = FALSE /\ new' = current /\ pc' = "test"
    /\ Idle /\ UNCHANGED faults

\* GET /v1/config fails, or mon-server has no document yet: a box that has
\* applied nothing applies the empty one, the fetch stays due.
FetchFails ==
    /\ pc = "tick" /\ need
    /\ Fault
    /\ IF doc = None THEN new' = Empty /\ pc' = "test" ELSE new' = None /\ pc' = "revive"
    /\ Idle /\ UNCHANGED need

NotDue ==
    /\ pc = "tick" /\ ~need
    /\ pc' = "revive"
    /\ Idle /\ UNCHANGED <<need, new, faults>>

-----------------------------------------------------------------------------
(* Applying *)

Unmoved == UNCHANGED <<current, need, measured, edits>>

\* Apply reports the error and nothing else of the applier changes.
Refused ==
    /\ lastErr' = TRUE /\ pc' = "revive" /\ new' = None
    /\ UNCHANGED <<doc, xrayDown, appliedRevision>>

Goes(to) == pc' = to /\ UNCHANGED <<new, applier>>

\* `xray -test` on a temporary file.
Test ==
    /\ pc = "test"
    /\ \/ Fate[new] # "untestable" /\ Goes("install") /\ UNCHANGED faults
       \/ Fails(new, "untestable") /\ Refused
    /\ Unmoved /\ UNCHANGED <<disk, child>>

\* A document without xray targets stops the child, then replaces the file.
InstallEmpty ==
    /\ pc = "install" /\ Plan(new) = <<>>
    /\ child' = None
    /\ \/ xrayJson' = new /\ Goes("save") /\ UNCHANGED faults
       \/ DiskFails /\ Fault /\ Refused /\ UNCHANGED xrayJson
    /\ Unmoved /\ UNCHANGED prev

\* The file is kept aside and replaced; a rename that fails is put right,
\* unless that fails too.
Install ==
    /\ pc = "install" /\ Plan(new) # <<>>
    /\ \/ prev' = xrayJson /\ xrayJson' = new /\ Goes("restart") /\ UNCHANGED faults
       \/ /\ DiskFails /\ Fault /\ Refused
          /\ \/ UNCHANGED disk
             \/ prev' = xrayJson /\ xrayJson' = None
    /\ Unmoved /\ UNCHANGED child

\* Process.Start is satisfied by a child that listens on the ports it waits
\* for, whatever is behind them.
Listens(d, ports) == d # None /\ Fate[d] # "unstartable" /\ Len(Plan(d)) >= Len(ports)

Restart ==
    /\ pc = "restart"
    /\ \/ /\ Listens(new, Plan(new))
          /\ child' = new /\ prev' = None /\ Goes("save") /\ UNCHANGED faults
       \/ /\ Fails(new, "unstartable")
          /\ child' = None /\ Goes("recover") /\ UNCHANGED prev
    /\ Unmoved /\ UNCHANGED xrayJson

\* Process.Restart on xray.json as it is now, for the ports of the revision in force.
Comes(d) == Listens(d, Plan(doc)) /\ child' = d /\ UNCHANGED faults
Stays(d) == (IF Listens(d, Plan(doc)) THEN Fault ELSE UNCHANGED faults) /\ child' = None

\* Mutant: the file of the revision that failed stays.
NotRestored == xrayJson

\* What recover leaves as xray.json.
Restored == prev

\* recover: the previous file, and the child on it if the revision in force has ports.
Recover ==
    /\ pc = "recover"
    /\ \/ /\ prev # None
          /\ xrayJson' = Restored /\ prev' = None
          /\ IF Plan(doc) = <<>> THEN UNCHANGED <<child, faults>>
             ELSE Comes(Restored) \/ Stays(Restored)
       \/ /\ prev = None
          /\ UNCHANGED <<disk, child, faults>>
       \/ /\ prev # None /\ DiskFails /\ Fault
          /\ UNCHANGED <<disk, child>>
    /\ Refused /\ Unmoved

\* The child was just started on this revision, or the revision needs none.
DownAfterApply == FALSE

\* appliedRevision is recorded, and then the probe set is swapped.
Save ==
    /\ pc = "save"
    /\ \/ /\ appliedRevision' = new /\ doc' = new
          /\ lastErr' = FALSE /\ xrayDown' = DownAfterApply
          /\ pc' = "revive" /\ new' = None /\ UNCHANGED faults
       \/ appliedRevision # new /\ DiskFails /\ Fault /\ Refused
    /\ Unmoved /\ UNCHANGED <<disk, child>>

-----------------------------------------------------------------------------
(* Probing *)

Beaten == UNCHANGED <<current, need, new, doc, lastErr, appliedRevision, disk, edits>>

\* Mutant: a box that reports a configError already waits for the next revision.
DeadUntold == Plan(doc) # <<>> /\ child = None /\ ~lastErr

\* Revive has something to do.
Dead == Plan(doc) # <<>> /\ child = None

Revive ==
    /\ pc = "revive"
    /\ pc' = "cycle"
    /\ IF Dead THEN \/ Comes(xrayJson) /\ xrayDown' = FALSE
                    \/ Stays(xrayJson) /\ xrayDown' = TRUE
       ELSE /\ xrayDown' = (xrayDown /\ Plan(doc) = <<>>)
            /\ UNCHANGED <<child, faults>>
    /\ Beaten /\ UNCHANGED measured

\* Where the probe through port i ends up.
Behind(i) == IF i \in DOMAIN Plan(child) THEN Plan(child)[i] ELSE None

\* The xray targets are left out while the child is known to be down.
Probed == IF xrayDown THEN {} ELSE DOMAIN Plan(doc)

Cycle ==
    /\ pc = "cycle"
    /\ pc' = "beat"
    /\ measured' = {<<Plan(doc)[i], Behind(i)>> : i \in Probed} \cup {<<t, t>> : t \in Awgs(doc)}
    /\ Beaten /\ UNCHANGED <<xrayDown, child, faults>>

\* Mutant: a revision that failed is not tried again.
DueUntilTried == current # appliedRevision /\ ~lastErr

\* What the answer makes the loop do next.
Due == current # appliedRevision

\* The heartbeat reports appliedRevision; the answer names mon-server's, if it arrives.
SendHeartbeat ==
    /\ pc = "beat"
    /\ pc' = "tick"
    /\ \/ need' = (need \/ Due) /\ UNCHANGED faults
       \/ Fault /\ UNCHANGED need
    /\ UNCHANGED <<current, new, applier, disk, child, measured, edits>>

-----------------------------------------------------------------------------
(* The environment *)

Changes(r) ==
    /\ r # current /\ edits < MaxEdits
    /\ current' = r /\ edits' = edits + 1
    /\ UNCHANGED <<need, pc, new, applier, disk, child, measured, faults>>

ChildDies ==
    /\ child # None
    /\ Fault
    /\ child' = None
    /\ UNCHANGED <<current, need, pc, new, applier, disk, measured, edits>>

\* A new applier knows no document; state.json still names one.
LoopRebuilt ==
    /\ Restarts
    /\ Fault
    /\ need' = TRUE /\ pc' = "tick" /\ new' = None
    /\ doc' = None /\ lastErr' = FALSE /\ xrayDown' = FALSE
    /\ child' = None /\ measured' = {}
    /\ UNCHANGED <<current, appliedRevision, disk, edits>>

Once ==
    \/ Fetches \/ FetchFails \/ NotDue
    \/ Test \/ InstallEmpty \/ Install \/ Restart \/ Recover \/ Save
    \/ Revive \/ Cycle \/ SendHeartbeat

BoxNext == Once \/ (\E r \in Revisions : Changes(r)) \/ ChildDies \/ LoopRebuilt

\* The loop runs its iterations; a tick always comes.
BoxSpec == BoxInit /\ [][BoxNext]_boxVars /\ WF_boxVars(Once)

-----------------------------------------------------------------------------
(* Properties *)

\* A probe that goes anywhere goes to the target its result is filed under:
\* the child that listens was started on the revision that is in force.
HonestMeasures == \A m \in measured : m[2] \in {None, m[1]}

\* A box does not stay on a document that mon-server has replaced by one that
\* can be applied.  (apply: state.json after the child, before the swap)
LeavesTheOld == <>[](Fate[current] = "fine" => doc \in {current, None})

\* A document that can be applied is, once mon-server keeps it.  (loop.go: "Any
\* other failure leaves whatever is applied in force and retries next iteration
\* too")
Converges == <>[](Fate[current] = "fine" => doc = current)

\* Whatever revision mon-server insists on, a box that applied one ends up
\* with a child running for it in every cycle.
KeepsProbing == <>[](pc = "beat" /\ Plan(doc) # <<>> => child = doc /\ ~xrayDown)
================================================================================
