------------------------------ MODULE CycleLedger ------------------------------
(***************************************************************************)
(* What the heartbeat protocol promises about probe cycles, without         *)
(* sequence numbers, files or messages.  A cycle is made once; mon-server   *)
(* files it at most once, either in full or with its successes only; the    *)
(* mon-client lets go of it only when it is filed, or when the buffer is    *)
(* full and it is the oldest one held.                                      *)
(***************************************************************************)
EXTENDS Integers

VARIABLES
    made,      \* how many cycles were probed; they are numbered 1..made
    held,      \* the cycles the mon-client still owes
    full,      \* the cycles filed with their failures
    part       \* the cycles filed with their successes only

vars == <<made, held, full, part>>

Init == made = 0 /\ held = {} /\ full = {} /\ part = {}

\* A cycle is probed; a full buffer may give up its oldest one.
Make(evicted) ==
    /\ made' = made + 1
    /\ evicted \subseteq held \cup {made + 1}
    /\ \A e \in evicted, h \in (held \cup {made + 1}) \ evicted : e < h
    /\ held' = (held \cup {made + 1}) \ evicted
    /\ UNCHANGED <<full, part>>

\* One heartbeat files cycles nobody filed before.
File(verified, unverified) ==
    /\ verified \cup unverified \subseteq 1..made
    /\ verified \cap unverified = {}
    /\ (verified \cup unverified) \cap (full \cup part) = {}
    /\ full' = full \cup verified
    /\ part' = part \cup unverified
    /\ UNCHANGED <<made, held>>

\* An acknowledgement releases filed cycles and no others.
Release(acked) ==
    /\ acked \subseteq held \cap (full \cup part)
    /\ held' = held \ acked
    /\ UNCHANGED <<made, full, part>>

Next ==
    \/ \E evicted \in SUBSET (held \cup {made + 1}) : Make(evicted)
    \/ \E verified, unverified \in SUBSET (1..made) : File(verified, unverified)
    \/ \E acked \in SUBSET held : Release(acked)

Spec == Init /\ [][Next]_vars
==============================================================================
