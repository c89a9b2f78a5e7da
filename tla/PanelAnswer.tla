------------------------------ MODULE PanelAnswer ------------------------------
(***************************************************************************)
(* What mon-server may take a POST /events or POST /stats to be, without    *)
(* attempts, statuses, bodies or indices.  One call is made at a time.  The *)
(* panel files valid elements it was asked to file, now or later, whatever  *)
(* the caller hears.  An acceptance names the elements it rejects; all the  *)
(* others are filed by then, and no valid one is rejected.  Every other     *)
(* answer says nothing of what was filed; one of them, "mistaken", is what  *)
(* something that is not the panel says when it sounds like an acceptance.  *)
(* The caller settles its rows by the answer, or not at all.  PanelCall     *)
(* implements it.                                                          *)
(***************************************************************************)
CONSTANTS
    Elements,  \* the rows of events_outbox and of stats_buckets
    Valid      \* those of them the panel's validation accepts

VARIABLES
    call,      \* the call in progress: its route and the elements of its batch
    answer,    \* what was answered to it
    asked,     \* the elements that were ever sent, of each route
    filed,     \* the elements the panel holds
    place      \* where a row is: "queued", "sent" or "dropped"

vars == <<call, answer, asked, filed, place>>

Route    == {"events", "stats"}
NoCall   == [route |-> "none", batch |-> {}]
NoAnswer == [says |-> "none", rejected |-> {}]

Init ==
    /\ call = NoCall /\ answer = NoAnswer
    /\ asked = [r \in Route |-> {}] /\ filed = [r \in Route |-> {}]
    /\ place = [r \in Route |-> [e \in Elements |-> "queued"]]

Ask(r, batch) ==
    /\ call = NoCall
    /\ batch # {} /\ \A e \in batch : place[r][e] = "queued"
    /\ call' = [route |-> r, batch |-> batch]
    /\ asked' = [asked EXCEPT ![r] = @ \cup batch]
    /\ UNCHANGED <<answer, filed, place>>

File(r, new) ==
    /\ new \subseteq asked[r] \cap Valid
    /\ filed' = [filed EXCEPT ![r] = @ \cup new]
    /\ UNCHANGED <<call, answer, asked, place>>

Accept(rejected) ==
    /\ call # NoCall /\ answer = NoAnswer
    /\ rejected \subseteq call.batch \ Valid
    /\ call.batch \ rejected \subseteq filed[call.route]
    /\ answer' = [says |-> "accepted", rejected |-> rejected]
    /\ UNCHANGED <<call, asked, filed, place>>

Fail(says) ==
    /\ call # NoCall /\ answer = NoAnswer
    /\ answer' = [says |-> says, rejected |-> {}]
    /\ UNCHANGED <<call, asked, filed, place>>

\* A batch that was refused is given up; one nobody judged is given up if it is one
\* of aggregates, and kept otherwise.
Settled(e) ==
    CASE answer.says = "accepted" -> IF e \in answer.rejected THEN "dropped" ELSE "sent"
      [] answer.says = "mistaken" -> "sent"
      [] answer.says = "refused"  -> "dropped"
      [] answer.says = "neutral"  -> IF call.route = "stats" THEN "dropped" ELSE "queued"
      [] OTHER -> "queued"

\* A write may fail: the rows it was for stay where they are.
Settle(written) ==
    /\ call # NoCall /\ answer # NoAnswer
    /\ place' = [place EXCEPT ![call.route] =
                    [e \in Elements |-> IF e \in written THEN Settled(e) ELSE @[e]]]
    /\ call' = NoCall /\ answer' = NoAnswer
    /\ UNCHANGED <<asked, filed>>

Forget ==
    /\ call' = NoCall /\ answer' = NoAnswer
    /\ UNCHANGED <<asked, filed, place>>

Next ==
    \/ \E r \in Route, batch \in SUBSET Elements : Ask(r, batch) \/ File(r, batch)
    \/ \E rejected \in SUBSET Elements : Accept(rejected)
    \/ \E says \in {"silent", "neutral", "refused", "mistaken"} : Fail(says)
    \/ \E written \in SUBSET call.batch : Settle(written)
    \/ Forget

Spec == Init /\ [][Next]_vars
===============================================================================
