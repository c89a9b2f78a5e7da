------------------------------- MODULE PanelCall -------------------------------
(***************************************************************************)
(* One call of mon-server to the panel that carries rows: POST /events of   *)
(* the outbox and POST /stats of the aggregates.  The client                *)
(* (internal/panel/client.go) sends the same bytes up to 1 + MaxRetries     *)
(* times, reads an error out of each answer and waits between attempts; the *)
(* panel (internal/panel/paneltest/stub.go) validates the elements one by   *)
(* one and files the good ones; the two callers (flush in                   *)
(* internal/panel/poller.go, Flush in internal/state/stats.go) settle their *)
(* rows by what the call returned.                                          *)
(*                                                                         *)
(* Between the two the connection may fail before or after the panel has    *)
(* handled a request, an attempt may time out with the request still on its *)
(* way, and something else may answer: a proxy, a login page, a panel       *)
(* without monitoring.  What such a stranger answers may be refused by the  *)
(* client, or look like an acceptance: a bare 200, a 204 or any JSON object *)
(* is one, and no mon-server can tell.  PanelLink and StatsBuckets take a call for one step *)
(* with one answer; PanelAnswer says what that step promises.               *)
(***************************************************************************)
EXTENDS Integers, Sequences

CONSTANTS
    Elements,    \* the rows, numbered in the order they are sent in
    Valid,       \* those the panel's validation accepts
    BatchSize,   \* maxEventsPerBatch and maxStatsPerBatch, the panel's limit too
    MaxRetries,  \* maxRetries (3)
    MaxChanges,  \* bound: switches of the panel
    MaxFaults    \* bound: answers that are lost, late or not the panel's; crashes

ASSUME PanelCallAssumption ==
    /\ Elements \subseteq Nat /\ Valid \subseteq Elements
    /\ BatchSize \in Nat \ {0} /\ MaxRetries \in Nat
    /\ MaxChanges \in Nat /\ MaxFaults \in Nat

VARIABLES
    enabled,     \* the panel answers at all (monEnabled and the token)
    legacy,      \* it is one from before per-element answers
    filed,       \* the events and aggregates it holds, of each route
    place,       \* where a row of mon-server is
    at,          \* where the call is
    route, batch, attempt,
    answer,      \* what came back on the last attempt
    flying,      \* requests whose sender has hung up
    asked,       \* history: every element that was sent
    refused,     \* history: elements of batches somebody answered 4xx
    unjudged,    \* history: elements of batches nobody judged: a bare 404, a foreign body
    stranger,    \* history: the last answer was not written by the panel
    vouched,     \* history: rows settled as accepted by the answer of a stranger
    changes, faults

panel   == <<enabled, legacy>>
request == <<route, batch>>
history == <<asked, refused, unjudged, stranger, vouched>>
vars == <<panel, filed, place, at, request, attempt, answer, flying, history, changes, faults>>

Route == {"events", "stats"}
ToSetOf(seq) == {seq[i] : i \in DOMAIN seq}

\* What an attempt may bring: an HTTP status and the kind of its body, or no status.
Answer(status, body) == [status |-> status, body |-> body, rejected |-> {}]
NoAnswer  == Answer(0, "none")
Reset     == Answer(0, "reset")      \* the connection fails
Timeout   == Answer(0, "timeout")    \* requestTimeout fires
Untrusted == Answer(0, "untrusted")  \* the certificate has no known root
Bare404   == Answer(404, "empty")
Empty200  == Answer(200, "empty")
NoContent == Answer(204, "empty")
InvalidBody == Answer(400, "error")

Fault  == faults < MaxFaults /\ faults' = faults + 1
Change == changes < MaxChanges /\ changes' = changes + 1

-----------------------------------------------------------------------------
(* The panel *)

\* validateEvent, validatePath: the elements refused, with index and, for events, id.
Rejected(r, b) ==
    { [index |-> i - 1, id |-> IF r = "events" THEN b[i] ELSE -1]
        : i \in {j \in DOMAIN b : b[j] \notin Valid} }

\* A panel of before decision #50 files a batch whole or not at all.
RefusesWhole(r, b) == legacy /\ Rejected(r, b) # {}

HandleEvents(b) == [filed EXCEPT !["events"] = @ \cup (ToSetOf(b) \cap Valid)]

\* An aggregate replaces the one with its key.
HandleStats(b) == [filed EXCEPT !["stats"] = @ \cup (ToSetOf(b) \cap Valid)]

\* writeBatchResult
BatchResult(r, b) ==
    IF legacy THEN Empty200 ELSE [Answer(200, "result") EXCEPT !.rejected = Rejected(r, b)]

\* serve: a panel without monitoring does not say that it is there.
ServedAnswer(r, b) ==
    IF ~enabled THEN Bare404
    ELSE IF RefusesWhole(r, b) THEN InvalidBody
    ELSE BatchResult(r, b)

ServedFiled(r, b) ==
    IF ~enabled \/ RefusesWhole(r, b) THEN filed
    ELSE IF r = "events" THEN HandleEvents(b) ELSE HandleStats(b)

-----------------------------------------------------------------------------
(* The client *)

\* emptyMeansAccepted: a bare 200, an older panel's or anybody's.
EmptyMeansAccepted(a) == a.body = "empty"

\* readAPIError: only the contract's error body makes a 404 an answer.
ReadAPIError(a) == a.body = "error"

\* attempt: the error of one round trip.
Error(a) ==
    CASE a.status = 0   -> "net"
      [] a.status = 200 -> IF a.body = "result" \/ EmptyMeansAccepted(a) THEN "nil"
                           ELSE IF a.body = "cut" THEN "net"
                           ELSE "badBody"
      [] a.status = 204 -> "nil"
      [] a.status = 404 -> IF ReadAPIError(a) THEN "api" ELSE "notFound"
      [] OTHER -> "api"

\* IsRetryable: a transport failure or a 5xx.
IsRetryable(a) == Error(a) = "net" \/ (Error(a) = "api" /\ a.status >= 500)

\* IsUnknownAuthority: it would be asked in vain.
IsUnknownAuthority(a) == a.body = "untrusted"

\* Mutant: positions are counted from one.
RejectionsFromOne(b, rejected, byId) ==
    { i \in DOMAIN b : \E x \in rejected :
        IF byId /\ x.id # -1 THEN b[i] = x.id ELSE x.index = i }

\* Rejections: an entry is placed by its id where there are ids, else by its index.
Rejections(b, rejected, byId) ==
    { i \in DOMAIN b : \E x \in rejected :
        IF byId /\ x.id # -1 THEN b[i] = x.id ELSE x.index = i - 1 }

-----------------------------------------------------------------------------
(* A call *)

Queued(r) == {e \in Elements : place[r][e] = "queued"}

\* The oldest rows of the queue, in their order.
IsNextBatch(r, b) ==
    /\ \A i, j \in DOMAIN b : i < j => b[i] < b[j]
    /\ \A e \in Queued(r) \ ToSetOf(b) :
           Len(b) = BatchSize /\ \A i \in DOMAIN b : b[i] < e

\* flush, Flush and the marshalling of PostEvents and PostStats.
Ask(r) ==
    /\ at = "idle"
    /\ \E n \in 1..BatchSize : \E b \in [1..n -> Queued(r)] :
           IsNextBatch(r, b) /\ batch' = b
    /\ route' = r
    /\ attempt' = 0 /\ at' = "sent"
    /\ asked' = [asked EXCEPT ![r] = @ \cup ToSetOf(batch')]
    /\ UNCHANGED <<panel, filed, place, answer, flying, refused, unjudged, stranger, vouched,
                   changes, faults>>

\* What is said of a batch, by the panel or by a stranger.
Heard(a, who) ==
    /\ answer' = a /\ at' = "answered"
    /\ stranger' = (who = "stranger")
    /\ refused' = IF a.status \in 400..499 /\ a # Bare404
                  THEN [refused EXCEPT ![route] = @ \cup ToSetOf(batch)] ELSE refused
    /\ unjudged' = IF a.body = "foreign" \/ a = Bare404
                   THEN [unjudged EXCEPT ![route] = @ \cup ToSetOf(batch)] ELSE unjudged

Serve ==
    /\ at = "sent"
    /\ Heard(ServedAnswer(route, batch), "panel")
    /\ filed' = ServedFiled(route, batch)
    /\ UNCHANGED <<panel, place, request, attempt, flying, asked, vouched, changes, faults>>

\* FailNext, FailNextOn, FailNextOnWith: an error, the panel's or a proxy's own.
Fails ==
    \E a \in {Bare404, InvalidBody, Answer(404, "error"), Answer(403, "foreign"),
              Answer(500, "error")} : Heard(a, "stranger")

\* BadBodyNext: a login page or a proxy's own answers 200.
BadBody == Heard(Answer(200, "foreign"), "stranger")

\* Something that is not the panel answers what reads as an acceptance: nothing at
\* all, no content, or a JSON object that lists no rejections.
Approves == \E a \in {Empty200, NoContent, Answer(200, "result")} : Heard(a, "stranger")

\* DropNext: nobody answers.
Drops == \E a \in {Reset, Untrusted} : Heard(a, "stranger")

\* Instead of the panel, which does not see the request.
Intercept ==
    /\ at = "sent"
    /\ Fault
    /\ Fails \/ BadBody \/ Approves \/ Drops
    /\ UNCHANGED <<panel, filed, place, request, attempt, flying, asked, vouched, changes>>

\* SleepNext: the client hangs up with its request on the way.
HangUp ==
    /\ at = "sent"
    /\ Fault
    /\ Heard(Timeout, "nobody")
    /\ flying' = flying \cup {[route |-> route, batch |-> batch]}
    /\ UNCHANGED <<panel, filed, place, request, attempt, asked, vouched, changes>>

\* The panel has handled the request; its answer is lost or ends in the middle.
LoseAnswer ==
    /\ at = "answered" /\ answer.status # 0
    /\ Fault
    /\ \/ answer' = Reset
       \/ /\ answer.body \in {"result", "error"}
          /\ answer' = Answer(answer.status, "cut")
    /\ UNCHANGED <<panel, filed, place, at, request, attempt, flying, history, changes>>

\* An abandoned request reaches the panel all the same.
ServeLate(q) ==
    /\ flying' = flying \ {q}
    /\ filed' = ServedFiled(q.route, q.batch)
    /\ UNCHANGED <<panel, place, at, request, attempt, answer, history, changes, faults>>

\* do: only what is retryable is repeated, MaxRetries times.
Repeats == IsRetryable(answer) /\ ~IsUnknownAuthority(answer) /\ attempt < MaxRetries

Attempted ==
    /\ at = "answered"
    /\ at' = IF Repeats THEN "waiting" ELSE "returned"
    /\ UNCHANGED <<panel, filed, place, request, attempt, answer, flying, history, changes, faults>>

Retry ==
    /\ at = "waiting"
    /\ attempt' = attempt + 1 /\ at' = "sent"
    /\ UNCHANGED <<panel, filed, place, request, answer, flying, history, changes, faults>>

\* The wait is cut short by shutdown or by the cycle's deadline: the failure it
\* followed is returned.
CutShort ==
    /\ at = "waiting"
    /\ Fault
    /\ at' = "returned"
    /\ UNCHANGED <<panel, filed, place, request, attempt, answer, flying, history, changes>>

-----------------------------------------------------------------------------
(* What the callers make of it *)

Placed(ids, where) ==
    place' = [place EXCEPT ![route] =
                 [e \in Elements |-> IF e \in ids THEN where ELSE @[e]]]

RejectedIds ==
    {batch[i] : i \in Rejections(batch, answer.rejected, route = "events")}

\* markSent and markDropped: what was not rejected is sent.  They are two writes, and
\* the second may fail.
MarkAccepted ==
    \/ place' = [place EXCEPT ![route] =
                    [e \in Elements |-> IF e \notin ToSetOf(batch) THEN @[e]
                                        ELSE IF e \in RejectedIds THEN "dropped" ELSE "sent"]]
    \/ Placed(ToSetOf(batch) \ RejectedIds, "sent")

\* Mutant: events are given up by the rule for aggregates.
GivesUpEventsUnjudged == Error(answer) # "nil" /\ ~IsRetryable(answer)

\* flush gives an event batch up for a 4xx with the contract's body.
GivesUpEvents == Error(answer) = "api" /\ ~IsRetryable(answer)

\* Flush gives a batch of aggregates up for anything not worth a retry.
GivesUpStats == Error(answer) # "nil" /\ ~IsRetryable(answer)

GivesUp == IF route = "events" THEN GivesUpEvents ELSE GivesUpStats

Return ==
    /\ at = "returned"
    /\ IF Error(answer) = "nil" THEN MarkAccepted
       ELSE IF GivesUp THEN Placed(ToSetOf(batch), "dropped")
       ELSE UNCHANGED place
    /\ vouched' = IF Error(answer) = "nil" /\ stranger
                  THEN [vouched EXCEPT ![route] = @ \cup ToSetOf(batch)] ELSE vouched
    /\ at' = "idle" /\ answer' = NoAnswer /\ route' = "none" /\ batch' = <<>> /\ attempt' = 0
    /\ stranger' = FALSE
    /\ UNCHANGED <<panel, filed, flying, asked, refused, unjudged, changes, faults>>

\* The rows are not marked, or mon-server stops: with a request on its way, perhaps.
Crash ==
    /\ at # "idle"
    /\ Fault
    /\ flying' = IF at = "sent" THEN flying \cup {[route |-> route, batch |-> batch]} ELSE flying
    /\ at' = "idle" /\ answer' = NoAnswer /\ route' = "none" /\ batch' = <<>> /\ attempt' = 0
    /\ stranger' = FALSE
    /\ UNCHANGED <<panel, filed, place, asked, refused, unjudged, vouched, changes>>

-----------------------------------------------------------------------------

\* Monitoring is switched, the token with it; the panel is updated or rolled back.
SetMonEnabled ==
    /\ Change
    /\ enabled' = ~enabled
    /\ UNCHANGED <<legacy, filed, place, at, request, attempt, answer, flying, history, faults>>

SetLegacyAnswers ==
    /\ Change
    /\ legacy' = ~legacy
    /\ UNCHANGED <<enabled, filed, place, at, request, attempt, answer, flying, history, faults>>

Init ==
    /\ enabled = TRUE /\ legacy \in BOOLEAN
    /\ filed = [r \in Route |-> {}]
    /\ place = [r \in Route |-> [e \in Elements |-> "queued"]]
    /\ at = "idle" /\ route = "none" /\ batch = <<>> /\ attempt = 0 /\ answer = NoAnswer
    /\ flying = {}
    /\ asked = [r \in Route |-> {}] /\ refused = [r \in Route |-> {}]
    /\ unjudged = [r \in Route |-> {}]
    /\ stranger = FALSE /\ vouched = [r \in Route |-> {}]
    /\ changes = 0 /\ faults = 0

Client == (\E r \in Route : Ask(r)) \/ Attempted \/ Retry \/ Return

Next ==
    \/ Client \/ CutShort \/ Crash
    \/ Serve \/ Intercept \/ HangUp \/ LoseAnswer
    \/ \E q \in flying : ServeLate(q)
    \/ SetMonEnabled \/ SetLegacyAnswers

Spec == Init /\ [][Next]_vars

-----------------------------------------------------------------------------
(* Properties *)

\* A row says the truth, whatever happened on its way: one that is sent is held by
\* the panel, or the very answer that settled it was an acceptance by something that
\* is not the panel, which mon-server cannot tell; an event is given up only if the
\* panel rejects it or its batch was refused whole, an aggregate also if something
\* answered that never judged it (flush and Flush; client.go, do, attempt and
\* Rejections).
TrueVerdicts ==
    \A r \in Route, e \in Elements :
        /\ place[r][e] = "sent" => e \in filed[r] \cup vouched[r]
        /\ place[r][e] = "dropped" =>
               \/ e \notin Valid \/ e \in refused[r]
               \/ r = "stats" /\ e \in unjudged[r]

\* "Only what it accepted is sent" (poller.go:934-937), "it" being the panel.  Broken
\* by whatever else answers an acceptance.
SentIsFiled == \A r \in Route, e \in Elements : place[r][e] = "sent" => e \in filed[r]

\* What the answer says to the caller of its batch.
Says(a) ==
    CASE Error(a) = "nil" -> IF stranger THEN "mistaken" ELSE "accepted"
      [] Error(a) \in {"badBody", "notFound"} -> "neutral"
      [] Error(a) = "api" /\ ~IsRetryable(a) -> "refused"
      [] OTHER -> "silent"

TheCall == IF at = "idle" THEN [route |-> "none", batch |-> {}]
           ELSE [route |-> route, batch |-> ToSetOf(batch)]

TheAnswer == IF at # "returned" THEN [says |-> "none", rejected |-> {}]
             ELSE [says |-> Says(answer),
                   rejected |-> IF Error(answer) = "nil" THEN RejectedIds ELSE {}]

Ledger == INSTANCE PanelAnswer WITH call <- TheCall, answer <- TheAnswer

\* However often a call was repeated, lost, cut or answered by somebody else, what
\* it returns is one answer of PanelAnswer: if the panel wrote it, an acceptance of
\* everything but what the panel rejects, or no word on what it filed; there is no
\* other acceptance but one written by a stranger.
CallSpec == Ledger!Spec
===============================================================================
