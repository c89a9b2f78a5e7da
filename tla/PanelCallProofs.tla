---------------------------- MODULE PanelCallProofs ----------------------------
(***************************************************************************)
(* What a call returns is true, for any number of rows, retries, faults and *)
(* switches of the panel.                                                  *)
(*                                                                         *)
(* The argument is what an answer on its way is evidence of.  An acceptance *)
(* was written by the panel, when it had filed the valid elements of this   *)
(* batch, and its list is that of the invalid ones, or by a stranger, and   *)
(* then it lists nothing; a 4xx or a foreign body was heard of this batch.  *)
(* No later step takes that back: the panel forgets nothing it filed, and a *)
(* lost answer becomes one that asserts nothing.                            *)
(***************************************************************************)
EXTENDS PanelCall, TLAPS

USE DEF ToSetOf, Answer, NoAnswer, Bare404, Empty200, NoContent, InvalidBody, Reset, Timeout, Untrusted

Places   == {"queued", "sent", "dropped"}
Statuses == {0, 200, 204, 400, 403, 404, 500}
Bodies   == {"none", "reset", "timeout", "untrusted", "empty", "error", "foreign", "cut", "result"}

IsBatch(b) == DOMAIN b \subseteq Int /\ \A i \in DOMAIN b : b[i] \in Elements

TypeOK ==
    /\ enabled \in BOOLEAN /\ legacy \in BOOLEAN
    /\ filed \in [Route -> SUBSET Elements] /\ asked \in [Route -> SUBSET Elements]
    /\ refused \in [Route -> SUBSET Elements] /\ unjudged \in [Route -> SUBSET Elements]
    /\ vouched \in [Route -> SUBSET Elements] /\ stranger \in BOOLEAN
    /\ place \in [Route -> [Elements -> Places]]
    /\ at \in {"idle", "sent", "answered", "waiting", "returned"}
    /\ IsBatch(batch)
    /\ answer.status \in Statuses /\ answer.body \in Bodies
    /\ answer = [status |-> answer.status, body |-> answer.body, rejected |-> answer.rejected]

\* A call in progress is of rows that are in the queue.
CallOK ==
    /\ at # "idle" => /\ route \in Route
                      /\ DOMAIN batch # {}
                      /\ ToSetOf(batch) \subseteq Queued(route) \cap asked[route]
    /\ at = "waiting" => IsRetryable(answer)

\* Only what was sent is filed, or on its way.
AskedOK ==
    /\ \A r \in Route : filed[r] \subseteq asked[r] \cap Valid
    /\ \A q \in flying : q.route \in Route /\ ToSetOf(q.batch) \subseteq asked[q.route]

\* What an answer is evidence of.
Evidence ==
    at \in {"answered", "waiting", "returned"} =>
        /\ stranger => answer.rejected = {}
        /\ answer.status = 204 => stranger
        /\ ~stranger /\ answer.body = "result" =>
               /\ answer.status = 200
               /\ answer.rejected = Rejected(route, batch)
               /\ ToSetOf(batch) \cap Valid \subseteq filed[route]
        /\ answer.status = 200 => answer.body \in {"result", "empty", "foreign", "cut"}
        /\ ~stranger /\ answer.status = 200 /\ answer.body = "empty" =>
               answer.rejected = {} /\ ToSetOf(batch) \subseteq filed[route]
        /\ answer.status \in {400, 403, 404} /\ answer # Bare404 =>
               ToSetOf(batch) \subseteq refused[route]
        /\ answer.body = "foreign" \/ answer = Bare404 =>
               ToSetOf(batch) \subseteq unjudged[route]

IInv == TypeOK /\ CallOK /\ AskedOK /\ Evidence /\ TrueVerdicts

-----------------------------------------------------------------------------
(* What the helpers of a call return *)

\* The list of a panel names exactly the elements it does not accept, and each
\* caller reads it back: flush by the ids, Flush by the positions.
LEMMA RejectionsAreInvalid ==
    ASSUME NEW r \in Route, NEW b, IsBatch(b), NEW i \in DOMAIN b
    PROVE  i \in Rejections(b, Rejected(r, b), r = "events") <=> b[i] \notin Valid
<1>1. ASSUME b[i] \notin Valid
      PROVE  i \in Rejections(b, Rejected(r, b), r = "events")
  <2> DEFINE x == [index |-> i - 1, id |-> IF r = "events" THEN b[i] ELSE -1]
  <2>1. x \in Rejected(r, b)
    BY <1>1 DEF Rejected
  <2>2. b[i] # -1
    BY PanelCallAssumption DEF IsBatch
  <2>3. IF r = "events" /\ x.id # -1 THEN b[i] = x.id ELSE x.index = i - 1
    BY <2>2
  <2> QED BY <2>1, <2>3 DEF Rejections
<1>2. ASSUME i \in Rejections(b, Rejected(r, b), r = "events")
      PROVE  b[i] \notin Valid
  <2>1. PICK x \in Rejected(r, b) :
            IF r = "events" /\ x.id # -1 THEN b[i] = x.id ELSE x.index = i - 1
    BY <1>2 DEF Rejections
  <2>2. PICK j \in DOMAIN b :
            /\ b[j] \notin Valid
            /\ x = [index |-> j - 1, id |-> IF r = "events" THEN b[j] ELSE -1]
    BY <2>1 DEF Rejected
  <2>3. b[j] # -1 /\ i \in Int /\ j \in Int
    BY PanelCallAssumption DEF IsBatch
  <2>4. CASE r = "events"
    BY <2>1, <2>2, <2>3, <2>4
  <2>5. CASE r # "events"
    <3>1. i = j
      BY <2>1, <2>2, <2>3, <2>5
    <3> QED BY <3>1, <2>2
  <2> QED BY <2>4, <2>5
<1> QED BY <1>1, <1>2

\* After an acceptance by the panel the rows left out of the list are held by it, and
\* those in it are invalid.
LEMMA AcceptanceIsTrue ==
    ASSUME IInv, at \in {"answered", "returned"}, Error(answer) = "nil", ~stranger
    PROVE  /\ RejectedIds \subseteq ToSetOf(batch) \ Valid
           /\ ToSetOf(batch) \ RejectedIds \subseteq filed[route]
<1>1. route \in Route /\ IsBatch(batch)
  BY DEF IInv, TypeOK, CallOK
<1>2. CASE answer.body = "result"
  <2>1. answer.rejected = Rejected(route, batch) /\ ToSetOf(batch) \cap Valid \subseteq filed[route]
    BY <1>2 DEF IInv, Evidence
  <2>2. \A i \in DOMAIN batch :
            i \in Rejections(batch, answer.rejected, route = "events") <=> batch[i] \notin Valid
    BY <1>1, <2>1, RejectionsAreInvalid
  <2>3. Rejections(batch, answer.rejected, route = "events") \subseteq DOMAIN batch
    BY DEF Rejections
  <2> QED BY <2>1, <2>2, <2>3 DEF RejectedIds
<1>3. CASE answer.body # "result"
  <2>1. answer.status = 200 /\ answer.body = "empty"
    BY <1>3 DEF Error, EmptyMeansAccepted, IInv, TypeOK, Statuses, Evidence
  <2>2. answer.rejected = {} /\ ToSetOf(batch) \subseteq filed[route]
    BY <2>1 DEF IInv, Evidence
  <2>3. RejectedIds = {}
    BY <2>2 DEF RejectedIds, Rejections
  <2> QED BY <2>2, <2>3
<1> QED BY <1>2, <1>3

\* An acceptance by a stranger lists nothing.
LEMMA StrangersListNothing ==
    ASSUME IInv, at \in {"answered", "returned"}, stranger
    PROVE  RejectedIds = {}
BY DEF IInv, Evidence, RejectedIds, Rejections

\* A batch is given up for what was heard of it.
LEMMA GivenUpForCause ==
    ASSUME IInv, at = "returned", GivesUp
    PROVE  \/ ToSetOf(batch) \subseteq refused[route]
           \/ route = "stats" /\ ToSetOf(batch) \subseteq unjudged[route]
<1>1. Error(answer) # "nil" /\ ~IsRetryable(answer) /\ (route # "stats" => Error(answer) = "api")
  BY DEF GivesUp, GivesUpEvents, GivesUpStats, IInv, CallOK, Route
<1>2. answer.status \in Statuses /\ Evidence
  BY DEF IInv, TypeOK
<1>3. CASE answer.status = 0
  BY <1>1, <1>3 DEF Error, IsRetryable
<1>4. CASE answer.status = 200
  <2>1. answer.body = "foreign" /\ Error(answer) = "badBody"
    BY <1>1, <1>2, <1>4 DEF Error, IsRetryable, EmptyMeansAccepted, Evidence
  <2> QED BY <1>1, <1>2, <2>1 DEF Evidence
<1>5. CASE answer.status = 404
  <2>1. CASE answer = Bare404
    <3>1. Error(answer) = "notFound"
      BY <2>1 DEF Error, ReadAPIError
    <3> QED BY <1>1, <1>2, <2>1, <3>1 DEF Evidence
  <2> QED BY <1>2, <1>5, <2>1 DEF Evidence
<1>6. CASE answer.status \in {400, 403}
  BY <1>2, <1>6 DEF Evidence
<1>7. CASE answer.status = 204
  BY <1>1, <1>7 DEF Error
<1>8. CASE answer.status = 500
  BY <1>1, <1>8 DEF Error, IsRetryable
<1> QED BY <1>2, <1>3, <1>4, <1>5, <1>6, <1>7, <1>8 DEF Statuses

-----------------------------------------------------------------------------
(* The invariant *)

LEMMA InitHolds == Init => IInv
<1> SUFFICES ASSUME Init PROVE IInv
  OBVIOUS
<1>1. TypeOK
  <2>1. batch = <<>> /\ answer = NoAnswer /\ at = "idle"
    BY DEF Init
  <2>2. IsBatch(batch) /\ answer.status \in Statuses /\ answer.body \in Bodies
    BY <2>1 DEF IsBatch, Statuses, Bodies
  <2> QED BY <2>1, <2>2 DEF Init, TypeOK, Places
<1>2. CallOK /\ AskedOK /\ Evidence /\ TrueVerdicts
  BY DEF Init, CallOK, AskedOK, Evidence, TrueVerdicts
<1> QED BY <1>1, <1>2 DEF IInv

\* The panel files valid elements it was sent.
LEMMA ServedIsAsked ==
    ASSUME IInv, NEW r \in Route, NEW b, ToSetOf(b) \subseteq asked[r]
    PROVE  /\ ServedFiled(r, b) \in [Route -> SUBSET Elements]
           /\ \A x \in Route : filed[x] \subseteq ServedFiled(r, b)[x]
           /\ \A x \in Route : ServedFiled(r, b)[x] \subseteq asked[x] \cap Valid
           /\ enabled /\ ~RefusesWhole(r, b) => ToSetOf(b) \cap Valid \subseteq ServedFiled(r, b)[r]
<1>1. filed \in [Route -> SUBSET Elements] /\ Valid \subseteq Elements
      /\ \A x \in Route : filed[x] \subseteq asked[x] \cap Valid
  BY PanelCallAssumption DEF IInv, TypeOK, AskedOK
<1> QED BY <1>1 DEF ServedFiled, HandleEvents, HandleStats, Route

LEMMA AskStep ==
    ASSUME IInv, NEW r \in Route, Ask(r)
    PROVE  IInv'
<1>0. PICK n \in 1..BatchSize : \E b \in [1..n -> Queued(r)] : batch' = b
  BY DEF Ask
<1>1. PICK b \in [1..n -> Queued(r)] : batch' = b
  BY <1>0
<1>2. /\ Queued(r) \subseteq Elements /\ DOMAIN b = 1..n /\ 1 \in DOMAIN b
      /\ BatchSize \in Nat
  BY PanelCallAssumption DEF Queued
<1>3. IsBatch(b) /\ DOMAIN b # {} /\ ToSetOf(b) \subseteq Queued(r)
  BY <1>1, <1>2 DEF IsBatch
<1>4. /\ asked' = [asked EXCEPT ![r] = @ \cup ToSetOf(b)]
      /\ asked \in [Route -> SUBSET Elements]
  BY <1>1 DEF Ask, IInv, TypeOK
<1>5. asked' \in [Route -> SUBSET Elements]
      /\ (\A x \in Route : asked[x] \subseteq asked'[x]) /\ ToSetOf(b) \subseteq asked'[r]
  BY <1>2, <1>3, <1>4
<1>6. TypeOK'
  BY <1>1, <1>3, <1>5 DEF Ask, panel, IInv, TypeOK, IsBatch
<1>7. CallOK'
  BY <1>1, <1>3, <1>5 DEF Ask, CallOK, Queued
<1>8. AskedOK'
  BY <1>5 DEF Ask, IInv, AskedOK
<1>9. Evidence' /\ TrueVerdicts'
  BY DEF Ask, IInv, Evidence, TrueVerdicts
<1> QED BY <1>6, <1>7, <1>8, <1>9 DEF IInv

\* What Heard records is evidence enough for every answer that is not an acceptance.
LEMMA HeardStep ==
    ASSUME IInv, at = "sent", NEW a, NEW who, Heard(a, who),
           a = [status |-> a.status, body |-> a.body, rejected |-> a.rejected],
           a.status \in Statuses, a.body \in Bodies, UNCHANGED request
    PROVE  /\ at' = "answered" /\ answer' = a /\ stranger' = (who = "stranger")
           /\ refused' \in [Route -> SUBSET Elements] /\ unjudged' \in [Route -> SUBSET Elements]
           /\ \A x \in Route : refused[x] \subseteq refused'[x] /\ unjudged[x] \subseteq unjudged'[x]
           /\ a.status \in {400, 403, 404} /\ a # Bare404 => ToSetOf(batch) \subseteq refused'[route]
           /\ a.body = "foreign" \/ a = Bare404 => ToSetOf(batch) \subseteq unjudged'[route]
<1>1. /\ refused \in [Route -> SUBSET Elements] /\ unjudged \in [Route -> SUBSET Elements]
      /\ route \in Route /\ ToSetOf(batch) \subseteq Elements
  BY DEF IInv, TypeOK, CallOK, IsBatch
<1>2. at' = "answered" /\ answer' = a /\ stranger' = (who = "stranger")
  BY DEF Heard
<1>3. a.status \in {400, 403, 404} => a.status \in 400..499
  OBVIOUS
<1>4. /\ refused' \in [Route -> SUBSET Elements]
      /\ \A x \in Route : refused[x] \subseteq refused'[x]
      /\ a.status \in {400, 403, 404} /\ a # Bare404 => ToSetOf(batch) \subseteq refused'[route]
  BY <1>1, <1>3 DEF Heard
<1>5. /\ unjudged' \in [Route -> SUBSET Elements]
      /\ \A x \in Route : unjudged[x] \subseteq unjudged'[x]
      /\ a.body = "foreign" \/ a = Bare404 => ToSetOf(batch) \subseteq unjudged'[route]
  BY <1>1 DEF Heard
<1> QED BY <1>2, <1>4, <1>5

LEMMA ServeStep ==
    ASSUME IInv, Serve
    PROVE  IInv'
<1> DEFINE a == ServedAnswer(route, batch)
<1>1. /\ at = "sent" /\ Heard(a, "panel") /\ filed' = ServedFiled(route, batch)
      /\ UNCHANGED <<panel, place, request, attempt, flying, asked, vouched, changes, faults>>
  BY DEF Serve
<1>2. route \in Route /\ ToSetOf(batch) \subseteq asked[route] /\ IsBatch(batch)
  BY <1>1 DEF IInv, TypeOK, CallOK
<1>3. \/ a = Bare404
      \/ a = InvalidBody
      \/ /\ enabled /\ ~RefusesWhole(route, batch) /\ legacy /\ a = Empty200
      \/ /\ enabled /\ ~RefusesWhole(route, batch)
         /\ a = [status |-> 200, body |-> "result", rejected |-> Rejected(route, batch)]
  BY DEF ServedAnswer, BatchResult
<1>4. /\ a = [status |-> a.status, body |-> a.body, rejected |-> a.rejected]
      /\ a.status \in Statuses /\ a.body \in Bodies
  BY <1>3 DEF Statuses, Bodies
<1> HIDE DEF a
<1>5. /\ at' = "answered" /\ answer' = a /\ stranger' = FALSE
      /\ refused' \in [Route -> SUBSET Elements] /\ unjudged' \in [Route -> SUBSET Elements]
      /\ \A x \in Route : refused[x] \subseteq refused'[x] /\ unjudged[x] \subseteq unjudged'[x]
      /\ a.status \in {400, 403, 404} /\ a # Bare404 => ToSetOf(batch) \subseteq refused'[route]
      /\ a.body = "foreign" \/ a = Bare404 => ToSetOf(batch) \subseteq unjudged'[route]
  <2>1. IInv /\ at = "sent" /\ Heard(a, "panel") /\ UNCHANGED request
    BY <1>1
  <2>2. stranger' = FALSE
    BY <1>1 DEF Heard
  <2> HIDE DEF ToSetOf, Bare404
  <2> QED BY <1>4, <2>1, <2>2, HeardStep
<1>6. /\ filed' \in [Route -> SUBSET Elements]
      /\ \A x \in Route : filed[x] \subseteq filed'[x] /\ filed'[x] \subseteq asked[x] \cap Valid
      /\ enabled /\ ~RefusesWhole(route, batch) => ToSetOf(batch) \cap Valid \subseteq filed'[route]
  BY <1>1, <1>2, ServedIsAsked
<1>7. TypeOK'
  BY <1>1, <1>4, <1>5, <1>6 DEF panel, request, IInv, TypeOK, IsBatch
<1>8. CallOK' /\ AskedOK'
  <2>1. UNCHANGED <<route, batch, place, flying, asked>>
    BY <1>1 DEF request
  <2>2. CallOK'
    BY <1>1, <1>5, <2>1 DEF IInv, CallOK, Queued
  <2>3. AskedOK'
    BY <1>6, <2>1 DEF IInv, AskedOK
  <2> QED BY <2>2, <2>3
<1>9. Evidence'
  <2>1. Rejected(route, batch) = {} => ToSetOf(batch) \subseteq Valid
    BY DEF Rejected
  <2>2. UNCHANGED <<route, batch>> /\ Rejected(route, batch)' = Rejected(route, batch)
    BY <1>1 DEF request, Rejected
  <2>3. CASE a = Bare404 \/ a = InvalidBody
    BY <1>5, <2>2, <2>3 DEF Evidence
  <2>4. CASE enabled /\ ~RefusesWhole(route, batch) /\ legacy /\ a = Empty200
    BY <1>5, <1>6, <2>1, <2>2, <2>4 DEF Evidence, RefusesWhole
  <2>5. CASE /\ enabled /\ ~RefusesWhole(route, batch)
             /\ a = [status |-> 200, body |-> "result", rejected |-> Rejected(route, batch)]
    BY <1>5, <1>6, <2>2, <2>5 DEF Evidence
  <2> QED BY <1>3, <2>3, <2>4, <2>5 DEF a
<1>10. TrueVerdicts'
  BY <1>1, <1>5, <1>6 DEF IInv, TrueVerdicts
<1> QED BY <1>7, <1>8, <1>9, <1>10 DEF IInv

\* An answer that did not come from the panel files nothing; if it reads as an
\* acceptance, a stranger wrote it.
LEMMA ForeignAnswerStep ==
    ASSUME IInv, at = "sent", NEW a, NEW who, Heard(a, who),
           a = [status |-> a.status, body |-> a.body, rejected |-> {}],
           a.status \in Statuses, a.body \in Bodies,
           a.status = 200 => a.body \in {"foreign", "empty", "result"},
           who = "stranger" \/ (a.status = 0 /\ a.body # "result"),
           UNCHANGED <<panel, filed, place, request, asked, vouched>>,
           \A q \in flying' \ flying : q = [route |-> route, batch |-> batch]
    PROVE  IInv'
<1>1. a.body \in Bodies /\ UNCHANGED request
  BY DEF Bodies
<1>2. /\ at' = "answered" /\ answer' = a /\ stranger' = (who = "stranger")
      /\ refused' \in [Route -> SUBSET Elements] /\ unjudged' \in [Route -> SUBSET Elements]
      /\ \A x \in Route : refused[x] \subseteq refused'[x] /\ unjudged[x] \subseteq unjudged'[x]
      /\ a.status \in {400, 403, 404} /\ a # Bare404 => ToSetOf(batch) \subseteq refused'[route]
      /\ a.body = "foreign" \/ a = Bare404 => ToSetOf(batch) \subseteq unjudged'[route]
  BY <1>1, HeardStep
<1>3. TypeOK'
  BY <1>1, <1>2 DEF panel, request, IInv, TypeOK, IsBatch
<1>4. CallOK' /\ AskedOK'
  <2>1. route \in Route /\ ToSetOf(batch) \subseteq asked[route]
    BY DEF IInv, CallOK
  <2>2. AskedOK'
    BY <1>2, <2>1 DEF IInv, AskedOK
  <2>3. CallOK'
    BY <1>2 DEF request, IInv, CallOK, Queued
  <2> QED BY <2>2, <2>3
<1>5. Evidence'
  <2>1. /\ UNCHANGED <<route, batch>> /\ answer' = a /\ a.rejected = {}
        /\ ~stranger' => a.status = 0 /\ a.body # "result"
    <3>1. a.rejected = {}
      OBVIOUS
    <3>2. answer' = a /\ stranger' = (who = "stranger")
      BY <1>2
    <3>3. ~stranger' => who # "stranger"
      BY <3>2
    <3> QED BY <3>1, <3>2, <3>3 DEF request
  <2>2. CASE stranger'
    BY <1>2, <2>1, <2>2 DEF Evidence
  <2>3. CASE ~stranger'
    BY <1>2, <2>1, <2>3 DEF Evidence
  <2> QED BY <2>2, <2>3
<1>6. TrueVerdicts'
  BY <1>2 DEF IInv, TrueVerdicts
<1> QED BY <1>3, <1>4, <1>5, <1>6 DEF IInv

LEMMA InterceptStep ==
    ASSUME IInv, Intercept
    PROVE  IInv'
<1>1. PICK a \in {Bare404, InvalidBody, Answer(404, "error"), Answer(403, "foreign"),
                  Answer(500, "error"), Answer(200, "foreign"), Empty200, NoContent,
                  Answer(200, "result"), Reset, Untrusted} : Heard(a, "stranger")
  BY DEF Intercept, Fails, BadBody, Approves, Drops
<1>2. /\ a = [status |-> a.status, body |-> a.body, rejected |-> {}]
      /\ a.status \in Statuses /\ a.body \in Bodies
      /\ a.status = 200 => a.body \in {"foreign", "empty", "result"}
  BY DEF Statuses, Bodies
<1>3. at = "sent" /\ UNCHANGED <<panel, filed, place, request, asked, vouched, flying>>
  BY DEF Intercept
<1> QED BY <1>1, <1>2, <1>3, ForeignAnswerStep

LEMMA HangUpStep ==
    ASSUME IInv, HangUp
    PROVE  IInv'
<1>1. /\ Timeout = [status |-> Timeout.status, body |-> Timeout.body, rejected |-> {}]
      /\ Timeout.status \in Statuses /\ Timeout.body \in Bodies
      /\ Timeout.status = 0 /\ Timeout.body # "result"
  BY DEF Statuses, Bodies
<1>2. /\ at = "sent" /\ Heard(Timeout, "nobody")
      /\ UNCHANGED <<panel, filed, place, request, asked, vouched>>
      /\ \A q \in flying' \ flying : q = [route |-> route, batch |-> batch]
  BY DEF HangUp
<1> QED BY <1>1, <1>2, ForeignAnswerStep

\* A lost answer asserts nothing; a cut 4xx is still one.
LEMMA LoseAnswerStep ==
    ASSUME IInv, LoseAnswer
    PROVE  IInv'
<1>1. \/ answer' = Reset
      \/ answer' = Answer(answer.status, "cut") /\ answer.body \in {"result", "error"}
  BY DEF LoseAnswer
<1>2. TypeOK'
  BY <1>1 DEF LoseAnswer, panel, request, history, IInv, TypeOK, Statuses, Bodies, IsBatch
<1>3. CallOK' /\ AskedOK'
  BY DEF LoseAnswer, request, history, IInv, CallOK, AskedOK, Queued
<1>4. Evidence'
  <2>1. CASE answer' = Reset
    BY <2>1 DEF LoseAnswer, Evidence
  <2>2. CASE answer' = Answer(answer.status, "cut") /\ answer.body \in {"result", "error"}
    BY <2>2 DEF LoseAnswer, request, history, IInv, Evidence
  <2> QED BY <1>1, <2>1, <2>2
<1>5. TrueVerdicts'
  BY DEF LoseAnswer, request, history, IInv, TrueVerdicts
<1> QED BY <1>2, <1>3, <1>4, <1>5 DEF IInv

LEMMA ServeLateStep ==
    ASSUME IInv, NEW q \in flying, ServeLate(q)
    PROVE  IInv'
<1>1. q.route \in Route /\ ToSetOf(q.batch) \subseteq asked[q.route]
  BY DEF IInv, AskedOK
<1>2. /\ filed' \in [Route -> SUBSET Elements]
      /\ \A x \in Route : filed[x] \subseteq filed'[x] /\ filed'[x] \subseteq asked[x] \cap Valid
  BY <1>1, ServedIsAsked DEF ServeLate
<1>3. TypeOK'
  BY <1>2 DEF ServeLate, panel, request, history, IInv, TypeOK, IsBatch
<1>4. CallOK' /\ AskedOK'
  BY <1>2 DEF ServeLate, request, history, IInv, CallOK, AskedOK, Queued
<1>5. at \in {"answered", "waiting", "returned"} => route \in Route
  BY DEF IInv, CallOK
<1>6. Evidence'
  BY <1>2, <1>5 DEF ServeLate, request, history, IInv, Evidence, Rejected
<1>7. TrueVerdicts'
  BY <1>2 DEF ServeLate, request, history, IInv, TrueVerdicts
<1> QED BY <1>3, <1>4, <1>6, <1>7 DEF IInv

\* The client's own steps on an attempt, and the switches of the panel.
LEMMA QuietStep ==
    ASSUME IInv, Attempted \/ Retry \/ CutShort \/ SetMonEnabled \/ SetLegacyAnswers
    PROVE  IInv'
<1>1. /\ UNCHANGED <<filed, place, request, answer, flying, history>>
      /\ at' # "idle" <=> at # "idle"
      /\ at' \in {"answered", "waiting", "returned"} => at \in {"answered", "waiting", "returned"}
      /\ at' = "waiting" => at = "waiting" \/ IsRetryable(answer)
      /\ at' \in {"idle", "sent", "answered", "waiting", "returned"}
      /\ enabled' \in BOOLEAN /\ legacy' \in BOOLEAN
  BY DEF Attempted, Retry, CutShort, SetMonEnabled, SetLegacyAnswers, Repeats, panel, IInv, TypeOK
<1>2. TypeOK'
  BY <1>1 DEF request, history, IInv, TypeOK, IsBatch
<1>3. CallOK'
  BY <1>1 DEF request, history, IInv, CallOK, Queued, IsRetryable, Error, ReadAPIError, EmptyMeansAccepted
<1>4. AskedOK' /\ TrueVerdicts'
  BY <1>1 DEF request, history, IInv, AskedOK, TrueVerdicts
<1>5. Evidence'
  BY <1>1 DEF request, history, IInv, Evidence, Rejected
<1> QED BY <1>2, <1>3, <1>4, <1>5 DEF IInv

\* The rows are settled by what the answer is evidence of.
LEMMA ReturnStep ==
    ASSUME IInv, Return
    PROVE  IInv'
<1>1. /\ at = "returned" /\ route \in Route /\ ToSetOf(batch) \subseteq Elements
      /\ place \in [Route -> [Elements -> Places]]
  BY DEF Return, IInv, TypeOK, CallOK, IsBatch
<1>2. /\ place' \in [Route -> [Elements -> Places]]
      /\ \A r \in Route, e \in Elements :
            place'[r][e] # place[r][e] =>
                /\ r = route /\ e \in ToSetOf(batch)
                /\ \/ /\ Error(answer) = "nil"
                      /\ place'[r][e] = IF e \in RejectedIds THEN "dropped" ELSE "sent"
                   \/ GivesUp /\ place'[r][e] = "dropped"
  <2>1. CASE Error(answer) = "nil"
    <3>1. MarkAccepted
      BY <2>1 DEF Return
    <3>2. CASE place' = [place EXCEPT ![route] =
                  [e \in Elements |-> IF e \notin ToSetOf(batch) THEN @[e]
                                      ELSE IF e \in RejectedIds THEN "dropped" ELSE "sent"]]
      <4> HIDE DEF ToSetOf
      <4> QED BY <1>1, <2>1, <3>2 DEF Places
    <3>3. CASE Placed(ToSetOf(batch) \ RejectedIds, "sent")
      <4> HIDE DEF ToSetOf
      <4> QED BY <1>1, <2>1, <3>3 DEF Placed, Places
    <3> QED BY <3>1, <3>2, <3>3 DEF MarkAccepted
  <2>2. CASE Error(answer) # "nil" /\ GivesUp
    <3>1. Placed(ToSetOf(batch), "dropped")
      BY <2>2 DEF Return
    <3> HIDE DEF ToSetOf
    <3> QED BY <1>1, <2>2, <3>1 DEF Placed, Places
  <2>3. CASE Error(answer) # "nil" /\ ~GivesUp
    BY <1>1, <2>3 DEF Return
  <2> QED BY <2>1, <2>2, <2>3
<1>3. TypeOK'
  <2>1. /\ answer' = NoAnswer /\ batch' = <<>> /\ at' = "idle" /\ stranger' = FALSE
        /\ vouched' \in [Route -> SUBSET Elements]
    BY <1>1 DEF Return, IInv, TypeOK
  <2>2. UNCHANGED <<panel, filed, flying, asked, refused, unjudged>>
    BY DEF Return
  <2>3. IsBatch(batch)' /\ answer.status' \in Statuses /\ answer.body' \in Bodies
    BY <2>1 DEF IsBatch, Statuses, Bodies
  <2> QED BY <1>2, <2>1, <2>2, <2>3 DEF panel, IInv, TypeOK
<1>4. CallOK' /\ AskedOK' /\ Evidence'
  <2>1. at' = "idle" /\ UNCHANGED <<filed, flying, asked>>
    BY DEF Return, history
  <2>2. AskedOK'
    BY <2>1 DEF IInv, AskedOK
  <2> QED BY <2>1, <2>2 DEF CallOK, Evidence
<1>5. TrueVerdicts'
  <2>1. /\ UNCHANGED <<filed, refused, unjudged>>
        /\ \A r \in Route : vouched[r] \subseteq vouched'[r]
        /\ Error(answer) = "nil" /\ stranger => ToSetOf(batch) \subseteq vouched'[route]
    BY <1>1 DEF Return, IInv, TypeOK
  <2>2. SUFFICES ASSUME NEW r \in Route, NEW e \in Elements
                 PROVE  /\ place'[r][e] = "sent" => e \in filed[r] \cup vouched'[r]
                        /\ place'[r][e] = "dropped" =>
                               \/ e \notin Valid \/ e \in refused[r]
                               \/ r = "stats" /\ e \in unjudged[r]
    BY <2>1 DEF TrueVerdicts
  <2>3. CASE place'[r][e] = place[r][e]
    BY <2>1, <2>3 DEF IInv, TrueVerdicts
  <2>6. CASE /\ r = route /\ e \in ToSetOf(batch) /\ Error(answer) = "nil" /\ stranger
             /\ place'[r][e] = IF e \in RejectedIds THEN "dropped" ELSE "sent"
    <3>1. RejectedIds = {}
      BY <1>1, <2>6, StrangersListNothing
    <3> HIDE DEF ToSetOf
    <3> QED BY <2>1, <2>6, <3>1
  <2>4. CASE /\ r = route /\ e \in ToSetOf(batch) /\ Error(answer) = "nil" /\ ~stranger
             /\ place'[r][e] = IF e \in RejectedIds THEN "dropped" ELSE "sent"
    <3>1. /\ RejectedIds \subseteq ToSetOf(batch) \ Valid
          /\ ToSetOf(batch) \ RejectedIds \subseteq filed[route]
      BY <1>1, <2>4, AcceptanceIsTrue
    <3> HIDE DEF ToSetOf
    <3> QED BY <2>4, <3>1
  <2>5. CASE r = route /\ e \in ToSetOf(batch) /\ GivesUp /\ place'[r][e] = "dropped"
    <3>1. \/ ToSetOf(batch) \subseteq refused[route]
          \/ route = "stats" /\ ToSetOf(batch) \subseteq unjudged[route]
      BY <1>1, <2>5, GivenUpForCause
    <3> HIDE DEF ToSetOf
    <3> QED BY <2>5, <3>1
  <2> QED BY <1>2, <2>3, <2>4, <2>5, <2>6
<1> QED BY <1>3, <1>4, <1>5 DEF IInv

LEMMA CrashStep ==
    ASSUME IInv, Crash
    PROVE  IInv'
<1>1. TypeOK'
  <2>1. answer' = NoAnswer /\ batch' = <<>> /\ at' = "idle" /\ stranger' = FALSE
    BY DEF Crash
  <2>2. UNCHANGED <<panel, filed, place, asked, refused, unjudged, vouched>>
    BY DEF Crash
  <2>3. IsBatch(batch)' /\ answer.status' \in Statuses /\ answer.body' \in Bodies
    BY <2>1 DEF IsBatch, Statuses, Bodies
  <2> QED BY <2>1, <2>2, <2>3 DEF panel, IInv, TypeOK
<1>2. CallOK' /\ Evidence' /\ TrueVerdicts'
  BY DEF Crash, history, IInv, CallOK, Evidence, TrueVerdicts
<1>3. AskedOK'
  <2>1. /\ UNCHANGED <<filed, asked>> /\ route \in Route /\ ToSetOf(batch) \subseteq asked[route]
        /\ \A q \in flying' : q \in flying \/ q = [route |-> route, batch |-> batch]
    BY DEF Crash, history, IInv, CallOK
  <2> QED BY <2>1 DEF IInv, AskedOK
<1> QED BY <1>1, <1>2, <1>3 DEF IInv

LEMMA NextStep ==
    ASSUME IInv, [Next]_vars
    PROVE  IInv'
<1>1. CASE UNCHANGED vars
  BY <1>1 DEF vars, panel, request, history, IInv, TypeOK, CallOK, AskedOK, Evidence, TrueVerdicts,
              IsBatch, Queued, IsRetryable, Error, ReadAPIError, EmptyMeansAccepted, Rejected
<1>2. CASE Next
  BY <1>2, AskStep, ServeStep, InterceptStep, HangUpStep, LoseAnswerStep, ServeLateStep, QuietStep,
     ReturnStep, CrashStep DEF Next, Client
<1> QED BY <1>1, <1>2

LEMMA AlwaysIInv == Spec => []IInv
BY InitHolds, NextStep, PTL DEF Spec

(* Everything keeps its shape: statuses, bodies and places are those the code tells     *)
(* apart (Client.call).                                                                *)
THEOREM TypeCorrect == Spec => []TypeOK
<1>1. IInv => TypeOK
  BY DEF IInv
<1> QED BY <1>1, AlwaysIInv, PTL

(* The rows of a call wait in the queue until it returns, whatever else is recorded    *)
(* or answered meanwhile, and the panel holds nothing that was not sent to it by this  *)
(* route and is valid, a request that arrives after its call ended included (flush,    *)
(* Flush, Client.call).                                                                *)
THEOREM RowsWaitForTheCall == Spec => [](CallOK /\ AskedOK)
<1>1. IInv => CallOK /\ AskedOK
  BY DEF IInv
<1> QED BY <1>1, AlwaysIInv, PTL

(* Whatever is lost, late, cut or answered by somebody else, an event or an aggregate  *)
(* that counts as sent is held by the panel, or was settled by an acceptance that      *)
(* something else wrote, and one that is given up was judged, an aggregate perhaps by  *)
(* something that is not the panel (flush, Flush, HTTPClient.attempt).                 *)
THEOREM VerdictsAreTrue == Spec => []TrueVerdicts
<1>1. IInv => TrueVerdicts
  BY DEF IInv
<1> QED BY <1>1, AlwaysIInv, PTL

-----------------------------------------------------------------------------
(* The call implements the answer *)

LEMMA SaysSomething ==
    ASSUME NEW a
    PROVE  /\ Error(a) = "nil" => Says(a) = IF stranger THEN "mistaken" ELSE "accepted"
           /\ Error(a) # "nil" => Says(a) \in {"silent", "neutral", "refused"}
           /\ Says(a) # "none"
           /\ IsRetryable(a) => Error(a) # "nil"
BY DEF Says, IsRetryable

LEMMA InitRefines == Init => Ledger!Init
BY DEF Init, Ledger!Init, TheCall, TheAnswer, Ledger!NoCall, Ledger!NoAnswer, Route, Ledger!Route

LEMMA AskRefines ==
    ASSUME IInv, IInv', NEW r \in Route, Ask(r)
    PROVE  Ledger!Next
<1>1. /\ at = "idle" /\ at' = "sent" /\ route' = r /\ UNCHANGED <<filed, place>>
      /\ asked' = [asked EXCEPT ![r] = @ \cup ToSetOf(batch')]
  BY DEF Ask
<1>2. ToSetOf(batch') # {} /\ ToSetOf(batch') \subseteq {e \in Elements : place[r][e] = "queued"}
  BY <1>1 DEF IInv, CallOK, Queued
<1> HIDE DEF ToSetOf
<1>3. Ledger!Ask(r, ToSetOf(batch'))
  BY <1>1, <1>2 DEF Ledger!Ask, TheCall, TheAnswer, Ledger!NoCall
<1> QED BY <1>2, <1>3 DEF Ledger!Next, Route, Ledger!Route

\* A request that is handled files what was asked, in time or late.
LEMMA ServedRefines ==
    ASSUME IInv, NEW r \in Route, NEW b, ToSetOf(b) \subseteq asked[r],
           filed' = ServedFiled(r, b), UNCHANGED <<TheCall, TheAnswer, asked, place>>
    PROVE  Ledger!Next
<1>1. filed \in [Route -> SUBSET Elements] /\ Valid \subseteq Elements
  BY PanelCallAssumption DEF IInv, TypeOK
<1> DEFINE new == IF ~enabled \/ RefusesWhole(r, b) THEN {} ELSE ToSetOf(b) \cap Valid
<1>2. filed' = [filed EXCEPT ![r] = @ \cup new]
  BY <1>1 DEF ServedFiled, HandleEvents, HandleStats, Route
<1>3. new \subseteq asked[r] \cap Valid /\ new \in SUBSET Elements
  BY <1>1
<1> HIDE DEF new
<1>4. Ledger!File(r, new)
  BY <1>2, <1>3 DEF Ledger!File
<1> QED BY <1>3, <1>4 DEF Ledger!Next, Route, Ledger!Route

\* The last attempt decides what the call returns.
LEMMA ReturnedRefines ==
    ASSUME IInv, at \in {"answered", "waiting"}, at' = "returned",
           UNCHANGED <<filed, place, request, answer, stranger, asked>>
    PROVE  Ledger!Next
<1>1. /\ TheCall = [route |-> route, batch |-> ToSetOf(batch)] /\ UNCHANGED TheCall
      /\ route \in Route
      /\ TheAnswer = [says |-> "none", rejected |-> {}]
      /\ TheAnswer' = [says |-> Says(answer),
                       rejected |-> IF Error(answer) = "nil" THEN RejectedIds ELSE {}]
  BY DEF TheCall, TheAnswer, request, IInv, CallOK, RejectedIds, Says, Error, IsRetryable,
         ReadAPIError, EmptyMeansAccepted, Rejections
<1>2. TheCall # [route |-> "none", batch |-> {}]
  BY <1>1 DEF Route
<1>3. CASE Error(answer) = "nil" /\ ~stranger
  <2>1. at = "answered"
    BY <1>3, SaysSomething DEF IInv, CallOK
  <2>2. /\ RejectedIds \subseteq ToSetOf(batch) \ Valid
        /\ ToSetOf(batch) \ RejectedIds \subseteq filed[route]
    BY <1>3, <2>1, AcceptanceIsTrue
  <2>3. Says(answer) = "accepted" /\ ToSetOf(batch) \subseteq Elements
    BY <1>3, SaysSomething DEF IInv, TypeOK, IsBatch
  <2> HIDE DEF ToSetOf
  <2>4. Ledger!Accept(RejectedIds)
    BY <1>1, <1>2, <1>3, <2>2, <2>3 DEF Ledger!Accept, Ledger!NoCall, Ledger!NoAnswer
  <2> QED BY <2>2, <2>3, <2>4 DEF Ledger!Next
<1>5. CASE Error(answer) = "nil" /\ stranger
  <2>1. at = "answered"
    BY <1>5, SaysSomething DEF IInv, CallOK
  <2>2. RejectedIds = {} /\ Says(answer) = "mistaken"
    BY <1>5, <2>1, StrangersListNothing, SaysSomething
  <2>3. Ledger!Fail("mistaken")
    BY <1>1, <1>2, <1>5, <2>2 DEF Ledger!Fail, Ledger!NoCall, Ledger!NoAnswer
  <2> QED BY <2>3 DEF Ledger!Next
<1>4. CASE Error(answer) # "nil"
  <2>1. Says(answer) \in {"silent", "neutral", "refused"}
    BY <1>4, SaysSomething
  <2>2. Ledger!Fail(Says(answer))
    BY <1>1, <1>2, <1>4 DEF Ledger!Fail, Ledger!NoCall, Ledger!NoAnswer
  <2> QED BY <2>1, <2>2 DEF Ledger!Next
<1> QED BY <1>3, <1>4, <1>5

\* Nobody settles a row otherwise than by the answer.
LEMMA SettledRefines ==
    ASSUME IInv, Return
    PROVE  Ledger!Next
<1>1. /\ at = "returned" /\ at' = "idle" /\ UNCHANGED <<filed, asked>>
      /\ route \in Route
      /\ place \in [Route -> [Elements -> Places]]
  BY DEF Return, history, IInv, CallOK, TypeOK
<1>2. /\ TheCall = [route |-> route, batch |-> ToSetOf(batch)]
      /\ TheCall' = Ledger!NoCall /\ TheAnswer' = Ledger!NoAnswer
      /\ TheAnswer = [says |-> Says(answer),
                      rejected |-> IF Error(answer) = "nil" THEN RejectedIds ELSE {}]
  BY <1>1 DEF TheCall, TheAnswer, Ledger!NoCall, Ledger!NoAnswer
<1>3. TheCall # Ledger!NoCall /\ TheAnswer # Ledger!NoAnswer
  BY <1>1, <1>2, SaysSomething DEF Route, Ledger!NoCall, Ledger!NoAnswer
<1> DEFINE Settles(written) ==
        place' = [place EXCEPT ![route] =
                     [e \in Elements |-> IF e \in written THEN Ledger!Settled(e) ELSE @[e]]]
<1>4. ASSUME NEW written, written \subseteq ToSetOf(batch), Settles(written)
      PROVE  Ledger!Next
  <2>1. Ledger!Settle(written)
    BY <1>1, <1>2, <1>3, <1>4 DEF Ledger!Settle
  <2> QED BY <1>2, <1>4, <2>1 DEF Ledger!Next
<1>5. CASE Error(answer) = "nil"
  <2>1. \A e \in Elements : Ledger!Settled(e) = IF e \in RejectedIds THEN "dropped" ELSE "sent"
    <3>1. CASE ~stranger
      BY <1>2, <1>5, <3>1, SaysSomething DEF Ledger!Settled
    <3>2. CASE stranger
      <4>1. RejectedIds = {}
        BY <1>1, <3>2, StrangersListNothing
      <4> QED BY <1>2, <1>5, <3>2, <4>1, SaysSomething DEF Ledger!Settled
    <3> QED BY <3>1, <3>2
  <2>2. MarkAccepted
    BY <1>5 DEF Return
  <2>3. CASE place' = [place EXCEPT ![route] =
                [e \in Elements |-> IF e \notin ToSetOf(batch) THEN @[e]
                                    ELSE IF e \in RejectedIds THEN "dropped" ELSE "sent"]]
    <3> HIDE DEF ToSetOf
    <3>1. Settles(ToSetOf(batch))
      BY <1>1, <2>1, <2>3
    <3> QED BY <1>4, <3>1
  <2>4. CASE Placed(ToSetOf(batch) \ RejectedIds, "sent")
    <3> HIDE DEF ToSetOf
    <3>1. Settles(ToSetOf(batch) \ RejectedIds)
      BY <1>1, <2>1, <2>4 DEF Placed
    <3> QED BY <1>4, <3>1
  <2> QED BY <2>2, <2>3, <2>4 DEF MarkAccepted
<1>6. CASE Error(answer) # "nil" /\ GivesUp
  <2>1. Says(answer) = "refused" \/ (Says(answer) = "neutral" /\ route = "stats")
    BY <1>1, <1>6 DEF Says, GivesUp, GivesUpEvents, GivesUpStats, IsRetryable, Route, Error
  <2>2. \A e \in Elements : Ledger!Settled(e) = "dropped"
    BY <1>2, <2>1 DEF Ledger!Settled
  <2>3. Placed(ToSetOf(batch), "dropped")
    BY <1>6 DEF Return
  <2> HIDE DEF ToSetOf
  <2>4. Settles(ToSetOf(batch))
    BY <1>1, <2>2, <2>3 DEF Placed
  <2> QED BY <1>4, <2>4
<1>7. CASE Error(answer) # "nil" /\ ~GivesUp
  <2>1. Ledger!Forget
    BY <1>1, <1>2, <1>7 DEF Ledger!Forget, Return
  <2> QED BY <2>1 DEF Ledger!Next
<1> QED BY <1>5, <1>6, <1>7

LEMMA NextRefines ==
    ASSUME IInv, IInv', [Next]_vars
    PROVE  [Ledger!Next]_(Ledger!vars)
<1>1. CASE \E r \in Route : Ask(r)
  BY <1>1, AskRefines
<1>2. CASE Serve
  <2>1. /\ at = "sent" /\ at' = "answered" /\ UNCHANGED <<request, asked, place>>
        /\ filed' = ServedFiled(route, batch)
    BY <1>2 DEF Serve, Heard
  <2>2. UNCHANGED <<TheCall, TheAnswer>>
    BY <2>1 DEF TheCall, TheAnswer, request
  <2>3. route \in Route /\ ToSetOf(batch) \subseteq asked[route]
    BY <2>1 DEF IInv, CallOK
  <2> QED BY <2>1, <2>2, <2>3, ServedRefines
<1>3. CASE \E q \in flying : ServeLate(q)
  <2>1. PICK q \in flying : ServeLate(q)
    BY <1>3
  <2>2. UNCHANGED <<TheCall, TheAnswer, asked, place>>
    BY <2>1 DEF ServeLate, TheCall, TheAnswer, request, history, RejectedIds, Says, Error,
                IsRetryable, ReadAPIError, EmptyMeansAccepted, Rejections
  <2>3. q.route \in Route /\ ToSetOf(q.batch) \subseteq asked[q.route]
    BY DEF IInv, AskedOK
  <2>4. filed' = ServedFiled(q.route, q.batch)
    BY <2>1 DEF ServeLate
  <2> QED BY <2>2, <2>3, <2>4, ServedRefines
<1>4. CASE Attempted \/ CutShort
  <2>1. /\ at \in {"answered", "waiting"} /\ at' \in {"waiting", "returned"}
        /\ UNCHANGED <<filed, place, request, answer, stranger, asked>>
    BY <1>4 DEF Attempted, CutShort, history
  <2>2. CASE at' = "returned"
    BY <2>1, <2>2, ReturnedRefines
  <2>3. CASE at' = "waiting"
    BY <2>1, <2>3 DEF Ledger!vars, TheCall, TheAnswer, request
  <2> QED BY <2>1, <2>2, <2>3
<1>5. CASE Return
  BY <1>5, SettledRefines
<1>6. CASE Crash
  <2>1. Ledger!Forget
    BY <1>6 DEF Crash, history, TheCall, TheAnswer, Ledger!Forget, Ledger!NoCall, Ledger!NoAnswer
  <2> QED BY <2>1 DEF Ledger!Next
<1>7. CASE Retry \/ Intercept \/ HangUp \/ LoseAnswer
  <2>1. /\ at \in {"sent", "answered", "waiting"} /\ at' \in {"sent", "answered"}
        /\ UNCHANGED <<filed, place, request, asked>>
    BY <1>7 DEF Retry, Intercept, HangUp, LoseAnswer, Fails, BadBody, Approves, Drops, Heard, history
  <2> QED BY <2>1 DEF Ledger!vars, TheCall, TheAnswer, request
<1>8. CASE SetMonEnabled \/ SetLegacyAnswers \/ UNCHANGED vars
  <2>1. UNCHANGED <<at, filed, place, request, answer, stranger, asked>>
    BY <1>8 DEF SetMonEnabled, SetLegacyAnswers, vars, history
  <2> QED BY <2>1 DEF Ledger!vars, TheCall, TheAnswer, request, RejectedIds, Says, Error,
                      IsRetryable, ReadAPIError, EmptyMeansAccepted, Rejections
<1> QED BY <1>1, <1>2, <1>3, <1>4, <1>5, <1>6, <1>7, <1>8 DEF Next, Client

(* PostEvents and PostStats, with their attempts, statuses, bodies and indices,        *)
(* implement PanelAnswer: an acceptance the panel wrote is its word on this batch, and *)
(* the only answers taken for one besides are those a stranger made to look like it.   *)
THEOREM CallIsOneAnswer == Spec => CallSpec
<1>1. Init => Ledger!Init
  BY InitRefines
<1>2. IInv /\ IInv' /\ [Next]_vars => [Ledger!Next]_(Ledger!vars)
  BY NextRefines
<1> QED BY <1>1, <1>2, AlwaysIInv, PTL DEF Spec, CallSpec, Ledger!Spec
===============================================================================
