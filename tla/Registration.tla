----------------------------- MODULE Registration -----------------------------
(***************************************************************************)
(* How a box becomes a mon-client and stops being one.  On mon-server the   *)
(* registry (internal/registry/registry.go) keeps registration requests and *)
(* mon-clients; an administrator decides on requests and revokes, deletes,  *)
(* disables.  On the box register.Run (internal/client/register) asks and   *)
(* polls, and RunSupervisor (internal/client/app/supervisor.go) keeps the   *)
(* identity in state.json, the undelivered cycles in cycles.json, and acts  *)
(* on 401 and 403.                                                          *)
(*                                                                         *)
(* The token minted by the approval of request r is written r.  A registry  *)
(* transaction is one step (the store has one connection), but GET          *)
(* /v1/register/<id> reads and writes in two statements outside of any, and *)
(* an approval reads the clock before its transaction waits for its turn.   *)
(***************************************************************************)
EXTENDS Integers, FiniteSets

CONSTANTS
    Boxes,           \* the boxes, each behind its own address
    PerIP, Global,   \* maxPendingPerIP (3), maxPendingGlobal (20)
    LosesState,      \* may a box come back without a readable state.json?
    MaxRequests,     \* bound: registration requests
    MaxFaults,       \* bound: lost answers, crashes, requests that time out on a box
    MaxEvents,       \* bound: rejections, replacements, revokes, deletes, disables
    Nothing

Requests == 1..MaxRequests
Clients  == 1..MaxRequests   \* slugs
\* A row of mon_clients; former is history: the tokens a replacement put out of use.
MonClient == [token : {Nothing} \cup Requests, enabled : BOOLEAN, former : SUBSET Requests]
Identity  == [of : Requests, token : BOOLEAN]   \* state.json; ~token: the token is ""

ASSUME RegistrationAssumption ==
    /\ IsFiniteSet(Boxes) /\ Nothing \notin Boxes \cup Requests /\ Nothing \notin MonClient \cup Identity
    /\ {PerIP, Global} \subseteq Nat \ {0}
    /\ LosesState \in BOOLEAN
    /\ {MaxRequests, MaxFaults, MaxEvents} \subseteq Nat

VARIABLES
    request,         \* registration_requests
    client,          \* mon_clients
    recent,          \* the addresses that asked within the last minute
    deciding,        \* an approval or a rejection that has read the clock
    handlers,        \* the polls mon-server has read a row for
    handed,          \* how many answers carried the token of a request
    phase, asked, mem, file, cycles,   \* of a box
    faults, events

server == <<request, client, recent, handed>>
box    == <<phase, asked, mem, file, cycles>>
vars   == <<server, deciding, handlers, box, faults, events>>

Row      == [status : {"none", "pending", "approved", "rejected", "expired"},
             ip : {Nothing} \cup Boxes,    \* remote_ip
             due : BOOLEAN,                \* expires_at has passed
             parked : BOOLEAN,             \* approved_token is not empty
             client : {Nothing} \cup Clients]
Phase    == {"boot", "ask", "poll", "save", "serve", "disabled", "dropCycles", "dropState"}
Seen     == [of : Requests, for : {Nothing} \cup Boxes,
             status : {"pending", "approved", "rejected", "expired"}, due : BOOLEAN, parked : BOOLEAN]

TypeOK ==
    /\ request \in [Requests -> Row]
    /\ client \in [Clients -> {Nothing} \cup MonClient]
    /\ recent \subseteq Boxes
    /\ deciding \in {Nothing} \cup [of : Requests, late : BOOLEAN]
    /\ handlers \subseteq Seen
    /\ handed \in [Requests -> 0..2]
    /\ phase \in [Boxes -> Phase]
    /\ asked \in [Boxes -> {Nothing} \cup Requests]
    /\ mem \in [Boxes -> {Nothing} \cup Identity]
    /\ file \in [Boxes -> {Nothing} \cup Identity]
    /\ cycles \in [Boxes -> SUBSET Requests]
    /\ \A b \in Boxes :
          /\ asked[b] # Nothing <=> phase[b] = "poll"
          /\ phase[b] \in {"serve", "disabled", "dropCycles"} => mem[b] # Nothing /\ file[b] = mem[b]
    /\ \A r \in Requests : request[r].parked => request[r].client # Nothing
    /\ faults \in 0..MaxFaults /\ events \in 0..MaxEvents

NoRow == [status |-> "none", ip |-> Nothing, due |-> FALSE, parked |-> FALSE, client |-> Nothing]

Init ==
    /\ request = [r \in Requests |-> NoRow]
    /\ client = [c \in Clients |-> Nothing]
    /\ recent = {} /\ deciding = Nothing /\ handlers = {}
    /\ handed = [r \in Requests |-> 0]
    /\ phase = [b \in Boxes |-> "boot"]
    /\ asked = [b \in Boxes |-> Nothing]
    /\ mem = [b \in Boxes |-> Nothing] /\ file = [b \in Boxes |-> Nothing]
    /\ cycles = [b \in Boxes |-> {}]
    /\ faults = 0 /\ events = 0

Fault == faults < MaxFaults /\ faults' = faults + 1
Event == events < MaxEvents /\ events' = events + 1

-----------------------------------------------------------------------------
(* Asking *)

\* Mutant: a row nobody has marked counts, however old it is.
AnyPending == {r \in Requests : request[r].status = "pending"}

\* The pending requests, those nobody has marked expired left out.
Pending == {r \in Requests : request[r].status = "pending" /\ ~request[r].due}

\* Registry.Register lets address b ask.
MayRegister(b) ==
    /\ b \notin recent
    /\ Cardinality({r \in Pending : request[r].ip = b}) < PerIP
    /\ Cardinality(Pending) < Global

\* The requests are numbered in the order they are made.
IsNext(r) ==
    /\ request[r].status = "none"
    /\ \A q \in Requests : request[q].status = "none" => r <= q

\* POST /v1/register: the 202 arrives, or is lost and the box asks again.
\* A refusal changes nothing on either side.
Register(b, r) ==
    /\ phase[b] = "ask"
    /\ MayRegister(b) /\ IsNext(r)
    /\ request' = [request EXCEPT ![r] = [NoRow EXCEPT !.status = "pending", !.ip = b]]
    /\ recent' = recent \cup {b}
    /\ \/ /\ phase' = [phase EXCEPT ![b] = "poll"]
          /\ asked' = [asked EXCEPT ![b] = r]
          /\ UNCHANGED faults
       \/ Fault /\ UNCHANGED <<phase, asked>>
    /\ UNCHANGED <<client, deciding, handlers, handed, mem, file, cycles, events>>

MinutePasses(b) ==
    /\ b \in recent
    /\ recent' = recent \ {b}
    /\ UNCHANGED <<request, client, handed, deciding, handlers, box, faults, events>>

Watched(r) == \E b \in Boxes : asked[b] = r

\* expires_at passes.  While a box polls the request this is a bounded event.
Lapses(r) ==
    /\ request[r].status \in {"pending", "approved"} /\ ~request[r].due
    /\ request' = [request EXCEPT ![r].due = TRUE]
    /\ IF Watched(r) THEN Fault ELSE UNCHANGED faults
    /\ UNCHANGED <<client, recent, handed, deciding, handlers, box, events>>

\* Registry.ExpireRequests, of the hourly job.
ExpireRequests ==
    /\ \E r \in Requests : request[r].status = "pending" /\ request[r].due
    /\ request' = [r \in Requests |->
          IF request[r].status = "pending" /\ request[r].due
          THEN [request[r] EXCEPT !.status = "expired"] ELSE request[r]]
    /\ UNCHANGED <<client, recent, handed, deciding, handlers, box, faults, events>>

-----------------------------------------------------------------------------
(* Polling *)

Listening(b) == \E h \in handlers : h.for = b

\* Registry.Poll reads the clock and the row.
PollReads(b) ==
    /\ phase[b] = "poll" /\ ~Listening(b)
    /\ LET row == request[asked[b]] IN
       handlers' = handlers \cup {[of |-> asked[b], for |-> b,
                                  status |-> row.status, due |-> row.due, parked |-> row.parked]}
    /\ UNCHANGED <<server, deciding, box, faults, events>>

\* What the box makes of an answer to its poll; an answer nobody waits for is lost.
Settles(b, ph, id) ==
    IF b = Nothing THEN UNCHANGED <<phase, asked, mem>>
    ELSE /\ phase' = [phase EXCEPT ![b] = ph]
         /\ asked' = [asked EXCEPT ![b] = Nothing]
         /\ mem' = [mem EXCEPT ![b] = id]

Done(h) ==
    /\ handlers' = handlers \ {h}
    /\ UNCHANGED <<client, recent, deciding, file, cycles, faults, events>>

Overdue(h) == h.status \in {"pending", "approved"} /\ h.due

\* loadPendingRequest marks a pending row whatever became of it since it was
\* read; an approved one only if it still is, and takes its token back.
Expired(h) ==
    LET r == h.of IN
    IF h.status = "pending" THEN [request EXCEPT ![r].status = "expired"]
    ELSE IF request[r].status = "approved"
    THEN [request EXCEPT ![r].status = "expired", ![r].parked = FALSE]
    ELSE request

PollExpires(h) ==
    /\ Overdue(h)
    /\ request' = Expired(h)
    /\ Settles(h.for, "ask", Nothing)
    /\ Done(h) /\ UNCHANGED handed

\* Still pending: the box polls again.  Rejected or expired: it asks again,
\* an hour or a few minutes later.
PollTells(h) ==
    /\ ~Overdue(h) /\ h.status # "approved"
    /\ IF h.status = "pending" THEN UNCHANGED <<phase, asked, mem>>
       ELSE Settles(h.for, "ask", Nothing)
    /\ Done(h) /\ UNCHANGED <<request, handed>>

\* Mutant: read, then clear.
ClaimsRead(h) == h.parked

\* UPDATE ... WHERE approved_token = the token read AND status = approved hits a row.
Claims(h) == h.parked /\ request[h.of].parked /\ request[h.of].status = "approved"

PollHandsOver(h) ==
    /\ ~Overdue(h) /\ h.status = "approved"
    /\ request' = [request EXCEPT ![h.of].parked = IF Claims(h) THEN FALSE ELSE @]
    /\ handed' = [handed EXCEPT ![h.of] = IF Claims(h) THEN @ + 1 ELSE @]
    /\ Settles(h.for, "save", [of |-> h.of, token |-> Claims(h)])
    /\ Done(h)

\* The box's call times out; mon-server still does its part.
PollTimesOut(h) ==
    /\ h.for # Nothing
    /\ Fault
    /\ handlers' = (handlers \ {h}) \cup {[h EXCEPT !.for = Nothing]}
    /\ UNCHANGED <<server, deciding, box, events>>

\* The box's clock reaches the expiresAt of the 202, whatever happened to the request.
GivesUp(b) ==
    /\ phase[b] = "poll" /\ ~Listening(b)
    /\ IF request[asked[b]].due THEN UNCHANGED faults ELSE Fault
    /\ Settles(b, "ask", Nothing)
    /\ UNCHANGED <<server, deciding, handlers, file, cycles, events>>

-----------------------------------------------------------------------------
(* The administrator *)

\* Approve, ApproveAsReplacement and Reject read the clock before their transaction.
Opens(r) ==
    /\ deciding = Nothing /\ request[r].status = "pending"
    /\ deciding' = [of |-> r, late |-> request[r].due]
    /\ UNCHANGED <<server, handlers, box, faults, events>>

Decided == deciding' = Nothing /\ UNCHANGED <<recent, handed, handlers, box, faults>>

\* loadPendingRequest inside the transaction: late, or decided meanwhile.
Decidable == deciding # Nothing /\ ~deciding.late /\ request[deciding.of].status = "pending"

\* The error rolls back the mark loadPendingRequest made.
Refused == deciding # Nothing /\ ~Decidable /\ Decided /\ UNCHANGED <<request, client, events>>

\* uniqueSlug: the first name that is free.
IsFree(c) == client[c] = Nothing /\ \A d \in Clients : client[d] = Nothing => c <= d

\* approveTx: the token is parked for TTL from now.
Stamped(c) ==
    [request EXCEPT ![deciding.of] =
        [status |-> "approved", ip |-> @.ip, due |-> FALSE, parked |-> TRUE, client |-> c]]

Approve(c) ==
    /\ Decidable /\ IsFree(c)
    /\ request' = Stamped(c)
    /\ client' = [client EXCEPT ![c] = [token |-> deciding.of, enabled |-> TRUE, former |-> {}]]
    /\ Decided /\ UNCHANGED events

\* The token the mon-client had is dead from here on, also where it is still
\* parked for the box that asked first.
ApproveAsReplacement(c) ==
    /\ Decidable /\ client[c] # Nothing
    /\ Event
    /\ request' = Stamped(c)
    /\ client' = [client EXCEPT ![c].token = deciding.of,
                                ![c].former = @ \cup ({client[c].token} \ {Nothing})]
    /\ Decided

Reject ==
    /\ Decidable
    /\ Event
    /\ request' = [request EXCEPT ![deciding.of].status = "rejected"]
    /\ Decided /\ UNCHANGED client

\* Mutant: a token past its time is left to Poll.
TakenBackInTime(c) ==
    [r \in Requests |-> IF request[r].client = c /\ ~request[r].due
                        THEN [request[r] EXCEPT !.parked = FALSE] ELSE request[r]]

\* clearParkedToken
TakenBack(c) ==
    [r \in Requests |-> IF request[r].client = c
                        THEN [request[r] EXCEPT !.parked = FALSE] ELSE request[r]]

Revoke(c) ==
    /\ client[c] # Nothing
    /\ Event
    /\ client' = [client EXCEPT ![c].token = Nothing]
    /\ request' = TakenBack(c)
    /\ UNCHANGED <<recent, handed, deciding, handlers, box, faults>>

Delete(c) ==
    /\ client[c] # Nothing
    /\ Event
    /\ client' = [client EXCEPT ![c] = Nothing]
    /\ request' = TakenBack(c)
    /\ UNCHANGED <<recent, handed, deciding, handlers, box, faults>>

SetEnabled(c, on) ==
    /\ client[c] # Nothing /\ client[c].enabled # on
    /\ IF on THEN UNCHANGED events ELSE Event
    /\ client' = [client EXCEPT ![c].enabled = on]
    /\ UNCHANGED <<request, recent, handed, deciding, handlers, box, faults>>

-----------------------------------------------------------------------------
(* The box *)

UNSERVED == <<server, deciding, handlers, events>>

\* identity: the file says who this box is, or it registers.
Boot(b) ==
    /\ phase[b] = "boot"
    /\ phase' = [phase EXCEPT ![b] = IF file[b] # Nothing THEN "serve" ELSE "ask"]
    /\ mem' = [mem EXCEPT ![b] = file[b]]
    /\ UNCHANGED <<UNSERVED, asked, file, cycles, faults>>

\* State.Save: a rename, so the old file or the new one.
Saved(b) == [file EXCEPT ![b] = mem[b]]

Save(b) ==
    /\ phase[b] = "save"
    /\ file' = Saved(b)
    /\ phase' = [phase EXCEPT ![b] = "serve"]
    /\ UNCHANGED <<UNSERVED, asked, mem, cycles, faults>>

\* Registry.Authenticate
Authenticate(id) ==
    LET its == {c \in Clients : client[c] # Nothing /\ id.token /\ client[c].token = id.of} IN
    IF its = {} THEN "401"
    ELSE IF \A c \in its : client[c].enabled THEN "200" ELSE "403"

\* statusToError and what the supervisor does about each: a revoked token and a
\* disabled mon-client end the loop.
After(answer) ==
    CASE answer = "200" -> "serve"
      [] answer = "401" -> "dropCycles"
      [] answer = "403" -> "disabled"

\* A tick: the probes' results go to cycles.json before the heartbeat.  An
\* empty token never gets a config and probes nothing.
Probe(b) ==
    /\ phase[b] = "serve" /\ mem[b].token
    /\ cycles' = [cycles EXCEPT ![b] = @ \cup {mem[b].of}]
    /\ UNCHANGED <<UNSERVED, phase, asked, mem, file, faults>>

\* A heartbeat of the loop: delivered, refused for good, or refused for now.
Heartbeat(b) ==
    /\ phase[b] = "serve"
    /\ LET answer == Authenticate(mem[b]) IN
       /\ cycles' = IF answer = "200" THEN [cycles EXCEPT ![b] = {}] ELSE cycles
       /\ phase' = [phase EXCEPT ![b] = After(answer)]
    /\ UNCHANGED <<UNSERVED, asked, mem, file, faults>>

\* waitEnabled: a bare heartbeat every five minutes.
BareHeartbeat(b) ==
    /\ phase[b] = "disabled"
    /\ phase' = [phase EXCEPT ![b] = After(Authenticate(mem[b]))]
    /\ UNCHANGED <<UNSERVED, asked, mem, file, cycles, faults>>

\* Mutant: the identity is dropped first.
StateFirst(b) ==
    IF phase[b] = "dropCycles"
    THEN file' = [file EXCEPT ![b] = Nothing] /\ UNCHANGED cycles
    ELSE cycles' = [cycles EXCEPT ![b] = {}] /\ UNCHANGED file

\* clearState removes cycles.json, then state.json.
Drop(b) ==
    IF phase[b] = "dropCycles"
    THEN cycles' = [cycles EXCEPT ![b] = {}] /\ UNCHANGED file
    ELSE file' = [file EXCEPT ![b] = Nothing] /\ UNCHANGED cycles

ClearState(b) ==
    /\ phase[b] \in {"dropCycles", "dropState"}
    /\ Drop(b)
    /\ phase' = [phase EXCEPT ![b] = IF @ = "dropCycles" THEN "dropState" ELSE "ask"]
    /\ mem' = [mem EXCEPT ![b] = IF phase[b] = "dropCycles" THEN @ ELSE Nothing]
    /\ UNCHANGED <<UNSERVED, asked, faults>>

\* The process ends and is started again, perhaps on a state.json that no
\* longer decodes: identity() removes that file, and no other.
Crash(b) ==
    /\ phase[b] # "boot"
    /\ Fault
    /\ phase' = [phase EXCEPT ![b] = "boot"]
    /\ asked' = [asked EXCEPT ![b] = Nothing]
    /\ mem' = [mem EXCEPT ![b] = Nothing]
    /\ handlers' = {[h EXCEPT !.for = IF @ = b THEN Nothing ELSE @] : h \in handlers}
    /\ \/ UNCHANGED file
       \/ LosesState /\ file' = [file EXCEPT ![b] = Nothing]
    /\ UNCHANGED <<server, deciding, cycles, events>>

-----------------------------------------------------------------------------
Answers(h) == PollExpires(h) \/ PollTells(h) \/ PollHandsOver(h)

Decides ==
    \/ Reject \/ Refused
    \/ \E c \in Clients : Approve(c) \/ ApproveAsReplacement(c)

Box(b) ==
    \/ \E r \in Requests : Register(b, r)
    \/ PollReads(b) \/ Boot(b) \/ Save(b)
    \/ Heartbeat(b) \/ BareHeartbeat(b) \/ ClearState(b)

Next ==
    \/ \E b \in Boxes : Box(b) \/ Probe(b) \/ MinutePasses(b) \/ GivesUp(b) \/ Crash(b)
    \/ \E h \in handlers : Answers(h) \/ PollTimesOut(h)
    \/ \E r \in Requests : Lapses(r) \/ Opens(r)
    \/ ExpireRequests \/ Decides
    \/ \E c \in Clients : Revoke(c) \/ Delete(c) \/ \E on \in BOOLEAN : SetEnabled(c, on)

\* The box's loops go on, mon-server answers what it has read, minutes pass;
\* the administrator opens every request that stays open, finishes what he
\* opened, and switches back on what he switched off.
Fairness ==
    /\ \A b \in Boxes :
          /\ WF_vars(Box(b)) /\ WF_vars(MinutePasses(b))
          /\ WF_vars(\E h \in handlers : h.for = b /\ Answers(h))
    /\ \A r \in Requests : SF_vars(Opens(r)) /\ WF_vars(Lapses(r) /\ ~Watched(r))
    /\ WF_vars(Decides)
    /\ \A c \in Clients : WF_vars(SetEnabled(c, TRUE))

Spec == Init /\ [][Next]_vars /\ Fairness

-----------------------------------------------------------------------------
(* Properties *)

\* At most one answer ever carries the token of a request, however many polls
\* of it mon-server is serving and however they interleave.
HandedOnce == \A r \in Requests : handed[r] <= 1

\* A token waiting to be handed out is the token of a mon-client that exists and
\* is not revoked, or was until an administrator approved another box in its
\* place: Revoke and Delete leave none behind, whatever the request has been
\* through, and nothing else but a replacement makes a parked token useless.
ParkedIsLive ==
    \A r \in Requests : request[r].parked =>
        LET c == request[r].client
        IN  /\ client[c] # Nothing /\ client[c].token # Nothing
            /\ client[c].token = r \/ r \in client[c].former

\* What waits to be handed out is accepted by mon-server: the same without the
\* excuse of a replacement.
ParkedIsCurrent ==
    \A r \in Requests : request[r].parked =>
        client[request[r].client] # Nothing /\ client[request[r].client].token = r

\* A box never holds the measurements of another identity than its own while
\* it sends heartbeats, so no mon-client is credited with another one's.
OwnCyclesOnly == \A b \in Boxes : phase[b] = "serve" => cycles[b] \subseteq {mem[b].of}

\* An approval within its five minutes is not turned into an expired request
\* by a poll that read the row before it.
ApprovalStands ==
    [][\A r \in Requests :
          request[r].status = "approved" /\ ~request[r].due => request'[r].status # "expired"]_vars

\* With an administrator who approves, every box ends up with an identity
\* that mon-server accepts and keeps it, whatever answers and tokens were lost,
\* processes crashed, and whoever was revoked, deleted, disabled or replaced on
\* the way.  A box that loses its state.json is excused: LosesState is FALSE here.
Works(b) == phase[b] = "serve" /\ Authenticate(mem[b]) = "200"
Adopted == \A b \in Boxes : <>[]Works(b)
===============================================================================
