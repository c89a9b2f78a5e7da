--------------------------- MODULE RegistrationProofs ---------------------------
(***************************************************************************)
(* The token of a registration request is handed out at most once, for any *)
(* number of boxes, requests and polls in flight, and while it waits it is *)
(* its mon-client's, or was until a replacement was approved.  A box that keeps its state.json sends  *)
(* no other identity's cycles.                                             *)
(*                                                                         *)
(* A token is handed out by the UPDATE that takes it, and parked only by   *)
(* the approval of a pending request; so it is enough that a request that  *)
(* is pending, or whose token is parked, has not handed it out.            *)
(***************************************************************************)
EXTENDS Registration, TLAPS

\* A poll mon-server is serving.
Handler == [of : Requests, for : {Nothing} \cup Boxes,
            status : {"none", "pending", "approved", "rejected", "expired"},
            due : BOOLEAN, parked : BOOLEAN]

Types ==
    /\ request \in [Requests -> Row]
    /\ client \in [Clients -> {Nothing} \cup MonClient]
    /\ handed \in [Requests -> Nat]
    /\ deciding \in {Nothing} \cup [of : Requests, late : BOOLEAN]
    /\ handlers \subseteq Handler

\* A box that polls polls a request.
Asking ==
    /\ phase \in [Boxes -> Phase] /\ asked \in [Boxes -> {Nothing} \cup Requests]
    /\ \A b \in Boxes : phase[b] = "poll" => asked[b] \in Requests

\* A request that is not decided has handed nothing out, and neither has one
\* whose token is parked.
Once ==
    \A r \in Requests :
        /\ handed[r] <= 1
        /\ request[r].status \in {"none", "pending"} => handed[r] = 0 /\ ~request[r].parked
        /\ request[r].parked => handed[r] = 0 /\ request[r].client \in Clients

IInv == Types /\ Asking /\ Once /\ ParkedIsLive

-----------------------------------------------------------------------------

\* The empty row is a row.
LEMMA NoRowIsRow == NoRow \in Row /\ NoRow.status = "none" /\ ~NoRow.parked
BY DEF NoRow, Row

LEMMA InitEstablishes == Init => IInv
BY NoRowIsRow DEF Init, IInv, Types, Asking, Phase, Once, ParkedIsLive

\* What a step does to the requests and the clients settles the invariant.
LEMMA FrameTypes ==
    ASSUME IInv,
           UNCHANGED <<request, client, handed>>,
           deciding' = deciding \/ deciding' \in {Nothing} \cup [of : Requests, late : BOOLEAN],
           handlers' \subseteq Handler,
           Asking'
    PROVE  IInv'
BY DEF IInv, Types, Once, ParkedIsLive

LEMMA RegisterPreserves ==
    ASSUME IInv, NEW b \in Boxes, NEW r \in Requests, Register(b, r)
    PROVE  IInv'
<1> DEFINE row == [NoRow EXCEPT !.status = "pending", !.ip = b]
<1>1. row \in Row /\ row.status = "pending" /\ ~row.parked
  BY DEF NoRow, Row
<1>2. request' = [request EXCEPT ![r] = row] /\ UNCHANGED <<client, handed, deciding, handlers>>
  BY DEF Register
<1>3. request[r].status = "none"
  BY DEF Register, IsNext
<1> HIDE DEF row
<1>4. Types'
  BY <1>1, <1>2 DEF IInv, Types
<1>8. Asking'
  BY DEF IInv, Asking, Register, Phase
<1>5. Once'
  BY <1>1, <1>2, <1>3 DEF IInv, Types, Once
<1>6. \A q \in Requests : request'[q].parked => q # r /\ request'[q] = request[q]
  BY <1>1, <1>2 DEF IInv, Types
<1>7. ParkedIsLive'
  BY <1>2, <1>6 DEF IInv, ParkedIsLive
<1> QED BY <1>4, <1>5, <1>7, <1>8 DEF IInv

LEMMA LapsesPreserves ==
    ASSUME IInv, NEW r \in Requests, Lapses(r)
    PROVE  IInv'
<1>1. request' = [request EXCEPT ![r].due = TRUE]
      /\ UNCHANGED <<client, handed, deciding, handlers, phase, asked>>
  BY DEF Lapses, box
<1>2. Types' /\ Asking'
  BY <1>1 DEF IInv, Types, Row, Asking
<1>3. \A q \in Requests : /\ request'[q].status = request[q].status
                          /\ request'[q].parked = request[q].parked
                          /\ request'[q].client = request[q].client
  BY <1>1 DEF IInv, Types, Row
<1>4. Once' /\ ParkedIsLive'
  BY <1>1, <1>3 DEF IInv, Once, ParkedIsLive
<1> QED BY <1>2, <1>4 DEF IInv

LEMMA ExpireRequestsPreserves ==
    ASSUME IInv, ExpireRequests
    PROVE  IInv'
<1>1. UNCHANGED <<client, handed, deciding, handlers, phase, asked>>
  BY DEF ExpireRequests, box
<1>2. \A q \in Requests : \/ request'[q] = request[q]
                          \/ request'[q] = [request[q] EXCEPT !.status = "expired"]
  BY DEF ExpireRequests
<1>3. request' \in [Requests -> Row]
  BY DEF ExpireRequests, IInv, Types, Row
<1>4. \A q \in Requests : /\ request'[q].status \in {request[q].status, "expired"}
                          /\ request'[q].parked = request[q].parked
                          /\ request'[q].client = request[q].client
  BY <1>2 DEF IInv, Types, Row
<1>5. Types' /\ Asking'
  BY <1>1, <1>3 DEF IInv, Types, Asking
<1>6. Once' /\ ParkedIsLive'
  BY <1>1, <1>4 DEF IInv, Once, ParkedIsLive
<1> QED BY <1>5, <1>6 DEF IInv

LEMMA PollReadsPreserves ==
    ASSUME IInv, NEW b \in Boxes, PollReads(b)
    PROVE  IInv'
<1>1. Asking'
  BY DEF PollReads, box, IInv, Asking
<1>2. handlers' \subseteq Handler
  BY DEF PollReads, IInv, Types, Asking, Row, Handler
<1> QED BY <1>1, <1>2, FrameTypes DEF PollReads, server

\* An answer takes a box out of polling.
LEMMA SettlesPreserves ==
    ASSUME Asking, NEW b \in {Nothing} \cup Boxes, NEW ph \in Phase \ {"poll"}, NEW id, Settles(b, ph, id)
    PROVE  Asking'
BY DEF Settles, Asking

\* A poll that expires a request leaves its token where it is or takes it back.
LEMMA PollExpiresPreserves ==
    ASSUME IInv, NEW h \in handlers, PollExpires(h)
    PROVE  IInv'
<1>1. h.of \in Requests
  BY DEF IInv, Types, Handler
<1>2. request' \in [Requests -> Row]
  BY <1>1 DEF PollExpires, Expired, IInv, Types, Row
<1>3. \A q \in Requests : /\ request'[q].status \in {request[q].status, "expired"}
                          /\ request'[q].parked => request[q].parked
                          /\ request'[q].client = request[q].client
  BY <1>1 DEF PollExpires, Expired, IInv, Types, Row
<1>4. UNCHANGED <<client, handed, deciding>> /\ handlers' \subseteq handlers
  BY DEF PollExpires, Done
<1>5. Asking'
  BY SettlesPreserves DEF PollExpires, IInv, Phase, Types, Handler
<1>6. Types'
  BY <1>2, <1>4 DEF IInv, Types
<1>7. Once' /\ ParkedIsLive'
  BY <1>3, <1>4 DEF IInv, Once, ParkedIsLive
<1> QED BY <1>5, <1>6, <1>7 DEF IInv

LEMMA PollTellsPreserves ==
    ASSUME IInv, NEW h \in handlers, PollTells(h)
    PROVE  IInv'
<1>1. UNCHANGED <<request, handed, client, deciding>> /\ handlers' \subseteq handlers
  BY DEF PollTells, Done
<1>2. CASE h.status = "pending"
  <2>1. Asking'
    BY <1>2 DEF PollTells, IInv, Asking
  <2> QED BY <1>1, <2>1, FrameTypes DEF IInv, Types
<1>3. CASE h.status # "pending"
  <2>1. Asking'
    BY <1>3, SettlesPreserves DEF PollTells, IInv, Types, Phase, Handler
  <2> QED BY <1>1, <2>1, FrameTypes DEF IInv, Types
<1> QED BY <1>2, <1>3

\* The answer that carries the token has taken it out of the row.
LEMMA PollHandsOverPreserves ==
    ASSUME IInv, NEW h \in handlers, PollHandsOver(h)
    PROVE  IInv'
<1>1. h.of \in Requests
  BY DEF IInv, Types, Handler
<1>2. UNCHANGED <<client, deciding>> /\ handlers' \subseteq handlers
  BY DEF PollHandsOver, Done
<1>3. Asking'
  BY SettlesPreserves DEF PollHandsOver, IInv, Types, Phase, Handler
<1>4. CASE Claims(h)
  <2>1. /\ request' = [request EXCEPT ![h.of].parked = FALSE]
        /\ handed' = [handed EXCEPT ![h.of] = @ + 1]
    BY <1>4 DEF PollHandsOver
  <2>2. request[h.of].parked /\ request[h.of].status = "approved" /\ handed[h.of] = 0
    BY <1>1, <1>4 DEF Claims, IInv, Once
  <2>3. Types'
    <3>1. request' \in [Requests -> Row]
      BY <1>1, <2>1 DEF IInv, Types, Row
    <3>2. handed' \in [Requests -> Nat]
      BY <1>1, <2>1, <2>2 DEF IInv, Types
    <3> QED BY <1>2, <3>1, <3>2 DEF IInv, Types
  <2>4. \A q \in Requests : /\ request'[q].status = request[q].status
                            /\ request'[q].client = request[q].client
                            /\ request'[q].parked => q # h.of /\ request[q].parked
    BY <1>1, <2>1 DEF IInv, Types, Row
  <2>5. \A q \in Requests : handed'[q] = IF q = h.of THEN 1 ELSE handed[q]
    BY <1>1, <2>1, <2>2 DEF IInv, Types
  <2>6. Once'
    BY <1>1, <2>2, <2>4, <2>5 DEF IInv, Once
  <2>7. ParkedIsLive'
    BY <1>2, <2>4 DEF IInv, ParkedIsLive
  <2> QED BY <1>3, <2>3, <2>6, <2>7 DEF IInv
<1>5. CASE ~Claims(h)
  <2>1. /\ request' = [request EXCEPT ![h.of].parked = @]
        /\ handed' = [handed EXCEPT ![h.of] = @]
    BY <1>5 DEF PollHandsOver
  <2>2. Types'
    <3>1. request' \in [Requests -> Row]
      BY <1>1, <2>1 DEF IInv, Types, Row
    <3>2. handed' \in [Requests -> Nat]
      BY <1>1, <2>1 DEF IInv, Types
    <3> QED BY <1>2, <3>1, <3>2 DEF IInv, Types
  <2>3. \A q \in Requests : /\ request'[q].status = request[q].status
                            /\ request'[q].client = request[q].client
                            /\ request'[q].parked = request[q].parked
                            /\ handed'[q] = handed[q]
    BY <1>1, <2>1 DEF IInv, Types, Row
  <2>4. Once' /\ ParkedIsLive'
    BY <1>2, <2>3 DEF IInv, Once, ParkedIsLive
  <2> QED BY <1>3, <2>2, <2>4 DEF IInv
<1> QED BY <1>4, <1>5

LEMMA PollTimesOutPreserves ==
    ASSUME IInv, NEW h \in handlers, PollTimesOut(h)
    PROVE  IInv'
<1>1. handlers' \subseteq Handler
  BY DEF PollTimesOut, IInv, Types, Handler
<1>2. Asking'
  BY DEF PollTimesOut, box, IInv, Asking
<1> QED BY <1>1, <1>2, FrameTypes DEF PollTimesOut, server

LEMMA GivesUpPreserves ==
    ASSUME IInv, NEW b \in Boxes, GivesUp(b)
    PROVE  IInv'
<1>1. Asking'
  BY SettlesPreserves DEF GivesUp, IInv, Phase
<1> QED BY <1>1, FrameTypes DEF GivesUp, server, IInv, Types

LEMMA MinutePassesPreserves ==
    ASSUME IInv, NEW b \in Boxes, MinutePasses(b)
    PROVE  IInv'
BY FrameTypes DEF MinutePasses, box, IInv, Types, Asking

LEMMA OpensPreserves ==
    ASSUME IInv, NEW r \in Requests, Opens(r)
    PROVE  IInv'
BY FrameTypes DEF Opens, server, box, IInv, Types, Asking, Row

-----------------------------------------------------------------------------

\* Approve and ApproveAsReplacement park the token of a pending request under
\* a client that then has it.
LEMMA StampedPreserves ==
    ASSUME IInv, Decidable, NEW c \in Clients, request' = Stamped(c),
           client' \in [Clients -> {Nothing} \cup MonClient],
           client'[c] # Nothing /\ client'[c].token = deciding.of /\ deciding.of # Nothing,
           \A r \in Requests : r # deciding.of /\ request[r].parked /\ request[r].client = c
                => r \in client'[c].former,
           \A d \in Clients \ {c} : client'[d] = client[d]
    PROVE  /\ request' \in [Requests -> Row] /\ ParkedIsLive'
           /\ \A q \in Requests : q # deciding.of => request'[q] = request[q]
           /\ request[deciding.of].status = "pending"
           /\ request'[deciding.of].status = "approved" /\ request'[deciding.of].client = c
<1>1. deciding.of \in Requests /\ request[deciding.of].status = "pending"
  BY DEF Decidable, IInv, Types
<1>2. request' \in [Requests -> Row]
  BY <1>1 DEF Stamped, IInv, Types, Row
<1>3. request'[deciding.of].client = c /\ request'[deciding.of].status = "approved"
  BY <1>1 DEF Stamped, IInv, Types, Row
<1>4. \A q \in Requests : q # deciding.of => request'[q] = request[q]
  BY <1>1 DEF Stamped, IInv, Types
<1>5. ParkedIsLive'
  BY <1>1, <1>3, <1>4 DEF IInv, Once, ParkedIsLive
<1> QED BY <1>1, <1>2, <1>3, <1>4, <1>5

\* An approval, given what it makes of the clients.
LEMMA ApprovalPreserves ==
    ASSUME IInv, Decidable, Decided, NEW c \in Clients, request' = Stamped(c),
           client' \in [Clients -> {Nothing} \cup MonClient],
           client'[c] # Nothing /\ client'[c].token = deciding.of /\ deciding.of # Nothing,
           \A r \in Requests : r # deciding.of /\ request[r].parked /\ request[r].client = c
                => r \in client'[c].former,
           \A d \in Clients \ {c} : client'[d] = client[d]
    PROVE  IInv'
<1>1. deciding.of \in Requests /\ handed[deciding.of] = 0
  BY StampedPreserves DEF Decidable, IInv, Types, Once
<1>2. Types' /\ Asking'
  BY StampedPreserves DEF Decided, box, IInv, Types, Asking
<1>3. /\ \A q \in Requests : q # deciding.of => request'[q] = request[q]
      /\ request'[deciding.of].status = "approved" /\ request'[deciding.of].client = c
  BY StampedPreserves
<1>4. Once'
  <2>1. handed' = handed
    BY DEF Decided
  <2>2. ASSUME NEW q \in Requests, q # deciding.of
        PROVE  /\ handed'[q] <= 1
               /\ request'[q].status \in {"none", "pending"} => handed'[q] = 0 /\ ~request'[q].parked
               /\ request'[q].parked => handed'[q] = 0 /\ request'[q].client \in Clients
    BY <1>3, <2>1, <2>2 DEF IInv, Once
  <2>3. handed'[deciding.of] = 0
    BY <1>1, <2>1
  <2> QED BY <1>1, <1>3, <2>2, <2>3 DEF Once
<1> QED BY <1>2, <1>4, StampedPreserves DEF IInv

LEMMA DecidingIsNoToken == ASSUME IInv, Decidable PROVE deciding.of \in Requests /\ deciding.of # Nothing
BY RegistrationAssumption DEF RegistrationAssumption, Decidable, IInv, Types

\* A mon-client is something: no record is the token of nobody.
LEMMA ClientIsSomething == ASSUME NEW m \in MonClient PROVE m # Nothing
BY RegistrationAssumption DEF RegistrationAssumption, MonClient

LEMMA ApprovePreserves ==
    ASSUME IInv, NEW c \in Clients, Approve(c)
    PROVE  IInv'
<1>1. [token |-> deciding.of, enabled |-> TRUE, former |-> {}] \in MonClient
  BY DecidingIsNoToken DEF Approve, MonClient
<1>2. client' = [client EXCEPT ![c] = [token |-> deciding.of, enabled |-> TRUE, former |-> {}]]
  BY DEF Approve
<1>3. client' \in [Clients -> {Nothing} \cup MonClient] /\ \A d \in Clients \ {c} : client'[d] = client[d]
  BY <1>1, <1>2 DEF IInv, Types
<1>4. client'[c] # Nothing /\ client'[c].token = deciding.of /\ deciding.of # Nothing
  <2>1. client'[c] = [token |-> deciding.of, enabled |-> TRUE, former |-> {}]
    BY <1>2 DEF IInv, Types
  <2>2. deciding.of # Nothing
    BY DecidingIsNoToken DEF Approve
  <2>3. client'[c].token = deciding.of
    BY <2>1
  <2>4. client'[c] # Nothing
    BY <1>1, <2>1, ClientIsSomething
  <2> QED BY <2>2, <2>3, <2>4
<1>5. \A r \in Requests : ~(request[r].parked /\ request[r].client = c)
  BY DEF Approve, IsFree, IInv, ParkedIsLive
<1> QED BY <1>3, <1>4, <1>5, ApprovalPreserves DEF Approve

LEMMA ReplacementPreserves ==
    ASSUME IInv, NEW c \in Clients, ApproveAsReplacement(c)
    PROVE  IInv'
<1>1. client[c] \in MonClient
  BY DEF ApproveAsReplacement, IInv, Types
<1> DEFINE new == [client[c] EXCEPT !.token = deciding.of,
                                    !.former = @ \cup ({client[c].token} \ {Nothing})]
<1>2. client' = [client EXCEPT ![c] = new]
  BY DEF ApproveAsReplacement
<1>3. /\ new \in MonClient /\ new.token = deciding.of
      /\ new.former = client[c].former \cup ({client[c].token} \ {Nothing})
  BY <1>1, DecidingIsNoToken DEF ApproveAsReplacement, MonClient
<1> HIDE DEF new
<1>4. /\ client' \in [Clients -> {Nothing} \cup MonClient] /\ \A d \in Clients \ {c} : client'[d] = client[d]
      /\ client'[c] = new
  BY <1>2, <1>3 DEF IInv, Types
<1>5. client'[c] # Nothing /\ client'[c].token = deciding.of /\ deciding.of # Nothing
  BY <1>3, <1>4, DecidingIsNoToken, ClientIsSomething DEF ApproveAsReplacement
<1>6. \A r \in Requests : request[r].parked /\ request[r].client = c => r \in client'[c].former
  BY <1>3, <1>4 DEF IInv, ParkedIsLive
<1> QED BY <1>4, <1>5, <1>6, ApprovalPreserves DEF ApproveAsReplacement

LEMMA RejectPreserves ==
    ASSUME IInv, Reject \/ Refused
    PROVE  IInv'
<1>1. CASE Refused
  BY <1>1, FrameTypes DEF Refused, Decided, box, IInv, Types, Asking
<1>2. CASE Reject
  <2>1. deciding.of \in Requests
    BY <1>2, DecidingIsNoToken DEF Reject
  <2>2. request' = [request EXCEPT ![deciding.of].status = "rejected"]
        /\ deciding' = Nothing /\ UNCHANGED <<client, handed, handlers, phase, asked>>
    BY <1>2 DEF Reject, Decided, box
  <2>3. Types' /\ Asking'
    BY <2>1, <2>2 DEF IInv, Types, Row, Asking
  <2>4. \A q \in Requests : /\ request'[q].status \in {request[q].status, "rejected"}
                            /\ request'[q].parked = request[q].parked
                            /\ request'[q].client = request[q].client
    BY <2>1, <2>2 DEF IInv, Types, Row
  <2>5. Once' /\ ParkedIsLive'
    BY <2>2, <2>4 DEF IInv, Once, ParkedIsLive
  <2> QED BY <2>3, <2>5 DEF IInv
<1> QED BY <1>1, <1>2

\* A client that goes takes its parked tokens along.
LEMMA TakenBackPreserves ==
    ASSUME IInv, NEW c \in Clients, request' = TakenBack(c),
           client' \in [Clients -> {Nothing} \cup MonClient],
           \A d \in Clients \ {c} : client'[d] = client[d],
           UNCHANGED <<handed, deciding, handlers, box>>
    PROVE  IInv'
<1>1. request' \in [Requests -> Row]
  <2>1. \A row \in Row : [row EXCEPT !.parked = FALSE] \in Row
    BY DEF Row
  <2> QED BY <2>1 DEF TakenBack, IInv, Types
<1>2. \A q \in Requests : /\ request'[q].status = request[q].status
                          /\ request'[q].client = request[q].client
                          /\ request'[q].parked => request[q].parked /\ request[q].client # c
  BY DEF TakenBack, IInv, Types, Row
<1>3. Types' /\ Asking'
  BY <1>1 DEF box, IInv, Types, Asking
<1>4. Once'
  BY <1>2 DEF IInv, Once
<1>5. ParkedIsLive'
  BY <1>2 DEF IInv, Once, ParkedIsLive
<1> QED BY <1>3, <1>4, <1>5 DEF IInv

LEMMA EndPreserves ==
    ASSUME IInv, NEW c \in Clients, Revoke(c) \/ Delete(c)
    PROVE  IInv'
<1>1. CASE Revoke(c)
  <2>1. client' \in [Clients -> {Nothing} \cup MonClient] /\ \A d \in Clients \ {c} : client'[d] = client[d]
    BY <1>1 DEF Revoke, IInv, Types, MonClient
  <2> QED BY <1>1, <2>1, TakenBackPreserves DEF Revoke
<1>2. CASE Delete(c)
  <2>1. client' \in [Clients -> {Nothing} \cup MonClient] /\ \A d \in Clients \ {c} : client'[d] = client[d]
    BY <1>2 DEF Delete, IInv, Types
  <2> QED BY <1>2, <2>1, TakenBackPreserves DEF Delete
<1> QED BY <1>1, <1>2

LEMMA SetEnabledPreserves ==
    ASSUME IInv, NEW c \in Clients, NEW on \in BOOLEAN, SetEnabled(c, on)
    PROVE  IInv'
<1>1. client[c] \in MonClient
  BY DEF SetEnabled, IInv, Types
<1>2. client' = [client EXCEPT ![c] = [client[c] EXCEPT !.enabled = on]]
  BY DEF SetEnabled
<1>3. [client[c] EXCEPT !.enabled = on] \in MonClient
      /\ [client[c] EXCEPT !.enabled = on].token = client[c].token
      /\ [client[c] EXCEPT !.enabled = on].former = client[c].former
  BY <1>1 DEF MonClient
<1>4. UNCHANGED <<request, handed, deciding, handlers, phase, asked>>
  BY DEF SetEnabled, box
<1>5. Types' /\ Asking'
  BY <1>2, <1>3, <1>4 DEF IInv, Types, Asking
<1>6. \A d \in Clients : client[d] # Nothing => /\ client'[d] # Nothing
                                                  /\ client'[d].token = client[d].token
                                                  /\ client'[d].former = client[d].former
  BY <1>2, <1>3, ClientIsSomething DEF IInv, Types
<1>7. Once' /\ ParkedIsLive'
  BY <1>4, <1>6 DEF IInv, Once, ParkedIsLive
<1> QED BY <1>5, <1>7 DEF IInv

\* What a box does to its own files is nothing to mon-server.
LEMMA BoxPreserves ==
    ASSUME IInv, NEW b \in Boxes,
           Boot(b) \/ Save(b) \/ Probe(b) \/ Heartbeat(b) \/ BareHeartbeat(b) \/ ClearState(b)
    PROVE  IInv'
<1>1. UNCHANGED <<request, client, handed, deciding, handlers>>
  BY DEF Boot, Save, Probe, Heartbeat, BareHeartbeat, ClearState, UNSERVED, server
<1>2. asked' = asked
  BY DEF Boot, Save, Probe, Heartbeat, BareHeartbeat, ClearState
<1>3. phase' = phase \/ \E ph \in Phase \ {"poll"} : phase' = [phase EXCEPT ![b] = ph]
  <2>1. CASE Boot(b) \/ Save(b) \/ Probe(b) \/ ClearState(b)
    BY <2>1 DEF Boot, Save, Probe, ClearState, Phase
  <2>2. CASE Heartbeat(b) \/ BareHeartbeat(b)
    <3>1. Authenticate(mem[b]) \in {"200", "401", "403"}
      BY DEF Authenticate
    <3> QED BY <2>2, <3>1 DEF Heartbeat, BareHeartbeat, After, Phase
  <2> QED BY <2>1, <2>2
<1>4. Asking'
  BY <1>2, <1>3 DEF IInv, Asking
<1> QED BY <1>1, <1>4, FrameTypes DEF IInv, Types

LEMMA CrashPreserves ==
    ASSUME IInv, NEW b \in Boxes, Crash(b)
    PROVE  IInv'
<1>1. Asking'
  BY DEF Crash, IInv, Asking, Phase
<1>2. handlers' \subseteq Handler
  BY DEF Crash, IInv, Types, Handler
<1> QED BY <1>1, <1>2, FrameTypes DEF Crash, server

LEMMA StepPreserves == IInv /\ [Next]_vars => IInv'
<1> SUFFICES ASSUME IInv, [Next]_vars PROVE IInv'
  OBVIOUS
<1>1. ASSUME NEW b \in Boxes, Box(b) \/ Probe(b) \/ MinutePasses(b) \/ GivesUp(b) \/ Crash(b)
      PROVE  IInv'
  BY <1>1, RegisterPreserves, PollReadsPreserves, BoxPreserves, MinutePassesPreserves,
     GivesUpPreserves, CrashPreserves DEF Box
<1>2. ASSUME NEW h \in handlers, Answers(h) \/ PollTimesOut(h)
      PROVE  IInv'
  BY <1>2, PollExpiresPreserves, PollTellsPreserves, PollHandsOverPreserves, PollTimesOutPreserves DEF Answers
<1>3. ASSUME NEW r \in Requests, Lapses(r) \/ Opens(r)
      PROVE  IInv'
  BY <1>3, LapsesPreserves, OpensPreserves
<1>4. CASE ExpireRequests \/ Decides
  BY <1>4, ExpireRequestsPreserves, RejectPreserves, ApprovePreserves, ReplacementPreserves DEF Decides
<1>5. ASSUME NEW c \in Clients, Revoke(c) \/ Delete(c) \/ \E on \in BOOLEAN : SetEnabled(c, on)
      PROVE  IInv'
  BY <1>5, EndPreserves, SetEnabledPreserves
<1>6. CASE UNCHANGED vars
  BY <1>6, FrameTypes DEF vars, server, box, IInv, Types, Asking
<1> QED BY <1>1, <1>2, <1>3, <1>4, <1>5, <1>6 DEF Next

\* The token of a request travels in one answer at most, for any number of polls
\* in flight, lost answers, expiries and administrators (Registry.Poll: the UPDATE
\* that clears approved_token decides who gets it).
THEOREM TokenIsHandedOnce == Spec => []HandedOnce
<1>1. IInv => HandedOnce
  BY DEF IInv, Once, HandedOnce
<1> QED BY <1>1, InitEstablishes, StepPreserves, PTL DEF Spec

\* A parked token is its mon-client's own, or was until a replacement was approved;
\* Revoke and Delete leave none behind (Registry.clearParkedToken).
THEOREM ParkedTokensAreLive == Spec => []ParkedIsLive
<1>1. IInv => ParkedIsLive
  BY DEF IInv
<1> QED BY <1>1, InitEstablishes, StepPreserves, PTL DEF Spec

-----------------------------------------------------------------------------
(* Whose cycles a box keeps *)

\* state.json and cycles.json of one box: the cycles are always those of the
\* identity in the file, so that dropping the cycles first leaves none orphaned.
Own(b) ==
    /\ phase[b] \in {"ask", "poll", "save"} => file[b] = Nothing
    /\ phase[b] \in {"serve", "disabled", "dropCycles"} => file[b] = mem[b] /\ mem[b] # Nothing
    /\ phase[b] = "save" => mem[b] \in Identity
    /\ file[b] = Nothing => cycles[b] = {}
    /\ file[b] # Nothing => cycles[b] \subseteq {file[b].of}
    /\ phase[b] = "dropState" => cycles[b] = {}

\* A box waits for one poll at a time, and only while it polls.
Calls ==
    /\ \A h \in handlers : h.for # Nothing => phase[h.for] = "poll"
    /\ \A h, k \in handlers : h.for = k.for /\ h.for # Nothing => h = k

Boxed ==
    /\ phase \in [Boxes -> Phase] /\ asked \in [Boxes -> {Nothing} \cup Requests]
    /\ mem \in [Boxes -> {Nothing} \cup Identity]
    /\ file \in [Boxes -> {Nothing} \cup Identity]
    /\ cycles \in [Boxes -> SUBSET Requests]

OInv == Boxed /\ Calls /\ \A b \in Boxes : Own(b)

\* A step that touches one box at most, and no poll.
LEMMA OneBox ==
    ASSUME IInv, OInv, Boxed', handlers' = handlers,
           NEW b \in Boxes, Own(b)',
           \A a \in Boxes \ {b} : /\ phase'[a] = phase[a] /\ mem'[a] = mem[a]
                                  /\ file'[a] = file[a] /\ cycles'[a] = cycles[a],
           phase[b] = "poll" => \A h \in handlers : h.for # b
    PROVE  OInv'
<1>1. \A a \in Boxes \ {b} : Own(a)'
  BY DEF OInv, Own
<1>2. ASSUME NEW h \in handlers', h.for # Nothing PROVE phase'[h.for] = "poll"
  <2>1. h.for \in Boxes /\ phase[h.for] = "poll"
    BY <1>2 DEF OInv, Calls, IInv, Types, Handler
  <2>2. h.for # b
    BY <2>1
  <2> QED BY <2>1, <2>2
<1>3. Calls'
  BY <1>2 DEF OInv, Calls
<1> QED BY <1>1, <1>3 DEF OInv

\* A step that touches no box and starts no poll.
LEMMA NoBox ==
    ASSUME OInv, UNCHANGED <<phase, asked, mem, file, cycles>>, handlers' \subseteq handlers
    PROVE  OInv'
BY DEF OInv, Boxed, Calls, Own

LEMMA InitOwn == Init => OInv
BY DEF Init, OInv, Boxed, Calls, Own, Phase

LEMMA RegisterOwn ==
    ASSUME IInv, OInv, NEW b \in Boxes, NEW r \in Requests, Register(b, r)
    PROVE  OInv'
<1>1. /\ phase[b] = "ask" /\ UNCHANGED <<handlers, mem, file, cycles>>
      /\ \/ phase' = [phase EXCEPT ![b] = "poll"] /\ asked' = [asked EXCEPT ![b] = r]
         \/ UNCHANGED <<phase, asked>>
  BY DEF Register
<1>2. Boxed'
  BY <1>1 DEF OInv, Boxed, Phase
<1>3. Own(b)'
  BY <1>1 DEF OInv, Boxed, Own
<1>4. \A a \in Boxes \ {b} : phase'[a] = phase[a]
  BY <1>1 DEF OInv, Boxed
<1> QED BY <1>1, <1>2, <1>3, <1>4, OneBox

LEMMA PollReadsOwn ==
    ASSUME IInv, OInv, NEW b \in Boxes, PollReads(b)
    PROVE  OInv'
<1> DEFINE h == [of |-> asked[b], for |-> b, status |-> request[asked[b]].status,
                 due |-> request[asked[b]].due, parked |-> request[asked[b]].parked]
<1>1. /\ handlers' = handlers \cup {h} /\ h.for = b
      /\ phase[b] = "poll" /\ ~Listening(b) /\ UNCHANGED <<phase, asked, mem, file, cycles>>
  BY DEF PollReads, box
<1> HIDE DEF h
<1>2. \A k \in handlers : k.for # b
  BY <1>1 DEF Listening
<1>3. Calls'
  BY <1>1, <1>2 DEF OInv, Calls
<1> QED BY <1>1, <1>3 DEF OInv, Boxed, Own

\* An answered poll takes its box out of "poll", with an identity or without.
LEMMA SettlesOwn ==
    ASSUME IInv, OInv, NEW b \in Boxes, phase[b] = "poll",
           NEW ph \in {"ask", "save"}, NEW id \in {Nothing} \cup Identity,
           ph = "save" => id \in Identity,
           Settles(b, ph, id), UNCHANGED <<file, cycles>>,
           handlers' \subseteq handlers, \A h \in handlers' : h.for # b
    PROVE  OInv'
<1>1. /\ phase' = [phase EXCEPT ![b] = ph] /\ asked' = [asked EXCEPT ![b] = Nothing]
      /\ mem' = [mem EXCEPT ![b] = id]
  BY RegistrationAssumption DEF Settles
<1>2. Boxed'
  BY <1>1 DEF OInv, Boxed, Phase
<1>3. Own(b)'
  BY <1>1 DEF OInv, Boxed, Own
<1>4. \A a \in Boxes \ {b} : Own(a)'
  BY <1>1 DEF OInv, Boxed, Own
<1>5. ASSUME NEW h \in handlers', h.for # Nothing PROVE phase'[h.for] = "poll"
  <2>1. h.for \in Boxes /\ phase[h.for] = "poll" /\ h.for # b
    BY <1>5 DEF OInv, Calls, IInv, Types, Handler
  <2> QED BY <1>1, <2>1 DEF OInv, Boxed
<1>6. Calls'
  BY <1>5 DEF OInv, Calls
<1> QED BY <1>2, <1>3, <1>4, <1>6 DEF OInv

LEMMA AnswersOwn ==
    ASSUME IInv, OInv, NEW h \in handlers, Answers(h)
    PROVE  OInv'
<1>1. handlers' = handlers \ {h} /\ UNCHANGED <<file, cycles>>
  BY DEF Answers, PollExpires, PollTells, PollHandsOver, Done
<1>2. \/ UNCHANGED <<phase, asked, mem>>
      \/ \E ph \in {"ask", "save"}, id \in {Nothing} \cup Identity :
            (ph = "save" => id \in Identity) /\ Settles(h.for, ph, id)
  <2>1. CASE PollExpires(h) \/ PollTells(h)
    BY <2>1 DEF PollExpires, PollTells
  <2>2. CASE PollHandsOver(h)
    <3>1. [of |-> h.of, token |-> Claims(h)] \in Identity
      BY DEF Identity, Claims, IInv, Types, Handler, Row
    <3> QED BY <2>2, <3>1 DEF PollHandsOver
  <2> QED BY <2>1, <2>2 DEF Answers
<1>3. CASE UNCHANGED <<phase, asked, mem>>
  BY <1>1, <1>3, NoBox
<1>4. ASSUME NEW ph \in {"ask", "save"}, NEW id \in {Nothing} \cup Identity,
             ph = "save" => id \in Identity, Settles(h.for, ph, id)
      PROVE  OInv'
  <2>1. CASE h.for = Nothing
    BY <1>1, <1>4, <2>1, NoBox DEF Settles
  <2>2. CASE h.for # Nothing
    <3>1. h.for \in Boxes /\ phase[h.for] = "poll" /\ \A k \in handlers' : k.for # h.for
      BY <1>1, <2>2 DEF OInv, Calls, IInv, Types, Handler
    <3> QED BY <1>1, <1>4, <3>1, SettlesOwn
  <2> QED BY <2>1, <2>2
<1> QED BY <1>2, <1>3, <1>4

LEMMA PollTimesOutOwn ==
    ASSUME IInv, OInv, NEW h \in handlers, PollTimesOut(h)
    PROVE  OInv'
<1>1. /\ handlers' = (handlers \ {h}) \cup {[h EXCEPT !.for = Nothing]}
      /\ UNCHANGED <<phase, asked, mem, file, cycles>>
  BY DEF PollTimesOut, box
<1>2. [h EXCEPT !.for = Nothing].for = Nothing
  BY DEF IInv, Types, Handler
<1>3. Calls'
  BY <1>1, <1>2 DEF OInv, Calls
<1> QED BY <1>1, <1>3 DEF OInv, Boxed, Own

LEMMA GivesUpOwn ==
    ASSUME IInv, OInv, NEW b \in Boxes, GivesUp(b)
    PROVE  OInv'
<1>1. /\ phase[b] = "poll" /\ Settles(b, "ask", Nothing) /\ UNCHANGED <<handlers, file, cycles>>
      /\ \A h \in handlers : h.for # b
  BY DEF GivesUp, Listening
<1> QED BY <1>1, SettlesOwn

\* The box's own steps: the identity is saved before a cycle is, and cycles.json
\* is cleared before the identity is dropped.
LEMMA BoxOwn ==
    ASSUME IInv, OInv, NEW b \in Boxes,
           Boot(b) \/ Save(b) \/ Probe(b) \/ Heartbeat(b) \/ BareHeartbeat(b) \/ ClearState(b)
    PROVE  OInv'
<1>1. UNCHANGED <<handlers, asked>>
  BY DEF Boot, Save, Probe, Heartbeat, BareHeartbeat, ClearState, UNSERVED
<1>2. phase[b] # "poll"
  BY DEF Boot, Save, Probe, Heartbeat, BareHeartbeat, ClearState
<1>3. Own(b) /\ Boxed
  BY DEF OInv
<1>4. /\ Boxed' /\ Own(b)'
      /\ \A a \in Boxes \ {b} : /\ phase'[a] = phase[a] /\ mem'[a] = mem[a]
                                /\ file'[a] = file[a] /\ cycles'[a] = cycles[a]
  <2>1. CASE Boot(b)
    BY <1>1, <1>3, <2>1 DEF Boot, Boxed, Own, Phase
  <2>2. CASE Save(b)
    <3>1. mem[b] # Nothing
      BY <1>3, <2>2, RegistrationAssumption DEF Save, Own
    <3> QED BY <1>1, <1>3, <2>2, <3>1 DEF Save, Saved, Boxed, Own, Phase
  <2>3. CASE Probe(b)
    <3>1. mem[b] \in Identity /\ mem[b].of \in Requests /\ file[b] = mem[b] /\ mem[b] # Nothing
      BY <1>3, <2>3 DEF Probe, Own, Boxed, Identity
    <3>2. cycles' = [cycles EXCEPT ![b] = cycles[b] \cup {mem[b].of}]
          /\ UNCHANGED <<phase, asked, mem, file>> /\ phase[b] = "serve"
      BY <2>3 DEF Probe
    <3> QED BY <1>1, <1>3, <3>1, <3>2 DEF Boxed, Own
  <2>4. CASE Heartbeat(b) \/ BareHeartbeat(b)
    <3>1. PICK ph \in {"serve", "dropCycles", "disabled"} : phase' = [phase EXCEPT ![b] = ph]
      <4>1. Authenticate(mem[b]) \in {"200", "401", "403"}
        BY DEF Authenticate
      <4> QED BY <2>4, <4>1 DEF Heartbeat, BareHeartbeat, After
    <3>2. /\ phase[b] \in {"serve", "disabled"} /\ UNCHANGED <<mem, file>>
          /\ cycles' = cycles \/ cycles' = [cycles EXCEPT ![b] = {}]
      BY <2>4 DEF Heartbeat, BareHeartbeat
    <3> QED BY <1>1, <1>3, <3>1, <3>2 DEF Boxed, Own, Phase
  <2>5. CASE ClearState(b)
    <3>1. CASE phase[b] = "dropCycles"
      BY <1>1, <1>3, <2>5, <3>1 DEF ClearState, Drop, Boxed, Own, Phase
    <3>2. CASE phase[b] = "dropState"
      BY <1>1, <1>3, <2>5, <3>2 DEF ClearState, Drop, Boxed, Own, Phase
    <3> QED BY <2>5, <3>1, <3>2 DEF ClearState
  <2> QED BY <2>1, <2>2, <2>3, <2>4, <2>5
<1> QED BY <1>1, <1>2, <1>4, OneBox

\* A crash leaves the files; only a state.json that does not decode goes, and then
\* the cycles outlive it.
LEMMA CrashOwn ==
    ASSUME ~LosesState, IInv, OInv, NEW b \in Boxes, Crash(b)
    PROVE  OInv'
<1>1. /\ phase' = [phase EXCEPT ![b] = "boot"] /\ asked' = [asked EXCEPT ![b] = Nothing]
      /\ mem' = [mem EXCEPT ![b] = Nothing] /\ UNCHANGED <<file, cycles>>
      /\ handlers' = {[h EXCEPT !.for = IF @ = b THEN Nothing ELSE @] : h \in handlers}
  BY DEF Crash
<1>2. Boxed' /\ \A a \in Boxes : Own(a)'
  BY <1>1 DEF OInv, Boxed, Own, Phase
<1>3. ASSUME NEW k \in handlers', k.for # Nothing
      PROVE  k \in handlers /\ k.for # b
  <2>1. PICK h \in handlers : k = [h EXCEPT !.for = IF h.for = b THEN Nothing ELSE h.for]
    BY <1>1
  <2>2. h \in Handler
    BY DEF IInv, Types
  <2>3. k.for = IF h.for = b THEN Nothing ELSE h.for
    BY <2>1, <2>2 DEF Handler
  <2>4. h.for # b /\ k = [h EXCEPT !.for = h.for]
    BY <1>3, <2>1, <2>3
  <2>5. k = h
    BY <2>2, <2>4 DEF Handler
  <2> QED BY <2>4, <2>5
<1>4. Calls'
  <2>1. ASSUME NEW k \in handlers', k.for # Nothing PROVE phase'[k.for] = "poll"
    <3>1. k.for \in Boxes /\ phase[k.for] = "poll" /\ k.for # b
      BY <1>3, <2>1 DEF OInv, Calls, IInv, Types, Handler
    <3> QED BY <1>1, <3>1 DEF OInv, Boxed
  <2>2. ASSUME NEW h \in handlers', NEW k \in handlers', h.for = k.for, h.for # Nothing PROVE h = k
    BY <1>3, <2>2 DEF OInv, Calls
  <2> QED BY <2>1, <2>2 DEF Calls
<1> QED BY <1>2, <1>4 DEF OInv

LEMMA StepOwn == ~LosesState /\ IInv /\ OInv /\ [Next]_vars => OInv'
<1> SUFFICES ASSUME ~LosesState, IInv, OInv, [Next]_vars PROVE OInv'
  OBVIOUS
<1>1. ASSUME NEW b \in Boxes, Box(b) \/ Probe(b) \/ GivesUp(b) \/ Crash(b)
      PROVE  OInv'
  BY <1>1, RegisterOwn, PollReadsOwn, BoxOwn, GivesUpOwn, CrashOwn DEF Box
<1>2. ASSUME NEW b \in Boxes, MinutePasses(b) PROVE OInv'
  BY <1>2, NoBox DEF MinutePasses, box
<1>3. ASSUME NEW h \in handlers, Answers(h) \/ PollTimesOut(h) PROVE OInv'
  BY <1>3, AnswersOwn, PollTimesOutOwn
<1>4. ASSUME NEW r \in Requests, Lapses(r) \/ Opens(r) PROVE OInv'
  BY <1>4, NoBox DEF Lapses, Opens, box
<1>5. CASE ExpireRequests \/ Decides
  BY <1>5, NoBox DEF ExpireRequests, Decides, Reject, Refused, Approve, ApproveAsReplacement, Decided, box
<1>6. ASSUME NEW c \in Clients, Revoke(c) \/ Delete(c) \/ \E on \in BOOLEAN : SetEnabled(c, on)
      PROVE  OInv'
  BY <1>6, NoBox DEF Revoke, Delete, SetEnabled, box
<1>7. CASE UNCHANGED vars
  BY <1>7, NoBox DEF vars, box
<1> QED BY <1>1, <1>2, <1>3, <1>4, <1>5, <1>6, <1>7 DEF Next

\* No mon-client is credited with the measurements of another one: across lost
\* answers, crashes, revokes and new registrations the cycles a box sends are those
\* of its own identity (clearState drops cycles.json before state.json), as long as
\* state.json is never lost to the box by itself.
THEOREM CyclesAreOwn ==
    ASSUME ~LosesState
    PROVE  Spec => []OwnCyclesOnly
<1>1. OInv => OwnCyclesOnly
  BY DEF OInv, Own, OwnCyclesOnly
<1>2. Init => IInv /\ OInv
  BY InitEstablishes, InitOwn
<1>3. IInv /\ OInv /\ [Next]_vars => (IInv /\ OInv)'
  BY StepPreserves, StepOwn
<1> QED BY <1>1, <1>2, <1>3, PTL DEF Spec

-----------------------------------------------------------------------------
(* What a box knows, and when *)

\* A box that polls knows its request, one that is in service has the identity it
\* saved, and one that is about to save has an identity.
Seated(b) ==
    /\ asked[b] # Nothing <=> phase[b] = "poll"
    /\ phase[b] \in {"serve", "disabled", "dropCycles"} => mem[b] # Nothing /\ file[b] = mem[b]
    /\ phase[b] = "save" => mem[b] # Nothing

\* What is polled has been asked for.
Made ==
    /\ \A b \in Boxes : asked[b] # Nothing => request[asked[b]].status # "none"
    /\ \A h \in handlers : h.status # "none"

Counted == recent \subseteq Boxes /\ faults \in 0..MaxFaults /\ events \in 0..MaxEvents

Seats == Boxed /\ \A b \in Boxes : Seated(b)

TInv == Seats /\ Made /\ Counted

LEMMA InitSeated == Init => TInv
BY RegistrationAssumption DEF Init, TInv, Seats, Boxed, Seated, Made, Counted, Phase, RegistrationAssumption

\* The bounds.
LEMMA CountedStep == Counted /\ [Next]_vars => Counted'
<1> DEFINE Stays ==
      (Fault \/ faults' = faults) /\ (Event \/ events' = events) /\ recent' \subseteq recent \cup Boxes
<1> SUFFICES ASSUME Counted, [Next]_vars PROVE Stays
  BY RegistrationAssumption DEF Counted, Fault, Event, RegistrationAssumption
<1>1. ASSUME NEW b \in Boxes, NEW r \in Requests, Register(b, r) PROVE Stays
  BY <1>1 DEF Register
<1>2. ASSUME NEW b \in Boxes, Boot(b) \/ Save(b) \/ Heartbeat(b) \/ BareHeartbeat(b) \/ ClearState(b) \/ Probe(b)
      PROVE  Stays
  <2>1. UNCHANGED UNSERVED /\ faults' = faults
    BY <1>2 DEF Boot, Save, Heartbeat, BareHeartbeat, ClearState, Probe
  <2> QED BY <2>1 DEF UNSERVED, server
<1>3. ASSUME NEW b \in Boxes, PollReads(b) \/ MinutePasses(b) \/ GivesUp(b) \/ Crash(b) PROVE Stays
  BY <1>3 DEF PollReads, MinutePasses, GivesUp, Crash, server
<1>4. ASSUME NEW h \in handlers, Answers(h) \/ PollTimesOut(h) PROVE Stays
  BY <1>4 DEF Answers, PollExpires, PollTells, PollHandsOver, Done, PollTimesOut, server
<1>5. ASSUME NEW r \in Requests, Lapses(r) \/ Opens(r) PROVE Stays
  BY <1>5 DEF Lapses, Opens, server
<1>6. CASE ExpireRequests \/ Decides
  BY <1>6 DEF ExpireRequests, Decides, Reject, Refused, Approve, ApproveAsReplacement, Decided
<1>7. ASSUME NEW c \in Clients, Revoke(c) \/ Delete(c) \/ \E on \in BOOLEAN : SetEnabled(c, on) PROVE Stays
  BY <1>7 DEF Revoke, Delete, SetEnabled
<1>8. CASE UNCHANGED vars
  BY <1>8 DEF vars, server
<1> HIDE DEF Stays
<1> QED BY <1>1, <1>2, <1>3, <1>4, <1>5, <1>6, <1>7, <1>8 DEF Next, Box

\* A request that was made stays made.
LEMMA MadeStays ==
    ASSUME IInv, [Next]_vars, NEW q \in Requests, request[q].status # "none"
    PROVE  request'[q].status # "none"
<1> DEFINE Stays == request'[q].status # "none"
<1> SUFFICES Stays
  OBVIOUS
<1>1. ASSUME NEW b \in Boxes, NEW r \in Requests, Register(b, r) PROVE Stays
  BY <1>1 DEF Register, IsNext, IInv, Types
<1>2. ASSUME NEW h \in handlers, Answers(h) PROVE Stays
  <2>1. h.of \in Requests
    BY DEF IInv, Types, Handler
  <2>2. CASE PollExpires(h)
    BY <2>1, <2>2 DEF PollExpires, Expired, IInv, Types, Row
  <2>3. CASE PollTells(h)
    BY <2>3 DEF PollTells
  <2>4. CASE PollHandsOver(h)
    BY <2>1, <2>4 DEF PollHandsOver, IInv, Types, Row
  <2> QED BY <1>2, <2>2, <2>3, <2>4 DEF Answers
<1>3. ASSUME NEW r \in Requests, Lapses(r) PROVE Stays
  BY <1>3 DEF Lapses, IInv, Types, Row
<1>4. CASE ExpireRequests
  BY <1>4 DEF ExpireRequests, IInv, Types, Row
<1>5. CASE Decides
  <2>1. CASE Refused
    BY <2>1 DEF Refused
  <2>2. ASSUME NEW c \in Clients, Approve(c) \/ ApproveAsReplacement(c) PROVE Stays
    <3>1. Decidable /\ request' = Stamped(c)
      BY <2>2 DEF Approve, ApproveAsReplacement
    <3>2. deciding.of \in Requests
      BY <3>1, DecidingIsNoToken
    <3> QED BY <3>1, <3>2 DEF Stamped, IInv, Types
  <2>3. CASE Reject
    BY <2>3, DecidingIsNoToken DEF Reject, IInv, Types, Row
  <2> QED BY <1>5, <2>1, <2>2, <2>3 DEF Decides
<1>6. ASSUME NEW c \in Clients, Revoke(c) \/ Delete(c) PROVE Stays
  BY <1>6 DEF Revoke, Delete, TakenBack, IInv, Types, Row
<1>7. CASE UNCHANGED request
  BY <1>7
<1>8. ASSUME NEW b \in Boxes,
             \/ PollReads(b) \/ Boot(b) \/ Save(b) \/ Heartbeat(b) \/ BareHeartbeat(b) \/ ClearState(b)
             \/ Probe(b) \/ MinutePasses(b) \/ GivesUp(b) \/ Crash(b)
      PROVE  UNCHANGED request
  <2>1. CASE Boot(b) \/ Save(b) \/ Heartbeat(b) \/ BareHeartbeat(b) \/ ClearState(b) \/ Probe(b)
    <3>1. UNCHANGED UNSERVED
      BY <2>1 DEF Boot, Save, Heartbeat, BareHeartbeat, ClearState, Probe
    <3> QED BY <3>1 DEF UNSERVED, server
  <2>2. CASE PollReads(b) \/ MinutePasses(b) \/ GivesUp(b) \/ Crash(b)
    BY <2>2 DEF PollReads, MinutePasses, GivesUp, Crash, server
  <2> QED BY <1>8, <2>1, <2>2
<1> HIDE DEF Stays
<1>9. ASSUME NEW b \in Boxes, Box(b) \/ Probe(b) \/ MinutePasses(b) \/ GivesUp(b) \/ Crash(b)
      PROVE  Stays
  BY <1>1, <1>7, <1>8, <1>9 DEF Box
<1>10. ASSUME NEW h \in handlers, PollTimesOut(h) PROVE UNCHANGED request
  BY <1>10 DEF PollTimesOut, server
<1>11. ASSUME NEW r \in Requests, Opens(r) PROVE UNCHANGED request
  BY <1>11 DEF Opens, server
<1>12. ASSUME NEW c \in Clients, NEW on \in BOOLEAN, SetEnabled(c, on) PROVE UNCHANGED request
  BY <1>12 DEF SetEnabled
<1>13. UNCHANGED vars => UNCHANGED request
  BY DEF vars, server
<1> QED BY <1>2, <1>3, <1>4, <1>5, <1>6, <1>7, <1>9, <1>10, <1>11, <1>12, <1>13 DEF Next

\* A step that touches one box at most.
LEMMA OneSeat ==
    ASSUME Seats, Boxed', NEW b \in Boxes, Seated(b)',
           \A a \in Boxes \ {b} : /\ phase'[a] = phase[a] /\ asked'[a] = asked[a]
                                  /\ mem'[a] = mem[a] /\ file'[a] = file[a]
    PROVE  Seats'
BY DEF Seats, Seated

LEMMA NoSeat == ASSUME Seats, UNCHANGED box PROVE Seats'
BY DEF Seats, Boxed, Seated, box

\* An answered or abandoned poll takes its box out of "poll".
LEMMA SettlesSeats ==
    ASSUME Seats, NEW b \in {Nothing} \cup Boxes, NEW ph \in {"ask", "save"},
           NEW id \in {Nothing} \cup Identity, ph = "save" => id # Nothing,
           Settles(b, ph, id), UNCHANGED <<file, cycles>>
    PROVE  Seats'
<1>1. CASE b = Nothing
  BY <1>1, NoSeat DEF Settles, box
<1>2. CASE b # Nothing
  <2>1. /\ phase' = [phase EXCEPT ![b] = ph] /\ asked' = [asked EXCEPT ![b] = Nothing]
        /\ mem' = [mem EXCEPT ![b] = id]
    BY <1>2 DEF Settles
  <2>2. Boxed'
    BY <1>2, <2>1 DEF Seats, Boxed, Phase
  <2>3. Seated(b)'
    BY <1>2, <2>1 DEF Seats, Boxed, Seated
  <2>4. \A a \in Boxes \ {b} : phase'[a] = phase[a] /\ asked'[a] = asked[a] /\ mem'[a] = mem[a]
    BY <1>2, <2>1 DEF Seats, Boxed
  <2> QED BY <1>2, <2>2, <2>3, <2>4, OneSeat
<1> QED BY <1>1, <1>2

\* What an answer says is an identity, and no identity is nothing.
LEMMA AnswersSeats ==
    ASSUME IInv, Seats, NEW h \in handlers, Answers(h)
    PROVE  Seats'
<1>1. h.for \in {Nothing} \cup Boxes /\ h.of \in Requests /\ UNCHANGED <<file, cycles>>
  BY DEF IInv, Types, Handler, Answers, PollExpires, PollTells, PollHandsOver, Done
<1>2. CASE PollExpires(h)
  BY <1>1, <1>2, SettlesSeats DEF PollExpires
<1>3. CASE PollTells(h)
  BY <1>1, <1>3, SettlesSeats, NoSeat DEF PollTells, box
<1>4. CASE PollHandsOver(h)
  <2>1. [of |-> h.of, token |-> Claims(h)] \in Identity
    BY <1>1 DEF Identity, Claims, IInv, Types, Handler, Row
  <2>2. [of |-> h.of, token |-> Claims(h)] # Nothing
    BY <2>1, RegistrationAssumption DEF RegistrationAssumption
  <2> QED BY <1>1, <1>4, <2>1, <2>2, SettlesSeats DEF PollHandsOver
<1> QED BY <1>2, <1>3, <1>4 DEF Answers

LEMMA RegisterSeats ==
    ASSUME Seats, NEW b \in Boxes, NEW r \in Requests, Register(b, r)
    PROVE  Seats'
<1>1. /\ phase[b] = "ask" /\ UNCHANGED <<mem, file, cycles>>
      /\ \/ phase' = [phase EXCEPT ![b] = "poll"] /\ asked' = [asked EXCEPT ![b] = r]
         \/ UNCHANGED <<phase, asked>>
  BY DEF Register
<1>2. CASE UNCHANGED <<phase, asked>>
  BY <1>1, <1>2, NoSeat DEF box
<1>3. CASE phase' = [phase EXCEPT ![b] = "poll"] /\ asked' = [asked EXCEPT ![b] = r]
  <2>1. r # Nothing
    BY RegistrationAssumption DEF RegistrationAssumption
  <2>2. Boxed' /\ Seated(b)'
    BY <1>1, <1>3, <2>1 DEF Seats, Boxed, Seated, Phase
  <2>3. \A a \in Boxes \ {b} : phase'[a] = phase[a] /\ asked'[a] = asked[a]
    BY <1>3 DEF Seats, Boxed
  <2> QED BY <1>1, <2>2, <2>3, OneSeat
<1> QED BY <1>1, <1>2, <1>3

\* The box's own steps.
LEMMA BoxSeats ==
    ASSUME Seats, NEW b \in Boxes,
           Boot(b) \/ Save(b) \/ Probe(b) \/ Heartbeat(b) \/ BareHeartbeat(b) \/ ClearState(b)
    PROVE  Seats'
<1>1. Seated(b) /\ Boxed
  BY DEF Seats
<1>2. asked' = asked
  BY DEF Boot, Save, Probe, Heartbeat, BareHeartbeat, ClearState
<1>3. CASE Boot(b)
  <2>1. Boxed' /\ Seated(b)'
    BY <1>1, <1>2, <1>3 DEF Boot, Boxed, Seated, Phase
  <2> QED BY <1>1, <1>2, <1>3, <2>1, OneSeat DEF Boot, Boxed
<1>4. CASE Save(b)
  <2>1. Boxed' /\ Seated(b)'
    BY <1>1, <1>2, <1>4 DEF Save, Saved, Boxed, Seated, Phase
  <2> QED BY <1>1, <1>2, <1>4, <2>1, OneSeat DEF Save, Saved, Boxed
<1>5. CASE Probe(b)
  <2>1. mem[b] \in Identity /\ mem[b].of \in Requests
    BY <1>1, <1>5 DEF Probe, Seated, Boxed, Identity
  <2>2. cycles' = [cycles EXCEPT ![b] = cycles[b] \cup {mem[b].of}] /\ UNCHANGED <<phase, asked, mem, file>>
    BY <1>5 DEF Probe
  <2> QED BY <2>1, <2>2, <1>1 DEF Seats, Boxed, Seated
<1>6. CASE Heartbeat(b) \/ BareHeartbeat(b)
  <2>1. PICK ph \in {"serve", "dropCycles", "disabled"} : phase' = [phase EXCEPT ![b] = ph]
    <3>1. Authenticate(mem[b]) \in {"200", "401", "403"}
      BY DEF Authenticate
    <3> QED BY <1>6, <3>1 DEF Heartbeat, BareHeartbeat, After
  <2>2. /\ phase[b] \in {"serve", "disabled"} /\ UNCHANGED <<mem, file>>
        /\ cycles' = cycles \/ cycles' = [cycles EXCEPT ![b] = {}]
    BY <1>6 DEF Heartbeat, BareHeartbeat
  <2>3. Boxed' /\ Seated(b)'
    BY <1>1, <1>2, <2>1, <2>2 DEF Boxed, Seated, Phase
  <2>4. \A a \in Boxes \ {b} : phase'[a] = phase[a]
    BY <1>1, <2>1 DEF Boxed
  <2> QED BY <1>2, <2>2, <2>3, <2>4, OneSeat
<1>7. CASE ClearState(b)
  <2>1. Boxed' /\ Seated(b)'
    BY <1>1, <1>2, <1>7 DEF ClearState, Drop, Boxed, Seated, Phase
  <2>2. \A a \in Boxes \ {b} : phase'[a] = phase[a] /\ mem'[a] = mem[a] /\ file'[a] = file[a]
    BY <1>1, <1>7 DEF ClearState, Drop, Boxed
  <2> QED BY <1>2, <2>1, <2>2, OneSeat
<1> QED BY <1>3, <1>4, <1>5, <1>6, <1>7

LEMMA CrashSeats ==
    ASSUME Seats, NEW b \in Boxes, Crash(b)
    PROVE  Seats'
<1>1. /\ phase' = [phase EXCEPT ![b] = "boot"] /\ asked' = [asked EXCEPT ![b] = Nothing]
      /\ mem' = [mem EXCEPT ![b] = Nothing] /\ cycles' = cycles
      /\ file' = file \/ file' = [file EXCEPT ![b] = Nothing]
  BY DEF Crash
<1>2. Boxed' /\ Seated(b)'
  BY <1>1 DEF Seats, Boxed, Seated, Phase
<1>3. \A a \in Boxes \ {b} : /\ phase'[a] = phase[a] /\ asked'[a] = asked[a]
                             /\ mem'[a] = mem[a] /\ file'[a] = file[a]
  BY <1>1 DEF Seats, Boxed
<1> QED BY <1>2, <1>3, OneSeat

LEMMA SeatsStep == ASSUME IInv, Seats, [Next]_vars PROVE Seats'
<1>1. ASSUME NEW b \in Boxes, Box(b) \/ Probe(b) \/ MinutePasses(b) \/ GivesUp(b) \/ Crash(b)
      PROVE  Seats'
  <2>1. CASE PollReads(b) \/ MinutePasses(b)
    BY <2>1, NoSeat DEF PollReads, MinutePasses
  <2>2. CASE GivesUp(b)
    BY <2>2, SettlesSeats DEF GivesUp
  <2> QED BY <1>1, <2>1, <2>2, RegisterSeats, BoxSeats, CrashSeats DEF Box
<1>2. ASSUME NEW h \in handlers, Answers(h) \/ PollTimesOut(h) PROVE Seats'
  BY <1>2, AnswersSeats, NoSeat DEF PollTimesOut
<1>3. ASSUME NEW r \in Requests, Lapses(r) \/ Opens(r) PROVE Seats'
  BY <1>3, NoSeat DEF Lapses, Opens
<1>4. CASE ExpireRequests \/ Decides
  BY <1>4, NoSeat DEF ExpireRequests, Decides, Reject, Refused, Approve, ApproveAsReplacement, Decided
<1>5. ASSUME NEW c \in Clients, Revoke(c) \/ Delete(c) \/ \E on \in BOOLEAN : SetEnabled(c, on)
      PROVE  Seats'
  BY <1>5, NoSeat DEF Revoke, Delete, SetEnabled
<1>6. CASE UNCHANGED vars
  BY <1>6, NoSeat DEF vars
<1> QED BY <1>1, <1>2, <1>3, <1>4, <1>5, <1>6 DEF Next

\* A box comes to know of a request when it has made it.
LEMMA AskedStep ==
    ASSUME IInv, Seats, [Next]_vars, NEW a \in Boxes
    PROVE  asked'[a] \in {asked[a], Nothing} \/ request'[asked'[a]].status # "none"
<1> DEFINE Asks == asked'[a] \in {asked[a], Nothing} \/ request'[asked'[a]].status # "none"
<1> SUFFICES Asks
  OBVIOUS
<1>1. ASSUME NEW b \in Boxes, NEW r \in Requests, Register(b, r) PROVE Asks
  <2>1. request'[r].status = "pending"
    BY <1>1 DEF Register, NoRow, IInv, Types
  <2>2. asked' = asked \/ asked' = [asked EXCEPT ![b] = r]
    BY <1>1 DEF Register
  <2> QED BY <2>1, <2>2 DEF Seats, Boxed
<1>2. ASSUME NEW b \in {Nothing} \cup Boxes, NEW ph, NEW id, Settles(b, ph, id) PROVE Asks
  BY <1>2 DEF Settles, Seats, Boxed
<1>3. ASSUME NEW b \in Boxes, Crash(b) PROVE Asks
  BY <1>3 DEF Crash, Seats, Boxed
<1>4. asked' = asked => Asks
  OBVIOUS
<1> HIDE DEF Asks
<1>5. ASSUME NEW b \in Boxes, Box(b) \/ Probe(b) \/ MinutePasses(b) \/ GivesUp(b) \/ Crash(b)
      PROVE  Asks
  <2>1. CASE GivesUp(b)
    BY <1>2, <2>1 DEF GivesUp
  <2>2. CASE \/ PollReads(b) \/ Boot(b) \/ Save(b) \/ Heartbeat(b) \/ BareHeartbeat(b) \/ ClearState(b)
             \/ Probe(b) \/ MinutePasses(b)
    BY <1>4, <2>2 DEF PollReads, Boot, Save, Heartbeat, BareHeartbeat, ClearState, Probe, MinutePasses, box
  <2> QED BY <1>1, <1>3, <1>5, <2>1, <2>2 DEF Box
<1>6. ASSUME NEW h \in handlers, Answers(h) \/ PollTimesOut(h) PROVE Asks
  <2>1. h.for \in {Nothing} \cup Boxes
    BY DEF IInv, Types, Handler
  <2>2. asked' = asked \/ \E ph, id : Settles(h.for, ph, id)
    BY <1>6 DEF Answers, PollExpires, PollTells, PollHandsOver, PollTimesOut, box
  <2> QED BY <1>2, <1>4, <2>1, <2>2
<1>7. ASSUME NEW r \in Requests, Lapses(r) \/ Opens(r) PROVE Asks
  BY <1>4, <1>7 DEF Lapses, Opens, box
<1>8. CASE ExpireRequests \/ Decides
  BY <1>4, <1>8 DEF ExpireRequests, Decides, Reject, Refused, Approve, ApproveAsReplacement, Decided, box
<1>9. ASSUME NEW c \in Clients, Revoke(c) \/ Delete(c) \/ \E on \in BOOLEAN : SetEnabled(c, on)
      PROVE  Asks
  BY <1>4, <1>9 DEF Revoke, Delete, SetEnabled, box
<1>10. CASE UNCHANGED vars
  BY <1>4, <1>10 DEF vars, box
<1> QED BY <1>5, <1>6, <1>7, <1>8, <1>9, <1>10 DEF Next

\* A poll is read of the request its box has made.
LEMMA ReadStep ==
    ASSUME IInv, TInv, [Next]_vars, NEW k \in handlers'
    PROVE  k.status # "none"
<1> DEFINE Reads == k.status # "none"
<1>1. \A h \in handlers : h \in Handler /\ h.status # "none"
  BY DEF TInv, Made, IInv, Types
<1>2. handlers' \subseteq handlers => Reads
  BY <1>1
<1>3. ASSUME NEW b \in Boxes, PollReads(b) PROVE Reads
  <2>1. asked[b] # Nothing /\ request[asked[b]].status # "none"
    BY <1>3 DEF PollReads, TInv, Seats, Seated, Made
  <2>2. k \in handlers \/ k.status = request[asked[b]].status
    BY <1>3 DEF PollReads
  <2> QED BY <1>1, <2>1, <2>2
<1>4. ASSUME NEW h \in handlers, PollTimesOut(h) PROVE Reads
  <2>1. k \in handlers \/ k = [h EXCEPT !.for = Nothing]
    BY <1>4 DEF PollTimesOut
  <2> QED BY <1>1, <2>1 DEF Handler
<1>5. ASSUME NEW b \in Boxes, Crash(b) PROVE Reads
  <2>1. PICK h \in handlers : k = [h EXCEPT !.for = IF h.for = b THEN Nothing ELSE h.for]
    BY <1>5 DEF Crash
  <2> QED BY <1>1, <2>1 DEF Handler
<1> SUFFICES Reads
  OBVIOUS
<1> HIDE DEF Reads
<1>6. ASSUME NEW b \in Boxes, Box(b) \/ Probe(b) \/ MinutePasses(b) \/ GivesUp(b) \/ Crash(b)
      PROVE  Reads
  <2>1. CASE Boot(b) \/ Save(b) \/ Heartbeat(b) \/ BareHeartbeat(b) \/ ClearState(b) \/ Probe(b)
    <3>1. UNCHANGED UNSERVED
      BY <2>1 DEF Boot, Save, Heartbeat, BareHeartbeat, ClearState, Probe
    <3> QED BY <1>2, <3>1 DEF UNSERVED
  <2>2. CASE (\E r \in Requests : Register(b, r)) \/ MinutePasses(b) \/ GivesUp(b)
    BY <1>2, <2>2 DEF Register, MinutePasses, GivesUp
  <2> QED BY <1>3, <1>5, <1>6, <2>1, <2>2 DEF Box
<1>7. ASSUME NEW h \in handlers, Answers(h) \/ PollTimesOut(h) PROVE Reads
  BY <1>2, <1>4, <1>7 DEF Answers, PollExpires, PollTells, PollHandsOver, Done
<1>8. ASSUME NEW r \in Requests, Lapses(r) \/ Opens(r) PROVE Reads
  BY <1>2, <1>8 DEF Lapses, Opens
<1>9. CASE ExpireRequests \/ Decides
  BY <1>2, <1>9 DEF ExpireRequests, Decides, Reject, Refused, Approve, ApproveAsReplacement, Decided
<1>10. ASSUME NEW c \in Clients, Revoke(c) \/ Delete(c) \/ \E on \in BOOLEAN : SetEnabled(c, on)
      PROVE  Reads
  BY <1>2, <1>10 DEF Revoke, Delete, SetEnabled
<1>11. CASE UNCHANGED vars
  BY <1>2, <1>11 DEF vars
<1> QED BY <1>6, <1>7, <1>8, <1>9, <1>10, <1>11 DEF Next

LEMMA TypesStep == IInv /\ TInv /\ [Next]_vars => TInv'
<1> SUFFICES ASSUME IInv, TInv, [Next]_vars PROVE TInv'
  OBVIOUS
<1>1. Seats' /\ Counted'
  BY SeatsStep, CountedStep DEF TInv
<1>2. ASSUME NEW a \in Boxes, asked'[a] # Nothing PROVE request'[asked'[a]].status # "none"
  <2>1. asked[a] # Nothing => asked[a] \in Requests /\ request[asked[a]].status # "none"
    BY DEF TInv, Seats, Boxed, Made
  <2>2. asked'[a] \in {asked[a], Nothing} \/ request'[asked'[a]].status # "none"
    BY AskedStep DEF TInv
  <2> QED BY <1>2, <2>1, <2>2, MadeStays
<1>3. Made'
  BY <1>2, ReadStep DEF Made
<1> QED BY <1>1, <1>3 DEF TInv

\* Everything keeps its shape, also on boxes that lose their state.json: a box polls
\* exactly while it knows a request, and in service it is who its state.json says
\* (identity, register, State.Save, clearState).
THEOREM TypeCorrect == Spec => []TypeOK
<1>1. IInv /\ TInv => TypeOK
  <2>1. SUFFICES ASSUME IInv, TInv PROVE TypeOK
    OBVIOUS
  <2>2. handlers \subseteq Seen
    BY <2>1 DEF IInv, Types, TInv, Made, Handler, Seen
  <2>3. handed \in [Requests -> 0..2]
    BY <2>1 DEF IInv, Types, Once
  <2>4. \A r \in Requests : request[r].parked => request[r].client # Nothing
    BY <2>1, RegistrationAssumption DEF IInv, Once, Clients, Requests, RegistrationAssumption
  <2> QED BY <2>1, <2>2, <2>3, <2>4 DEF IInv, Types, TInv, Seats, Boxed, Seated, Counted, TypeOK
<1>2. Init => IInv /\ TInv
  BY InitEstablishes, InitSeated
<1>3. IInv /\ TInv /\ [Next]_vars => (IInv /\ TInv)'
  BY StepPreserves, TypesStep
<1> QED BY <1>1, <1>2, <1>3, PTL DEF Spec
=================================================================================
