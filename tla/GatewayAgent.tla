---------------------------- MODULE GatewayAgent ----------------------------
(***************************************************************************)
(* The Host's gateway agent (src/gateway.rs): it registers with the        *)
(* gateway, long-polls for requests, runs each in a task of its own, and   *)
(* uploads the responses.  A registration that ends is followed by a new   *)
(* one, while the tasks the old one accepted live on in the same JoinSet.  *)
(*                                                                         *)
(* The gateway is what GatewaySession promises, seen from the agent: it    *)
(* queues a call under its present registration, hands it out once to an   *)
(* accepting poll of that registration, takes one response for it from     *)
(* that registration, and may give a call or the registration up at any    *)
(* time.  Requests and replies between the two may be lost.                *)
(***************************************************************************)
EXTENDS Naturals, FiniteSets

CONSTANTS Requests,
          MaxConcurrent,  \* MAX_CONCURRENT_GATEWAY_REQUESTS
          Attempts,       \* RESPONSE_UPLOAD_ATTEMPTS
          Offers,         \* what a gateway may advertise as concurrent_requests
          NoOffer,        \* an older gateway advertises nothing
          MaxGeneration,  \* bound of the model
          NoRequest

ASSUME RequestAssumption == NoRequest \notin Requests /\ IsFiniteSet(Requests)
ASSUME OfferAssumption == Offers \subseteq Nat \cup {NoOffer} /\ NoOffer \notin Nat
ASSUME LimitAssumption ==
  MaxConcurrent \in Nat \ {0} /\ Attempts \in Nat \ {0} /\ MaxGeneration \in Nat

VARIABLES registered,  \* gateway: the generation in its storage (0: none)
          issued,      \* gateway: the last generation it handed out
          call,        \* gateway: what became of each call
          owner,       \* gateway: the generation a call was queued for
          link,        \* run_host_agent: connecting, running a generation, stopped
          generation,  \* the generation it runs, or ran last
          limit,       \* AgentCapacity.limit
          heartbeat,   \* AgentCapacity.heartbeat_supported
          admission,   \* generations whose admission flag is up
          poll,        \* where run_concurrent_generation is
          envelope,    \* the request in the poll response under way
          stage,       \* the task of each request
          accepted,    \* the generation its task belongs to
          attempts,    \* failed uploads of its response
          result,      \* what its task returned
          executed     \* history: how often the local dispatch was started

gateway == <<registered, issued, call, owner>>
agent   == <<link, generation, limit, heartbeat, admission, poll, envelope>>
tasks   == <<stage, accepted, attempts, result, executed>>
vars    == <<gateway, agent, tasks>>

Stages == {"none", "verifying", "executing", "uploading", "done", "joined", "aborted"}

Init ==
  /\ registered = 0 /\ issued = 0
  /\ call = [r \in Requests |-> "none"]
  /\ owner = [r \in Requests |-> 0]
  /\ link = "connecting" /\ generation = 0
  /\ limit = 1 /\ heartbeat = FALSE
  /\ admission = {} /\ poll = "none" /\ envelope = NoRequest
  /\ stage = [r \in Requests |-> "none"]
  /\ accepted = [r \in Requests |-> 0]
  /\ attempts = [r \in Requests |-> 0]
  /\ result = [r \in Requests |-> "none"]
  /\ executed = [r \in Requests |-> 0]

-----------------------------------------------------------------------------
(* The gateway. *)

\* failAllPending
FailCalls == [r \in Requests |-> IF call[r] \in {"queued", "handed"} THEN "failed" ELSE call[r]]

Submit(r) ==
  /\ registered # 0
  /\ call[r] = "none"
  /\ call' = [call EXCEPT ![r] = "queued"]
  /\ owner' = [owner EXCEPT ![r] = registered]
  /\ UNCHANGED <<registered, issued, agent, tasks>>

GiveUp(r) ==
  /\ call[r] \in {"queued", "handed"}
  /\ call' = [call EXCEPT ![r] = "failed"]
  /\ UNCHANGED <<registered, issued, owner, agent, tasks>>

\* The lease runs out, a fence or a registry failure clears the registration.
Clear ==
  /\ registered # 0
  /\ registered' = 0
  /\ call' = FailCalls
  /\ UNCHANGED <<issued, owner, agent, tasks>>

\* Another process of this Host connects, or the reply to this one is lost.
Replace ==
  /\ issued < MaxGeneration
  /\ issued' = issued + 1
  /\ registered' = issued + 1
  /\ call' = FailCalls
  /\ UNCHANGED <<owner, agent, tasks>>

\* A queued call leaves with the response to the accepting poll.
HandOut(r) ==
  /\ poll = "accept"
  /\ registered = generation
  /\ call[r] = "queued" /\ owner[r] = registered
  /\ call' = [call EXCEPT ![r] = "handed"]
  /\ poll' = "answered"
  /\ envelope' = r
  /\ UNCHANGED <<registered, issued, owner, link, generation, limit, heartbeat, admission,
                 tasks>>

\* disconnect_host(g): refused for another registration, and it may get lost.
Disconnected(g) ==
  \/ /\ registered = g /\ g # 0
     /\ registered' = 0
     /\ call' = FailCalls
     /\ UNCHANGED <<issued, owner>>
  \/ UNCHANGED gateway

-----------------------------------------------------------------------------
(* run_host_agent and run_concurrent_generation. *)

\* The members of the JoinSet.
Held == {r \in Requests : stage[r] \in {"verifying", "executing", "uploading", "done"}}

\* Defect: the offer is taken at its word.
Unclamped(offer) == IF offer = NoOffer THEN 1 ELSE offer

\* AgentCapacity::negotiated
Negotiated(offer) ==
  IF offer = NoOffer \/ offer = 0 THEN 1
  ELSE IF offer > MaxConcurrent THEN MaxConcurrent ELSE offer

Connect(offer) ==
  /\ link = "connecting"
  /\ issued < MaxGeneration
  /\ issued' = issued + 1
  /\ registered' = issued + 1
  /\ call' = FailCalls
  /\ link' = "running"
  /\ generation' = issued + 1
  /\ limit' = Negotiated(offer)
  /\ heartbeat' = (offer # NoOffer)
  /\ admission' = admission \cup {issued + 1}
  /\ UNCHANGED <<owner, poll, envelope, tasks>>

\* The generation ends: its future is dropped, and the poll under way with it.
Retire ==
  /\ link' = "connecting"
  /\ admission' = admission \ {generation}
  /\ poll' = "none"
  /\ envelope' = NoRequest
  /\ UNCHANGED <<generation, limit, heartbeat>>

HasRoom == Cardinality(Held) < limit

\* Defect: a saturated agent waits for its tasks before it polls again.
MayPollWithRoom == HasRoom

\* Without heartbeats a saturated agent waits for a task instead.
MayPoll == HasRoom \/ heartbeat

StartPoll ==
  /\ link = "running" /\ poll = "none"
  /\ MayPoll
  /\ poll' = IF HasRoom THEN "accept" ELSE "heartbeat"
  /\ UNCHANGED <<gateway, link, generation, limit, heartbeat, admission, envelope, tasks>>

\* poll() returns Idle: no content, poll_replaced, a transient status or a
\* lost request or response, the request in it included.
PollIdle ==
  /\ link = "running" /\ poll \in {"accept", "heartbeat", "answered"}
  /\ poll' = IF HasRoom THEN "none" ELSE "resting"
  /\ envelope' = NoRequest
  /\ UNCHANGED <<gateway, link, generation, limit, heartbeat, admission, tasks>>

\* CAPACITY_HEARTBEAT_INTERVAL passes.
Rested ==
  /\ poll = "resting"
  /\ poll' = "none"
  /\ UNCHANGED <<gateway, link, generation, limit, heartbeat, admission, envelope, tasks>>

PollRequest ==
  /\ link = "running" /\ poll = "answered"
  /\ stage' = [stage EXCEPT ![envelope] = "verifying"]
  /\ accepted' = [accepted EXCEPT ![envelope] = generation]
  /\ poll' = "none"
  /\ envelope' = NoRequest
  /\ UNCHANGED <<gateway, link, generation, limit, heartbeat, admission, attempts, result,
                 executed>>

\* poll() returns an exit or an error: the supervisor is gone or changed, the
\* registration was replaced, or the answer is a failure that is not transient.
PollEnds ==
  /\ link = "running"
  /\ poll \in {"accept", "heartbeat", "answered"}
  /\ Retire
  /\ Disconnected(generation)
  /\ UNCHANGED tasks

\* Defect: the failure of any task ends the generation.
EndsAnyGeneration(r) == result[r] \in {"exit", "failed", "panicked"}

\* completed_request.  A panic carries no generation: it ends the present one.
EndsGeneration(r) ==
  \/ result[r] \in {"exit", "failed"} /\ accepted[r] = generation
  \/ result[r] = "panicked"

\* The loop waits in join_next whenever it waits.
Join(r) ==
  /\ link = "running"
  /\ stage[r] = "done"
  /\ poll # "none" \/ ~MayPoll
  /\ stage' = [stage EXCEPT ![r] = "joined"]
  /\ IF EndsGeneration(r)
       THEN Retire
       ELSE /\ poll' = IF poll = "resting" THEN "none" ELSE poll
            /\ UNCHANGED <<link, generation, limit, heartbeat, admission, envelope>>
  /\ UNCHANGED <<gateway, accepted, attempts, result, executed>>

\* Ctrl-C, or the managed control stops the Link: the JoinSet is dropped, which
\* aborts its tasks.
Stop ==
  /\ link # "stopped"
  /\ link' = "stopped"
  /\ admission' = admission \ {generation}
  /\ poll' = "none"
  /\ envelope' = NoRequest
  /\ stage' = [r \in Requests |-> IF r \in Held THEN "aborted" ELSE stage[r]]
  /\ Disconnected(generation)
  /\ UNCHANGED <<generation, limit, heartbeat, accepted, attempts, result, executed>>

-----------------------------------------------------------------------------
(* AgentGeneration::dispatch and upload_response: the task of request r. *)

Return(r, outcome) ==
  /\ stage' = [stage EXCEPT ![r] = "done"]
  /\ result' = [result EXCEPT ![r] = outcome]

\* The verification fails: the supervisor is gone or changed.
VerifyFails(r) ==
  /\ stage[r] = "verifying"
  /\ \E outcome \in {"exit", "failed"} : Return(r, outcome)
  /\ Disconnected(accepted[r])
  /\ UNCHANGED <<agent, accepted, attempts, executed>>

\* Defect: a request that is not admitted is answered with an error.
VerifiedAnswersRefusal(r) ==
  /\ stage[r] = "verifying"
  /\ \/ /\ accepted[r] \in admission
        /\ stage' = [stage EXCEPT ![r] = "executing"]
        /\ executed' = [executed EXCEPT ![r] = @ + 1]
     \/ /\ accepted[r] \notin admission
        /\ stage' = [stage EXCEPT ![r] = "uploading"]
        /\ UNCHANGED executed
  /\ UNCHANGED <<gateway, agent, accepted, attempts, result>>

\* The flag is read and the local dispatch started with no await between.
Verified(r) ==
  /\ stage[r] = "verifying"
  /\ \/ /\ accepted[r] \in admission
        /\ stage' = [stage EXCEPT ![r] = "executing"]
        /\ executed' = [executed EXCEPT ![r] = @ + 1]
        /\ UNCHANGED result
     \/ /\ accepted[r] \notin admission
        /\ Return(r, "exit")
        /\ UNCHANGED executed
  /\ UNCHANGED <<gateway, agent, accepted, attempts>>

\* The response may be an error, also one that replaces the result because the
\* browser session changed meanwhile.
Execute(r) ==
  /\ stage[r] = "executing"
  /\ stage' = [stage EXCEPT ![r] = "uploading"]
  /\ UNCHANGED <<gateway, agent, accepted, attempts, result, executed>>

Panic(r) ==
  /\ stage[r] \in {"verifying", "executing", "uploading"}
  /\ Return(r, "panicked")
  /\ UNCHANGED <<gateway, agent, accepted, attempts, executed>>

\* respond: the answer of the gateway to an upload, and what it did.
Answers(r) == registered = accepted[r] /\ call[r] = "handed"

Respond(r) ==
  IF Answers(r) THEN call' = [call EXCEPT ![r] = "answered"] ELSE UNCHANGED call

\* The reply arrives: success, stale_request, or the generation was replaced.
UploadReplied(r) ==
  /\ stage[r] = "uploading"
  /\ \/ /\ registered = accepted[r]
        /\ Return(r, "none")
     \/ /\ registered # accepted[r]
        /\ Return(r, "exit")
  /\ Respond(r)
  /\ UNCHANGED <<registered, issued, owner, agent, accepted, attempts, executed>>

\* Any other answer fails the task; one that breaks off while it is read is
\* taken for a lost reply when the task is joined.
UploadRefused(r) ==
  /\ stage[r] = "uploading"
  /\ \E outcome \in {"failed", "none"} : Return(r, outcome)
  /\ UNCHANGED <<gateway, agent, accepted, attempts, executed>>

\* Defect: the request is dispatched again.
UploadRedispatches(r) ==
  /\ stage[r] = "uploading"
  /\ Respond(r)
  /\ attempts' = [attempts EXCEPT ![r] = @ + 1]
  /\ IF attempts[r] + 1 < Attempts
       THEN stage' = [stage EXCEPT ![r] = "verifying"] /\ UNCHANGED result
       ELSE Return(r, "none")
  /\ UNCHANGED <<registered, issued, owner, agent, accepted, executed>>

\* Defect: the count of attempts starts over.
UploadForever(r) ==
  /\ stage[r] = "uploading"
  /\ Respond(r) \/ UNCHANGED call
  /\ attempts' = [attempts EXCEPT ![r] = (@ + 1) % Attempts]
  /\ UNCHANGED <<registered, issued, owner, agent, stage, accepted, result, executed>>

\* The upload or its reply is lost, or the status is transient: the same
\* response is sent again, up to the limit of attempts.
UploadLost(r) ==
  /\ stage[r] = "uploading"
  /\ Respond(r) \/ UNCHANGED call
  /\ attempts' = [attempts EXCEPT ![r] = @ + 1]
  /\ IF attempts[r] + 1 < Attempts
       THEN UNCHANGED <<stage, result>>
       ELSE Return(r, "none")
  /\ UNCHANGED <<registered, issued, owner, agent, accepted, executed>>

-----------------------------------------------------------------------------
Upload(r) == UploadReplied(r) \/ UploadRefused(r) \/ UploadLost(r)

TaskStep(r) == VerifyFails(r) \/ Verified(r) \/ Execute(r) \/ Upload(r) \/ Panic(r)

Loop == StartPoll \/ PollIdle \/ Rested \/ PollRequest \/ PollEnds
        \/ \E r \in Requests : Join(r)

GatewayStep ==
  \/ Clear \/ Replace
  \/ \E r \in Requests : Submit(r) \/ GiveUp(r) \/ HandOut(r)

Next ==
  \/ GatewayStep
  \/ \E offer \in Offers : Connect(offer)
  \/ Loop
  \/ Stop
  \/ \E r \in Requests : TaskStep(r)

Spec == Init /\ [][Next]_vars

\* The agent's loop runs, every HTTP exchange ends (a reply or a timeout of the
\* client), and the retries of an upload go on.  No local dispatch has to end.
FairSpec ==
  /\ Spec
  /\ WF_vars(StartPoll) /\ WF_vars(Rested)
  /\ WF_vars(PollIdle \/ PollRequest \/ PollEnds)
  /\ \A r \in Requests : WF_vars(Join(r)) /\ WF_vars(Upload(r))

-----------------------------------------------------------------------------
(* Properties. *)

\* Every variable has its type, and the loop is only inside a poll while a
\* generation runs.
TypeOK ==
  /\ registered \in Nat /\ issued \in Nat /\ generation \in Nat
  /\ call \in [Requests -> {"none", "queued", "handed", "answered", "failed"}]
  /\ owner \in [Requests -> Nat]
  /\ link \in {"connecting", "running", "stopped"}
  /\ limit \in Nat /\ heartbeat \in BOOLEAN
  /\ admission \in SUBSET Nat
  /\ poll \in {"none", "accept", "heartbeat", "answered", "resting"}
  /\ poll # "none" => link = "running"
  /\ envelope \in Requests \cup {NoRequest}
  /\ poll = "answered" <=> envelope # NoRequest
  /\ stage \in [Requests -> Stages]
  /\ accepted \in [Requests -> Nat]
  /\ attempts \in [Requests -> 0 .. Attempts]
  /\ result \in [Requests -> {"none", "exit", "failed", "panicked"}]
  /\ executed \in [Requests -> Nat]

\* MAX_CONCURRENT_GATEWAY_REQUESTS bounds the work of the whole agent, whatever
\* the gateways of several generations advertised and although tasks of retired
\* generations stay in the JoinSet.
WorkBounded == Cardinality(Held) <= MaxConcurrent

\* "Only resend this exact response envelope, never local dispatch": a request
\* is executed at most once, over lost polls, uploads and replies, reconnects
\* and replacements.
ExecutedOnce == \A r \in Requests : executed[r] <= 1

\* The caller of an answered request was answered by an execution of it.
AnsweredWasExecuted ==
  \A r \in Requests : call[r] = "answered" => executed[r] = 1 /\ accepted[r] = owner[r]

\* Revalidation "immediately before local admission": an execution only begins
\* while the generation that accepted the request is the one that runs.
StartsAdmitted ==
  [][\A r \in Requests : executed'[r] # executed[r]
        => link = "running" /\ accepted[r] = generation]_vars

\* "Its failure must not retire that newer generation": what a task of a retired
\* generation returns (a panic returns nothing) leaves the present generation and
\* its poll alone.
RetiredIsHarmless ==
  [][\A r \in Requests :
        (/\ stage[r] = "done" /\ stage'[r] = "joined"
         /\ accepted[r] # generation /\ result[r] # "panicked")
          => link' = link /\ (poll = "resting" \/ poll' = poll)]_vars

\* A running agent that may send heartbeats polls again and again, and so renews
\* its lease, even when the tasks that saturate it never end.
KeepsPolling ==
  (link = "running" /\ heartbeat) ~> (poll \in {"accept", "heartbeat"} \/ link # "running")

\* An upload ends after a bounded number of attempts, whatever the gateway does.
UploadEnds == \A r \in Requests : stage[r] = "uploading" ~> stage[r] # "uploading"
=============================================================================
