------------------------- MODULE GatewayAgentProofs -------------------------
(***************************************************************************)
(* Proofs about GatewayAgent, for any set of requests, any offers and any  *)
(* limits.  IndInv is inductive: it adds to the properties that a request  *)
(* has no task before it was handed out and none twice (Fresh, OneTask),   *)
(* that a task's progress tells whether the request was executed           *)
(* (StageTells), that an accepting poll was started with room for what it  *)
(* brings (PollHasRoom), and that only the flag of the generation that     *)
(* runs is up (OneAdmission).                                              *)
(***************************************************************************)
EXTENDS GatewayAgent, FiniteSetTheorems, TLAPS

\* A call the gateway has not handed out has no task, and no envelope either.
Fresh ==
  \A r \in Requests : call[r] \in {"none", "queued"} => stage[r] = "none" /\ envelope # r

\* The request under way has no task yet and was queued for this generation.
OneTask ==
  envelope # NoRequest => stage[envelope] = "none" /\ owner[envelope] = generation

StageTells ==
  \A r \in Requests :
    /\ stage[r] \in {"none", "verifying"} => executed[r] = 0
    /\ stage[r] \in {"executing", "uploading"} => executed[r] = 1
    /\ stage[r] \in {"none", "verifying", "executing", "uploading"} => attempts[r] < Attempts
    /\ stage[r] # "none" => accepted[r] = owner[r]

\* The poll under way may bring a request, or has.
Accepting == poll \in {"accept", "answered"}

PollHasRoom ==
  /\ limit \in 1 .. MaxConcurrent
  /\ Accepting => HasRoom

OneAdmission ==
  /\ admission \subseteq {generation}
  /\ link # "running" => admission = {}

\* All that does not count tasks.
Core ==
  /\ TypeOK
  /\ Fresh
  /\ OneTask
  /\ StageTells
  /\ ExecutedOnce
  /\ AnsweredWasExecuted
  /\ OneAdmission

IndInv == Core /\ PollHasRoom /\ WorkBounded

-----------------------------------------------------------------------------
(* The initial states. *)

\* The invariant holds initially.
LEMMA InitInv == Init => IndInv
<1> SUFFICES ASSUME Init PROVE IndInv
  OBVIOUS
<1> USE RequestAssumption, OfferAssumption, LimitAssumption DEF Init
<1>1. TypeOK
  <2>1. 0 \in 0 .. Attempts
    OBVIOUS
  <2>2. attempts \in [Requests -> 0 .. Attempts]
    BY <2>1, Zenon
  <2> QED
    BY <2>2 DEF TypeOK, Stages
<1>2. Fresh /\ OneTask /\ StageTells /\ ExecutedOnce /\ AnsweredWasExecuted /\ OneAdmission
  BY DEF Fresh, OneTask, StageTells, ExecutedOnce, AnsweredWasExecuted, OneAdmission
<1>3. PollHasRoom
  BY DEF PollHasRoom, Accepting
<1>4. Held = {}
  BY DEF Held
<1>5. WorkBounded
  BY <1>4, FS_EmptySet DEF WorkBounded
<1> QED
  BY <1>1, <1>2, <1>3, <1>5 DEF IndInv, Core

-----------------------------------------------------------------------------
(* The steps, without the count of tasks.                                  *)

\* The gateway clears the registration.
LEMMA ClearCore ==
    ASSUME Core, Clear
    PROVE  Core'
<1> USE RequestAssumption, OfferAssumption, LimitAssumption
    DEF Clear, gateway, agent, tasks
<1>1. TypeOK'
  BY DEF Core, TypeOK, Stages, FailCalls
<1>2. Fresh' /\ OneTask'
  BY DEF Core, TypeOK, Fresh, OneTask, FailCalls
<1>3. StageTells' /\ ExecutedOnce'
  BY DEF Core, TypeOK, Fresh, OneTask, StageTells, ExecutedOnce
<1>4. AnsweredWasExecuted'
  BY DEF Core, TypeOK, Fresh, OneTask, StageTells, AnsweredWasExecuted, FailCalls
<1>5. OneAdmission'
  BY DEF Core, TypeOK, OneAdmission
<1> QED
  BY <1>1, <1>2, <1>3, <1>4, <1>5 DEF Core

\* The gateway registers another process.
LEMMA ReplaceCore ==
    ASSUME Core, Replace
    PROVE  Core'
<1> USE RequestAssumption, OfferAssumption, LimitAssumption
    DEF Replace, gateway, agent, tasks
<1>1. TypeOK'
  BY DEF Core, TypeOK, Stages, FailCalls
<1>2. Fresh' /\ OneTask'
  BY DEF Core, TypeOK, Fresh, OneTask, FailCalls
<1>3. StageTells' /\ ExecutedOnce'
  BY DEF Core, TypeOK, Fresh, OneTask, StageTells, ExecutedOnce
<1>4. AnsweredWasExecuted'
  BY DEF Core, TypeOK, Fresh, OneTask, StageTells, AnsweredWasExecuted, FailCalls
<1>5. OneAdmission'
  BY DEF Core, TypeOK, OneAdmission
<1> QED
  BY <1>1, <1>2, <1>3, <1>4, <1>5 DEF Core

\* A call is queued.
LEMMA SubmitCore ==
    ASSUME Core, NEW r \in Requests, Submit(r)
    PROVE  Core'
<1> USE RequestAssumption, OfferAssumption, LimitAssumption
    DEF Submit, gateway, agent, tasks
<1>1. TypeOK'
  BY DEF Core, TypeOK, Stages, FailCalls
<1>2. Fresh' /\ OneTask'
  BY DEF Core, TypeOK, Fresh, OneTask, FailCalls
<1>3. StageTells' /\ ExecutedOnce'
  BY DEF Core, TypeOK, Fresh, OneTask, StageTells, ExecutedOnce
<1>4. AnsweredWasExecuted'
  BY DEF Core, TypeOK, Fresh, OneTask, StageTells, AnsweredWasExecuted, FailCalls
<1>5. OneAdmission'
  BY DEF Core, TypeOK, OneAdmission
<1> QED
  BY <1>1, <1>2, <1>3, <1>4, <1>5 DEF Core

\* The gateway gives a call up.
LEMMA GiveUpCore ==
    ASSUME Core, NEW r \in Requests, GiveUp(r)
    PROVE  Core'
<1> USE RequestAssumption, OfferAssumption, LimitAssumption
    DEF GiveUp, gateway, agent, tasks
<1>1. TypeOK'
  BY DEF Core, TypeOK, Stages, FailCalls
<1>2. Fresh' /\ OneTask'
  BY DEF Core, TypeOK, Fresh, OneTask, FailCalls
<1>3. StageTells' /\ ExecutedOnce'
  BY DEF Core, TypeOK, Fresh, OneTask, StageTells, ExecutedOnce
<1>4. AnsweredWasExecuted'
  BY DEF Core, TypeOK, Fresh, OneTask, StageTells, AnsweredWasExecuted, FailCalls
<1>5. OneAdmission'
  BY DEF Core, TypeOK, OneAdmission
<1> QED
  BY <1>1, <1>2, <1>3, <1>4, <1>5 DEF Core

\* A call leaves with a poll response.
LEMMA HandOutCore ==
    ASSUME Core, NEW r \in Requests, HandOut(r)
    PROVE  Core'
<1> USE RequestAssumption, OfferAssumption, LimitAssumption
    DEF HandOut, gateway, agent, tasks
<1>1. TypeOK'
  BY DEF Core, TypeOK, Stages, FailCalls
<1>2. Fresh' /\ OneTask'
  BY DEF Core, TypeOK, Fresh, OneTask, FailCalls
<1>3. StageTells' /\ ExecutedOnce'
  BY DEF Core, TypeOK, Fresh, OneTask, StageTells, ExecutedOnce
<1>4. AnsweredWasExecuted'
  BY DEF Core, TypeOK, Fresh, OneTask, StageTells, AnsweredWasExecuted, FailCalls
<1>5. OneAdmission'
  BY DEF Core, TypeOK, OneAdmission
<1> QED
  BY <1>1, <1>2, <1>3, <1>4, <1>5 DEF Core

\* The agent registers.
LEMMA ConnectCore ==
    ASSUME Core, NEW offer \in Offers, Connect(offer)
    PROVE  Core'
<1> USE RequestAssumption, OfferAssumption, LimitAssumption
    DEF Connect, Negotiated, gateway, agent, tasks
<1>1. TypeOK'
  BY DEF Core, TypeOK, Stages, FailCalls
<1>2. Fresh' /\ OneTask'
  BY DEF Core, TypeOK, Fresh, OneTask, FailCalls
<1>3. StageTells' /\ ExecutedOnce'
  BY DEF Core, TypeOK, Fresh, OneTask, StageTells, ExecutedOnce
<1>4. AnsweredWasExecuted'
  BY DEF Core, TypeOK, Fresh, OneTask, StageTells, AnsweredWasExecuted, FailCalls
<1>5. OneAdmission'
  BY DEF Core, TypeOK, OneAdmission
<1> QED
  BY <1>1, <1>2, <1>3, <1>4, <1>5 DEF Core

\* A poll begins.
LEMMA StartPollCore ==
    ASSUME Core, StartPoll
    PROVE  Core'
<1> USE RequestAssumption, OfferAssumption, LimitAssumption
    DEF StartPoll, gateway, agent, tasks
<1>1. TypeOK'
  BY DEF Core, TypeOK, Stages, FailCalls
<1>2. Fresh' /\ OneTask'
  BY DEF Core, TypeOK, Fresh, OneTask, FailCalls
<1>3. StageTells' /\ ExecutedOnce'
  BY DEF Core, TypeOK, Fresh, OneTask, StageTells, ExecutedOnce
<1>4. AnsweredWasExecuted'
  BY DEF Core, TypeOK, Fresh, OneTask, StageTells, AnsweredWasExecuted, FailCalls
<1>5. OneAdmission'
  BY DEF Core, TypeOK, OneAdmission
<1> QED
  BY <1>1, <1>2, <1>3, <1>4, <1>5 DEF Core

\* A poll ends without a request.
LEMMA PollIdleCore ==
    ASSUME Core, PollIdle
    PROVE  Core'
<1> USE RequestAssumption, OfferAssumption, LimitAssumption
    DEF PollIdle, gateway, agent, tasks
<1>1. TypeOK'
  BY DEF Core, TypeOK, Stages, FailCalls
<1>2. Fresh' /\ OneTask'
  BY DEF Core, TypeOK, Fresh, OneTask, FailCalls
<1>3. StageTells' /\ ExecutedOnce'
  BY DEF Core, TypeOK, Fresh, OneTask, StageTells, ExecutedOnce
<1>4. AnsweredWasExecuted'
  BY DEF Core, TypeOK, Fresh, OneTask, StageTells, AnsweredWasExecuted, FailCalls
<1>5. OneAdmission'
  BY DEF Core, TypeOK, OneAdmission
<1> QED
  BY <1>1, <1>2, <1>3, <1>4, <1>5 DEF Core

\* The pause of a saturated agent ends.
LEMMA RestedCore ==
    ASSUME Core, Rested
    PROVE  Core'
<1> USE RequestAssumption, OfferAssumption, LimitAssumption
    DEF Rested, gateway, agent, tasks
<1>1. TypeOK'
  BY DEF Core, TypeOK, Stages, FailCalls
<1>2. Fresh' /\ OneTask'
  BY DEF Core, TypeOK, Fresh, OneTask, FailCalls
<1>3. StageTells' /\ ExecutedOnce'
  BY DEF Core, TypeOK, Fresh, OneTask, StageTells, ExecutedOnce
<1>4. AnsweredWasExecuted'
  BY DEF Core, TypeOK, Fresh, OneTask, StageTells, AnsweredWasExecuted, FailCalls
<1>5. OneAdmission'
  BY DEF Core, TypeOK, OneAdmission
<1> QED
  BY <1>1, <1>2, <1>3, <1>4, <1>5 DEF Core

\* A request is accepted.
LEMMA PollRequestCore ==
    ASSUME Core, PollRequest
    PROVE  Core'
<1> USE RequestAssumption, OfferAssumption, LimitAssumption
    DEF PollRequest, gateway, agent, tasks
<1>1. TypeOK'
  BY DEF Core, TypeOK, Stages, FailCalls
<1>2. Fresh' /\ OneTask'
  BY DEF Core, TypeOK, Fresh, OneTask, FailCalls
<1>3. StageTells' /\ ExecutedOnce'
  BY DEF Core, TypeOK, Fresh, OneTask, StageTells, ExecutedOnce
<1>4. AnsweredWasExecuted'
  BY DEF Core, TypeOK, Fresh, OneTask, StageTells, AnsweredWasExecuted, FailCalls
<1>5. OneAdmission'
  BY DEF Core, TypeOK, OneAdmission
<1> QED
  BY <1>1, <1>2, <1>3, <1>4, <1>5 DEF Core

\* A poll ends the generation.
LEMMA PollEndsCore ==
    ASSUME Core, PollEnds
    PROVE  Core'
<1> USE RequestAssumption, OfferAssumption, LimitAssumption
    DEF PollEnds, Retire, Disconnected, gateway, agent, tasks
<1>1. TypeOK'
  BY DEF Core, TypeOK, Stages, FailCalls
<1>2. Fresh' /\ OneTask'
  BY DEF Core, TypeOK, Fresh, OneTask, FailCalls
<1>3. StageTells' /\ ExecutedOnce'
  BY DEF Core, TypeOK, Fresh, OneTask, StageTells, ExecutedOnce
<1>4. AnsweredWasExecuted'
  BY DEF Core, TypeOK, Fresh, OneTask, StageTells, AnsweredWasExecuted, FailCalls
<1>5. OneAdmission'
  BY DEF Core, TypeOK, OneAdmission
<1> QED
  BY <1>1, <1>2, <1>3, <1>4, <1>5 DEF Core

\* A finished task is joined.
LEMMA JoinCore ==
    ASSUME Core, NEW r \in Requests, Join(r)
    PROVE  Core'
<1> USE RequestAssumption, OfferAssumption, LimitAssumption
    DEF Join, Retire, gateway, agent, tasks
<1>1. TypeOK'
  BY DEF Core, TypeOK, Stages, FailCalls
<1>2. Fresh' /\ OneTask'
  BY DEF Core, TypeOK, Fresh, OneTask, FailCalls
<1>3. StageTells' /\ ExecutedOnce'
  BY DEF Core, TypeOK, Fresh, OneTask, StageTells, ExecutedOnce
<1>4. AnsweredWasExecuted'
  BY DEF Core, TypeOK, Fresh, OneTask, StageTells, AnsweredWasExecuted, FailCalls
<1>5. OneAdmission'
  BY DEF Core, TypeOK, OneAdmission
<1> QED
  BY <1>1, <1>2, <1>3, <1>4, <1>5 DEF Core

\* The agent stops.
LEMMA StopCore ==
    ASSUME Core, Stop
    PROVE  Core'
<1> USE RequestAssumption, OfferAssumption, LimitAssumption
    DEF Stop, Disconnected, Held, gateway, agent, tasks
<1>1. TypeOK'
  BY DEF Core, TypeOK, Stages, FailCalls
<1>2. Fresh' /\ OneTask'
  BY DEF Core, TypeOK, Fresh, OneTask, FailCalls
<1>3. StageTells' /\ ExecutedOnce'
  BY DEF Core, TypeOK, Fresh, OneTask, StageTells, ExecutedOnce
<1>4. AnsweredWasExecuted'
  BY DEF Core, TypeOK, Fresh, OneTask, StageTells, AnsweredWasExecuted, FailCalls
<1>5. OneAdmission'
  BY DEF Core, TypeOK, OneAdmission
<1> QED
  BY <1>1, <1>2, <1>3, <1>4, <1>5 DEF Core

\* The verification of a task fails.
LEMMA VerifyFailsCore ==
    ASSUME Core, NEW r \in Requests, VerifyFails(r)
    PROVE  Core'
<1> USE RequestAssumption, OfferAssumption, LimitAssumption
    DEF VerifyFails, Return, Disconnected, gateway, agent, tasks
<1>1. TypeOK'
  BY DEF Core, TypeOK, Stages, FailCalls
<1>2. Fresh' /\ OneTask'
  BY DEF Core, TypeOK, Fresh, OneTask, FailCalls
<1>3. StageTells' /\ ExecutedOnce'
  BY DEF Core, TypeOK, Fresh, OneTask, StageTells, ExecutedOnce
<1>4. AnsweredWasExecuted'
  BY DEF Core, TypeOK, Fresh, OneTask, StageTells, AnsweredWasExecuted, FailCalls
<1>5. OneAdmission'
  BY DEF Core, TypeOK, OneAdmission
<1> QED
  BY <1>1, <1>2, <1>3, <1>4, <1>5 DEF Core

\* The admission flag decides a task.
LEMMA VerifiedCore ==
    ASSUME Core, NEW r \in Requests, Verified(r)
    PROVE  Core'
<1> USE RequestAssumption, OfferAssumption, LimitAssumption
    DEF Verified, Return, gateway, agent, tasks
<1>1. TypeOK'
  BY DEF Core, TypeOK, Stages, FailCalls
<1>2. Fresh' /\ OneTask'
  BY DEF Core, TypeOK, Fresh, OneTask, FailCalls
<1>3. StageTells' /\ ExecutedOnce'
  BY DEF Core, TypeOK, Fresh, OneTask, StageTells, ExecutedOnce
<1>4. AnsweredWasExecuted'
  BY DEF Core, TypeOK, Fresh, OneTask, StageTells, AnsweredWasExecuted, FailCalls
<1>5. OneAdmission'
  BY DEF Core, TypeOK, OneAdmission
<1> QED
  BY <1>1, <1>2, <1>3, <1>4, <1>5 DEF Core

\* A local dispatch ends.
LEMMA ExecuteCore ==
    ASSUME Core, NEW r \in Requests, Execute(r)
    PROVE  Core'
<1> USE RequestAssumption, OfferAssumption, LimitAssumption
    DEF Execute, gateway, agent, tasks
<1>1. TypeOK'
  BY DEF Core, TypeOK, Stages, FailCalls
<1>2. Fresh' /\ OneTask'
  BY DEF Core, TypeOK, Fresh, OneTask, FailCalls
<1>3. StageTells' /\ ExecutedOnce'
  BY DEF Core, TypeOK, Fresh, OneTask, StageTells, ExecutedOnce
<1>4. AnsweredWasExecuted'
  BY DEF Core, TypeOK, Fresh, OneTask, StageTells, AnsweredWasExecuted, FailCalls
<1>5. OneAdmission'
  BY DEF Core, TypeOK, OneAdmission
<1> QED
  BY <1>1, <1>2, <1>3, <1>4, <1>5 DEF Core

\* A task panics.
LEMMA PanicCore ==
    ASSUME Core, NEW r \in Requests, Panic(r)
    PROVE  Core'
<1> USE RequestAssumption, OfferAssumption, LimitAssumption
    DEF Panic, Return, gateway, agent, tasks
<1>1. TypeOK'
  BY DEF Core, TypeOK, Stages, FailCalls
<1>2. Fresh' /\ OneTask'
  BY DEF Core, TypeOK, Fresh, OneTask, FailCalls
<1>3. StageTells' /\ ExecutedOnce'
  BY DEF Core, TypeOK, Fresh, OneTask, StageTells, ExecutedOnce
<1>4. AnsweredWasExecuted'
  BY DEF Core, TypeOK, Fresh, OneTask, StageTells, AnsweredWasExecuted, FailCalls
<1>5. OneAdmission'
  BY DEF Core, TypeOK, OneAdmission
<1> QED
  BY <1>1, <1>2, <1>3, <1>4, <1>5 DEF Core

\* An upload is replied to.
LEMMA UploadRepliedCore ==
    ASSUME Core, NEW r \in Requests, UploadReplied(r)
    PROVE  Core'
<1> USE RequestAssumption, OfferAssumption, LimitAssumption
    DEF UploadReplied, Return, Respond, Answers, gateway, agent, tasks
<1>1. TypeOK'
  BY DEF Core, TypeOK, Stages, FailCalls
<1>2. Fresh' /\ OneTask'
  BY DEF Core, TypeOK, Fresh, OneTask, FailCalls
<1>3. StageTells' /\ ExecutedOnce'
  BY DEF Core, TypeOK, Fresh, OneTask, StageTells, ExecutedOnce
<1>4. AnsweredWasExecuted'
  BY DEF Core, TypeOK, Fresh, OneTask, StageTells, AnsweredWasExecuted, FailCalls
<1>5. OneAdmission'
  BY DEF Core, TypeOK, OneAdmission
<1> QED
  BY <1>1, <1>2, <1>3, <1>4, <1>5 DEF Core

\* An upload is refused.
LEMMA UploadRefusedCore ==
    ASSUME Core, NEW r \in Requests, UploadRefused(r)
    PROVE  Core'
<1> USE RequestAssumption, OfferAssumption, LimitAssumption
    DEF UploadRefused, Return, gateway, agent, tasks
<1>1. TypeOK'
  BY DEF Core, TypeOK, Stages, FailCalls
<1>2. Fresh' /\ OneTask'
  BY DEF Core, TypeOK, Fresh, OneTask, FailCalls
<1>3. StageTells' /\ ExecutedOnce'
  BY DEF Core, TypeOK, Fresh, OneTask, StageTells, ExecutedOnce
<1>4. AnsweredWasExecuted'
  BY DEF Core, TypeOK, Fresh, OneTask, StageTells, AnsweredWasExecuted, FailCalls
<1>5. OneAdmission'
  BY DEF Core, TypeOK, OneAdmission
<1> QED
  BY <1>1, <1>2, <1>3, <1>4, <1>5 DEF Core

\* An upload is lost.
LEMMA UploadLostCore ==
    ASSUME Core, NEW r \in Requests, UploadLost(r)
    PROVE  Core'
<1> USE RequestAssumption, OfferAssumption, LimitAssumption
    DEF UploadLost, Return, Respond, Answers, gateway, agent, tasks
<1>1. TypeOK'
  BY DEF Core, TypeOK, Stages, StageTells
<1>2. Fresh' /\ OneTask'
  BY DEF Core, TypeOK, Fresh, OneTask, FailCalls
<1>3. StageTells' /\ ExecutedOnce'
  BY DEF Core, TypeOK, Fresh, OneTask, StageTells, ExecutedOnce
<1>4. AnsweredWasExecuted'
  BY DEF Core, TypeOK, Fresh, OneTask, StageTells, AnsweredWasExecuted, FailCalls
<1>5. OneAdmission'
  BY DEF Core, TypeOK, OneAdmission
<1> QED
  BY <1>1, <1>2, <1>3, <1>4, <1>5 DEF Core

-----------------------------------------------------------------------------
(* The count of tasks. *)

USE DEF Accepting

\* The JoinSet is finite.
LEMMA HeldIsFinite == IsFiniteSet(Held) /\ Cardinality(Held) \in Nat
<1>1. Held \subseteq Requests
  BY DEF Held
<1> QED
  BY <1>1, RequestAssumption, FS_Subset, FS_CardinalityType

\* A step that adds no task does not raise the count.
LEMMA HeldShrinks ==
    ASSUME Held' \subseteq Held
    PROVE  Cardinality(Held') \in Nat /\ Cardinality(Held') <= Cardinality(Held)
BY HeldIsFinite, FS_Subset, FS_CardinalityType

\* A step that adds no task, and opens no accepting poll.
LEMMA QuietRoom ==
    ASSUME Core, PollHasRoom, WorkBounded, limit' = limit, Held' \subseteq Held,
           Accepting' => Accepting
    PROVE  PollHasRoom' /\ WorkBounded'
<1>1. /\ Cardinality(Held') \in Nat /\ Cardinality(Held) \in Nat
      /\ Cardinality(Held') <= Cardinality(Held)
  BY HeldShrinks, HeldIsFinite
<1> QED
  BY <1>1, LimitAssumption DEF PollHasRoom, HasRoom, WorkBounded

\* A step that leaves the tasks alone.
LEMMA SameHeld == UNCHANGED stage => Held' = Held
BY DEF Held

\* The room an accepting poll was started with is enough for what it brings.
LEMMA PollRequestRoom ==
    ASSUME Core, PollHasRoom, WorkBounded, PollRequest
    PROVE  PollHasRoom' /\ WorkBounded'
<1>1. Held' = Held \cup {envelope}
  BY DEF PollRequest, Held, Core, TypeOK, Stages
<1>2. Cardinality(Held') \in Nat /\ Cardinality(Held') <= Cardinality(Held) + 1
  <2>1. Cardinality(Held \cup {envelope})
          = IF envelope \in Held THEN Cardinality(Held) ELSE Cardinality(Held) + 1
    BY HeldIsFinite, FS_AddElement, Zenon
  <2>2. Cardinality(Held') = Cardinality(Held \cup {envelope})
    BY <1>1
  <2> QED
    BY <2>1, <2>2, HeldIsFinite
<1>3. Cardinality(Held) < limit /\ limit \in 1 .. MaxConcurrent
  BY DEF PollRequest, PollHasRoom, HasRoom
<1>4. limit' = limit /\ poll' = "none"
  BY DEF PollRequest
<1> QED
  BY <1>2, <1>3, <1>4, HeldIsFinite, LimitAssumption DEF PollHasRoom, WorkBounded

\* Every step keeps the invariant.
LEMMA NextInv == IndInv /\ [Next]_vars => IndInv'
<1> SUFFICES ASSUME Core, PollHasRoom, WorkBounded, [Next]_vars
             PROVE  Core' /\ PollHasRoom' /\ WorkBounded'
  BY DEF IndInv
<1>1. CASE GatewayStep
  <2>1. CASE Clear
    <3>1. limit' = limit /\ (Accepting' => Accepting)
      BY <2>1 DEF Clear, agent
    <3>2. Held' \subseteq Held
      BY <2>1, SameHeld DEF Core, TypeOK, Stages, Held, Clear, tasks
    <3> QED
      BY <2>1, <3>1, <3>2, QuietRoom, ClearCore
  <2>2. CASE Replace
    <3>1. limit' = limit /\ (Accepting' => Accepting)
      BY <2>2 DEF Replace, agent
    <3>2. Held' \subseteq Held
      BY <2>2, SameHeld DEF Core, TypeOK, Stages, Held, Replace, tasks
    <3> QED
      BY <2>2, <3>1, <3>2, QuietRoom, ReplaceCore
  <2>3. ASSUME NEW r \in Requests, Submit(r) \/ GiveUp(r) \/ HandOut(r)
        PROVE  Core' /\ PollHasRoom' /\ WorkBounded'
    <3>1. limit' = limit /\ (Accepting' => Accepting)
      BY <2>3 DEF Submit, GiveUp, HandOut, agent
    <3>2. Held' \subseteq Held
      BY <2>3, SameHeld DEF Submit, GiveUp, HandOut, tasks
    <3> QED
      BY <2>3, <3>1, <3>2, QuietRoom, SubmitCore, GiveUpCore, HandOutCore
  <2> QED
    BY <1>1, <2>1, <2>2, <2>3 DEF GatewayStep
<1>2. ASSUME NEW offer \in Offers, Connect(offer)
      PROVE  Core' /\ PollHasRoom' /\ WorkBounded'
  <2>1. Core'
    BY <1>2, ConnectCore
  <2>2. limit' \in 1 .. MaxConcurrent
    BY <1>2, OfferAssumption, LimitAssumption DEF Connect, Negotiated
  <2>3. poll' = "none"
    BY <1>2 DEF Connect, Core, TypeOK
  <2>4. Held' = Held
    BY <1>2, SameHeld DEF Connect, tasks
  <2> QED
    BY <2>1, <2>2, <2>3, <2>4 DEF PollHasRoom, WorkBounded
<1>3. CASE Loop
  <2>1. CASE StartPoll
    <3>1. Held' = Held /\ limit' = limit
      BY <2>1, SameHeld DEF StartPoll, tasks
    <3>2. PollHasRoom' /\ WorkBounded'
      BY <2>1, <3>1 DEF StartPoll, PollHasRoom, HasRoom, WorkBounded
    <3> QED
      BY <2>1, <3>2, StartPollCore
  <2>2. CASE PollRequest
    BY <2>2, PollRequestRoom, PollRequestCore
  <2>3. CASE PollIdle
    <3>1. limit' = limit /\ (Accepting' => Accepting)
      BY <2>3 DEF PollIdle, agent
    <3>2. Held' \subseteq Held
      BY <2>3, SameHeld DEF Core, TypeOK, Stages, Held, PollIdle, tasks
    <3> QED
      BY <2>3, <3>1, <3>2, QuietRoom, PollIdleCore
  <2>4. CASE Rested
    <3>1. limit' = limit /\ (Accepting' => Accepting)
      BY <2>4 DEF Rested, agent
    <3>2. Held' \subseteq Held
      BY <2>4, SameHeld DEF Core, TypeOK, Stages, Held, Rested, tasks
    <3> QED
      BY <2>4, <3>1, <3>2, QuietRoom, RestedCore
  <2>5. CASE PollEnds
    <3>1. limit' = limit /\ (Accepting' => Accepting)
      BY <2>5 DEF PollEnds, Retire, agent
    <3>2. Held' \subseteq Held
      BY <2>5, SameHeld DEF Core, TypeOK, Stages, Held, PollEnds, Retire, tasks
    <3> QED
      BY <2>5, <3>1, <3>2, QuietRoom, PollEndsCore
  <2>6. ASSUME NEW r \in Requests, Join(r)
        PROVE  Core' /\ PollHasRoom' /\ WorkBounded'
    <3>1. limit' = limit /\ (Accepting' => Accepting)
      BY <2>6 DEF Join, Retire
    <3>2. Held' \subseteq Held
      BY <2>6 DEF Core, TypeOK, Held, Join
    <3> QED
      BY <2>6, <3>1, <3>2, QuietRoom, JoinCore
  <2> QED
    BY <1>3, <2>1, <2>2, <2>3, <2>4, <2>5, <2>6 DEF Loop
<1>4. CASE Stop
  <2>1. limit' = limit /\ poll' = "none"
    BY <1>4 DEF Stop
  <2>2. Held' \subseteq Held
    BY <1>4 DEF Core, TypeOK, Held, Stop
  <2> QED
    BY <1>4, <2>1, <2>2, QuietRoom, StopCore
<1>5. ASSUME NEW r \in Requests, TaskStep(r)
      PROVE  Core' /\ PollHasRoom' /\ WorkBounded'
  <2>1. limit' = limit /\ poll' = poll
    BY <1>5 DEF TaskStep, VerifyFails, Verified, Execute, Panic, Upload, UploadReplied,
                UploadRefused, UploadLost, agent
  <2>2. Held' \subseteq Held
    BY <1>5 DEF TaskStep, VerifyFails, Verified, Execute, Panic, Upload, UploadReplied,
                UploadRefused, UploadLost, Return, Core, TypeOK, Held
  <2>3. Core'
    BY <1>5, VerifyFailsCore, VerifiedCore, ExecuteCore, PanicCore, UploadRepliedCore,
       UploadRefusedCore, UploadLostCore DEF TaskStep, Upload
  <2> QED
    BY <2>1, <2>2, <2>3, QuietRoom
<1>6. CASE UNCHANGED vars
  <2>1. Held' = Held
    BY <1>6, SameHeld DEF vars, tasks
  <2> QED
    BY <1>6, <2>1 DEF vars, gateway, agent, tasks, Core, TypeOK, Fresh, OneTask, StageTells,
       ExecutedOnce, AnsweredWasExecuted, OneAdmission, PollHasRoom, HasRoom, WorkBounded
<1> QED
  BY <1>1, <1>2, <1>3, <1>4, <1>5, <1>6 DEF Next

-----------------------------------------------------------------------------
(* Theorems. *)

\* The inductive invariant holds of every behaviour of the agent.
THEOREM Invariance == Spec => []IndInv
  BY InitInv, NextInv, PTL DEF Spec

\* Every variable keeps its type, for any requests, offers and limits.
THEOREM TypeCorrect == Spec => []TypeOK
<1>1. IndInv => TypeOK
  BY DEF IndInv, Core
<1> QED
  BY <1>1, Invariance, PTL

\* The JoinSet never outgrows MAX_CONCURRENT_GATEWAY_REQUESTS, whatever gateways
\* advertise and however many generations share it.
THEOREM WorkCorrect == Spec => []WorkBounded
<1>1. IndInv => WorkBounded
  BY DEF IndInv
<1> QED
  BY <1>1, Invariance, PTL

\* No request is dispatched locally twice, whatever messages are lost.
THEOREM OnceCorrect == Spec => []ExecutedOnce
<1>1. IndInv => ExecutedOnce
  BY DEF IndInv, Core
<1> QED
  BY <1>1, Invariance, PTL

\* An answered request was executed, under the registration it was queued for.
THEOREM AnswerCorrect == Spec => []AnsweredWasExecuted
<1>1. IndInv => AnsweredWasExecuted
  BY DEF IndInv, Core
<1> QED
  BY <1>1, Invariance, PTL

\* An execution only begins under the generation that runs.
THEOREM AdmissionCorrect == Spec => StartsAdmitted
<1> DEFINE Starts == \A r \in Requests : executed'[r] # executed[r]
                        => link = "running" /\ accepted[r] = generation
<1>1. IndInv /\ [Next]_vars => [Starts]_vars
  <2> SUFFICES ASSUME IndInv, Next PROVE Starts
    OBVIOUS
  <2>1. ASSUME NEW r \in Requests, Verified(r)
        PROVE  Starts
    BY <2>1 DEF Verified, IndInv, Core, TypeOK, OneAdmission
  <2>2. CASE UNCHANGED executed
    BY <2>2
  <2>3. (\E r \in Requests : Verified(r)) \/ UNCHANGED executed
    BY DEF Next, GatewayStep, Clear, Replace, Submit, GiveUp, HandOut, Connect, Loop, StartPoll,
       PollIdle, Rested, PollRequest, PollEnds, Join, Stop, TaskStep, VerifyFails, Execute,
       Panic, Upload, UploadReplied, UploadRefused, UploadLost, tasks
  <2> QED
    BY <2>1, <2>2, <2>3
<1> QED
  BY <1>1, Invariance, PTL DEF Spec, StartsAdmitted

\* A retired generation's task, when it is joined, leaves the generation that
\* runs and its poll alone.
THEOREM RetiredCorrect == Spec => RetiredIsHarmless
<1> DEFINE Spared ==
      \A r \in Requests :
        (/\ stage[r] = "done" /\ stage'[r] = "joined"
         /\ accepted[r] # generation /\ result[r] # "panicked")
          => link' = link /\ (poll = "resting" \/ poll' = poll)
<1>1. IndInv /\ [Next]_vars => [Spared]_vars
  <2> SUFFICES ASSUME IndInv, Next, NEW r \in Requests,
                      stage[r] = "done", stage'[r] = "joined",
                      accepted[r] # generation, result[r] # "panicked"
               PROVE  link' = link /\ (poll = "resting" \/ poll' = poll)
    OBVIOUS
  <2>1. stage \in [Requests -> Stages]
    BY DEF IndInv, Core, TypeOK
  <2>2. \A s \in Requests, x \in Stages :
           stage' = [stage EXCEPT ![s] = x] => s = r /\ x = "joined"
    BY <2>1
  <2>3. ASSUME NEW s \in Requests, Join(s)
        PROVE  link' = link /\ (poll = "resting" \/ poll' = poll)
    <3>1. s = r
      BY <2>2, <2>3 DEF Join, Stages
    <3>2. ~EndsGeneration(s)
      BY <3>1 DEF EndsGeneration
    <3> QED
      BY <2>3, <3>2 DEF Join
  <2>4. \A s \in Requests : ~TaskStep(s)
    <3> SUFFICES ASSUME NEW s \in Requests, TaskStep(s)
                 PROVE  FALSE
      OBVIOUS
    <3>1. \/ UNCHANGED stage
          \/ \E x \in {"executing", "uploading", "done"} :
                stage' = [stage EXCEPT ![s] = x]
      BY DEF TaskStep, VerifyFails, Verified, Execute, Panic, Upload, UploadReplied,
             UploadRefused, UploadLost, Return
    <3> QED
      BY <2>2, <3>1 DEF Stages
  <2>5. ~PollRequest
    <3> SUFFICES ASSUME PollRequest
                 PROVE  FALSE
      OBVIOUS
    <3>1. envelope \in Requests /\ stage' = [stage EXCEPT ![envelope] = "verifying"]
      BY DEF PollRequest, IndInv, Core, TypeOK
    <3> QED
      BY <2>2, <3>1 DEF Stages
  <2>6. ~Stop
    BY DEF Stop
  <2>7. CASE UNCHANGED stage
    BY <2>7
  <2>8. \/ UNCHANGED stage \/ PollRequest \/ Stop
        \/ \E s \in Requests : Join(s) \/ TaskStep(s)
    BY DEF Next, GatewayStep, Clear, Replace, Submit, GiveUp, HandOut, Connect, Loop, StartPoll,
       PollIdle, Rested, PollEnds, tasks
  <2> QED
    BY <2>3, <2>4, <2>5, <2>6, <2>7, <2>8
<1> QED
  BY <1>1, Invariance, PTL DEF Spec, RetiredIsHarmless
=============================================================================
