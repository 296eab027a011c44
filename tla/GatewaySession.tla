--------------------------- MODULE GatewaySession ---------------------------
(***************************************************************************)
(* The GatewaySession Durable Object of the Fabric worker                  *)
(* (fabric/src/routing-runtime.js): one object per Host id.  It keeps the  *)
(* Host's registration in durable storage, and in memory the RPCs callers  *)
(* wait for (pending), the ones no agent has fetched yet (queue) and the   *)
(* agent's long poll (waitingPoll).                                        *)
(*                                                                         *)
(* A Durable Object runs one event at a time and its input gate holds back *)
(* other events while a storage operation is outstanding; a handler that   *)
(* awaits another service (the registry object, the D1 grant table) does   *)
(* let other events run.  So a handler is one action up to such an await,  *)
(* is then a member of handlers, and continues in a second action; what it *)
(* had read before the await may be stale by then.                         *)
(*                                                                         *)
(* Agents are not trusted to be current: any registration the object ever  *)
(* handed out may poll, respond or disconnect at any time, any number of   *)
(* times.  A call an early return rejects changes nothing and is a         *)
(* stuttering step.                                                        *)
(***************************************************************************)
EXTENDS Naturals, Sequences, FiniteSets

CONSTANTS
    Requests,       \* the dispatch calls callers make; also their request ids
    Instances,      \* agent process instance_ids
    MaxPending,     \* MAX_PENDING_HOST_REQUESTS
    MaxGeneration,  \* Number.MAX_SAFE_INTEGER, lowered for model checking
    MaxGrant,       \* bound on the grant generations D1 commits
    NoHost          \* absence of a registration

\* A registration as stored under the key "host".  grant is the browser
\* grant generation it authenticated with; 0 stands for auth_mode "legacy".
Host == [generation : Nat \ {0}, instance : Instances, grant : Nat]

ASSUME NoHostAssumption == NoHost \notin Host
ASSUME BoundAssumption ==
    MaxPending \in Nat /\ MaxGeneration \in Nat /\ MaxGrant \in Nat

VARIABLES
    generation,  \* storage "generation": last one handed out (0: unset)
    host,        \* storage "host"
    lease,       \* host.expires_at > Date.now()
    marker,      \* storage "browser_authority" is present
    grant,       \* D1: generation of the Host's grant row
    active,      \* D1: that row is active and not expired
    pending,     \* this.pending: request -> generation, 0 when absent
    queue,       \* this.queue
    waitingPoll, \* this.waitingPoll: who waits
    handlers,    \* handlers suspended at an await that yields
    issued,      \* registrations returned to an agent by connect
    outcome,     \* what the caller of dispatch has seen so far
    target,      \* the registration a caller was authorised for (ghost)
    delivered,   \* the registration a request was handed to (ghost)
    answeredBy   \* the registration whose response was accepted (ghost)

storage == <<generation, host, lease, marker>>
d1      == <<grant, active>>
memory  == <<pending, queue, waitingPoll>>
ghosts  == <<issued, target, delivered, answeredBy>>
vars    == <<storage, d1, memory, handlers, outcome, ghosts>>

Entry    == [id : Requests, generation : Nat \ {0}, grant : Nat]
Outcomes == {"none", "waiting", "answered", "host_replaced", "host_cleared",
             "host_request_timeout", "rejected", "lost"}
Handler  == [op : {"connect", "poll", "heartbeat", "respond"}, host : Host]
            \cup
            [op : {"grant_read", "grant_ok"}, host : Host, id : Requests]

TypeOK ==
    /\ generation \in Nat
    /\ host \in Host \cup {NoHost}
    /\ lease \in BOOLEAN
    /\ marker \in BOOLEAN
    /\ grant \in Nat
    /\ active \in BOOLEAN
    /\ pending \in [Requests -> Nat]
    /\ queue \in Seq(Entry)
    /\ waitingPoll \in Host \cup {NoHost}
    /\ handlers \subseteq Handler
    /\ issued \subseteq Host
    /\ outcome \in [Requests -> Outcomes]
    /\ target \in [Requests -> Host \cup {NoHost}]
    /\ delivered \in [Requests -> Host \cup {NoHost}]
    /\ answeredBy \in [Requests -> Host \cup {NoHost}]

Init ==
    /\ generation = 0
    /\ host = NoHost
    /\ lease = FALSE
    /\ marker = FALSE
    /\ grant = 0
    /\ active = FALSE
    /\ pending = [r \in Requests |-> 0]
    /\ queue = << >>
    /\ waitingPoll = NoHost
    /\ handlers = {}
    /\ issued = {}
    /\ outcome = [r \in Requests |-> "none"]
    /\ target = [r \in Requests |-> NoHost]
    /\ delivered = [r \in Requests |-> NoHost]
    /\ answeredBy = [r \in Requests |-> NoHost]

-----------------------------------------------------------------------------
(***************************************************************************)
(* Helpers shared by the handlers.                                         *)
(***************************************************************************)

\* verifyGeneration: h is still the registration in storage.
VerifyGeneration(h) == host = h

\* The requests callers wait for: the keys of this.pending.
PendingIds == {r \in Requests : pending[r] # 0}

\* failAllPending, this.queue.length = 0 and replaceWaitingPoll, which
\* connect and clearHost always call together.
DropQueueOnly(result) ==
    /\ queue' = << >>
    /\ waitingPoll' = NoHost
    /\ UNCHANGED <<outcome, pending>>
DropAll(result) ==
    /\ outcome' = [r \in Requests |->
                      IF r \in PendingIds THEN result ELSE outcome[r]]
    /\ pending' = [r \in Requests |-> 0]
    /\ queue' = << >>
    /\ waitingPoll' = NoHost

\* clearHost(h): nothing when storage holds another registration.
ClearAnyHost(h) ==
    /\ DropAll("host_cleared")
    /\ host' = NoHost
    /\ lease' = FALSE
    /\ marker' = (marker \/ h.grant > 0)
    /\ UNCHANGED generation
ClearHost(h) ==
    /\ VerifyGeneration(h)
    /\ DropAll("host_cleared")
    /\ host' = NoHost
    /\ lease' = FALSE
    /\ marker' = (marker \/ h.grant > 0)
    /\ UNCHANGED generation

\* takeQueuedRequest(g) on queue q: entries are shifted off until one of
\* generation g turns up, at index i.
TakesAnyGeneration(q, g, i) == i = 1
TakesAt(q, g, i) == /\ q[i].generation = g
                    /\ \A j \in 1..(i - 1) : q[j].generation # g
TakesNone(q, g) == \A i \in 1..Len(q) : q[i].generation # g

\* Among the first n entries of q, those of another generation whose caller
\* still waits.
Dropped(q, n, g, p) == {r \in Requests :
    \E j \in 1..n : /\ q[j].id = r
                    /\ q[j].generation # g
                    /\ p[r] = q[j].generation}

\* The first n entries of q are shifted off; p and o are the pending map and
\* the outcomes at that point.
ShiftSilently(q, n, g, p, o) ==
    /\ queue' = SubSeq(q, n + 1, Len(q))
    /\ pending' = [r \in Requests |->
                      IF r \in Dropped(q, n, g, p) THEN 0 ELSE p[r]]
    /\ outcome' = o
Shift(q, n, g, p, o) ==
    /\ queue' = SubSeq(q, n + 1, Len(q))
    /\ pending' = [r \in Requests |->
                      IF r \in Dropped(q, n, g, p) THEN 0 ELSE p[r]]
    /\ outcome' = [r \in Requests |->
                      IF r \in Dropped(q, n, g, p) THEN "host_replaced"
                                                   ELSE o[r]]

\* The entry at index i leaves q for the poll of registration h.
Hand(q, i, p, o, h) ==
    /\ TakesAt(q, h.generation, i)
    /\ Shift(q, i, h.generation, p, o)
    /\ delivered' = [delivered EXCEPT ![q[i].id] = h]

\* No entry is for h.
Drain(q, p, o, h) ==
    /\ TakesNone(q, h.generation)
    /\ Shift(q, Len(q), h.generation, p, o)
    /\ UNCHANGED delivered

\* removeQueuedRequest(r): findIndex and splice.
Splice(q, i) == [k \in 1..(Len(q) - 1) |-> IF k < i THEN q[k] ELSE q[k + 1]]

RemoveQueued(r) ==
    \/ \E i \in 1..Len(queue) : /\ queue[i].id = r
                                /\ queue' = Splice(queue, i)
    \/ /\ \A i \in 1..Len(queue) : queue[i].id # r
       /\ UNCHANGED queue

-----------------------------------------------------------------------------
(***************************************************************************)
(* connect                                                                 *)
(***************************************************************************)

\* The auth context gr was valid when the edge read D1; D1 may have moved on
\* since.  A browser context persists the anti-downgrade marker even when
\* connect goes on to fail.
ConnectConflict(gr) ==
    /\ host # NoHost /\ lease
    /\ ~(host.grant > 0 /\ gr > 0)
    /\ host.grant # gr

ConnectRefused(gr) ==
    /\ gr > 0
    /\ marker' = TRUE
    /\ ConnectConflict(gr) \/ generation >= MaxGeneration
    /\ UNCHANGED <<generation, host, lease, d1, memory, handlers, outcome,
                   ghosts>>

\* nextGatewayGeneration, when there is one.
NextGatewayGeneration == generation + 1

ConnectAccepted(i, gr) ==
    /\ marker => gr > 0
    /\ ~ConnectConflict(gr)
    /\ generation < MaxGeneration
    /\ LET h == [generation |-> NextGatewayGeneration, instance |-> i,
                grant |-> gr]
       IN  /\ host' = h
           /\ handlers' = handlers \cup {[op |-> "connect", host |-> h]}
    /\ generation' = NextGatewayGeneration
    /\ lease' = TRUE
    /\ marker' = (marker \/ gr > 0)
    /\ DropAll("host_replaced")
    /\ UNCHANGED <<d1, ghosts>>

\* upsertRegistry returned ok and the registration was not replaced.
ConnectDone(h) ==
    /\ [op |-> "connect", host |-> h] \in handlers
    /\ handlers' = handlers \ {[op |-> "connect", host |-> h]}
    /\ issued' = IF VerifyGeneration(h) THEN issued \cup {h} ELSE issued
    /\ UNCHANGED <<storage, d1, memory, outcome, target, delivered, answeredBy>>

-----------------------------------------------------------------------------
(***************************************************************************)
(* poll, respond, disconnect, fence                                        *)
(***************************************************************************)

\* gr is the context the edge attached to the call.  A saturated agent polls
\* with accept_requests = false: a heartbeat.
Poll(h, gr, op) ==
    /\ host # NoHost /\ host.grant = gr
    /\ VerifyGeneration(h)
    /\ lease' = TRUE
    /\ handlers' = handlers \cup {[op |-> op, host |-> h]}
    /\ UNCHANGED <<generation, host, marker, d1, memory, outcome, ghosts>>

\* The renewal reached the registry; the registration is verified again
\* before anything is dequeued for it.
PollDone(h) ==
    /\ [op |-> "poll", host |-> h] \in handlers
    /\ handlers' = handlers \ {[op |-> "poll", host |-> h]}
    /\ \/ /\ ~VerifyGeneration(h)
          /\ UNCHANGED <<memory, outcome, delivered>>
       \/ /\ VerifyGeneration(h)
          /\ \E i \in 1..Len(queue) : Hand(queue, i, pending, outcome, h)
          /\ UNCHANGED waitingPoll
       \/ /\ VerifyGeneration(h)
          /\ Drain(queue, pending, outcome, h)
          /\ waitingPoll' = h
    /\ UNCHANGED <<storage, d1, issued, target, answeredBy>>

HeartbeatDone(h) ==
    /\ [op |-> "heartbeat", host |-> h] \in handlers
    /\ handlers' = handlers \ {[op |-> "heartbeat", host |-> h]}
    /\ UNCHANGED <<storage, d1, memory, outcome, ghosts>>

\* POLL_TIMEOUT_MS passes: 204 to the agent.
PollTimeout ==
    /\ waitingPoll # NoHost
    /\ waitingPoll' = NoHost
    /\ UNCHANGED <<storage, d1, pending, queue, handlers, outcome, ghosts>>

\* Request ids are random UUIDs: an agent instance responds only to ids it
\* was handed, but possibly late, repeatedly and under another registration
\* of its own.  pending.generation is not compared.
Respond(h, gr, r) ==
    /\ host # NoHost /\ host.grant = gr
    /\ VerifyGeneration(h)
    /\ r \in PendingIds
    /\ pending' = [pending EXCEPT ![r] = 0]
    /\ outcome' = [outcome EXCEPT ![r] = "answered"]
    /\ answeredBy' = [answeredBy EXCEPT ![r] = h]
    /\ lease' = TRUE
    /\ handlers' = handlers \cup {[op |-> "respond", host |-> h]}
    /\ UNCHANGED <<generation, host, marker, d1, queue, waitingPoll, issued,
                   target, delivered>>

RespondDone(h) ==
    /\ [op |-> "respond", host |-> h] \in handlers
    /\ handlers' = handlers \ {[op |-> "respond", host |-> h]}
    /\ UNCHANGED <<storage, d1, memory, outcome, ghosts>>

Disconnect(h, gr) ==
    /\ host # NoHost /\ host.grant = gr
    /\ ClearHost(h)
    /\ UNCHANGED <<d1, handlers, ghosts>>

\* The grant outbox asks for every generation D1 committed at least once,
\* late or more than once.
Fence(n) ==
    /\ host # NoHost
    /\ host.grant > 0 /\ host.grant < n
    /\ ClearHost(host)
    /\ UNCHANGED <<d1, handlers, ghosts>>

\* upsertRegistry failed for a suspended connect, poll or respond: clearHost.
RegistryFailed(c) ==
    /\ c \in handlers
    /\ c.op \in {"connect", "poll", "heartbeat", "respond"}
    /\ handlers' = handlers \ {c}
    /\ \/ ClearHost(c.host)
       \/ /\ ~VerifyGeneration(c.host)
          /\ UNCHANGED <<storage, memory, outcome>>
    /\ UNCHANGED <<d1, ghosts>>

-----------------------------------------------------------------------------
(***************************************************************************)
(* dispatch                                                                *)
(***************************************************************************)

Settle(r, result) == outcome' = [outcome EXCEPT ![r] = result]

\* Early returns: no registration, a lease that ran out (which clears the
\* registration), a caller context that is not the registration's.
DispatchOffline(r) ==
    /\ outcome[r] = "none"
    /\ host = NoHost
    /\ Settle(r, "rejected")
    /\ UNCHANGED <<storage, d1, memory, handlers, ghosts>>

DispatchExpired(r) ==
    /\ outcome[r] = "none"
    /\ host # NoHost /\ ~lease
    /\ host' = NoHost
    /\ marker' = (marker \/ host.grant > 0)
    /\ outcome' = [q \in Requests |->
                      IF q = r THEN "rejected"
                      ELSE IF q \in PendingIds THEN "host_cleared"
                      ELSE outcome[q]]
    /\ pending' = [q \in Requests |-> 0]
    /\ queue' = << >>
    /\ waitingPoll' = NoHost
    /\ UNCHANGED <<generation, lease, d1, handlers, ghosts>>

\* Commit of a dispatch whose registration snapshot is h: the tail of the
\* handler, which runs without a further await up to flushWaitingPoll.
PushWithoutFlush(r, h) ==
    /\ queue' = Append(queue, [id |-> r, generation |-> h.generation,
                               grant |-> h.grant])
    /\ pending' = [pending EXCEPT ![r] = h.generation]
    /\ outcome' = [outcome EXCEPT ![r] = "waiting"]
    /\ UNCHANGED <<waitingPoll, delivered>>
Push(r, h) ==
    LET e == [id |-> r, generation |-> h.generation, grant |-> h.grant]
        q == Append(queue, e)
        p == [pending EXCEPT ![r] = h.generation]
        o == [outcome EXCEPT ![r] = "waiting"]
    IN  \/ /\ waitingPoll = NoHost
           /\ queue' = q /\ pending' = p /\ outcome' = o
           /\ UNCHANGED <<waitingPoll, delivered>>
        \/ /\ waitingPoll # NoHost
           /\ \E i \in 1..Len(q) : Hand(q, i, p, o, waitingPoll)
           /\ waitingPoll' = NoHost
        \/ /\ waitingPoll # NoHost
           /\ Drain(q, p, o, waitingPoll)
           /\ UNCHANGED waitingPoll

\* The bound is checked in the same event.
EnqueueOffByOne(r, h) ==
    /\ target' = [target EXCEPT ![r] = h]
    /\ \/ /\ Cardinality(PendingIds) > MaxPending
          /\ Settle(r, "rejected")
          /\ UNCHANGED <<memory, delivered>>
       \/ /\ Cardinality(PendingIds) <= MaxPending
          /\ Push(r, h)
Enqueue(r, h) ==
    /\ target' = [target EXCEPT ![r] = h]
    /\ \/ /\ Cardinality(PendingIds) >= MaxPending
          /\ Settle(r, "rejected")
          /\ UNCHANGED <<memory, delivered>>
       \/ /\ Cardinality(PendingIds) < MaxPending
          /\ Push(r, h)

\* A legacy caller: one event.
DispatchLegacy(r) ==
    /\ outcome[r] = "none"
    /\ host # NoHost /\ lease
    /\ ~marker /\ host.grant = 0
    /\ Enqueue(r, host)
    /\ UNCHANGED <<storage, d1, handlers, issued, answeredBy>>

\* A browser caller with the registration's own context; D1 is asked whether
\* the grant still holds.
DispatchBrowser(r) ==
    /\ outcome[r] = "none"
    /\ host # NoHost /\ lease
    /\ host.grant > 0
    /\ Settle(r, "waiting")
    /\ handlers' = handlers
                   \cup {[op |-> "grant_read", host |-> host, id |-> r]}
    /\ UNCHANGED <<storage, d1, memory, ghosts>>

\* D1 answers; the answer travels back to the object.
GrantReadUnsettled(c) ==
    /\ c \in handlers /\ c.op = "grant_read"
    /\ handlers' = IF active /\ grant = c.host.grant
                   THEN (handlers \ {c}) \cup {[c EXCEPT !.op = "grant_ok"]}
                   ELSE handlers \ {c}
    /\ UNCHANGED <<storage, d1, memory, outcome, ghosts>>
GrantRead(c) ==
    /\ c \in handlers /\ c.op = "grant_read"
    /\ IF active /\ grant = c.host.grant
       THEN /\ handlers' = (handlers \ {c}) \cup {[c EXCEPT !.op = "grant_ok"]}
            /\ UNCHANGED outcome
       ELSE /\ handlers' = handlers \ {c}
            /\ Settle(c.id, "rejected")
    /\ UNCHANGED <<storage, d1, memory, ghosts>>

\* The handler resumes with the registration it read before the await.
DispatchResumed(c) ==
    /\ c \in handlers /\ c.op = "grant_ok"
    /\ handlers' = handlers \ {c}
    /\ Enqueue(c.id, c.host)
    /\ UNCHANGED <<storage, d1, issued, answeredBy>>

\* browserDispatchAllowed or browserSessionBinding refuses the call after D1
\* answered.
DispatchDisallowed(c) ==
    /\ c \in handlers /\ c.op = "grant_ok"
    /\ handlers' = handlers \ {c}
    /\ Settle(c.id, "rejected")
    /\ UNCHANGED <<storage, d1, memory, ghosts>>

\* The context does not match the registration, or, before the lease is looked
\* at, the anti-downgrade marker.
DispatchRefused(r) ==
    /\ outcome[r] = "none"
    /\ host # NoHost /\ (lease \/ marker)
    /\ Settle(r, "rejected")
    /\ UNCHANGED <<storage, d1, memory, handlers, ghosts>>

\* The rpcTimeoutMs timer of a pending request.
RpcTimeoutLeavesEntry(r) ==
    /\ r \in PendingIds
    /\ pending' = [pending EXCEPT ![r] = 0]
    /\ Settle(r, "host_request_timeout")
    /\ UNCHANGED <<storage, d1, queue, waitingPoll, handlers, ghosts>>
RpcTimeoutKeepsPending(r) ==
    /\ r \in PendingIds
    /\ RemoveQueued(r)
    /\ Settle(r, "host_request_timeout")
    /\ UNCHANGED <<storage, d1, pending, waitingPoll, handlers, ghosts>>
RpcTimeout(r) ==
    /\ r \in PendingIds
    /\ pending' = [pending EXCEPT ![r] = 0]
    /\ RemoveQueued(r)
    /\ Settle(r, "host_request_timeout")
    /\ UNCHANGED <<storage, d1, waitingPoll, handlers, ghosts>>

-----------------------------------------------------------------------------
(***************************************************************************)
(* Environment: time, the D1 grant table, loss of the object's memory.     *)
(***************************************************************************)

LeaseExpires ==
    /\ host # NoHost /\ lease
    /\ lease' = FALSE
    /\ UNCHANGED <<generation, host, marker, d1, memory, handlers, outcome,
                   ghosts>>

\* Reservation, revocation and a change of roots each commit a new
\* generation; activation makes the pending one active.
GrantCommitted ==
    /\ grant < MaxGrant
    /\ grant' = grant + 1
    /\ active' \in BOOLEAN
    /\ UNCHANGED <<storage, memory, handlers, outcome, ghosts>>

GrantActivated ==
    /\ grant > 0 /\ ~active
    /\ active' = TRUE
    /\ UNCHANGED <<storage, grant, memory, handlers, outcome, ghosts>>

\* The runtime restarts the object: storage survives, memory does not.
Restart ==
    /\ outcome' = [r \in Requests |->
                      IF outcome[r] = "waiting" THEN "lost" ELSE outcome[r]]
    /\ pending' = [r \in Requests |-> 0]
    /\ queue' = << >>
    /\ waitingPoll' = NoHost
    /\ handlers' = {}
    /\ UNCHANGED <<storage, d1, ghosts>>

HandedTo(r, i) == delivered[r] # NoHost /\ delivered[r].instance = i

HostCall ==
    \/ \E gr \in 0..grant :
          \/ ConnectRefused(gr)
          \/ \E i \in Instances : ConnectAccepted(i, gr)
    \/ \E h \in issued : \E gr \in 0..grant :
          \/ \E op \in {"poll", "heartbeat"} : Poll(h, gr, op)
          \/ \E r \in Requests : HandedTo(r, h.instance) /\ Respond(h, gr, r)
          \/ Disconnect(h, gr)
    \/ \E n \in 1..grant : Fence(n)

Resume ==
    \E c \in handlers :
       \/ ConnectDone(c.host)
       \/ PollDone(c.host)
       \/ HeartbeatDone(c.host)
       \/ RespondDone(c.host)
       \/ RegistryFailed(c)
       \/ GrantRead(c)
       \/ DispatchResumed(c)
       \/ DispatchDisallowed(c)

Dispatch ==
    \E r \in Requests :
       \/ DispatchOffline(r)
       \/ DispatchExpired(r)
       \/ DispatchRefused(r)
       \/ DispatchLegacy(r)
       \/ DispatchBrowser(r)

Timer == PollTimeout \/ LeaseExpires \/ \E r \in Requests : RpcTimeout(r)

Next ==
    \/ HostCall
    \/ Resume
    \/ Dispatch
    \/ Timer
    \/ GrantCommitted
    \/ GrantActivated
    \/ Restart

Spec == Init /\ [][Next]_vars
-----------------------------------------------------------------------------
(***************************************************************************)
(* Safety                                                                  *)
(***************************************************************************)

\* this.queue and this.pending agree: an entry an agent could still fetch has
\* a caller waiting for it under the same generation, and no request is
\* queued twice or after it was handed out.  (dispatch, the RPC timer,
\* takeQueuedRequest, respond and clearHost all update both.)
QueueIsAwaited ==
    \A i \in 1..Len(queue) :
       /\ pending[queue[i].id] = queue[i].generation
       /\ delivered[queue[i].id] = NoHost
       /\ \A j \in 1..Len(queue) : queue[i].id = queue[j].id => i = j

\* A request is handed only to the very registration (process instance,
\* generation and grant) its caller was checked against, although dispatch
\* awaits D1 between that check and the enqueue.
HandedToTarget ==
    \A r \in Requests : delivered[r] # NoHost => delivered[r] = target[r]

\* "Requests and responses from an older generation or process instance_id
\* are rejected": the response a caller gets came from the registration its
\* request was handed to, although respond looks a request up by id alone.
AnsweredByOwner ==
    \A r \in Requests :
       outcome[r] = "answered" => /\ answeredBy[r] # NoHost
                                  /\ answeredBy[r] = delivered[r]

\* No lost wakeup: while a long poll is parked it belongs to the stored
\* registration and nothing is queued.
ParkedPollIsCurrent ==
    waitingPoll # NoHost => waitingPoll = host /\ queue = << >>

\* The pending map never exceeds MAX_PENDING_HOST_REQUESTS, although the
\* dispatches past their D1 await were admitted before it was counted.
PendingBounded == Cardinality(PendingIds) <= MaxPending

\* Nobody is left hanging: a caller that waits has an armed RPC timer or a
\* dispatch still talking to D1.
WaitingIsArmed ==
    \A r \in Requests :
       outcome[r] = "waiting" =>
          \/ r \in PendingIds
          \/ \E c \in handlers : /\ c.op \in {"grant_read", "grant_ok"}
                                 /\ c.id = r

\* Action property: a handler that resumes for a registration that was
\* replaced meanwhile neither removes the replacement nor takes one of its
\* requests away ("A failed renewal from an old generation must not clear
\* the replacement host or its pending requests").
StaleHandlerHarmless ==
    [][\A c \in handlers \ handlers' :
          host # NoHost /\ c.host # host =>
             /\ host' = host
             /\ \A r \in Requests :
                   pending[r] = host.generation =>
                      pending'[r] = pending[r] \/ outcome'[r] = "lost"]_vars

(***************************************************************************)
(* Liveness.  Timers fire and D1 answers; nothing else is assumed fair, in *)
(* particular no agent ever has to poll or respond.                        *)
(***************************************************************************)
Fairness ==
    /\ \A r \in Requests : WF_vars(RpcTimeout(r))
    /\ \A r \in Requests : WF_vars(\E c \in handlers :
          /\ c.op \in {"grant_read", "grant_ok"} /\ c.id = r
          /\ (GrantRead(c) \/ DispatchResumed(c) \/ DispatchDisallowed(c)))

FairSpec == Spec /\ Fairness

\* Every caller is told something.
EveryCallReturns ==
    \A r \in Requests : outcome[r] = "waiting" ~> outcome[r] # "waiting"

(***************************************************************************)
(* What the route promises: see RpcOnce.                                   *)
(***************************************************************************)
Stage == [r \in Requests |->
    CASE outcome[r] = "none"     -> "new"
      [] outcome[r] = "waiting"  -> IF delivered[r] = NoHost THEN "accepted"
                                                             ELSE "handed"
      [] outcome[r] = "answered" -> "answered"
      [] OTHER                   -> "failed"]

Once == INSTANCE RpcOnce WITH stage <- Stage, owner <- delivered,
                              Nobody <- NoHost, Owners <- Host

\* GatewaySession implements RpcOnce.
ImplementsRpcOnce == Once!Spec
=============================================================================
