------------------------ MODULE GatewaySessionProofs ------------------------
(***************************************************************************)
(* Proofs about GatewaySession, for every set of requests and instances    *)
(* and every bound.                                                        *)
(***************************************************************************)
EXTENDS GatewaySession, FiniteSetTheorems, TLAPS

GrantHandler(c) == c.op \in {"grant_read", "grant_ok"}

\* A registration that is stored, or that a handler or a call refers to.
Known(x) == \/ x = host
            \/ \E c \in handlers : c.host = x
            \/ \E r \in Requests : target[r] = x

\* A generation names one registration.
KnownOnce ==
    /\ \A x \in Host : Known(x) => x.generation <= generation
    /\ \A x, y \in Host :
          Known(x) /\ Known(y) /\ x.generation = y.generation => x = y

\* A call that was not made, or that still talks to D1, has left no trace.
Untouched(r) == /\ pending[r] = 0
                /\ delivered[r] = NoHost
                /\ target[r] = NoHost
                /\ \A i \in 1..Len(queue) : queue[i].id # r

NewIsUntouched == \A r \in Requests : outcome[r] = "none" => Untouched(r)

AskingIsUntouched ==
    \A c \in handlers : GrantHandler(c) =>
       /\ outcome[c.id] = "waiting"
       /\ Untouched(c.id)
       /\ \A b \in handlers : GrantHandler(b) /\ b.id = c.id => b = c

PendingIsTargeted ==
    \A r \in Requests : pending[r] # 0 =>
       /\ outcome[r] = "waiting"
       /\ target[r] # NoHost
       /\ pending[r] = target[r].generation

\* A request that was handed out and is still awaited is with the stored
\* registration.
HandedIsCurrent ==
    \A r \in Requests :
       pending[r] # 0 /\ delivered[r] # NoHost => delivered[r] = host

IndInv ==
    /\ TypeOK
    /\ KnownOnce
    /\ NewIsUntouched
    /\ AskingIsUntouched
    /\ PendingIsTargeted
    /\ QueueIsAwaited
    /\ HandedIsCurrent
    /\ HandedToTarget
    /\ AnsweredByOwner
    /\ ParkedPollIsCurrent

-----------------------------------------------------------------------------
(***************************************************************************)
(* The sequence operations on the queue.                                   *)
(***************************************************************************)

\* A queue without its first n entries.
LEMMA ShiftSeq ==
    ASSUME NEW S, NEW q \in Seq(S), NEW n \in 0..Len(q)
    PROVE  /\ SubSeq(q, n + 1, Len(q)) \in Seq(S)
           /\ Len(SubSeq(q, n + 1, Len(q))) = Len(q) - n
           /\ \A k \in 1..(Len(q) - n) :
                 SubSeq(q, n + 1, Len(q))[k] = q[k + n]
  OBVIOUS

\* A queue without one entry.
LEMMA SpliceSeq ==
    ASSUME NEW S, NEW q \in Seq(S), NEW i \in 1..Len(q)
    PROVE  /\ Splice(q, i) \in Seq(S)
           /\ Len(Splice(q, i)) = Len(q) - 1
           /\ \A k \in 1..(Len(q) - 1) :
                 Splice(q, i)[k] = IF k < i THEN q[k] ELSE q[k + 1]
<1> DEFINE s == Splice(q, i)
<1>1. s \in [1..(Len(q) - 1) -> S]
  BY DEF Splice
<1>2. Len(q) - 1 \in Nat
  OBVIOUS
<1>3. s \in Seq(S) /\ Len(s) = Len(q) - 1
  BY <1>1, <1>2
<1> QED
  BY <1>3 DEF Splice

\* A queue with a new last entry.
LEMMA AppendSeq ==
    ASSUME NEW S, NEW q \in Seq(S), NEW e \in S
    PROVE  /\ Append(q, e) \in Seq(S)
           /\ Len(Append(q, e)) = Len(q) + 1
           /\ \A k \in 1..Len(q) : Append(q, e)[k] = q[k]
           /\ Append(q, e)[Len(q) + 1] = e
  OBVIOUS
-----------------------------------------------------------------------------
\* The invariant holds initially.
LEMMA InitInv == Init => IndInv
<1> SUFFICES ASSUME Init PROVE IndInv
  OBVIOUS
<1> USE DEF Init
<1>1. TypeOK
  <2>1. lease \in BOOLEAN /\ marker \in BOOLEAN /\ active \in BOOLEAN
    BY Zenon
  <2>2. queue \in Seq(Entry)
    OBVIOUS
  <2>3. generation \in Nat /\ grant \in Nat /\ pending \in [Requests -> Nat]
    OBVIOUS
  <2>4. outcome \in [Requests -> Outcomes]
    BY DEF Outcomes
  <2> QED
    BY <2>1, <2>2, <2>3, <2>4 DEF TypeOK
<1>2. KnownOnce
  BY NoHostAssumption DEF KnownOnce, Known
<1>3. NewIsUntouched /\ AskingIsUntouched
  BY DEF NewIsUntouched, AskingIsUntouched, Untouched
<1>4. PendingIsTargeted /\ QueueIsAwaited /\ HandedIsCurrent
  BY DEF PendingIsTargeted, QueueIsAwaited, HandedIsCurrent
<1>5. HandedToTarget /\ AnsweredByOwner /\ ParkedPollIsCurrent
  BY DEF HandedToTarget, AnsweredByOwner, ParkedPollIsCurrent
<1> QED
  BY <1>1, <1>2, <1>3, <1>4, <1>5 DEF IndInv

\* Steps that change none of the state the invariant is about, except that
\* handlers end or start on behalf of the stored registration.
LEMMA QuietStep ==
    ASSUME IndInv, TypeOK',
           UNCHANGED <<generation, host, memory, outcome, target, delivered,
                       answeredBy>>,
           \A c \in handlers' : c \in handlers
                                \/ (~GrantHandler(c) /\ c.host = host)
    PROVE  IndInv'
<1>1. \A x : Known(x)' => Known(x)
  BY DEF Known
<1>2. KnownOnce'
  BY <1>1 DEF IndInv, KnownOnce
<1>3. \A r : Untouched(r)' <=> Untouched(r)
  BY DEF Untouched, memory
<1>4. NewIsUntouched'
  BY <1>3 DEF IndInv, NewIsUntouched
<1>5. \A c \in handlers' : GrantHandler(c) => c \in handlers
  BY DEF GrantHandler
<1>6. AskingIsUntouched'
  BY <1>3, <1>5 DEF IndInv, AskingIsUntouched, GrantHandler
<1> QED
  BY <1>2, <1>4, <1>6
  DEF IndInv, PendingIsTargeted, QueueIsAwaited, HandedIsCurrent,
      HandedToTarget, AnsweredByOwner, ParkedPollIsCurrent, memory

\* Steps that empty pending, queue and waitingPoll.
LEMMA WipeStep ==
    ASSUME IndInv, TypeOK', KnownOnce',
           pending' = [r \in Requests |-> 0],
           queue' = << >>,
           waitingPoll' = NoHost,
           UNCHANGED <<target, delivered, answeredBy>>,
           \A r \in Requests :
              outcome'[r] = outcome[r]
              \/ outcome'[r] \notin {"none", "waiting", "answered"},
           \A c \in handlers' : GrantHandler(c) =>
              c \in handlers /\ outcome'[c.id] = outcome[c.id]
    PROVE  IndInv'
<1>1. \A r \in Requests : Untouched(r) => Untouched(r)'
  BY DEF Untouched
<1>2. NewIsUntouched'
  BY <1>1 DEF IndInv, NewIsUntouched
<1>3. \A c \in handlers' : GrantHandler(c) => c.id \in Requests
  BY DEF TypeOK, Handler, GrantHandler
<1>4. AskingIsUntouched'
  BY <1>1, <1>3 DEF IndInv, AskingIsUntouched, GrantHandler
<1>5. PendingIsTargeted' /\ QueueIsAwaited' /\ HandedIsCurrent'
  BY DEF PendingIsTargeted, QueueIsAwaited, HandedIsCurrent
<1>6. HandedToTarget' /\ ParkedPollIsCurrent'
  BY DEF IndInv, HandedToTarget, ParkedPollIsCurrent
<1>7. AnsweredByOwner'
  BY DEF IndInv, AnsweredByOwner
<1> QED
  BY <1>2, <1>4, <1>5, <1>6, <1>7 DEF IndInv

\* DropAll on its own.
LEMMA DropAllStep ==
    ASSUME IndInv, NEW result \in Outcomes \ {"none", "waiting", "answered"},
           DropAll(result)
    PROVE  /\ pending' \in [Requests -> Nat]
           /\ outcome' \in [Requests -> Outcomes]
           /\ queue' \in Seq(Entry)
           /\ \A r \in Requests :
                 outcome'[r] = outcome[r]
                 \/ outcome'[r] \notin {"none", "waiting", "answered"}
           /\ \A c \in handlers : GrantHandler(c) =>
                 outcome'[c.id] = outcome[c.id]
<1>1. \A c \in handlers : GrantHandler(c) =>
         c.id \in Requests /\ pending[c.id] = 0
  BY DEF IndInv, TypeOK, Handler, GrantHandler, AskingIsUntouched, Untouched
<1>2. outcome \in [Requests -> Outcomes]
  BY DEF IndInv, TypeOK
<1> QED
  BY <1>1, <1>2 DEF DropAll, PendingIds

\* A refused connect only sets the marker.
LEMMA ConnectRefusedInv ==
    ASSUME IndInv, NEW gr \in Nat, ConnectRefused(gr)
    PROVE  IndInv'
<1>1. TypeOK'
  BY DEF IndInv, TypeOK, ConnectRefused, memory, ghosts, d1
<1> QED
  BY <1>1, QuietStep DEF ConnectRefused, memory, ghosts

\* An accepted connect issues a registration nobody has seen.
LEMMA ConnectAcceptedInv ==
    ASSUME IndInv, NEW i \in Instances, NEW gr \in Nat, ConnectAccepted(i, gr)
    PROVE  IndInv'
<1> DEFINE h == [generation |-> generation + 1, instance |-> i, grant |-> gr]
<1>1. /\ host' = h /\ generation' = generation + 1
      /\ handlers' = handlers \cup {[op |-> "connect", host |-> h]}
      /\ DropAll("host_replaced")
      /\ UNCHANGED <<d1, ghosts>>
      /\ lease' = TRUE /\ marker' = (marker \/ gr > 0)
  BY DEF ConnectAccepted, NextGatewayGeneration
<1>2. generation \in Nat /\ h \in Host
  BY DEF IndInv, TypeOK, Host
<1>3. "host_replaced" \in Outcomes \ {"none", "waiting", "answered"}
  BY DEF Outcomes
<1>4. TypeOK'
  <2>1. lease' \in BOOLEAN /\ marker' \in BOOLEAN
    BY <1>1, Zenon
  <2>2. handlers' \subseteq Handler
    BY <1>1, <1>2 DEF IndInv, TypeOK, Handler
  <2>3. /\ pending' \in [Requests -> Nat]
        /\ outcome' \in [Requests -> Outcomes]
        /\ queue' \in Seq(Entry)
    BY <1>1, <1>3, DropAllStep
  <2> QED
    BY <1>1, <1>2, <2>1, <2>2, <2>3
    DEF IndInv, TypeOK, DropAll, d1, ghosts
<1>5. \A x \in Host : Known(x)' => Known(x) \/ x = h
  BY <1>1 DEF Known, ghosts
<1>6. KnownOnce'
  BY <1>1, <1>2, <1>5 DEF IndInv, KnownOnce, Host
<1>7. \A c \in handlers' : GrantHandler(c) => c \in handlers
  BY <1>1 DEF GrantHandler
<1> QED
  BY <1>1, <1>3, <1>4, <1>6, <1>7, DropAllStep, WipeStep DEF DropAll, ghosts

\* clearHost, whoever calls it.
LEMMA ClearHostInv ==
    ASSUME IndInv, NEW h \in Host, ClearHost(h), handlers' \subseteq handlers,
           UNCHANGED <<d1, ghosts>>
    PROVE  IndInv'
<1>1. DropAll("host_cleared") /\ host' = NoHost /\ generation' = generation
  BY DEF ClearHost
<1>2. "host_cleared" \in Outcomes \ {"none", "waiting", "answered"}
  BY DEF Outcomes
<1>3. TypeOK'
  <2>1. lease' \in BOOLEAN /\ marker' \in BOOLEAN
    BY Zenon DEF ClearHost
  <2>2. /\ pending' \in [Requests -> Nat]
        /\ outcome' \in [Requests -> Outcomes]
        /\ queue' \in Seq(Entry)
    BY <1>1, <1>2, DropAllStep
  <2> QED
    BY <1>1, <2>1, <2>2 DEF IndInv, TypeOK, DropAll, d1, ghosts
<1>4. \A x \in Host : Known(x)' => Known(x)
  BY <1>1, NoHostAssumption DEF Known, ghosts
<1>5. KnownOnce'
  BY <1>1, <1>4 DEF IndInv, KnownOnce
<1> QED
  BY <1>1, <1>2, <1>3, <1>5, DropAllStep, WipeStep DEF DropAll, ghosts

\* A dispatch clears a registration whose lease ran out.
LEMMA DispatchExpiredInv ==
    ASSUME IndInv, NEW r \in Requests, DispatchExpired(r)
    PROVE  IndInv'
<1>1. TypeOK'
  <2>1. marker' \in BOOLEAN
    BY Zenon DEF DispatchExpired
  <2>2. outcome' \in [Requests -> Outcomes]
    BY DEF DispatchExpired, IndInv, TypeOK, Outcomes
  <2> QED
    BY <2>1, <2>2 DEF DispatchExpired, IndInv, TypeOK, d1, ghosts
<1>2. \A x \in Host : Known(x)' => Known(x)
  BY NoHostAssumption DEF DispatchExpired, Known, ghosts
<1>3. KnownOnce'
  BY <1>2 DEF DispatchExpired, IndInv, KnownOnce
<1>4. \A q \in Requests :
         outcome'[q] = outcome[q]
         \/ outcome'[q] \notin {"none", "waiting", "answered"}
  BY DEF DispatchExpired
<1>5. \A c \in handlers : GrantHandler(c) => outcome'[c.id] = outcome[c.id]
  <2> SUFFICES ASSUME NEW c \in handlers, GrantHandler(c)
               PROVE  outcome'[c.id] = outcome[c.id]
    OBVIOUS
  <2>1. c.id \in Requests
    BY DEF IndInv, TypeOK, Handler, GrantHandler
  <2>2. outcome[c.id] = "waiting" /\ pending[c.id] = 0
    BY DEF IndInv, AskingIsUntouched, Untouched
  <2> QED
    BY <2>1, <2>2 DEF DispatchExpired, PendingIds
<1> QED
  BY <1>1, <1>3, <1>4, <1>5, WipeStep DEF DispatchExpired, ghosts

\* The object loses its memory.
LEMMA RestartInv ==
    ASSUME IndInv, Restart
    PROVE  IndInv'
<1>1. TypeOK'
  <2>1. outcome' \in [Requests -> Outcomes]
    BY DEF Restart, IndInv, TypeOK, Outcomes
  <2> QED
    BY <2>1 DEF Restart, IndInv, TypeOK, storage, d1, ghosts
<1>2. KnownOnce'
  BY DEF Restart, IndInv, KnownOnce, Known, storage, ghosts
<1> QED
  BY <1>1, <1>2, WipeStep DEF Restart, ghosts

\* What a suspended handler carries.
LEMMA HandlerTypes ==
    ASSUME TypeOK, NEW c \in handlers
    PROVE  /\ c.host \in Host
           /\ GrantHandler(c) => /\ c.id \in Requests
                                 /\ [c EXCEPT !.op = "grant_ok"] \in Handler
                                 /\ [c EXCEPT !.op = "grant_ok"].host = c.host
                                 /\ [c EXCEPT !.op = "grant_ok"].id = c.id
  BY DEF TypeOK, Handler, GrantHandler

\* The steps that QuietStep covers.
LEMMA QuietActionsInv ==
    ASSUME IndInv,
           \/ \E h \in Host : ConnectDone(h) \/ HeartbeatDone(h)
                                             \/ RespondDone(h)
           \/ \E h \in Host, gr \in Nat, op \in {"poll", "heartbeat"} :
                 Poll(h, gr, op)
           \/ LeaseExpires \/ GrantCommitted \/ GrantActivated
    PROVE  IndInv'
<1>1. TypeOK'
  <2>1. CASE \E h \in Host : ConnectDone(h)
    BY <2>1 DEF ConnectDone, IndInv, TypeOK, storage, d1, memory
  <2>2. CASE \E h \in Host : HeartbeatDone(h) \/ RespondDone(h)
    BY <2>2 DEF HeartbeatDone, RespondDone, IndInv, TypeOK, storage, d1,
                memory, ghosts
  <2>3. CASE \E h \in Host, gr \in Nat, op \in {"poll", "heartbeat"} :
                Poll(h, gr, op)
    BY <2>3 DEF Poll, IndInv, TypeOK, Handler, d1, memory, ghosts
  <2>4. CASE LeaseExpires
    BY <2>4 DEF LeaseExpires, IndInv, TypeOK, d1, memory, ghosts
  <2>5. CASE GrantCommitted
    BY <2>5 DEF GrantCommitted, IndInv, TypeOK, storage, memory, ghosts
  <2>6. CASE GrantActivated
    BY <2>6 DEF GrantActivated, IndInv, TypeOK, storage, memory, ghosts
  <2> QED
    BY <2>1, <2>2, <2>3, <2>4, <2>5, <2>6
<1>2. \A c \in handlers' : c \in handlers
                           \/ (~GrantHandler(c) /\ c.host = host)
  <2>1. CASE \E h \in Host, gr \in Nat, op \in {"poll", "heartbeat"} :
                Poll(h, gr, op)
    BY <2>1 DEF Poll, VerifyGeneration, GrantHandler
  <2>2. CASE \/ \E h \in Host : ConnectDone(h) \/ HeartbeatDone(h)
                                               \/ RespondDone(h)
             \/ LeaseExpires \/ GrantCommitted \/ GrantActivated
    <3>1. handlers' \subseteq handlers
      BY <2>2 DEF ConnectDone, HeartbeatDone, RespondDone, LeaseExpires,
                  GrantCommitted, GrantActivated
    <3> QED
      BY <3>1
  <2> QED
    BY <2>1, <2>2
<1>3. UNCHANGED <<generation, host, memory, outcome, target, delivered,
                  answeredBy>>
  BY DEF ConnectDone, HeartbeatDone, RespondDone, Poll, LeaseExpires,
         GrantCommitted, GrantActivated, storage, memory, ghosts
<1> QED
  BY <1>1, <1>2, <1>3, QuietStep

\* A parked poll times out.
LEMMA PollTimeoutInv ==
    ASSUME IndInv, PollTimeout
    PROVE  IndInv'
  BY DEF PollTimeout, IndInv, TypeOK, KnownOnce, Known, NewIsUntouched,
         Untouched, AskingIsUntouched, PendingIsTargeted, QueueIsAwaited,
         HandedIsCurrent, HandedToTarget, AnsweredByOwner,
         ParkedPollIsCurrent, storage, d1, ghosts

\* A call is turned away before it left a trace.
LEMMA RefusalInv ==
    ASSUME IndInv, NEW r \in Requests,
           DispatchOffline(r) \/ DispatchRefused(r)
    PROVE  IndInv'
<1>1. /\ outcome[r] = "none"
      /\ outcome' = [outcome EXCEPT ![r] = "rejected"]
      /\ UNCHANGED <<storage, d1, memory, handlers, ghosts>>
  BY DEF DispatchOffline, DispatchRefused, Settle
<1>2. TypeOK'
  BY <1>1 DEF IndInv, TypeOK, Outcomes, storage, d1, memory, ghosts
<1>3. KnownOnce'
  BY <1>1 DEF IndInv, KnownOnce, Known, storage, ghosts
<1>4. \A q : Untouched(q)' <=> Untouched(q)
  BY <1>1 DEF Untouched, memory, ghosts
<1>5. NewIsUntouched'
  BY <1>1, <1>4 DEF IndInv, TypeOK, NewIsUntouched
<1>6. AskingIsUntouched'
  BY <1>1, <1>4, HandlerTypes DEF IndInv, TypeOK, AskingIsUntouched
<1>7. PendingIsTargeted' /\ AnsweredByOwner'
  BY <1>1 DEF IndInv, TypeOK, PendingIsTargeted, AnsweredByOwner,
              NewIsUntouched, Untouched, memory, ghosts
<1> QED
  BY <1>1, <1>2, <1>3, <1>5, <1>6, <1>7
  DEF IndInv, QueueIsAwaited, HandedIsCurrent, HandedToTarget,
      ParkedPollIsCurrent, storage, memory, ghosts

\* A response is accepted.
LEMMA RespondInv ==
    ASSUME IndInv, NEW h \in Host, NEW gr \in Nat, NEW r \in Requests,
           HandedTo(r, h.instance), Respond(h, gr, r)
    PROVE  IndInv'
<1> USE DEF Respond, VerifyGeneration, PendingIds
<1>1. /\ host = h /\ delivered[r] = h
      /\ pending[r] # 0 /\ outcome[r] = "waiting"
  BY DEF IndInv, HandedIsCurrent, PendingIsTargeted, HandedTo
<1>2. TypeOK'
  BY DEF IndInv, TypeOK, Outcomes, Handler, d1
<1>3. KnownOnce'
  BY <1>1 DEF IndInv, KnownOnce, Known
<1>4. \A q \in Requests : Untouched(q) => Untouched(q)' /\ q # r
  BY <1>1 DEF IndInv, TypeOK, Untouched
<1>5. NewIsUntouched'
  BY <1>1, <1>4 DEF IndInv, TypeOK, NewIsUntouched
<1>6. \A c \in handlers' : GrantHandler(c) => c \in handlers
  BY DEF GrantHandler
<1>7. AskingIsUntouched'
  BY <1>4, <1>6, HandlerTypes DEF IndInv, TypeOK, AskingIsUntouched
<1>8. PendingIsTargeted'
  BY DEF IndInv, TypeOK, PendingIsTargeted
<1>9. QueueIsAwaited'
  BY <1>1, NoHostAssumption DEF IndInv, TypeOK, QueueIsAwaited, Entry
<1>10. HandedIsCurrent'
  BY DEF IndInv, TypeOK, HandedIsCurrent
<1>11. AnsweredByOwner'
  BY <1>1, NoHostAssumption DEF IndInv, TypeOK, AnsweredByOwner
<1> QED
  BY <1>2, <1>3, <1>5, <1>7, <1>8, <1>9, <1>10, <1>11
  DEF IndInv, HandedToTarget, ParkedPollIsCurrent

\* The timer of a pending request fires.
LEMMA RpcTimeoutInv ==
    ASSUME IndInv, NEW r \in Requests, RpcTimeout(r)
    PROVE  IndInv'
<1> USE DEF RpcTimeout, Settle, PendingIds
<1>1. pending[r] # 0 /\ outcome[r] = "waiting"
  BY DEF IndInv, PendingIsTargeted
<1>2. queue \in Seq(Entry) /\ QueueIsAwaited
  BY DEF IndInv, TypeOK
<1>3. /\ queue' \in Seq(Entry)
      /\ \A k \in 1..Len(queue') : /\ queue'[k].id # r
                                   /\ \E m \in 1..Len(queue) :
                                         queue'[k] = queue[m]
      /\ \A k, m \in 1..Len(queue') : queue'[k].id = queue'[m].id => k = m
  <2>1. CASE UNCHANGED queue /\ \A i \in 1..Len(queue) : queue[i].id # r
    BY <1>2, <2>1 DEF QueueIsAwaited
  <2>2. ASSUME NEW i \in 1..Len(queue), queue[i].id = r,
               queue' = Splice(queue, i)
        PROVE  <1>3!:
    <3>1. /\ queue' \in Seq(Entry)
          /\ Len(queue') = Len(queue) - 1
          /\ \A k \in 1..(Len(queue) - 1) :
                queue'[k] = IF k < i THEN queue[k] ELSE queue[k + 1]
      BY <1>2, <2>2, SpliceSeq
    <3>2. Len(queue) \in Nat
      BY <1>2
    <3>3. \A j, m \in 1..Len(queue) : queue[j].id = queue[m].id => j = m
      BY <1>2 DEF QueueIsAwaited
    <3> DEFINE at(k) == IF k < i THEN k ELSE k + 1
    <3>4. \A k \in 1..Len(queue') : /\ at(k) \in 1..Len(queue)
                                    /\ at(k) # i
                                    /\ queue'[k] = queue[at(k)]
      BY <3>1, <3>2
    <3>5. \A k, m \in 1..Len(queue') : at(k) = at(m) => k = m
      BY <3>1, <3>2
    <3> HIDE DEF at
    <3>6. \A k \in 1..Len(queue') : queue'[k].id # r
      BY <2>2, <3>3, <3>4
    <3>7. \A k, m \in 1..Len(queue') : queue'[k].id = queue'[m].id => k = m
      BY <3>3, <3>4, <3>5
    <3> QED
      BY <3>1, <3>4, <3>6, <3>7
  <2> QED
    BY <2>1, <2>2 DEF RemoveQueued
<1>4. TypeOK'
  BY <1>3 DEF IndInv, TypeOK, Outcomes, storage, d1, ghosts
<1>5. KnownOnce'
  BY DEF IndInv, KnownOnce, Known, storage, ghosts
<1>6. \A q \in Requests : Untouched(q) => Untouched(q)' /\ q # r
  BY <1>1, <1>3 DEF IndInv, TypeOK, Untouched, ghosts
<1>7. NewIsUntouched'
  BY <1>1, <1>6 DEF IndInv, TypeOK, NewIsUntouched
<1>8. AskingIsUntouched'
  BY <1>6, HandlerTypes DEF IndInv, TypeOK, AskingIsUntouched
<1>9. PendingIsTargeted' /\ HandedIsCurrent'
  BY DEF IndInv, TypeOK, PendingIsTargeted, HandedIsCurrent, ghosts, storage
<1>10. QueueIsAwaited'
  <2> SUFFICES ASSUME NEW k \in 1..Len(queue')
               PROVE  /\ pending'[queue'[k].id] = queue'[k].generation
                      /\ delivered'[queue'[k].id] = NoHost
    BY <1>3 DEF QueueIsAwaited
  <2>1. PICK m \in 1..Len(queue) : queue'[k] = queue[m]
    BY <1>3
  <2>2. queue[m] \in Entry
    BY <1>2
  <2>3. queue[m].id \in Requests /\ queue[m].id # r
    BY <1>3, <2>1, <2>2 DEF Entry
  <2> QED
    BY <1>2, <2>1, <2>3 DEF QueueIsAwaited, IndInv, TypeOK, ghosts
<1>11. HandedToTarget' /\ AnsweredByOwner'
  BY <1>1 DEF IndInv, TypeOK, HandedToTarget, AnsweredByOwner, ghosts
<1>12. ParkedPollIsCurrent'
  BY <1>2 DEF IndInv, ParkedPollIsCurrent, RemoveQueued, storage
<1> QED
  BY <1>4, <1>5, <1>7, <1>8, <1>9, <1>10, <1>11, <1>12 DEF IndInv

\* A dispatch goes to ask D1.
LEMMA DispatchBrowserInv ==
    ASSUME IndInv, NEW r \in Requests, DispatchBrowser(r)
    PROVE  IndInv'
<1> DEFINE n == [op |-> "grant_read", host |-> host, id |-> r]
<1> USE DEF DispatchBrowser, Settle
<1>1. host \in Host /\ outcome[r] = "none" /\ Untouched(r)
  BY DEF IndInv, TypeOK, NewIsUntouched
<1>2. TypeOK'
  BY <1>1 DEF IndInv, TypeOK, Outcomes, Handler, storage, d1, memory, ghosts
<1>3. \A x \in Host : Known(x)' => Known(x)
  BY DEF Known, storage, ghosts
<1>4. KnownOnce'
  BY <1>3 DEF IndInv, KnownOnce, storage
<1>5. \A q : Untouched(q)' <=> Untouched(q)
  BY DEF Untouched, memory, ghosts
<1>6. NewIsUntouched'
  BY <1>5 DEF IndInv, TypeOK, NewIsUntouched
<1>7. \A c \in handlers : GrantHandler(c) => c.id \in Requests /\ c.id # r
  BY <1>1, HandlerTypes DEF IndInv, AskingIsUntouched
<1>8. AskingIsUntouched'
  <2>1. \A c \in handlers' : c \in handlers \/ c = n
    OBVIOUS
  <2>2. outcome' = [outcome EXCEPT ![r] = "waiting"]
    OBVIOUS
  <2>3. n.id = r
    OBVIOUS
  <2> QED
    BY <1>1, <1>5, <1>7, <2>1, <2>2, <2>3
    DEF IndInv, TypeOK, AskingIsUntouched
<1>9. PendingIsTargeted' /\ AnsweredByOwner'
  BY <1>1 DEF IndInv, TypeOK, PendingIsTargeted, AnsweredByOwner, memory,
              ghosts
<1> QED
  BY <1>2, <1>4, <1>6, <1>8, <1>9
  DEF IndInv, QueueIsAwaited, HandedIsCurrent, HandedToTarget,
      ParkedPollIsCurrent, storage, memory, ghosts

\* A suspended dispatch ends with a refusal.
LEMMA DispatchRejectedInv ==
    ASSUME IndInv, NEW c \in handlers, GrantHandler(c),
           handlers' = handlers \ {c}, Settle(c.id, "rejected"),
           UNCHANGED <<storage, d1, memory, ghosts>>
    PROVE  IndInv'
<1> USE DEF Settle
<1>1. c.id \in Requests
  BY HandlerTypes DEF IndInv, GrantHandler
<1>2. outcome[c.id] = "waiting" /\ Untouched(c.id)
  BY <1>1 DEF IndInv, AskingIsUntouched
<1>3. \A b \in handlers : GrantHandler(b) /\ b # c => b.id # c.id
  BY <1>1 DEF IndInv, AskingIsUntouched
<1>4. \A q : Untouched(q)' <=> Untouched(q)
  BY DEF Untouched, memory, ghosts
<1>5. TypeOK'
  BY <1>1 DEF IndInv, TypeOK, Outcomes, storage, d1, memory, ghosts
<1>6. \A x \in Host : Known(x)' => Known(x)
  BY DEF Known, storage, ghosts
<1>7. KnownOnce'
  BY <1>6 DEF IndInv, KnownOnce, storage
<1>8. AskingIsUntouched'
  <2>1. \A b \in handlers' : GrantHandler(b) =>
           b \in handlers /\ b.id # c.id /\ b.id \in Requests
    BY <1>3, HandlerTypes DEF IndInv
  <2>2. \A b \in handlers' : GrantHandler(b) =>
           outcome'[b.id] = "waiting" /\ Untouched(b.id)'
    BY <1>4, <2>1 DEF IndInv, TypeOK, AskingIsUntouched
  <2> QED
    BY <2>1, <2>2 DEF IndInv, AskingIsUntouched
<1>9. NewIsUntouched' /\ PendingIsTargeted' /\ AnsweredByOwner'
  BY <1>1, <1>2, <1>4
  DEF IndInv, TypeOK, NewIsUntouched, PendingIsTargeted, AnsweredByOwner,
      Untouched, memory, ghosts
<1> QED
  BY <1>5, <1>7, <1>8, <1>9
  DEF IndInv, QueueIsAwaited, HandedIsCurrent, HandedToTarget,
      ParkedPollIsCurrent, storage, memory, ghosts

\* D1 answers a suspended dispatch.
LEMMA GrantReadInv ==
    ASSUME IndInv, NEW c \in handlers, GrantRead(c)
    PROVE  IndInv'
<1> DEFINE n == [c EXCEPT !.op = "grant_ok"]
<1> USE DEF GrantRead, Settle
<1>1. GrantHandler(c) /\ c.id \in Requests /\ n \in Handler
      /\ n.host = c.host /\ n.id = c.id
  BY HandlerTypes DEF IndInv, GrantHandler
<1>2. outcome[c.id] = "waiting" /\ Untouched(c.id)
  BY <1>1 DEF IndInv, AskingIsUntouched
<1>3. \A b \in handlers : GrantHandler(b) /\ b # c => b.id # c.id
  BY <1>1 DEF IndInv, AskingIsUntouched
<1>4. \A q : Untouched(q)' <=> Untouched(q)
  BY DEF Untouched, memory, ghosts
<1>5. CASE active /\ grant = c.host.grant
  <2>1. TypeOK'
    BY <1>1, <1>5 DEF IndInv, TypeOK, storage, d1, memory, ghosts
  <2>2. \A x \in Host : Known(x)' => Known(x)
    BY <1>1, <1>5 DEF Known, storage, ghosts
  <2>3. KnownOnce'
    BY <2>2 DEF IndInv, KnownOnce, storage
  <2>4. AskingIsUntouched'
    <3>1. handlers' = (handlers \ {c}) \cup {n} /\ outcome' = outcome
      BY <1>5
    <3>2. \A b \in handlers' : b = n \/ (b \in handlers /\ b # c)
      BY <3>1
    <3>3. \A b \in handlers' : GrantHandler(b) =>
             outcome'[b.id] = "waiting" /\ Untouched(b.id)'
      BY <1>1, <1>2, <1>4, <3>1, <3>2 DEF IndInv, AskingIsUntouched
    <3>4. \A a, b \in handlers' :
             GrantHandler(a) /\ GrantHandler(b) /\ a.id = b.id => a = b
      BY <1>1, <1>3, <3>2 DEF IndInv, AskingIsUntouched
    <3> QED
      BY <3>3, <3>4 DEF AskingIsUntouched
  <2> QED
    BY <1>4, <1>5, <2>1, <2>3, <2>4
    DEF IndInv, NewIsUntouched, PendingIsTargeted, AnsweredByOwner,
        QueueIsAwaited, HandedIsCurrent, HandedToTarget, ParkedPollIsCurrent,
        storage, memory, ghosts
<1>6. CASE ~(active /\ grant = c.host.grant)
  BY <1>1, <1>6, DispatchRejectedInv
<1> QED
  BY <1>5, <1>6

-----------------------------------------------------------------------------
(***************************************************************************)
(* The steps that take from the queue.                                     *)
(***************************************************************************)

\* takeQueuedRequest for the stored registration h: the first n entries go,
\* those of other generations fail, the n-th is handed to h if it is h's.
LEMMA TakeInv ==
    ASSUME IndInv, NEW h \in Host, host = h, NEW n \in 0..Len(queue),
           Shift(queue, n, h.generation, pending, outcome),
           UNCHANGED <<generation, host, target, answeredBy>>,
           handlers' \subseteq handlers, TypeOK',
           \A j \in 1..(n - 1) : queue[j].generation # h.generation,
           \/ /\ n > 0 /\ queue[n].generation = h.generation
              /\ delivered' = [delivered EXCEPT ![queue[n].id] = h]
              /\ UNCHANGED waitingPoll
           \/ /\ n > 0 => queue[n].generation # h.generation
              /\ n = Len(queue)
              /\ UNCHANGED delivered
              /\ waitingPoll' \in {waitingPoll, h}
    PROVE  IndInv'
<1> DEFINE gone == Dropped(queue, n, h.generation, pending)
<1>1. /\ queue \in Seq(Entry) /\ Len(queue) \in Nat
      /\ \A i \in 1..Len(queue) : queue[i] \in Entry
  BY DEF IndInv, TypeOK
<1>2. \A i \in 1..Len(queue) : /\ queue[i].id \in Requests
                               /\ pending[queue[i].id] = queue[i].generation
                               /\ delivered[queue[i].id] = NoHost
  BY <1>1 DEF IndInv, QueueIsAwaited, Entry
<1>3. \A i, j \in 1..Len(queue) : queue[i].id = queue[j].id => i = j
  BY DEF IndInv, QueueIsAwaited
<1>4. /\ Len(queue') = Len(queue) - n
      /\ \A k \in 1..(Len(queue) - n) : queue'[k] = queue[k + n]
  BY <1>1, ShiftSeq DEF Shift
<1>5. /\ pending' = [r \in Requests |-> IF r \in gone THEN 0 ELSE pending[r]]
      /\ outcome' = [r \in Requests |-> IF r \in gone THEN "host_replaced"
                                                      ELSE outcome[r]]
  BY DEF Shift
<1>6. \A r \in gone : /\ r \in Requests
                      /\ \E j \in 1..n : queue[j].id = r
  BY DEF Dropped
<1>7. \A r \in Requests :
         Untouched(r) => Untouched(r)' /\ outcome'[r] = outcome[r]
  <2> SUFFICES ASSUME NEW r \in Requests, Untouched(r)
               PROVE  Untouched(r)' /\ outcome'[r] = outcome[r]
    OBVIOUS
  <2>1. \A i \in 1..Len(queue) : queue[i].id # r
    BY DEF Untouched
  <2>2. r \notin gone
    BY <1>1, <1>6, <2>1
  <2>3. outcome'[r] = outcome[r] /\ pending'[r] = 0
    BY <1>5, <2>2 DEF Untouched
  <2>4. delivered'[r] = NoHost
    BY <1>1, <2>1 DEF Untouched, IndInv, TypeOK
  <2>5. \A k \in 1..Len(queue') : queue'[k].id # r
    BY <1>1, <1>4, <2>1
  <2> QED
    BY <2>3, <2>4, <2>5 DEF Untouched
<1>8. KnownOnce'
  BY DEF IndInv, KnownOnce, Known
<1>9. NewIsUntouched'
  BY <1>5, <1>7 DEF IndInv, NewIsUntouched
<1>10. AskingIsUntouched'
  <2>1. \A c \in handlers' : GrantHandler(c) =>
           c \in handlers /\ c.id \in Requests
    BY HandlerTypes DEF IndInv
  <2> QED
    BY <1>7, <2>1 DEF IndInv, AskingIsUntouched
<1>11. PendingIsTargeted'
  BY <1>5 DEF IndInv, PendingIsTargeted
<1>12. QueueIsAwaited'
  <2> SUFFICES ASSUME NEW k \in 1..Len(queue')
               PROVE  /\ pending'[queue'[k].id] = queue'[k].generation
                      /\ delivered'[queue'[k].id] = NoHost
                      /\ \A m \in 1..Len(queue') :
                            queue'[k].id = queue'[m].id => k = m
    BY DEF QueueIsAwaited
  <2>1. k + n \in 1..Len(queue) /\ queue'[k] = queue[k + n] /\ k + n > n
    BY <1>1, <1>4
  <2>2. queue[k + n].id \notin gone
    BY <1>1, <1>3, <1>6, <2>1
  <2>3. pending'[queue'[k].id] = queue'[k].generation
    BY <1>2, <1>5, <2>1, <2>2
  <2>4. delivered'[queue'[k].id] = NoHost
    <3>1. queue[k + n].id \in Requests /\ delivered[queue[k + n].id] = NoHost
      BY <1>2, <2>1
    <3>2. n > 0 => queue[k + n].id # queue[n].id
      BY <1>1, <1>3, <2>1
    <3> QED
      BY <2>1, <3>1, <3>2 DEF IndInv, TypeOK
  <2>5. \A m \in 1..Len(queue') : queue'[k].id = queue'[m].id => k = m
    <3> SUFFICES ASSUME NEW m \in 1..Len(queue'), queue'[k].id = queue'[m].id
                 PROVE  k = m
      OBVIOUS
    <3>1. m + n \in 1..Len(queue) /\ queue'[m] = queue[m + n]
      BY <1>1, <1>4
    <3>2. k + n = m + n
      BY <1>3, <2>1, <3>1
    <3> QED
      BY <1>1, <1>4, <3>2
  <2> QED
    BY <2>3, <2>4, <2>5
<1>13. ASSUME NEW i \in 1..Len(queue), queue[i].generation = h.generation
       PROVE  target[queue[i].id] = h
  <2>1. queue[i].id \in Requests /\ pending[queue[i].id] = h.generation
    BY <1>2, <1>13
  <2>2. h.generation # 0
    BY DEF Host
  <2>3. /\ target[queue[i].id] # NoHost
        /\ target[queue[i].id].generation = h.generation
    BY <2>1, <2>2 DEF IndInv, PendingIsTargeted
  <2>4. target[queue[i].id] \in Host /\ Known(target[queue[i].id]) /\ Known(h)
    BY <2>1, <2>3 DEF IndInv, TypeOK, Known
  <2> QED
    BY <2>3, <2>4 DEF IndInv, KnownOnce
<1>14. HandedIsCurrent' /\ HandedToTarget'
  <2>1. \A r \in Requests :
           \/ delivered'[r] = delivered[r]
           \/ delivered'[r] = h /\ target[r] = h
    BY <1>1, <1>2, <1>13 DEF IndInv, TypeOK
  <2> QED
    BY <1>5, <2>1 DEF IndInv, HandedIsCurrent, HandedToTarget
<1>15. AnsweredByOwner'
  <2>1. \A r \in Requests : outcome'[r] = "answered" =>
           outcome[r] = "answered" /\ delivered'[r] = delivered[r]
    <3> SUFFICES ASSUME NEW r \in Requests, outcome'[r] = "answered"
                 PROVE  outcome[r] = "answered" /\ delivered'[r] = delivered[r]
      OBVIOUS
    <3>1. outcome[r] = "answered"
      BY <1>5
    <3>2. \A i \in 1..Len(queue) :
             queue[i].generation = h.generation => queue[i].id # r
      BY <1>2, <3>1 DEF IndInv, PendingIsTargeted, Host
    <3> QED
      BY <1>1, <3>1, <3>2 DEF IndInv, TypeOK
  <2> QED
    BY <2>1 DEF IndInv, AnsweredByOwner
<1>16. ParkedPollIsCurrent'
  <2>1. CASE waitingPoll = NoHost /\ waitingPoll' = NoHost
    BY <2>1 DEF ParkedPollIsCurrent
  <2>2. CASE n = Len(queue)
    <3>1. queue' = << >>
      BY <1>1, <1>4, <2>2 DEF TypeOK
    <3> QED
      BY <3>1 DEF IndInv, ParkedPollIsCurrent
  <2>3. CASE waitingPoll # NoHost /\ n < Len(queue)
    BY <2>3 DEF IndInv, ParkedPollIsCurrent
  <2> QED
    BY <1>1, <2>1, <2>2, <2>3
<1> QED
  BY <1>8, <1>9, <1>10, <1>11, <1>12, <1>14, <1>15, <1>16 DEF IndInv

\* The queue's length and entries.
LEMMA QueueTypes ==
    ASSUME TypeOK
    PROVE  /\ queue \in Seq(Entry) /\ Len(queue) \in Nat
           /\ pending \in [Requests -> Nat]
           /\ outcome \in [Requests -> Outcomes]
           /\ \A i \in 1..Len(queue) : queue[i].id \in Requests
<1>1. queue \in Seq(Entry) /\ Len(queue) \in Nat
  BY DEF TypeOK
<1>2. \A i \in 1..Len(queue) : queue[i] \in Entry
  BY <1>1
<1> QED
  BY <1>1, <1>2 DEF TypeOK, Entry

\* The empty queue.
LEMMA EmptySeq ==
    ASSUME NEW S, NEW q \in Seq(S), Len(q) = 0
    PROVE  q = << >>
  OBVIOUS

\* What a shift leaves is a queue.
LEMMA ShiftTypes ==
    ASSUME TypeOK, NEW n \in 0..Len(queue), NEW g,
           Shift(queue, n, g, pending, outcome)
    PROVE  /\ queue' \in Seq(Entry)
           /\ pending' \in [Requests -> Nat]
           /\ outcome' \in [Requests -> Outcomes]
<1>1. queue' \in Seq(Entry)
  BY QueueTypes, ShiftSeq DEF Shift
<1> QED
  BY <1>1, QueueTypes DEF Shift, Outcomes

\* A poll resumes after its registry call.
LEMMA PollDoneInv ==
    ASSUME IndInv, NEW h \in Host, PollDone(h)
    PROVE  IndInv'
<1>1. /\ handlers' \subseteq handlers
      /\ UNCHANGED <<storage, d1, issued, target, answeredBy>>
  BY DEF PollDone
<1>2. /\ queue \in Seq(Entry) /\ Len(queue) \in Nat
      /\ pending \in [Requests -> Nat]
      /\ outcome \in [Requests -> Outcomes]
      /\ \A i \in 1..Len(queue) : queue[i].id \in Requests
  BY QueueTypes DEF IndInv
<1>3. CASE UNCHANGED <<memory, outcome, delivered>>
  <2>1. TypeOK'
    BY <1>1, <1>3 DEF IndInv, TypeOK, storage, d1, memory
  <2> QED
    BY <1>1, <1>3, <2>1, QuietStep DEF storage, memory
<1>4. ASSUME host = h, NEW i \in 1..Len(queue),
             Hand(queue, i, pending, outcome, h), UNCHANGED waitingPoll
      PROVE  IndInv'
  <2>1. Shift(queue, i, h.generation, pending, outcome)
    BY <1>4 DEF Hand
  <2>2. i \in 0..Len(queue) /\ i > 0
    BY <1>2
  <2>3. TypeOK
    BY DEF IndInv
  <2>4. /\ queue' \in Seq(Entry)
        /\ pending' \in [Requests -> Nat]
        /\ outcome' \in [Requests -> Outcomes]
    BY <2>1, <2>2, <2>3, ShiftTypes
  <2>5. delivered' = [delivered EXCEPT ![queue[i].id] = h]
    BY <1>4 DEF Hand
  <2>6. TypeOK'
    BY <1>1, <1>2, <1>4, <2>3, <2>4, <2>5 DEF TypeOK, storage, d1
  <2>7. UNCHANGED <<generation, host, target, answeredBy>>
    BY <1>1 DEF storage
  <2>8. /\ queue[i].generation = h.generation
        /\ \A j \in 1..(i - 1) : queue[j].generation # h.generation
    BY <1>4 DEF Hand, TakesAt
  <2> QED
    BY <1>1, <1>4, <2>1, <2>2, <2>5, <2>6, <2>7, <2>8, TakeInv
<1>5. ASSUME host = h, Drain(queue, pending, outcome, h), waitingPoll' = h
      PROVE  IndInv'
  <2>1. PICK n \in 0..Len(queue) : n = Len(queue)
    BY <1>2
  <2>2. Shift(queue, n, h.generation, pending, outcome)
    BY <1>5, <2>1 DEF Drain, Shift
  <2>3. TypeOK
    BY DEF IndInv
  <2>4. /\ queue' \in Seq(Entry)
        /\ pending' \in [Requests -> Nat]
        /\ outcome' \in [Requests -> Outcomes]
    BY <2>2, <2>3, ShiftTypes
  <2>5. UNCHANGED delivered
    BY <1>5 DEF Drain
  <2>6. TypeOK'
    BY <1>1, <1>5, <2>3, <2>4, <2>5 DEF TypeOK, storage, d1
  <2>7. UNCHANGED <<generation, host, target, answeredBy>>
    BY <1>1 DEF storage
  <2>8. /\ \A j \in 1..(n - 1) : queue[j].generation # h.generation
        /\ n > 0 => queue[n].generation # h.generation
    BY <1>2, <1>5, <2>1 DEF Drain, TakesNone
  <2> QED
    BY <1>1, <1>5, <2>1, <2>2, <2>5, <2>6, <2>7, <2>8, TakeInv
<1> QED
  BY <1>3, <1>4, <1>5 DEF PollDone, VerifyGeneration

\* The tail of dispatch, for a call r that has left no trace yet and whose
\* snapshot h is a registration that existed.
LEMMA EnqueueInv ==
    ASSUME IndInv, NEW r \in Requests, NEW h \in Host,
           Known(h), Untouched(r), outcome[r] \in {"none", "waiting"},
           Enqueue(r, h), handlers' \subseteq handlers,
           \A c \in handlers' : GrantHandler(c) => c.id # r,
           UNCHANGED <<storage, d1, issued, answeredBy>>
    PROVE  IndInv'
<1> DEFINE e == [id |-> r, generation |-> h.generation, grant |-> h.grant]
           q == Append(queue, e)
           p == [pending EXCEPT ![r] = h.generation]
           o == [outcome EXCEPT ![r] = "waiting"]
<1>1. /\ queue \in Seq(Entry) /\ Len(queue) \in Nat
      /\ pending \in [Requests -> Nat]
      /\ outcome \in [Requests -> Outcomes]
      /\ delivered \in [Requests -> Host \cup {NoHost}]
      /\ target \in [Requests -> Host \cup {NoHost}]
      /\ \A i \in 1..Len(queue) : queue[i].id \in Requests
  BY QueueTypes DEF IndInv, TypeOK
<1>2. e \in Entry /\ h.generation \in Nat \ {0} /\ h # NoHost
  BY NoHostAssumption DEF Entry, Host
<1>3. /\ q \in Seq(Entry) /\ Len(q) = Len(queue) + 1
      /\ \A k \in 1..Len(queue) : q[k] = queue[k]
      /\ q[Len(queue) + 1] = e
  BY <1>1, <1>2, AppendSeq
<1>4. target' = [target EXCEPT ![r] = h]
  BY DEF Enqueue
<1>5. \A s \in Requests : s # r => target'[s] = target[s]
  BY <1>1, <1>4
<1>6. target'[r] = h /\ target[r] = NoHost
  BY <1>1, <1>4 DEF Untouched
<1>7. \A x \in Host : Known(x)' => Known(x)
  BY <1>5, <1>6 DEF Known, storage
<1>8. KnownOnce'
  BY <1>7 DEF IndInv, KnownOnce, storage
<1>9. ASSUME \A s \in Requests : s # r =>
                /\ pending'[s] = pending[s]
                /\ outcome'[s] = outcome[s]
                /\ delivered'[s] = delivered[s],
             outcome'[r] \notin {"none", "answered"},
             pending'[r] # 0 => /\ outcome'[r] = "waiting"
                                /\ pending'[r] = h.generation,
             delivered'[r] # NoHost => h = host /\ delivered'[r] = host,
             TypeOK',
             QueueIsAwaited',
             ParkedPollIsCurrent',
             \A k \in 1..Len(queue') :
                queue'[k].id = r \/ \E m \in 1..Len(queue) :
                                       queue'[k].id = queue[m].id
      PROVE  IndInv'
  <2>1. \A s \in Requests : s # r /\ Untouched(s) => Untouched(s)'
    BY <1>5, <1>9 DEF Untouched
  <2>2. NewIsUntouched'
    BY <1>9, <2>1 DEF IndInv, NewIsUntouched
  <2>3. \A c \in handlers' : GrantHandler(c) =>
           c \in handlers /\ c.id \in Requests /\ c.id # r
    BY HandlerTypes DEF IndInv
  <2>4. AskingIsUntouched'
    BY <1>9, <2>1, <2>3 DEF IndInv, AskingIsUntouched
  <2>5. PendingIsTargeted'
    BY <1>2, <1>5, <1>6, <1>9 DEF IndInv, PendingIsTargeted
  <2>6. HandedIsCurrent' /\ HandedToTarget' /\ AnsweredByOwner'
    BY <1>5, <1>6, <1>9
    DEF IndInv, HandedIsCurrent, HandedToTarget, AnsweredByOwner, storage
  <2> QED
    BY <1>8, <1>9, <2>2, <2>4, <2>5, <2>6 DEF IndInv
<1>10. CASE Settle(r, "rejected") /\ UNCHANGED <<memory, delivered>>
  <2>1. outcome' = [outcome EXCEPT ![r] = "rejected"]
    BY <1>10 DEF Settle
  <2>2. TypeOK'
    BY <1>1, <1>4, <1>10, <2>1
    DEF IndInv, TypeOK, Outcomes, storage, d1, memory
  <2> QED
    BY <1>1, <1>9, <1>10, <2>1, <2>2
    DEF IndInv, QueueIsAwaited, ParkedPollIsCurrent, Untouched, memory,
        storage
<1>11. CASE /\ waitingPoll = NoHost
            /\ queue' = q /\ pending' = p /\ outcome' = o
            /\ UNCHANGED <<waitingPoll, delivered>>
  <2>1. TypeOK'
    BY <1>1, <1>2, <1>3, <1>4, <1>11
    DEF IndInv, TypeOK, Outcomes, storage, d1
  <2>2. QueueIsAwaited'
    <3>1. \A k \in 1..Len(queue) : /\ queue[k].id # r
                                   /\ pending[queue[k].id] = queue[k].generation
                                   /\ delivered[queue[k].id] = NoHost
      BY DEF IndInv, QueueIsAwaited, Untouched
    <3>2. \A k \in 1..Len(q) : \/ k \in 1..Len(queue) /\ q[k] = queue[k]
                               \/ k = Len(queue) + 1 /\ q[k] = e
      BY <1>1, <1>3
    <3>3. \A k \in 1..Len(q) : /\ p[q[k].id] = q[k].generation
                               /\ delivered[q[k].id] = NoHost
      BY <1>1, <3>1, <3>2 DEF Untouched
    <3>4. \A k, m \in 1..Len(q) : q[k].id = q[m].id => k = m
      BY <3>1, <3>2 DEF IndInv, QueueIsAwaited
    <3> QED
      BY <1>11, <3>3, <3>4 DEF QueueIsAwaited
  <2>3. ParkedPollIsCurrent'
    BY <1>11 DEF ParkedPollIsCurrent
  <2>4. \A k \in 1..Len(queue') :
           queue'[k].id = r \/ \E m \in 1..Len(queue) :
                                  queue'[k].id = queue[m].id
    BY <1>1, <1>3, <1>11
  <2> QED
    BY <1>1, <1>2, <1>9, <1>11, <2>1, <2>2, <2>3, <2>4 DEF Untouched
<1>12. ASSUME waitingPoll # NoHost
       PROVE  /\ waitingPoll = host /\ host \in Host /\ Known(host)
              /\ queue = << >> /\ Len(q) = 1 /\ q[1] = e
  <2>1. waitingPoll = host /\ queue = << >> /\ host \in Host
    BY <1>12 DEF IndInv, TypeOK, ParkedPollIsCurrent
  <2> QED
    BY <1>3, <2>1 DEF Known
<1>13. ASSUME waitingPoll # NoHost, NEW i \in 1..Len(q),
              Hand(q, i, p, o, waitingPoll), waitingPoll' = NoHost
       PROVE  IndInv'
  <2>1. i = 1 /\ e.generation = host.generation
    BY <1>12, <1>13 DEF Hand, TakesAt
  <2>2. h = host
    BY <1>12, <1>13, <2>1 DEF IndInv, KnownOnce
  <2>3. Shift(q, 1, host.generation, p, o)
    BY <1>12, <1>13, <2>1 DEF Hand
  <2>4. Dropped(q, 1, host.generation, p) = {}
    BY <1>12, <1>13, <2>1 DEF Dropped
  <2>5. /\ queue' = << >> /\ pending' = p /\ outcome' = o
        /\ delivered' = [delivered EXCEPT ![r] = host]
    <3>1. queue' \in Seq(Entry) /\ Len(queue') = 0
      BY <1>3, <1>12, <1>13, <2>3, ShiftSeq DEF Shift
    <3>2. p = [s \in Requests |-> p[s]] /\ o = [s \in Requests |-> o[s]]
      BY <1>1
    <3>3. delivered' = [delivered EXCEPT ![r] = host]
      BY <1>12, <1>13, <2>1 DEF Hand
    <3>4. queue' = << >>
      BY <3>1, EmptySeq
    <3> DEFINE D == Dropped(q, 1, host.generation, p)
    <3>5. /\ pending' = [s \in Requests |-> IF s \in D THEN 0 ELSE p[s]]
          /\ outcome' = [s \in Requests |->
                            IF s \in D THEN "host_replaced" ELSE o[s]]
      BY <2>3 DEF Shift
    <3> HIDE DEF D, p, o
    <3>6. /\ pending' = [s \in Requests |-> p[s]]
          /\ outcome' = [s \in Requests |-> o[s]]
      BY <2>4, <3>5 DEF D
    <3> QED
      BY <3>2, <3>3, <3>4, <3>5, <3>6
  <2>6. TypeOK'
    BY <1>1, <1>2, <1>4, <1>12, <1>13, <2>5
    DEF IndInv, TypeOK, Outcomes, storage, d1
  <2> QED
    BY <1>1, <1>2, <1>9, <1>13, <2>2, <2>5, <2>6
    DEF QueueIsAwaited, ParkedPollIsCurrent
<1>14. ASSUME waitingPoll # NoHost, Drain(q, p, o, waitingPoll),
              UNCHANGED waitingPoll
       PROVE  IndInv'
  <2>1. e.generation # host.generation
    BY <1>12, <1>14 DEF Drain, TakesNone
  <2>2. Shift(q, 1, host.generation, p, o) /\ UNCHANGED delivered
    BY <1>12, <1>14 DEF Drain
  <2>3. Dropped(q, 1, host.generation, p) = {r}
    BY <1>1, <1>12, <1>14, <2>1 DEF Dropped
  <2>4. /\ queue' = << >>
        /\ pending' = [s \in Requests |-> IF s = r THEN 0 ELSE p[s]]
        /\ outcome' = [s \in Requests |->
                          IF s = r THEN "host_replaced" ELSE o[s]]
    <3>1. queue' \in Seq(Entry) /\ Len(queue') = 0
      BY <1>3, <1>12, <1>14, <2>2, ShiftSeq DEF Shift
    <3>2. queue' = << >>
      BY <3>1, EmptySeq
    <3> DEFINE D == Dropped(q, 1, host.generation, p)
    <3>3. /\ pending' = [s \in Requests |-> IF s \in D THEN 0 ELSE p[s]]
          /\ outcome' = [s \in Requests |->
                            IF s \in D THEN "host_replaced" ELSE o[s]]
      BY <2>2 DEF Shift
    <3> HIDE DEF D, p, o
    <3> QED
      BY <2>3, <3>2, <3>3 DEF D
  <2>5. TypeOK'
    BY <1>1, <1>2, <1>4, <1>14, <2>2, <2>4
    DEF IndInv, TypeOK, Outcomes, storage, d1
  <2> QED
    BY <1>1, <1>9, <1>12, <1>14, <2>2, <2>4, <2>5
    DEF QueueIsAwaited, ParkedPollIsCurrent, Untouched, storage
<1> QED
  BY <1>10, <1>11, <1>13, <1>14 DEF Enqueue, Push

-----------------------------------------------------------------------------
(***************************************************************************)
(* The invariant is inductive.                                             *)
(***************************************************************************)

\* Every step keeps the invariant.
LEMMA NextInv == IndInv /\ [Next]_vars => IndInv'
<1> SUFFICES ASSUME IndInv, [Next]_vars
             PROVE  IndInv'
  OBVIOUS
<1>1. CASE HostCall
  <2>1. 0..grant \subseteq Nat /\ issued \subseteq Host
    BY DEF IndInv, TypeOK
  <2>2. ASSUME NEW gr \in 0..grant, ConnectRefused(gr)
        PROVE  IndInv'
    BY <2>1, <2>2, ConnectRefusedInv
  <2>3. ASSUME NEW gr \in 0..grant, NEW i \in Instances,
               ConnectAccepted(i, gr)
        PROVE  IndInv'
    BY <2>1, <2>3, ConnectAcceptedInv
  <2>4. ASSUME NEW h \in issued, NEW gr \in 0..grant,
               NEW op \in {"poll", "heartbeat"}, Poll(h, gr, op)
        PROVE  IndInv'
    BY <2>1, <2>4, QuietActionsInv
  <2>5. ASSUME NEW h \in issued, NEW gr \in 0..grant, NEW r \in Requests,
               HandedTo(r, h.instance), Respond(h, gr, r)
        PROVE  IndInv'
    BY <2>1, <2>5, RespondInv
  <2>6. ASSUME NEW h \in issued, NEW gr \in 0..grant, Disconnect(h, gr)
        PROVE  IndInv'
    BY <2>1, <2>6, ClearHostInv DEF Disconnect
  <2>7. ASSUME NEW n \in 1..grant, Fence(n)
        PROVE  IndInv'
    <3>1. PICK h \in Host : h = host
      BY <2>7 DEF Fence, IndInv, TypeOK
    <3>2. ClearHost(h)
      BY <2>7, <3>1 DEF Fence, ClearHost, VerifyGeneration
    <3> QED
      BY <2>7, <3>2, ClearHostInv DEF Fence
  <2> QED
    BY <1>1, <2>2, <2>3, <2>4, <2>5, <2>6, <2>7 DEF HostCall
<1>2. CASE Resume
  <2> PICK c \in handlers : \/ ConnectDone(c.host)
                            \/ PollDone(c.host)
                            \/ HeartbeatDone(c.host)
                            \/ RespondDone(c.host)
                            \/ RegistryFailed(c)
                            \/ GrantRead(c)
                            \/ DispatchResumed(c)
                            \/ DispatchDisallowed(c)
    BY <1>2 DEF Resume
  <2>1. c.host \in Host
    BY HandlerTypes DEF IndInv
  <2>2. CASE \/ ConnectDone(c.host)
             \/ HeartbeatDone(c.host)
             \/ RespondDone(c.host)
    BY <2>1, <2>2, QuietActionsInv
  <2>3. CASE PollDone(c.host)
    BY <2>1, <2>3, PollDoneInv
  <2>4. CASE RegistryFailed(c)
    <3>1. /\ handlers' \subseteq handlers
          /\ UNCHANGED <<d1, ghosts>>
      BY <2>4 DEF RegistryFailed
    <3>2. CASE ClearHost(c.host)
      BY <2>1, <3>1, <3>2, ClearHostInv
    <3>3. CASE UNCHANGED <<storage, memory, outcome>>
      <4>1. TypeOK'
        BY <3>1, <3>3 DEF IndInv, TypeOK, storage, d1, memory, ghosts
      <4> QED
        BY <3>1, <3>3, <4>1, QuietStep DEF storage, memory, ghosts
    <3> QED
      BY <2>4, <3>2, <3>3 DEF RegistryFailed
  <2>5. CASE GrantRead(c)
    BY <2>5, GrantReadInv
  <2>7. CASE DispatchDisallowed(c)
    BY <2>7, DispatchRejectedInv DEF DispatchDisallowed, GrantHandler
  <2>6. CASE DispatchResumed(c)
    <3>1. GrantHandler(c) /\ c.id \in Requests
      BY <2>6, HandlerTypes DEF DispatchResumed, GrantHandler, IndInv
    <3>2. Untouched(c.id) /\ outcome[c.id] = "waiting"
      BY <3>1 DEF IndInv, AskingIsUntouched
    <3>3. \A b \in handlers' : GrantHandler(b) => b.id # c.id
      BY <2>6, <3>1 DEF DispatchResumed, IndInv, AskingIsUntouched
    <3>4. Known(c.host)
      BY DEF Known
    <3> QED
      BY <2>1, <2>6, <3>1, <3>2, <3>3, <3>4, EnqueueInv DEF DispatchResumed
  <2> QED
    BY <2>2, <2>3, <2>4, <2>5, <2>6, <2>7
<1>3. CASE Dispatch
  <2> PICK r \in Requests : \/ DispatchOffline(r)
                            \/ DispatchExpired(r)
                            \/ DispatchRefused(r)
                            \/ DispatchLegacy(r)
                            \/ DispatchBrowser(r)
    BY <1>3 DEF Dispatch
  <2>1. CASE DispatchOffline(r) \/ DispatchRefused(r)
    BY <2>1, RefusalInv
  <2>2. CASE DispatchExpired(r)
    BY <2>2, DispatchExpiredInv
  <2>3. CASE DispatchLegacy(r)
    <3>1. PICK h \in Host : h = host
      BY <2>3 DEF DispatchLegacy, IndInv, TypeOK
    <3>2. outcome[r] = "none" /\ Untouched(r) /\ Known(h)
      BY <2>3, <3>1 DEF DispatchLegacy, IndInv, NewIsUntouched, Known
    <3>3. \A c \in handlers' : GrantHandler(c) => c.id # r
      BY <2>3, <3>2 DEF DispatchLegacy, IndInv, AskingIsUntouched
    <3>4. Enqueue(r, h)
      BY <2>3, <3>1 DEF DispatchLegacy, Enqueue, Push
    <3> QED
      BY <2>3, <3>2, <3>3, <3>4, EnqueueInv DEF DispatchLegacy
  <2>4. CASE DispatchBrowser(r)
    BY <2>4, DispatchBrowserInv
  <2> QED
    BY <2>1, <2>2, <2>3, <2>4
<1>4. CASE Timer
  BY <1>4, PollTimeoutInv, QuietActionsInv, RpcTimeoutInv DEF Timer
<1>5. CASE GrantCommitted \/ GrantActivated
  BY <1>5, QuietActionsInv
<1>6. CASE Restart
  BY <1>6, RestartInv
<1>7. CASE UNCHANGED vars
  <2>1. TypeOK'
    BY <1>7 DEF vars, IndInv, TypeOK, storage, d1, memory, ghosts
  <2> QED
    BY <1>7, <2>1, QuietStep DEF vars, storage, memory, ghosts
<1> QED
  BY <1>1, <1>2, <1>3, <1>4, <1>5, <1>6, <1>7 DEF Next

\* Every reachable state satisfies the inductive invariant.
THEOREM Invariance == Spec => []IndInv
  BY InitInv, NextInv, PTL DEF Spec

\* The types of storage, memory and the ghosts, however the handlers
\* interleave.
THEOREM TypeCorrect == Spec => []TypeOK
<1>1. IndInv => TypeOK
  BY DEF IndInv
<1> QED
  BY <1>1, Invariance, PTL

\* takeQueuedRequest never hands out a request that nobody awaits, or twice.
THEOREM QueueCorrect == Spec => []QueueIsAwaited
<1>1. IndInv => QueueIsAwaited
  BY DEF IndInv
<1> QED
  BY <1>1, Invariance, PTL

\* A request reaches the registration its caller was authorised for or none.
THEOREM TargetCorrect == Spec => []HandedToTarget
<1>1. IndInv => HandedToTarget
  BY DEF IndInv
<1> QED
  BY <1>1, Invariance, PTL

\* respond accepts only the response of the registration that was handed the
\* request.
THEOREM OwnerCorrect == Spec => []AnsweredByOwner
<1>1. IndInv => AnsweredByOwner
  BY DEF IndInv
<1> QED
  BY <1>1, Invariance, PTL

\* A parked long poll belongs to the stored registration and has nothing to
\* fetch.
THEOREM WakeupCorrect == Spec => []ParkedPollIsCurrent
<1>1. IndInv => ParkedPollIsCurrent
  BY DEF IndInv
<1> QED
  BY <1>1, Invariance, PTL

-----------------------------------------------------------------------------
(***************************************************************************)
(* GatewaySession implements RpcOnce.                                      *)
(***************************************************************************)

Failures == Outcomes \ {"none", "waiting", "answered"}

\* What one step may do to one call.
Moves(r) ==
    \/ outcome'[r] = outcome[r] /\ delivered'[r] = delivered[r]
    \/ /\ outcome[r] \in {"none", "waiting"} /\ outcome'[r] \in Failures
       /\ delivered'[r] = delivered[r]
    \/ /\ outcome[r] = "none" /\ outcome'[r] = "waiting"
       /\ delivered[r] = NoHost /\ delivered'[r] = NoHost
    \/ /\ outcome[r] \in {"none", "waiting"} /\ outcome'[r] = "waiting"
       /\ delivered[r] = NoHost /\ delivered'[r] \in Host
    \/ /\ outcome[r] = "waiting" /\ outcome'[r] = "answered"
       /\ delivered[r] \in Host /\ delivered'[r] = delivered[r]

\* The outcomes that RpcOnce calls failed.
LEMMA FailureNames ==
    {"host_replaced", "host_cleared", "host_request_timeout", "rejected",
     "lost"} \subseteq Failures
  BY DEF Failures, Outcomes

\* A drop of everything moves each request by a step of RpcOnce.
LEMMA DropAllMoves ==
    ASSUME IndInv, NEW result \in Failures, DropAll(result),
           UNCHANGED delivered, NEW r \in Requests
    PROVE  Moves(r)
  BY DEF DropAll, PendingIds, IndInv, PendingIsTargeted, Moves

\* So does a take from the queue.
LEMMA TakeMoves ==
    ASSUME IndInv, NEW h \in Host, NEW n \in 0..Len(queue), NEW r \in Requests,
           Shift(queue, n, h.generation, pending, outcome),
           \/ UNCHANGED delivered
           \/ /\ n > 0 /\ queue[n].generation = h.generation
              /\ delivered' = [delivered EXCEPT ![queue[n].id] = h]
    PROVE  Moves(r)
<1> DEFINE gone == Dropped(queue, n, h.generation, pending)
<1>1. /\ queue \in Seq(Entry) /\ Len(queue) \in Nat
      /\ \A i \in 1..Len(queue) : queue[i].id \in Requests
  BY QueueTypes DEF IndInv
<1>2. outcome' = [s \in Requests |-> IF s \in gone THEN "host_replaced"
                                                   ELSE outcome[s]]
  BY DEF Shift
<1>3. \A i \in 1..Len(queue) : /\ pending[queue[i].id] = queue[i].generation
                               /\ delivered[queue[i].id] = NoHost
                               /\ \A j \in 1..Len(queue) :
                                     queue[i].id = queue[j].id => i = j
  BY DEF IndInv, QueueIsAwaited
<1>4. CASE r \in gone
  <2>1. PICK j \in 1..n : /\ queue[j].id = r
                          /\ queue[j].generation # h.generation
                          /\ pending[r] = queue[j].generation
    BY <1>4 DEF Dropped
  <2>2. j \in 1..Len(queue)
    BY <1>1
  <2>3. CASE pending[r] # 0
    <3>1. outcome[r] = "waiting"
      BY <2>3 DEF IndInv, PendingIsTargeted
    <3>2. delivered'[r] = delivered[r]
      BY <1>1, <1>3, <2>1, <2>2 DEF IndInv, TypeOK
    <3> QED
      BY <1>2, <1>4, <3>1, <3>2, FailureNames DEF Moves
  <2>4. pending[r] # 0
    <3>1. queue[j] \in Entry
      BY <1>1, <2>2
    <3> QED
      BY <2>1, <3>1 DEF Entry
  <2> QED
    BY <2>3, <2>4
<1>5. CASE r \notin gone
  <2>1. outcome'[r] = outcome[r]
    BY <1>2, <1>5
  <2>2. CASE delivered'[r] = delivered[r]
    BY <2>1, <2>2 DEF Moves
  <2>3. CASE delivered'[r] # delivered[r]
    <3>1. n > 0 /\ queue[n].generation = h.generation /\ queue[n].id = r
          /\ delivered'[r] = h
      BY <1>1, <2>3 DEF IndInv, TypeOK
    <3>2. n \in 1..Len(queue)
      BY <1>1, <3>1
    <3>3. pending[r] = h.generation /\ delivered[r] = NoHost
      BY <1>3, <3>1, <3>2
    <3>4. outcome[r] = "waiting"
      BY <3>3 DEF IndInv, PendingIsTargeted, Host
    <3> QED
      BY <2>1, <3>1, <3>3, <3>4 DEF Moves
  <2> QED
    BY <2>2, <2>3
<1> QED
  BY <1>4, <1>5

\* Every action moves every call in one of these ways.
LEMMA NextMoves ==
    ASSUME IndInv, Next, NEW r \in Requests
    PROVE  Moves(r)
<1> USE FailureNames
<1>1. CASE HostCall
  <2>1. ASSUME NEW gr \in 0..grant, ConnectRefused(gr)
        PROVE  Moves(r)
    BY <2>1 DEF ConnectRefused, Moves, ghosts
  <2>2. ASSUME NEW gr \in 0..grant, NEW i \in Instances,
               ConnectAccepted(i, gr)
        PROVE  Moves(r)
    BY <2>2, DropAllMoves DEF ConnectAccepted, ghosts
  <2>3. ASSUME NEW h \in issued, NEW gr \in 0..grant,
               NEW op \in {"poll", "heartbeat"}, Poll(h, gr, op)
        PROVE  Moves(r)
    BY <2>3 DEF Poll, Moves, ghosts
  <2>4. ASSUME NEW h \in issued, NEW gr \in 0..grant, NEW s \in Requests,
               HandedTo(s, h.instance), Respond(h, gr, s)
        PROVE  Moves(r)
    <3>1. /\ outcome[s] = "waiting" /\ delivered[s] \in Host
          /\ outcome' = [outcome EXCEPT ![s] = "answered"]
          /\ UNCHANGED delivered
      BY <2>4 DEF HandedTo, Respond, PendingIds, IndInv, TypeOK,
                  PendingIsTargeted
    <3> QED
      BY <3>1 DEF Moves, IndInv, TypeOK
  <2>5. ASSUME NEW h \in issued, NEW gr \in 0..grant, Disconnect(h, gr)
        PROVE  Moves(r)
    BY <2>5, DropAllMoves DEF Disconnect, ClearHost, ghosts
  <2>6. ASSUME NEW n \in 1..grant, Fence(n)
        PROVE  Moves(r)
    BY <2>6, DropAllMoves DEF Fence, ClearHost, ghosts
  <2> QED
    BY <1>1, <2>1, <2>2, <2>3, <2>4, <2>5, <2>6 DEF HostCall
<1>2. ASSUME NEW s \in Requests, NEW h \in Host, Untouched(s),
             outcome[s] \in {"none", "waiting"}, Enqueue(s, h)
      PROVE  Moves(r)
  <2> DEFINE e == [id |-> s, generation |-> h.generation, grant |-> h.grant]
             q == Append(queue, e)
             p == [pending EXCEPT ![s] = h.generation]
             o == [outcome EXCEPT ![s] = "waiting"]
  <2>1. /\ outcome \in [Requests -> Outcomes]
        /\ delivered \in [Requests -> Host \cup {NoHost}]
        /\ delivered[s] = NoHost
    BY <1>2 DEF IndInv, TypeOK, Untouched
  <2>2. CASE Settle(s, "rejected") /\ UNCHANGED delivered
    BY <1>2, <2>1, <2>2 DEF Settle, Moves
  <2>3. CASE outcome' = o /\ UNCHANGED delivered
    BY <1>2, <2>1, <2>3 DEF Moves
  <2>4. ASSUME waitingPoll # NoHost
        PROVE  waitingPoll \in Host /\ q = <<e>>
    <3>1. queue = << >> /\ waitingPoll \in Host
      BY <2>4 DEF IndInv, TypeOK, ParkedPollIsCurrent
    <3> QED
      BY <3>1
  <2>5. ASSUME waitingPoll # NoHost, NEW i \in 1..Len(q),
               Hand(q, i, p, o, waitingPoll)
        PROVE  Moves(r)
    <3>1. i = 1 /\ q[i] = e /\ e.generation = waitingPoll.generation
      BY <2>4, <2>5 DEF Hand, TakesAt
    <3>2. Dropped(q, i, waitingPoll.generation, p) = {}
      BY <2>4, <2>5, <3>1 DEF Dropped
    <3>3. outcome'[r] = o[r]
      BY <2>5, <3>2 DEF Hand, Shift
    <3>4. delivered' = [delivered EXCEPT ![s] = waitingPoll]
      <4>1. q[i].id = s
        BY <3>1
      <4>2. delivered' = [delivered EXCEPT ![q[i].id] = waitingPoll]
        BY <2>5 DEF Hand
      <4> HIDE DEF q
      <4> QED
        BY <4>1, <4>2
    <3> QED
      BY <1>2, <2>1, <2>4, <2>5, <3>3, <3>4 DEF Moves
  <2>6. ASSUME waitingPoll # NoHost, Drain(q, p, o, waitingPoll)
        PROVE  Moves(r)
    <3>1. r # s => r \notin Dropped(q, Len(q), waitingPoll.generation, p)
      BY <2>4, <2>6 DEF Dropped
    <3>2. UNCHANGED delivered
      BY <2>6 DEF Drain
    <3>3. \/ outcome'[r] = "host_replaced" /\ r = s
          \/ outcome'[r] = o[r]
      BY <2>6, <3>1 DEF Drain, Shift
    <3> QED
      BY <1>2, <2>1, <3>2, <3>3 DEF Moves
  <2> QED
    BY <1>2, <2>2, <2>3, <2>5, <2>6 DEF Enqueue, Push
<1>3. CASE Resume
  <2> PICK c \in handlers : \/ ConnectDone(c.host)
                            \/ PollDone(c.host)
                            \/ HeartbeatDone(c.host)
                            \/ RespondDone(c.host)
                            \/ RegistryFailed(c)
                            \/ GrantRead(c)
                            \/ DispatchResumed(c)
                            \/ DispatchDisallowed(c)
    BY <1>3 DEF Resume
  <2>1. c.host \in Host
    BY HandlerTypes DEF IndInv
  <2>2. CASE \/ ConnectDone(c.host) \/ HeartbeatDone(c.host)
             \/ RespondDone(c.host)
    BY <2>2 DEF ConnectDone, HeartbeatDone, RespondDone, Moves, ghosts
  <2>3. CASE PollDone(c.host)
    <3> DEFINE h == c.host
    <3>1. Len(queue) \in Nat
      BY QueueTypes DEF IndInv
    <3>2. CASE UNCHANGED <<memory, outcome, delivered>>
      BY <3>2 DEF Moves
    <3>3. ASSUME NEW i \in 1..Len(queue),
                 Hand(queue, i, pending, outcome, h)
          PROVE  Moves(r)
      <4>1. /\ i \in 0..Len(queue) /\ i > 0
            /\ Shift(queue, i, h.generation, pending, outcome)
            /\ queue[i].generation = h.generation
            /\ delivered' = [delivered EXCEPT ![queue[i].id] = h]
        BY <3>1, <3>3 DEF Hand, TakesAt
      <4> QED
        BY <2>1, <4>1, TakeMoves
    <3>4. ASSUME Drain(queue, pending, outcome, h)
          PROVE  Moves(r)
      <4>1. PICK n \in 0..Len(queue) : n = Len(queue)
        BY <3>1
      <4>2. Shift(queue, n, h.generation, pending, outcome)
            /\ UNCHANGED delivered
        BY <3>4, <4>1 DEF Drain, Shift
      <4> QED
        BY <2>1, <4>2, TakeMoves
    <3> QED
      BY <2>3, <3>2, <3>3, <3>4 DEF PollDone
  <2>4. CASE RegistryFailed(c)
    <3>1. CASE ClearHost(c.host)
      BY <2>4, <3>1, DropAllMoves DEF RegistryFailed, ClearHost, ghosts
    <3>2. CASE UNCHANGED outcome
      BY <2>4, <3>2 DEF RegistryFailed, Moves, ghosts
    <3> QED
      BY <2>4, <3>1, <3>2 DEF RegistryFailed
  <2>5. CASE GrantRead(c)
    <3>1. c.id \in Requests /\ outcome[c.id] = "waiting"
      BY <2>5, HandlerTypes DEF GrantRead, GrantHandler, IndInv,
                                AskingIsUntouched
    <3> QED
      BY <2>5, <3>1 DEF GrantRead, Settle, Moves, IndInv, TypeOK, ghosts
  <2>7. CASE DispatchDisallowed(c)
    <3>1. c.id \in Requests /\ outcome[c.id] = "waiting"
      BY <2>7, HandlerTypes DEF DispatchDisallowed, GrantHandler, IndInv,
                                AskingIsUntouched
    <3> QED
      BY <2>7, <3>1 DEF DispatchDisallowed, Settle, Moves, IndInv, TypeOK,
                        ghosts
  <2>6. CASE DispatchResumed(c)
    <3>1. GrantHandler(c) /\ c.id \in Requests
      BY <2>6, HandlerTypes DEF DispatchResumed, GrantHandler, IndInv
    <3>2. Untouched(c.id) /\ outcome[c.id] = "waiting"
      BY <3>1 DEF IndInv, AskingIsUntouched
    <3> QED
      BY <1>2, <2>1, <2>6, <3>1, <3>2 DEF DispatchResumed
  <2> QED
    BY <2>2, <2>3, <2>4, <2>5, <2>6, <2>7
<1>4. CASE Dispatch
  <2> PICK s \in Requests : \/ DispatchOffline(s)
                            \/ DispatchExpired(s)
                            \/ DispatchRefused(s)
                            \/ DispatchLegacy(s)
                            \/ DispatchBrowser(s)
    BY <1>4 DEF Dispatch
  <2>1. CASE DispatchOffline(s) \/ DispatchRefused(s)
    BY <2>1 DEF DispatchOffline, DispatchRefused, Settle, Moves, IndInv,
                TypeOK, ghosts
  <2>2. CASE DispatchExpired(s)
    BY <2>2 DEF DispatchExpired, PendingIds, Moves, IndInv,
                PendingIsTargeted, ghosts
  <2>3. CASE DispatchLegacy(s)
    <3>1. PICK h \in Host : h = host
      BY <2>3 DEF DispatchLegacy, IndInv, TypeOK
    <3>2. outcome[s] = "none" /\ Untouched(s)
      BY <2>3 DEF DispatchLegacy, IndInv, NewIsUntouched
    <3>3. Enqueue(s, h)
      BY <2>3, <3>1 DEF DispatchLegacy, Enqueue, Push
    <3> QED
      BY <1>2, <3>2, <3>3
  <2>4. CASE DispatchBrowser(s)
    <3>1. delivered[s] = NoHost
      BY <2>4 DEF DispatchBrowser, IndInv, NewIsUntouched, Untouched
    <3> QED
      BY <2>4, <3>1 DEF DispatchBrowser, Settle, Moves, IndInv, TypeOK, ghosts
  <2> QED
    BY <2>1, <2>2, <2>3, <2>4
<1>5. CASE Timer
  <2>1. CASE PollTimeout \/ LeaseExpires
    BY <2>1 DEF PollTimeout, LeaseExpires, Moves, ghosts
  <2>2. ASSUME NEW s \in Requests, RpcTimeout(s)
        PROVE  Moves(r)
    <3>1. outcome[s] = "waiting"
      BY <2>2 DEF RpcTimeout, PendingIds, IndInv, PendingIsTargeted
    <3> QED
      BY <2>2, <3>1 DEF RpcTimeout, Settle, Moves, IndInv, TypeOK, ghosts
  <2> QED
    BY <1>5, <2>1, <2>2 DEF Timer
<1>6. CASE GrantCommitted \/ GrantActivated \/ Restart
  BY <1>6 DEF GrantCommitted, GrantActivated, Restart, Moves, ghosts
<1> QED
  BY <1>1, <1>3, <1>4, <1>5, <1>6 DEF Next

\* The gateway keeps RpcOnce's promise to its callers: a call is handed out
\* at most once, answered only after that, and final once it has returned.
THEOREM Refinement == Spec => ImplementsRpcOnce
<1>1. Init => Once!Init
  BY DEF Init, Once!Init, Stage
<1>2. ASSUME IndInv, [Next]_vars
      PROVE  [Once!Next]_<<Stage, delivered>>
  <2>1. CASE Next
    <3>1. \A r \in Requests : Moves(r)
      BY <1>2, <2>1, NextMoves
    <3>2. \A r \in Requests : /\ outcome[r] \in Outcomes
                              /\ delivered[r] \in Host \cup {NoHost}
      BY <1>2 DEF IndInv, TypeOK
    <3>3. \A r \in Requests : \/ Once!Keeps(r) \/ Once!Accept(r)
                              \/ Once!Hand(r) \/ Once!Answer(r)
                              \/ Once!Fail(r)
      <4> SUFFICES ASSUME NEW r \in Requests
                   PROVE  \/ Once!Keeps(r) \/ Once!Accept(r) \/ Once!Hand(r)
                          \/ Once!Answer(r) \/ Once!Fail(r)
        OBVIOUS
      <4> USE NoHostAssumption DEF Once!Keeps, Once!Accept, Once!Hand,
                                   Once!Answer, Once!Fail
      <4>1. Stage[r] = IF outcome[r] = "none" THEN "new"
                       ELSE IF outcome[r] = "waiting"
                       THEN IF delivered[r] = NoHost THEN "accepted"
                                                     ELSE "handed"
                       ELSE IF outcome[r] = "answered" THEN "answered"
                       ELSE "failed"
        BY DEF Stage
      <4>2. Stage'[r] = IF outcome'[r] = "none" THEN "new"
                        ELSE IF outcome'[r] = "waiting"
                        THEN IF delivered'[r] = NoHost THEN "accepted"
                                                       ELSE "handed"
                        ELSE IF outcome'[r] = "answered" THEN "answered"
                        ELSE "failed"
        BY DEF Stage
      <4>3. \A x \in Failures : x \notin {"none", "waiting", "answered"}
        BY DEF Failures
      <4> QED
        BY <3>1, <3>2, <4>1, <4>2, <4>3 DEF Moves
    <3> QED
      BY <3>3 DEF Once!Next
  <2>2. CASE UNCHANGED vars
    BY <2>2 DEF vars, ghosts, Stage
  <2> QED
    BY <1>2, <2>1, <2>2
<1> QED
  BY <1>1, <1>2, Invariance, PTL DEF Spec, ImplementsRpcOnce, Once!Spec

-----------------------------------------------------------------------------
(***************************************************************************)
(* Callers that wait, and how many: what a step does to pending.           *)
(***************************************************************************)

\* dispatch resumes in a handler of its own for r.
Asking(r) == \E c \in handlers : GrantHandler(c) /\ c.id = r

\* The state of one waiting call.
Armed(r) == outcome[r] = "waiting" => pending[r] # 0 \/ Asking(r)

\* An enqueue is refused, or it adds one call below the limit and leaves the
\* other calls alone, also when it goes to a parked poll at once.
LEMMA EnqueueEffect ==
    ASSUME IndInv, NEW s \in Requests, NEW h \in Host, Enqueue(s, h)
    PROVE  /\ \A r \in Requests \ {s} : /\ pending'[r] = pending[r]
                                        /\ outcome'[r] = outcome[r]
           /\ \/ outcome'[s] = "rejected" /\ pending'[s] = pending[s]
              \/ /\ Cardinality(PendingIds) < MaxPending
                 /\ \/ outcome'[s] = "host_replaced"
                    \/ pending'[s] # 0
<1> DEFINE e == [id |-> s, generation |-> h.generation, grant |-> h.grant]
           q == Append(queue, e)
           p == [pending EXCEPT ![s] = h.generation]
           o == [outcome EXCEPT ![s] = "waiting"]
<1>1. /\ outcome \in [Requests -> Outcomes]
      /\ pending \in [Requests -> Nat]
  BY DEF IndInv, TypeOK
<1>2. h.generation # 0
  BY DEF Host
<1>3. CASE Settle(s, "rejected") /\ UNCHANGED pending
  BY <1>1, <1>3 DEF Settle
<1>4. CASE Cardinality(PendingIds) < MaxPending /\ pending' = p /\ outcome' = o
  BY <1>1, <1>2, <1>4
<1>5. ASSUME Cardinality(PendingIds) < MaxPending, waitingPoll # NoHost,
             NEW n, n = 1, Shift(q, n, waitingPoll.generation, p, o)
      PROVE  /\ \A r \in Requests \ {s} : /\ pending'[r] = pending[r]
                                          /\ outcome'[r] = outcome[r]
             /\ outcome'[s] = "host_replaced" \/ pending'[s] # 0
  <2>1. queue = << >>
    BY <1>5 DEF IndInv, ParkedPollIsCurrent
  <2>2. q[1].id = s
    BY <2>1
  <2> DEFINE D == Dropped(q, n, waitingPoll.generation, p)
  <2>3. D \subseteq {s}
    BY <1>5, <2>2 DEF Dropped
  <2>4. \A r \in Requests :
           /\ pending'[r] = IF r \in D THEN 0 ELSE p[r]
           /\ outcome'[r] = IF r \in D THEN "host_replaced" ELSE o[r]
    BY <1>5 DEF Shift
  <2> HIDE DEF D, q
  <2> QED
    BY <1>1, <1>2, <2>3, <2>4
<1>6. waitingPoll # NoHost => Len(q) = 1
  BY DEF IndInv, ParkedPollIsCurrent
<1>7. CASE /\ Cardinality(PendingIds) < MaxPending /\ waitingPoll # NoHost
           /\ \E i \in 1..Len(q) : Hand(q, i, p, o, waitingPoll)
  <2>1. Hand(q, 1, p, o, waitingPoll)
    BY <1>6, <1>7
  <2> QED
    BY <1>5, <1>7, <2>1 DEF Hand
<1>8. CASE /\ Cardinality(PendingIds) < MaxPending /\ waitingPoll # NoHost
           /\ Drain(q, p, o, waitingPoll)
  <2>1. Shift(q, 1, waitingPoll.generation, p, o)
    BY <1>6, <1>8 DEF Drain
  <2> QED
    BY <1>5, <1>8, <2>1
<1> QED
  BY <1>3, <1>4, <1>7, <1>8 DEF Enqueue, Push, memory

\* A take from the queue ends calls or leaves them alone.
LEMMA TakeEffect ==
    ASSUME NEW n, NEW g, Shift(queue, n, g, pending, outcome),
           NEW r \in Requests
    PROVE  \/ pending'[r] = pending[r] /\ outcome'[r] = outcome[r]
           \/ pending'[r] = 0 /\ outcome'[r] = "host_replaced"
  BY DEF Shift

\* The steps at which a new call is enqueued.
Enqueues(s, h) == /\ Enqueue(s, h)
                  /\ Untouched(s)
                  /\ outcome[s] \in {"none", "waiting"}

\* What one step may do to a call that waits or comes to wait.
LEMMA NextArmed ==
    ASSUME IndInv, Next, NEW r \in Requests, Armed(r)
    PROVE  Armed(r)'
<1>1. ASSUME UNCHANGED <<pending, outcome, handlers>>
      PROVE  Armed(r)'
  BY <1>1 DEF Armed, Asking
<1>2. ASSUME outcome'[r] # "waiting"
      PROVE  Armed(r)'
  BY <1>2 DEF Armed
<1>3. ASSUME outcome'[r] = outcome[r], pending'[r] = pending[r],
             \A c \in handlers : GrantHandler(c) /\ c.id = r => c \in handlers'
      PROVE  Armed(r)'
  BY <1>3 DEF Armed, Asking
<1>4. ASSUME NEW result \in Failures, DropAll(result),
             \A c \in handlers : GrantHandler(c) => c \in handlers'
      PROVE  Armed(r)'
  <2>1. \/ outcome'[r] = result
        \/ outcome'[r] = outcome[r] /\ pending[r] = 0 /\ pending'[r] = 0
    BY <1>4 DEF DropAll, PendingIds
  <2>2. result # "waiting"
    BY DEF Failures
  <2> QED
    BY <1>2, <1>3, <1>4, <2>1, <2>2
<1>5. ASSUME NEW s \in Requests, NEW h \in Host, Enqueues(s, h),
             \A c \in handlers : GrantHandler(c) /\ c.id # s => c \in handlers'
      PROVE  Armed(r)'
  <2>1. \A t \in Requests \ {s} : /\ pending'[t] = pending[t]
                                  /\ outcome'[t] = outcome[t]
    BY <1>5, EnqueueEffect DEF Enqueues
  <2>2. \/ outcome'[s] = "rejected" \/ outcome'[s] = "host_replaced"
        \/ pending'[s] # 0
    BY <1>5, EnqueueEffect DEF Enqueues
  <2> QED
    BY <1>3, <1>5, <2>1, <2>2 DEF Armed
<1> USE FailureNames
<1>6. CASE HostCall
  <2>1. ASSUME NEW gr \in 0..grant, ConnectRefused(gr)
        PROVE  Armed(r)'
    BY <1>1, <2>1 DEF ConnectRefused, memory
  <2>2. ASSUME NEW gr \in 0..grant, NEW i \in Instances,
               ConnectAccepted(i, gr)
        PROVE  Armed(r)'
    BY <1>4, <2>2 DEF ConnectAccepted
  <2>3. ASSUME NEW h \in issued, NEW gr \in 0..grant,
               NEW op \in {"poll", "heartbeat"}, Poll(h, gr, op)
        PROVE  Armed(r)'
    BY <1>3, <2>3 DEF Poll, memory
  <2>4. ASSUME NEW h \in issued, NEW gr \in 0..grant, NEW s \in Requests,
               Respond(h, gr, s)
        PROVE  Armed(r)'
    <3>1. \/ outcome'[r] = "answered"
          \/ outcome'[r] = outcome[r] /\ pending'[r] = pending[r]
      BY <2>4 DEF Respond, IndInv, TypeOK
    <3>2. handlers \subseteq handlers'
      BY <2>4 DEF Respond
    <3> QED
      BY <1>2, <1>3, <3>1, <3>2
  <2>5. ASSUME NEW h \in issued, NEW gr \in 0..grant, Disconnect(h, gr)
        PROVE  Armed(r)'
    BY <1>4, <2>5 DEF Disconnect, ClearHost
  <2>6. ASSUME NEW n \in 1..grant, Fence(n)
        PROVE  Armed(r)'
    BY <1>4, <2>6 DEF Fence, ClearHost
  <2> QED
    BY <1>6, <2>1, <2>2, <2>3, <2>4, <2>5, <2>6 DEF HostCall
<1>7. CASE Resume
  <2> PICK c \in handlers : \/ ConnectDone(c.host)
                            \/ PollDone(c.host)
                            \/ HeartbeatDone(c.host)
                            \/ RespondDone(c.host)
                            \/ RegistryFailed(c)
                            \/ GrantRead(c)
                            \/ DispatchResumed(c)
                            \/ DispatchDisallowed(c)
    BY <1>7 DEF Resume
  <2>1. c.host \in Host
    BY HandlerTypes DEF IndInv
  <2>2. CASE \/ ConnectDone(c.host) \/ HeartbeatDone(c.host)
             \/ RespondDone(c.host)
    <3>1. \A b \in handlers : GrantHandler(b) => b \in handlers'
      BY <2>2 DEF ConnectDone, HeartbeatDone, RespondDone, GrantHandler
    <3> QED
      BY <1>3, <2>2, <3>1 DEF ConnectDone, HeartbeatDone, RespondDone, memory
  <2>3. CASE PollDone(c.host)
    <3>1. \A b \in handlers : GrantHandler(b) => b \in handlers'
      BY <2>3 DEF PollDone, GrantHandler
    <3>2. \/ pending'[r] = pending[r] /\ outcome'[r] = outcome[r]
          \/ pending'[r] = 0 /\ outcome'[r] = "host_replaced"
      BY <2>3, TakeEffect DEF PollDone, Hand, Drain, memory
    <3> QED
      BY <1>2, <1>3, <3>1, <3>2
  <2>4. CASE RegistryFailed(c)
    <3>1. \A b \in handlers : GrantHandler(b) => b \in handlers'
      BY <2>4 DEF RegistryFailed, GrantHandler
    <3> QED
      BY <1>3, <1>4, <2>4, <3>1 DEF RegistryFailed, ClearHost, memory
  <2>5. CASE GrantRead(c)
    <3>1. c.id \in Requests /\ GrantHandler(c)
      BY <2>5, HandlerTypes DEF GrantRead, GrantHandler, IndInv
    <3>2. CASE r = c.id /\ handlers' = (handlers \ {c})
                                  \cup {[c EXCEPT !.op = "grant_ok"]}
      <4>1. PICK b \in handlers' : b = [c EXCEPT !.op = "grant_ok"]
        BY <3>2
      <4>2. b.op = "grant_ok" /\ b.id = c.id
        BY <3>1, <4>1 DEF IndInv, TypeOK, Handler, GrantHandler
      <4> QED
        BY <3>2, <4>2 DEF Armed, Asking, GrantHandler
    <3>3. CASE r = c.id /\ Settle(c.id, "rejected")
      BY <1>2, <3>3 DEF Settle, IndInv, TypeOK
    <3>4. CASE r # c.id
      <4>1. outcome'[r] = outcome[r] /\ pending'[r] = pending[r]
        BY <2>5, <3>4 DEF GrantRead, Settle, memory, IndInv, TypeOK
      <4>2. \A b \in handlers : b.id = r => b \in handlers'
        BY <2>5, <3>4 DEF GrantRead
      <4> QED
        BY <1>3, <4>1, <4>2
    <3> QED
      BY <2>5, <3>2, <3>3, <3>4 DEF GrantRead
  <2>6. CASE DispatchDisallowed(c)
    <3>1. CASE r = c.id
      BY <1>2, <2>6, <3>1 DEF DispatchDisallowed, Settle, IndInv, TypeOK
    <3>2. CASE r # c.id
      <4>1. outcome'[r] = outcome[r] /\ pending'[r] = pending[r]
        BY <2>6, <3>2 DEF DispatchDisallowed, Settle, memory, IndInv, TypeOK
      <4>2. \A b \in handlers : b.id = r => b \in handlers'
        BY <2>6, <3>2 DEF DispatchDisallowed
      <4> QED
        BY <1>3, <4>1, <4>2
    <3> QED
      BY <3>1, <3>2
  <2>7. CASE DispatchResumed(c)
    <3>1. GrantHandler(c) /\ c.id \in Requests
      BY <2>7, HandlerTypes DEF DispatchResumed, GrantHandler, IndInv
    <3>2. Enqueues(c.id, c.host)
      BY <2>7, <3>1 DEF DispatchResumed, Enqueues, IndInv, AskingIsUntouched
    <3>3. \A b \in handlers : b.id # c.id => b \in handlers'
      BY <2>7 DEF DispatchResumed
    <3> QED
      BY <1>5, <2>1, <3>1, <3>2, <3>3
  <2> QED
    BY <2>2, <2>3, <2>4, <2>5, <2>6, <2>7
<1>8. CASE Dispatch
  <2> PICK s \in Requests : \/ DispatchOffline(s)
                            \/ DispatchExpired(s)
                            \/ DispatchRefused(s)
                            \/ DispatchLegacy(s)
                            \/ DispatchBrowser(s)
    BY <1>8 DEF Dispatch
  <2>1. CASE DispatchOffline(s) \/ DispatchRefused(s)
    <3>1. /\ UNCHANGED <<pending, handlers>>
          /\ outcome'[r] = outcome[r] \/ outcome'[r] = "rejected"
      BY <2>1 DEF DispatchOffline, DispatchRefused, Settle, memory, IndInv,
                  TypeOK
    <3> QED
      BY <1>2, <1>3, <3>1
  <2>2. CASE DispatchExpired(s)
    <3>1. \/ outcome'[r] \in {"rejected", "host_cleared"}
          \/ outcome'[r] = outcome[r] /\ pending[r] = 0 /\ pending'[r] = 0
      BY <2>2 DEF DispatchExpired, PendingIds
    <3>2. UNCHANGED handlers
      BY <2>2 DEF DispatchExpired
    <3> QED
      BY <1>2, <1>3, <3>1, <3>2
  <2>3. CASE DispatchLegacy(s)
    <3>1. PICK h \in Host : h = host
      BY <2>3 DEF DispatchLegacy, IndInv, TypeOK
    <3>2. Enqueues(s, h)
      BY <2>3, <3>1 DEF DispatchLegacy, Enqueues, Enqueue, Push, IndInv,
                        NewIsUntouched
    <3>3. UNCHANGED handlers
      BY <2>3 DEF DispatchLegacy
    <3> QED
      BY <1>5, <3>2, <3>3
  <2>4. CASE DispatchBrowser(s)
    <3>1. CASE r = s
      <4>1. PICK c \in handlers' :
               c = [op |-> "grant_read", host |-> host, id |-> s]
        BY <2>4 DEF DispatchBrowser
      <4> QED
        BY <3>1, <4>1 DEF Armed, Asking, GrantHandler
    <3>2. CASE r # s
      BY <1>3, <2>4, <3>2 DEF DispatchBrowser, Settle, memory, IndInv, TypeOK
    <3> QED
      BY <3>1, <3>2
  <2> QED
    BY <2>1, <2>2, <2>3, <2>4
<1>9. CASE Timer
  <2>1. CASE PollTimeout \/ LeaseExpires
    BY <1>1, <2>1 DEF PollTimeout, LeaseExpires, memory
  <2>2. ASSUME NEW s \in Requests, RpcTimeout(s)
        PROVE  Armed(r)'
    <3>1. /\ UNCHANGED handlers
          /\ \/ outcome'[r] = outcome[r] /\ pending'[r] = pending[r]
             \/ outcome'[r] = "host_request_timeout"
      BY <2>2 DEF RpcTimeout, Settle, IndInv, TypeOK
    <3> QED
      BY <1>2, <1>3, <3>1
  <2> QED
    BY <1>9, <2>1, <2>2 DEF Timer
<1>10. CASE GrantCommitted \/ GrantActivated
  BY <1>1, <1>10 DEF GrantCommitted, GrantActivated, memory
<1>11. CASE Restart
  BY <1>2, <1>11 DEF Restart
<1> QED
  BY <1>6, <1>7, <1>8, <1>9, <1>10, <1>11 DEF Next

\* Nobody waits for an answer that no timer and no handler will bring.
THEOREM ArmedCorrect == Spec => []WaitingIsArmed
<1> DEFINE AllArmed == \A r \in Requests : Armed(r)
<1>1. Init => AllArmed
  BY DEF Init, Armed
<1>2. IndInv /\ AllArmed /\ [Next]_vars => AllArmed'
  <2> SUFFICES ASSUME IndInv, AllArmed, [Next]_vars, NEW r \in Requests
               PROVE  Armed(r)'
    OBVIOUS
  <2>1. CASE Next
    BY <2>1, NextArmed
  <2>2. CASE UNCHANGED vars
    BY <2>2 DEF vars, memory, Armed, Asking
  <2> QED
    BY <2>1, <2>2
<1>3. AllArmed => WaitingIsArmed
  BY DEF WaitingIsArmed, Armed, Asking, GrantHandler, PendingIds
<1> QED
  BY <1>1, <1>2, <1>3, Invariance, PTL DEF Spec

\* What a step may do to the number of pending calls.
AddsWithinLimit ==
    \/ PendingIds' \subseteq PendingIds
    \/ /\ Cardinality(PendingIds) < MaxPending
       /\ \E s \in Requests : PendingIds' \subseteq PendingIds \cup {s}

\* No step but an enqueue below the limit adds a call to pending, and that
\* one adds a single call.
LEMMA NextPending ==
    ASSUME IndInv, Next
    PROVE  AddsWithinLimit
<1>1. ASSUME \A r \in Requests : pending'[r] = pending[r] \/ pending'[r] = 0
      PROVE  AddsWithinLimit
  BY <1>1 DEF PendingIds, AddsWithinLimit
<1>2. ASSUME NEW s \in Requests, NEW h \in Host, Enqueue(s, h)
      PROVE  AddsWithinLimit
  <2>1. \A r \in Requests \ {s} : pending'[r] = pending[r]
    BY <1>2, EnqueueEffect
  <2>2. \/ pending'[s] = pending[s]
        \/ Cardinality(PendingIds) < MaxPending
    BY <1>2, EnqueueEffect
  <2> QED
    BY <2>1, <2>2 DEF PendingIds, AddsWithinLimit
<1>3. ASSUME NEW result, DropAll(result)
      PROVE  AddsWithinLimit
  BY <1>1, <1>3 DEF DropAll
<1>4. CASE HostCall
  <2>1. ASSUME NEW gr \in 0..grant, ConnectRefused(gr)
        PROVE  AddsWithinLimit
    BY <1>1, <2>1 DEF ConnectRefused, memory
  <2>2. ASSUME NEW gr \in 0..grant, NEW i \in Instances,
               ConnectAccepted(i, gr)
        PROVE  AddsWithinLimit
    BY <1>3, <2>2 DEF ConnectAccepted
  <2>3. ASSUME NEW h \in issued, NEW gr \in 0..grant,
               NEW op \in {"poll", "heartbeat"}, Poll(h, gr, op)
        PROVE  AddsWithinLimit
    BY <1>1, <2>3 DEF Poll, memory
  <2>4. ASSUME NEW h \in issued, NEW gr \in 0..grant, NEW s \in Requests,
               Respond(h, gr, s)
        PROVE  AddsWithinLimit
    BY <1>1, <2>4 DEF Respond, IndInv, TypeOK
  <2>5. ASSUME NEW h \in issued, NEW gr \in 0..grant, Disconnect(h, gr)
        PROVE  AddsWithinLimit
    BY <1>3, <2>5 DEF Disconnect, ClearHost
  <2>6. ASSUME NEW n \in 1..grant, Fence(n)
        PROVE  AddsWithinLimit
    BY <1>3, <2>6 DEF Fence, ClearHost
  <2> QED
    BY <1>4, <2>1, <2>2, <2>3, <2>4, <2>5, <2>6 DEF HostCall
<1>5. CASE Resume
  <2> PICK c \in handlers : \/ ConnectDone(c.host)
                            \/ PollDone(c.host)
                            \/ HeartbeatDone(c.host)
                            \/ RespondDone(c.host)
                            \/ RegistryFailed(c)
                            \/ GrantRead(c)
                            \/ DispatchResumed(c)
                            \/ DispatchDisallowed(c)
    BY <1>5 DEF Resume
  <2>1. CASE \/ ConnectDone(c.host) \/ HeartbeatDone(c.host)
             \/ RespondDone(c.host) \/ GrantRead(c) \/ DispatchDisallowed(c)
    BY <1>1, <2>1 DEF ConnectDone, HeartbeatDone, RespondDone, GrantRead,
                      DispatchDisallowed, memory
  <2>2. CASE PollDone(c.host)
    <3>1. \A r \in Requests : pending'[r] = pending[r] \/ pending'[r] = 0
      BY <2>2, TakeEffect DEF PollDone, Hand, Drain, memory
    <3> QED
      BY <1>1, <3>1
  <2>3. CASE RegistryFailed(c)
    BY <1>1, <1>3, <2>3 DEF RegistryFailed, ClearHost, memory
  <2>4. CASE DispatchResumed(c)
    <3>1. c.host \in Host /\ c.id \in Requests
      BY <2>4, HandlerTypes DEF DispatchResumed, GrantHandler, IndInv
    <3> QED
      BY <1>2, <2>4, <3>1 DEF DispatchResumed
  <2> QED
    BY <2>1, <2>2, <2>3, <2>4
<1>6. CASE Dispatch
  <2> PICK s \in Requests : \/ DispatchOffline(s)
                            \/ DispatchExpired(s)
                            \/ DispatchRefused(s)
                            \/ DispatchLegacy(s)
                            \/ DispatchBrowser(s)
    BY <1>6 DEF Dispatch
  <2>1. CASE \/ DispatchOffline(s) \/ DispatchRefused(s) \/ DispatchBrowser(s)
             \/ DispatchExpired(s)
    BY <1>1, <2>1 DEF DispatchOffline, DispatchRefused, DispatchBrowser,
                      DispatchExpired, memory
  <2>2. CASE DispatchLegacy(s)
    <3>1. PICK h \in Host : h = host
      BY <2>2 DEF DispatchLegacy, IndInv, TypeOK
    <3>2. Enqueue(s, h)
      BY <2>2, <3>1 DEF DispatchLegacy, Enqueue, Push
    <3> QED
      BY <1>2, <3>2
  <2> QED
    BY <2>1, <2>2
<1>7. CASE Timer
  <2>1. CASE PollTimeout \/ LeaseExpires
    BY <1>1, <2>1 DEF PollTimeout, LeaseExpires, memory
  <2>2. ASSUME NEW s \in Requests, RpcTimeout(s)
        PROVE  AddsWithinLimit
    BY <1>1, <2>2 DEF RpcTimeout, IndInv, TypeOK
  <2> QED
    BY <1>7, <2>1, <2>2 DEF Timer
<1>8. CASE GrantCommitted \/ GrantActivated \/ Restart
  BY <1>1, <1>8 DEF GrantCommitted, GrantActivated, Restart, memory
<1> QED
  BY <1>4, <1>5, <1>6, <1>7, <1>8 DEF Next

\* MAX_PENDING_HOST_REQUESTS holds for every limit and any set of callers.
THEOREM BoundCorrect == Spec => []PendingBounded
<1> DEFINE Bounded == IsFiniteSet(PendingIds) /\ PendingBounded
<1>1. Init => Bounded
  <2> SUFFICES ASSUME Init PROVE Bounded
    OBVIOUS
  <2>1. PendingIds = {}
    BY DEF Init, PendingIds
  <2> QED
    BY <2>1, FS_EmptySet, BoundAssumption DEF PendingBounded
<1>2. IndInv /\ Bounded /\ [Next]_vars => Bounded'
  <2> SUFFICES ASSUME IndInv, Bounded, [Next]_vars
               PROVE  Bounded'
    OBVIOUS
  <2> DEFINE old == PendingIds
             new == PendingIds'
  <2>1. /\ IsFiniteSet(old) /\ Cardinality(old) \in Nat
        /\ Cardinality(old) <= MaxPending
    BY FS_CardinalityType DEF PendingBounded
  <2>2. ASSUME new \subseteq old
        PROVE  IsFiniteSet(new) /\ Cardinality(new) <= MaxPending
    <3>1. /\ IsFiniteSet(new) /\ Cardinality(new) \in Nat
          /\ Cardinality(new) <= Cardinality(old)
      BY <2>1, <2>2, FS_Subset, FS_CardinalityType
    <3> QED
      BY <2>1, <3>1, BoundAssumption
  <2>3. ASSUME Cardinality(old) < MaxPending, NEW s \in Requests,
               new \subseteq old \cup {s}
        PROVE  IsFiniteSet(new) /\ Cardinality(new) <= MaxPending
    <3>1. /\ IsFiniteSet(old \cup {s})
          /\ Cardinality(old \cup {s}) \in Nat
          /\ Cardinality(old \cup {s}) <= Cardinality(old) + 1
      BY <2>1, FS_AddElement, FS_CardinalityType
    <3>2. /\ IsFiniteSet(new) /\ Cardinality(new) \in Nat
          /\ Cardinality(new) <= Cardinality(old \cup {s})
      BY <2>3, <3>1, FS_Subset, FS_CardinalityType
    <3> QED
      BY <2>1, <2>3, <3>1, <3>2, BoundAssumption
  <2>4. CASE Next
    BY <2>2, <2>3, <2>4, NextPending DEF PendingBounded, AddsWithinLimit
  <2>5. CASE UNCHANGED vars
    <3>1. new = old
      BY <2>5 DEF vars, memory, PendingIds
    <3> QED
      BY <2>2, <3>1 DEF PendingBounded
  <2> QED
    BY <2>4, <2>5
<1>3. Bounded => PendingBounded
  OBVIOUS
<1> QED
  BY <1>1, <1>2, <1>3, Invariance, PTL DEF Spec

-----------------------------------------------------------------------------
(***************************************************************************)
(* Handlers that resume too late.                                          *)
(***************************************************************************)

\* What StaleHandlerHarmless asks of a step that ends handler c.
Harmless(c) ==
    host # NoHost /\ c.host # host =>
       /\ host' = host
       /\ \A r \in Requests :
             pending[r] = host.generation =>
                pending'[r] = pending[r] \/ outcome'[r] = "lost"

\* A handler ends in a step of its own or in a restart, and does no harm.
LEMMA NextHarmless ==
    ASSUME IndInv, Next, NEW c \in handlers \ handlers'
    PROVE  Harmless(c)
<1>1. CASE HostCall \/ Dispatch \/ Timer \/ GrantCommitted \/ GrantActivated
  <2>1. c \in handlers'
    BY <1>1
    DEF HostCall, ConnectRefused, ConnectAccepted, Poll, Respond, Disconnect,
        Fence, Dispatch, DispatchOffline, DispatchExpired, DispatchRefused,
        DispatchLegacy, DispatchBrowser, Timer, PollTimeout, LeaseExpires,
        RpcTimeout, GrantCommitted, GrantActivated
  <2> QED
    BY <2>1
<1>2. CASE Restart
  <2>1. \A r \in Requests : pending[r] # 0 => outcome'[r] = "lost"
    BY <1>2 DEF Restart, IndInv, PendingIsTargeted
  <2>2. host' = host /\ (host # NoHost => host.generation # 0)
    BY <1>2 DEF Restart, storage, IndInv, TypeOK, Host
  <2> QED
    BY <2>1, <2>2 DEF Harmless
<1>3. CASE Resume
  <2> PICK b \in handlers : \/ ConnectDone(b.host)
                            \/ PollDone(b.host)
                            \/ HeartbeatDone(b.host)
                            \/ RespondDone(b.host)
                            \/ RegistryFailed(b)
                            \/ GrantRead(b)
                            \/ DispatchResumed(b)
                            \/ DispatchDisallowed(b)
    BY <1>3 DEF Resume
  <2>1. c.host = b.host
    BY DEF ConnectDone, PollDone, HeartbeatDone, RespondDone, RegistryFailed,
           GrantRead, DispatchResumed, DispatchDisallowed
  <2>2. CASE \/ ConnectDone(b.host) \/ HeartbeatDone(b.host)
             \/ RespondDone(b.host) \/ GrantRead(b) \/ DispatchDisallowed(b)
    BY <2>2 DEF ConnectDone, HeartbeatDone, RespondDone, GrantRead,
                DispatchDisallowed, Harmless, storage, memory
  <2>3. CASE PollDone(b.host) \/ RegistryFailed(b)
    BY <2>1, <2>3 DEF PollDone, RegistryFailed, ClearHost, VerifyGeneration,
                      Harmless, storage, memory
  <2>4. CASE DispatchResumed(b)
    <3>1. b.host \in Host /\ b.id \in Requests /\ GrantHandler(b)
      BY <2>4, HandlerTypes DEF DispatchResumed, GrantHandler, IndInv
    <3>2. pending[b.id] = 0
      BY <3>1 DEF IndInv, AskingIsUntouched, Untouched
    <3>3. \A r \in Requests \ {b.id} : pending'[r] = pending[r]
      BY <2>4, <3>1, EnqueueEffect DEF DispatchResumed
    <3>4. host' = host /\ (host # NoHost => host.generation # 0)
      BY <2>4 DEF DispatchResumed, storage, IndInv, TypeOK, Host
    <3> QED
      BY <3>2, <3>3, <3>4 DEF Harmless
  <2> QED
    BY <2>2, <2>3, <2>4
<1> QED
  BY <1>1, <1>2, <1>3 DEF Next

\* Whatever a handler awaited, when it resumes for a registration that was
\* replaced it leaves the replacement and its calls alone.
THEOREM StaleHandlerCorrect == Spec => StaleHandlerHarmless
<1>1. IndInv /\ [Next]_vars =>
         [\A c \in handlers \ handlers' :
             host # NoHost /\ c.host # host =>
                /\ host' = host
                /\ \A r \in Requests :
                      pending[r] = host.generation =>
                         pending'[r] = pending[r] \/ outcome'[r] = "lost"]_vars
  BY NextHarmless DEF Harmless
<1> QED
  BY <1>1, Invariance, PTL DEF Spec, StaleHandlerHarmless
=============================================================================
