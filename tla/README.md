# Verification of temote-mcp

temote-mcp lets a remote MCP client use tools on a developer's machine (the
*Host*).  A Cloudflare worker (*Fabric*) is the public end; a *gateway agent* on
the Host connects to it, fetches tool calls by long polling, runs them against
the local supervisor and uploads the answers.  The supervisor keeps *sessions*,
each a runtime that it starts, stops and restarts; a session delegates *tasks* to
agent programs such as Codex, which run as child processes.  The Host's own
runtime can be upgraded through the same path, by a detached coordinator process.

This directory models the parts of that system whose correctness depends on the
order of events: what two processes, handlers or messages do to each other.  It
has seven state machines, one abstract specification that one of them is shown
to implement, the TLC configurations that check them, and TLAPS proofs, for every
value of the constants, of nearly all safety properties of the seven.

## Inventory

| Part | Source | State | Operations | Hard because |
|---|---|---|---|---|
| Host object `GatewaySession` | `fabric/src/routing-runtime.js` 592-1081 | durable: `generation`, `host`, `browser_authority`; memory: `pending`, `queue`, `waitingPoll` | connect, poll, respond, disconnect, fence, dispatch, status | handlers interleave at every await of another service; memory is lost on eviction; agents are late, duplicated or replaced |
| Registry object `GatewayRegistry` | same file, 1088-1229 | durable map of registrations | upsert, remove, list | its callers' messages overlap, fail halfway and arrive out of order |
| Gateway agent | `src/gateway.rs` | current registration, `JoinSet` of request tasks, admission flag | connect, poll, dispatch, upload, join, stop | tasks outlive the registration that accepted them; every message may be lost |
| Remote upgrade | `src/upgrade_transaction.rs`, `src/upgrade_coordinator.rs`, `session_control.rs` 3199-3294 | record files, two kinds of flock, a socket pair | apply, coordinator, local `upgrade` | several processes that may die between any two steps |
| Browser grants | `fabric/src/enrollment.js` | D1 grant rows, fence outbox | reserve, activate, cancel, revoke, update roots, sweep | compare-and-set statements retried after lost replies |
| Fabric events | `src/events_host.rs`, `src/events_sender.rs`, `fabric/src/events/` | outbox, delivery cursor | enqueue, deliver, ingest | retries of what was already delivered |
| Observation journal | `src/observation/`, `fabric/src/observation/` | append-only journal, acknowledged revision | append, sync, ingest | acknowledgement lost after the commit |
| Project memory | `fabric/src/memory/worker.js` | leased jobs in D1 | claim, renew, finish, sweep | an expired worker that still writes |
| Activity broker | `src/activity/` | bounded history, subscribers | publish, read, subscribe | cursors that fall off the end |
| Session supervisor | `src/supervisor.rs`, `src/approvals.rs` 814-1099, `src/session_control.rs` | handles, start specifications, pending restarts, lifecycle and metadata files, socket | start, stop, restart, policy, reap, scheduled restart | a reaper that does not take the lock the requests take; runtimes that crash at any step; clean-ups that fail |
| Codex tasks | `src/codex_app_server.rs` | task records with operation receipts, continuation claims, runtime registry, flock leases | start, get, steer, interrupt, resume, notifications, approvals | several processes on one store; children that answer late or never; retried operation ids |
| Codex instance lifecycle | `src/codex_app_server.rs` 126-310, 2472-2767 | closing entries, permits, registered children | admit, spawn, fence, drain, finalize, monitor | a check made before an await and used after it; drains that time out |
| Approvals, interactions | `src/approvals.rs`, `src/pending_interaction.rs` | pending decisions | ask, decide, expire | decision and expiry race |
| Tasks, orchestration | `src/orchestration/`, `src/local_tasks.rs`, `src/mcp_tasks.rs` | request ledger | admit, wait, cancel | retried operation ids |
| Other backends, worktrees, delivery, sandbox, CLI, dashboard, edge routing | the rest | — | — | third-party protocols, file systems, stateless code |

`PROJECT.json` lists every part with the reason why it is or is not modelled,
and under `hazards` what a test of this code would hardly reach, each at its
line and with the properties aimed at it.

How the modelled parts interact: a caller's `dispatch` on the host object puts
a call in `queue` and waits; the agent's `poll` takes it; the agent's task runs
it and calls `respond`, which wakes the caller.  `connect` gives the agent a new
*generation*; everything the agent later sends carries it, and the host object
refuses anything that does not match its stored registration.  Each successful
`connect`, `poll` and `respond` renews a lease and tells the registry.  D1
decides whether a browser grant still holds, and its outbox asks the host object
to fence registrations of older grants.  On the Host, the end of a session's
runtime makes its join task, the supervisor's reaper or a stop request clean up
the session's agents: the Codex registry fences the instance, waits for the
operations it admitted, ends the children and gives their unfinished tasks a final
status.  A task's record outlives all of that; another process may take the
conversation up once the child's lease is free.

## Modules

| Module | What it is |
|---|---|
| `RpcOnce` | abstract: a call is handed to at most one registration, answered only after that, and final once it returned |
| `GatewaySession` | the host object; implements `RpcOnce` |
| `GatewayRegistry` | the registry and the calls several host objects make to it |
| `GatewayAgent` | the agent, with the gateway reduced to what `GatewaySession` guarantees |
| `UpgradeTransaction` | upgrade calls, coordinators and the local upgrade command |
| `SessionSupervisor` | one managed session: requests, reaper, scheduled restarts, runtime and join task |
| `CodexTask` | task records, their operations and the children that serve them |
| `CodexLifecycle` | the fence around one session's Codex operations and children |
| `MC…` | finite sets and symmetry for TLC |
| `…Proofs` | theorems and proofs |

Definitions named in a comment as "Defect" (and the ones next to the definition
they vary) are deliberately wrong versions of the definition after them.  No
specification uses them; substituting one must make the property it is listed
with fail, which shows that the property depends on that line of the code.

### GatewaySession

A Durable Object runs one event at a time, and while it waits for its own
storage no other event is delivered.  It does let other events in while it
waits for another service.  So a handler is one action up to such a wait; it is
then a member of `handlers`, together with what it had already read, and
continues in a second action.  Those waits are the registry call in connect,
poll and respond, and the D1 read in dispatch.

- `generation`, `host`, `marker` are the storage keys `generation`, `host`,
  `browser_authority`; `lease` is `host.expires_at > Date.now()`.
- `pending`, `queue`, `waitingPoll` are the fields of those names.  A timer is
  not a variable: a pending call has an armed timer by construction of the
  code, so `RpcTimeout` is enabled exactly for pending calls.
- `grant` and `active` are what D1 holds for this Host.  A registration's
  `grant` is 0 for the legacy authentication mode.  One owner is modelled.
- `issued` holds every registration the object ever returned.  Any of them may
  poll, respond or disconnect at any time, so agents that are late, replaced or
  duplicated need no model of their own.  `target`, `delivered` and
  `answeredBy` are history for the properties; no guard reads them except that
  an agent process responds only to request ids it was handed (they are random
  UUIDs).
- A call that an early return rejects without a change of state is a stuttering
  step; `ConnectRefused` is an action because it may persist the marker.
- Payload checks (`browserDispatchAllowed`, session bindings, JSON-RPC shape)
  are a free choice between acceptance and refusal.  A registration stored by
  an older release without the marker is not an initial state.

### GatewayRegistry

A host object is its registration and the registry calls its handlers wait for.
A call is delivered at any time, its reply acted on at any later time; `Fails`
covers a request lost before or after it was applied and `Abandon` leaves
messages whose sender is gone on their way.  Time is a counter, because
`shouldReplaceRegistrySession` compares leases.  One collection (`hosts`) is
modelled; `sessions` is handled by the same code.  The history variable `left` has
the time at which a host object gave up each of its generations.

### GatewayAgent

`poll` is where `run_concurrent_generation` is: about to poll, in an accepting
or heartbeat poll, holding an answer, or resting.  Each request has a task with
its own stage.  `admission` is the set of generations whose flag is up.  Every
exchange may be lost in either direction: a lost request or reply of a poll is
`PollIdle`, of an upload `UploadLost` (which may or may not have been applied),
of a connect `Replace`.  A panic carries no generation and so retires the
present one even if retired work panicked; `RetiredIsHarmless` says what the
code promises, which excludes that case.

### UpgradeTransaction

A transaction is named by the call that creates it.  The program counters
`apply` and `child` are the call and its coordinator; `stream` is the socket
between them.  `lock` and `admission` are flocks: they fall when their holder
ends or is killed.  Record files are replaced by rename, so reading or writing
one is one step.  `load_transactions` reads the records one after the other;
one step is enough because the reader holds the admission lock and at most one
record is active (`OneActive`), so only one record can change while it reads.
The scan, which uses what it loaded later on, is split: load, probe, write.

### SessionSupervisor

One session.  A *driver* is a control flow in the supervisor process: a request
(start, stop, restart, policy) or a pass of the reaper on the maintenance tick;
its `pc` names the await it stands at and `copy` what it has loaded from the
lifecycle file and will write back.  `run[n]` is the runtime of instance `n` up to
the end of its join task; `life` and `meta` are the lifecycle and metadata files,
`sock` the instance that answers on the socket, `closing` the fences on agents,
which are keyed by the instance or by a process id of 0, as in the code.  `lock`
is the transition lock, which requests hold and the reaper does not.

Requests hold the transition lock of the session.  The maintenance tick and the first
line of every control connection call `reap_finished` without it, and views take no
lock at all, so all of them overlap each other, the runtimes, their join tasks and the
death of the supervisor.  A read and the write that depends on it are separate steps wherever the code
awaits between them; what is joined into one step is a fence (synchronous) with the
save or probe that follows it, the removal of a specification with the read of the
metadata to clean up after (`Cancel`), and the two reads of `set_restart_policy` (the
lifecycle and the kept specification, `Body`).  A scheduled restart is due (`Due`) or not yet (`NotDue`)
at any pass, because the backoff is a matter of time.  An instance is `<<n, TRUE>>`; when it has ended its
metadata have process id 0, which the code takes for another instance, `<<n, FALSE>>`.
The history variables are `origin` (who started each instance of this process) and
`stopped` (a stop was granted and no start followed).  Not modelled: the upgrade's
quiesce and rollback, shutdown of the supervisor, forget and garbage collection,
failing saves, limits on sessions and several sessions at once.

Much that one would like to say of this component is false, because the callers
overlap.  One case contradicts `docs/managed-sessions.md` outright and is the run
`supervisor_stop`.  The others, each found by TLC on this model:

- A pass that listed a finished handle removes "the handle of this id" later
  (`supervisor.rs:3983-3996`).  If a request has replaced the runtime in between, the
  pass fences the successor (the symptom is noted in `docs/dogfood-20260927.md:24`) and
  waits for it, and with the pass the loop that accepts control connections
  (`session_control.rs:1094-1096`), for as long as that session lives.
- A policy change that read the lifecycle before the join task recorded the crash puts
  its copy back (`supervisor.rs:3174-3188`).  The restart is still scheduled but
  `restart_due_sessions` passes over a session whose status is not crashed, for good,
  so a crash under on-failure may never be followed by a restart.
- `start_resolved` keeps the handle and, after another await, the specification
  (`supervisor.rs:2840-2841`).  If the runtime is reaped in between, the session is down
  as crashed with a specification; a change to on-failure then schedules a restart
  without counting it (`supervisor.rs:3181-3186`), one more than
  `MAX_AUTOMATIC_RESTARTS` allows.  Views and reapers that write back a count they read
  earlier have the same effect.
- An up session may be unreachable, because the join task of its predecessor removes
  the socket path, whatever it names by then (`approvals.rs:1091`).
- A stale crashed status in the file makes `shutdown` wait, with the transition lock
  held, for a runtime that was never told to stop (`approvals.rs:843`).
- After a failed clean-up the entry with the full identity is not released by later
  clean-ups, which use the other key, so restarts are refused until the attempts run
  out.

What does hold under every overlap is what `session_supervisor` checks and
`SessionSupervisorProofs` proves.

### CodexTask

An operation is a start of a task or a control of one; `Ops` are its operation
ids.  A task's record has its status, the thread and turn it is bound to, the
receipts of its operations (bounded by `MaxHistory`, older ones compacted to
tombstones) and the continuation claim.  Store updates are serialized by a file
lock and written by rename, so each is one action; a continuation saves two
records and may be torn (`StartTorn`).  `call` is the tool call each handler of a
process has under way, with the program counter of `task_start`, `task_get` or a
control and what it has read.  `reg` is the registered runtime and its child per
process and task, `wire` the request on a child's stdin, `turns` and `news` the
app-server's threads and unread notifications; the history variables `begun` and
`served` count how often a request took effect.  A child
may serve a request and die before the reply, a reply may be lost to
`RPC_TIMEOUT`, notifications come in any order with replies, and a process may die
at any point (`Crash`), which ends its children and frees its leases.

Left out: retention, generations, reports and usage, several approvals of one
task at once, the branches of a process that is shutting down.  A consequence of
the code that the model shows: a `turn/completed` that is applied before the reply
to `turn/start` leaves the start's receipt accepted, since
`apply_turn_start_response` returns on a terminal record, and a continuation of
that task is refused as not quiescent.

### CodexLifecycle

The fence itself: an operation checks the closing entry, reads the metadata,
probes the instance and is admitted, each an action because an await or another
thread may come between; it re-verifies at every store update and child request.
Against it run the stop (`StopAsked`, `End`, `Fence`, `Shut`, `Drain`, `Finalize`,
`Finish`), the replacement of the instance (`Replace`) and the monitor of each
registered child, in the process of the session and in another one.  Drains may
time out `MaxTimeouts` times.  Left out: a failing metadata save at the join,
death of the other process, controls and `task_get` as operations of their own
(they are admitted by the same function).

Seen while modelling, with no harm to the properties: between probe and admission
the whole clean-up may finish, and the admission then creates an open entry for an
instance that is gone; re-verification stops the operation before it has a child,
but while the entry lasts `ensure_session_replacement_allowed` refuses a start.
`docs/usage.md:175` says that three consecutive unknown observations stop the
runtime; `SessionStopMonitor::observe` never stops on unknown ones.

## Runs

| Run | Checks | States | Bounds, and why they are enough |
|---|---|---|---|
| `gateway_session` | `QueueIsAwaited`, `HandedToTarget`, `AnsweredByOwner`, `ParkedPollIsCurrent`, `WaitingIsArmed`, `StaleHandlerHarmless`, `ImplementsRpcOnce` | 0.94 M | two calls, two processes, two generations, two grants: one call can overtake the other, a registration can be replaced by the same or another process with a newer, older or no grant |
| `gateway_session_live` | `PendingBounded`, `EveryCallReturns` | 0.33 M | limit 1, so that two dispatches compete for the last slot |
| `gateway_registry` | `AckedIsListed`, `NeverAhead`, `GoneWithinLease` | 1.21 M | two hosts for one slot, two calls under way plus one orphan, two generations; leases of one tick over two, so that an entry listed late expires within the run |
| `gateway_agent` | `ExecutedOnce`, `AnsweredWasExecuted`, `WorkBounded`, `RetiredIsHarmless`, `KeepsPolling`, `UploadEnds` | 71 k | two requests for one slot, so that one endless task saturates the agent; offers below, at and above the limit, two generations, two upload attempts |
| `upgrade` | `OneActive`, `OneDestructive`, `CommitAuthorized`, `RecordIsCopy`, `ActiveIsNewest`, `AdmissionIsReleased`, `CoordinatorEnds` | 0.2 M | two calls, one of which scans while the other's coordinator ends, and the local command |
| `upgrade_final` | `TerminalIsFinal` (violated) | — | two calls |
| `session_supervisor` | `HandleOnce`, `RestartFollowsCrash`, `OnlyLiveRuntimesBlock`, `FinishedIsReaped` | 135 k | a pass, a request and a view that overlap, two requests of any kind, three instances, one automatic restart before the limit, two views that may write a stale crash, one failed clean-up, one death of the supervisor: a pass can meet the successor of the runtime it listed, a stop a session wrongly down as crashed, a policy change a session left by a dead supervisor; a third request beside a pending restart is left to the proofs of the first two, which need no bound |
| `supervisor_stop` | `StopIsFinal` (violated) | — | start, policy change and stop beside a pass |
| `codex_task` | `AtMostOnce`, `OneDriver`, `ClaimedStandsStill`, `TerminalStays` | 0.71 M | two processes with a handler each, a task and one that continues it, a steer: enough for two drivers and for a claim that a steer races |
| `codex_control` | `AtMostOnce`, `TerminalIsQuiet` | 0.54 M | one process with two handlers, interrupt and resume, approvals, both outcomes, a history of one receipt so that the other is compacted |
| `codex_fence` | `PredecessorFenced` (violated) | — | one task, one steer, two handlers |
| `codex_lifecycle` | `CleanedIsQuiet`, `RegisteredIsKnown`, `ChildrenEnd` | 0.29 M | two starts in two processes, an instance and its replacement, one drain that times out |

Each module also has a type invariant `TypeOK`; it is proved for every module.
Deadlock is checked except for the agent, which may stop for good, and
for the supervisor and Codex modules, where everything asked for may be done and
nothing is left to happen.  Symmetry is used only in runs without liveness
properties.

### What `upgrade_final` shows

The documentation of `UpgradeTransactionState` says "Terminal states never
transition" (`src/upgrade_transaction.rs:81`).  `prepare_apply` loads all
records (`src/upgrade_coordinator.rs:131`), and only then asks for each PREPARED
one whether it has an owner.  The owner may finish in between, writing its
outcome and releasing its lock; the probe finds no owner, and the scan writes
its PREPARED copy, marked failed, over the outcome.  A completed upgrade is then
reported as failed.  The other upgrade properties hold nevertheless: the scan
never touches the record of a coordinator that still runs, and never lets a
second transaction start beside one.  Reading the record again after the probe,
while holding its lock, would close the window.

### What `supervisor_stop` shows

"graceful stop never restarts" (`docs/managed-sessions.md:122`).  A crashed session
with policy on-failure is due for a restart.  The maintenance tick
(`session_control.rs:1094`) calls `reap_finished`, whose `restart_due_sessions`
removes the pending restart and goes on to `start_resolved`; neither takes the
transition lock.  A stop holds the lock but finds no handle: it removes the start
specification, cancels the restart, finds nothing to shut down and writes
"stopped", while the runtime comes up.  Taking the session's transition lock around
the reaper's work on it, or checking the specification again after the start, would
close the window.

### What `codex_fence` shows

"The new turn gets a fresh generation and turn ID; the predecessor is fenced
during reconciliation" (`docs/backend-capabilities.md:17`).  `task_get` reads the
thread from the child, which ends with a finished turn, and applies what it derived
in a later update (`codex_app_server.rs:4692`).  A steer accepted in between has
reopened the record; the update only asks whether the record is terminal, which it
is not, and gives it the predecessor's outcome while the new turn runs.  Comparing the turn
id or the revision that the read started from would close the window.

### Fairness

- `GatewaySession`: timers fire and D1 answers (or its request fails).  No agent
  is assumed to poll or respond, and the registry need not answer.
- `GatewayAgent`: the loop runs, every HTTP exchange ends in a reply or a
  timeout, tasks that finished are joined while a generation runs.  No local
  execution has to end and the gateway need not do anything.
- `UpgradeTransaction`: a process that is alive takes its next step.  Every wait
  in it is bounded: the flocks are non-blocking and both socket reads have 30 s
  timeouts.  No call has to begin and no decision has to be sent.
- `SessionSupervisor`: join tasks, drivers and views take their next step, the
  maintenance interval ticks and the lifecycle lock is granted to one who polls for it.
  No request has to be made, no scheduled restart has to become due and no runtime has
  to end by itself.
- `CodexLifecycle`: operations, monitors and the clean-up take their next step
  (every request to a child and every drain has a timeout).  No stop has to be
  asked for.
- `CodexTask` states none: its properties are safety properties.

## Proofs

Each proof module states an inductive invariant (`IndInv`; for the supervisor `StartInv`,
`HandInv` and `RestartInv`, for the registry also `LateInv`), proves that it holds
initially and that each action preserves it (one lemma per action or group of
actions), and derives the properties; an action property follows from the
invariant and a lemma about the step.  The theorems include `TypeOK`, `StartsAdmitted`,
`RecordsBounded` and `OnlyJoinEvicts`, which the runs do not repeat.  TLC checked each of them first.  The
proofs use only the named assumptions on the constants: special values such as
`NoHost` and `None` are not ordinary ones, bounds are natural numbers, sets that are
counted are finite, an operation is a start or a control of a task, and no task
continues itself.

**GatewaySessionProofs**: `TypeCorrect`, `QueueCorrect`, `TargetCorrect`,
`OwnerCorrect`, `WakeupCorrect`, `Refinement`.  A response is looked up by
request id only, so `AnsweredByOwner` is not inductive: one has to know that a
pending call that was handed out was handed to the registration *now* stored
(`HandedIsCurrent`), which holds because connect and clear drop every pending
call (`DropAll`).  That in turn rests on generations never being repeated
(`KnownOnce`: everything ever issued, stored or suspended with the same
generation is the same registration), and on calls not yet dispatched being
untouched (`NewIsUntouched`, `AskingIsUntouched`).  `PendingIsTargeted` connects
the generation under which a call is pending with the registration its caller
was checked against.  `Refinement` uses the same invariant: every step maps to a
step of `RpcOnce` or leaves it unchanged.  `ArmedCorrect` adds to the invariant that
a waiting call is pending or being looked up in D1 (`Armed`); what an enqueue and a
hand-over do to the other calls (`EnqueueEffect`, `TakeEffect`) are lemmas of their
own, which `BoundCorrect` uses too: the count and the insertion are one step, so the
set of pending calls, finite because it grows by one call at a time, stays within
the limit.  `StaleHandlerCorrect` goes through the second halves of the handlers:
each compares the registration it was called for with the stored one before it
writes.

**GatewayRegistryProofs**: `TypeCorrect`, `ListingCorrect`, `NeverAheadCorrect`,
`GoneCorrect`.  The registry sees only messages, so the invariant bounds what may be
under way (`MessagesSound`): nothing is of a generation the host object has not
issued, an upsert for the present registration has no later lease than it, and no
remove is for the present registration, because the object gives a registration up
before it sends the remove and never takes the generation again.  Entries obey the
same bounds (`EntriesSound`); therefore an upsert of the present registration
prevails, and a positive reply means that it is listed (`ReplyTells`).  For
`GoneCorrect` the invariant `LateInv` carries the same bound through everything that
may still be applied: an entry or an upsert of a registration that was given up at a
time has no lease beyond that time plus one lease, because an upsert carries the lease
of the moment it was sent, when the host still held the registration; a remove cannot
be relied on, since a late upsert may undo it.

**GatewayAgentProofs**: `TypeCorrect`, `WorkCorrect`, `OnceCorrect`,
`AnswerCorrect`, `AdmissionCorrect`.  `ExecutedOnce` needs that a request whose
call was never handed out has no task (`Fresh`), that the envelope of the poll
under way has none yet (`OneTask`) and that the stage of a task tells whether it
was executed (`StageTells`).  `WorkBounded` needs `PollHasRoom`: from the start of
an accepting poll until its request is spawned the `JoinSet` does not grow, so
the room that was seen is still there.  `StartsAdmitted` rests on `OneAdmission`:
only the running generation's flag is up.  `RetiredCorrect`: joining a task tears
down the generation it was spawned for only if that is the one that runs.

**UpgradeTransactionProofs**: `TypeCorrect`, `OneActiveCorrect`,
`OneDestructiveCorrect`, `CommitCorrect`, `RecordCorrect`, `NewestCorrect`,
`BoundCorrect`.  The argument is who may write a record when.  Between admission
and READY the caller holds the admission lock (`AdmissionHeld`), so nobody else
starts; after READY the coordinator holds the record's own lock (`LockIsOwned`),
so a scan does not take the record for abandoned.  `StreamAgrees` ties the two
through the socket: a coordinator that has been told COMMIT belongs to a call that
is past its decision.  `ScanIsSafe` is the delicate part: a record on a scan's list
that the scan may overwrite has no coordinator that could still become the
running one — its call is gone, so the socket is closed and READY or COMMIT can
no longer pass.  `StartsAlone`, `SequenceIsFresh` and `RoomForRecord` say that what
the second load decided is still true when the new record is written.

**CodexLifecycleProofs**: `TypeCorrect`, `CleanupCorrect`, `RegistryCorrect`.  A
clean-up finishes only when no lease of the instance is held, and an operation
holds its lease from the acceptance of its record to its end.  An operation that
was accepted before has therefore kept the clean-up from finishing; one accepted
afterwards, on a verification that old, verifies its instance once more before it
spawns, and by then the metadata name no instance or another one.  `Verified`
says this stage by stage, with the awaits of the verification as places of their
own; `Sessions` says what the progress of the stop and the entry at the Host tell
about the present instance.

**CodexTaskProofs**: `TypeCorrect`, `OnceCorrect`, `DriverCorrect`,
`TerminalCorrect`, for any chains and branches of continued tasks.  `CallShape` says
what a call holds at each place (lease, client, the record's thread).  `OneLease`: a
runtime and a call, or two of either, never hold the lease of one task; every
child is a runtime's or belongs to a call with the lease, so a task has one child.
For two tasks of a conversation this says nothing.  `Threads` ties the claim of a
source, the record of its successor and the thread of both; `OneLeaf` says that of
the tasks of a conversation only one is not continued; `ContinuedIsQuiet` that a
continued task has no child but a runtime that is being shut down, and then the
start of its successor is waiting for that and has no child yet.  If two tasks of a
conversation had one each, one would be continued, its successor would be
the only task of the conversation that is not, and so the other one would be
continued too and have a second such successor.  A torn save (`StartTorn`) leaves a
claim without successor, which is why `Continued` asks for the successor's record.
`Once` carries `AtMostOnce`: once an operation is on the wire or served, the record
remembers it by its status, a receipt or a tombstone, and no call stands at a place
from which it would be sent.  The frame lemmas (`FrameShape`, `FrameOnce`, ...)
say what a step may do without disturbing a part of the invariant; most actions
are instances of them, and the ones that bind a thread, take a lease or change a
claim are proved on their own.  `TerminalCorrect` uses the invariant only to know
that a start that writes without looking has a record that is not terminal.

**CodexQuietProofs**: `QuietCorrect`, `UnsteeredCorrect`.  A steer of a finished task
opens a second turn, and then a stale read can declare the task finished while that
turn runs (`codex_fence`), so `QuietCorrect` is `Spec /\ []Calm => []TerminalIsQuiet`,
where `Calm` says that no steer under way is to open a turn; steers of a running turn,
interrupts, resumes, continuations, crashes and lost replies are all there.
`UnsteeredCorrect` needs no condition on the behaviour: where no control is a steer, as
in `codex_control`, `Calm` always holds.  `TerminalIsQuiet` is about the record and the
app-server; between them stand what calls have read, answers on the wire and
notifications not yet handled, all of them possibly stale.  `QuietInv` says that what
they claim is right nevertheless, because it is for good: once the turn of a task has
ended, or its start has failed without one, it never runs again (`Quiet`, kept by
every step: `QuietStays`).  A terminal status in a record (`Own`), a call (`Known`) or
a notification (`Unread`), and a reply to an interrupt (`Halted`), each imply `Quiet`.
`Sent` says that the only way to a turn is a `turn/start` with its start call still
waiting.  `Thread` says that a running turn has its task's child alive and that turns
followed by others belong to continued tasks, so that the last turn of a shared thread,
which is what `task_get` looks at, is its own or belongs to a task that continued it.
`IndInv` of `CodexTaskProofs` is used throughout: that a conversation has one
app-server is why the notification a runtime handles is its own task's.

**SessionSupervisorProofs**: `TypeCorrect`, `SocketCorrect`, `HandleCorrect`,
`RestartCorrect`.  There is no condition on scheduling: reapers, requests, views,
runtimes, join tasks and deaths interleave at every await, in any number.  `Base` has
the types, what a driver holds at each place (`Roles`) and that a request under way
holds the transition lock (`Locked`).  `StartInv` adds that instances are numbered
without gaps (`Numbered`) and what a start relies on (`Starting`): from the grant of the
lifecycle lock to its release one driver is the starter, and from its second probe to
the bind nobody serves on the socket.  `SocketCorrect` follows step by step.  `HandInv`
adds that a handle exists only for an instance that has served (`Owned`), so the instance
a start inserts is nobody else's.

`RestartFollowsCrash` needs the most.  `WorldInv` ties origins, results and runtimes
(`Origins`), pending restarts and policies in the file and in every copy of it
(`Records`), and says that nothing can be pending before a first start has saved its
metadata (`Unborn`).  `CalmInv` describes a process none of whose runtimes has crashed
(`Calm`).  Even there a restart may be scheduled, because views write crashes they
inferred and policy changes act on them.  But then the session is up although it is
down as crashed (`Pinned`), so the probe of a start meets a listener and the restart is
refused; otherwise the pending restart is left over from before and nothing serves, with
no specification kept.  In a calm process there is one live runtime, a runtime on its way
out has its stop waiting for it with the transition lock held, and no driver has a
handle to reap (`CalmWorld`, `CalmAt`).  So a driver that binds an automatic restart
shows that the process is not calm any more.

Only model-checked:

- All liveness properties, the supervisor's `OnlyLiveRuntimesBlock` and
  `FinishedIsReaped` among them; liveness under fairness is out of the proof system's
  reach.
- `ClaimedStandsStill`.  It is not true for every value of the constants: when a
  steer that reopens a task is on the wire and its receipt is compacted to a
  tombstone before the reply, the record looks quiescent, a continuation claims it,
  and the runtime that is being shut down may still open the steer's turn.  With
  `MaxHistory = 1` a `resume` is enough; the code's history of 128 would need as many
  controls within one `RPC_TIMEOUT`.
- `TerminalIsQuiet` in behaviours with a steer that opens a turn: it is false there,
  by the race that `codex_fence` shows.

## Plan

1. **HostGrant** (`enrollment.js`): the grant row as a compare-and-set register
   with attempts, operation ids and retried requests, and the fence outbox; then a
   composition with the host object: a revoked grant dispatches nothing more once
   its fence was delivered.  Properties: a terminal attempt is never resurrected,
   a retry gets the answer of the first try, every committed revocation is fenced.
2. **Events** (`events_host.rs`, `events/outbox.js`, `events/ingest.js`): at least
   once delivery, exactly one ingested copy, order within a stream.
3. **Observation replication** (`observation/replicator.rs`, `observation/ingest.js`):
   the acknowledged revision never passes what D1 committed.
4. **Memory jobs** (`memory/worker.js`): an expired lease cannot publish.
5. **Activity broker** and the approval dialogue as far as their state machines go.
6. The **opencode** backend, whose task store follows the Codex one, and the
   supervisor's shutdown and upgrade hand-over.

Not planned: the Devin backends (their behaviour is that of a remote service), the
sandbox, VCS and worktree operations (file-system behaviour), OAuth and credential
stores, CLI, configuration, diagnostics and read-only projections.
