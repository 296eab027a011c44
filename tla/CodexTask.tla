----------------------------- MODULE CodexTask -----------------------------
(***************************************************************************)
(* Codex tasks (src/codex_app_server.rs): several Temote processes share   *)
(* a store of task records and drive `codex app-server` children.  A       *)
(* record carries a receipt for every accepted operation, a flock lease    *)
(* says which process may have a child for the task, and the child of a    *)
(* task outlives the call that spawned it as a registered runtime.         *)
(*                                                                         *)
(* Calls repeat freely: a caller that lost an answer sends the same        *)
(* operation again.  A process may die between any two steps; its records  *)
(* stay, its calls, runtimes, children and leases go.  The app-server is   *)
(* external: a thread is its sequence of turns, at most one is running,    *)
(* and a turn dies with the child that runs it.                            *)
(*                                                                         *)
(* The session instance is alive throughout (CodexLifecycle has its end),  *)
(* and no record reaches the end of its retention.  A turn's identifier    *)
(* is the operation that started it, a thread's the task that did.         *)
(***************************************************************************)
EXTENDS Naturals, Sequences, FiniteSets

CONSTANTS Procs,       \* Temote processes that share the store
          Slots,       \* concurrent tool calls of a process
          Tasks,       \* a task is named by the operation that starts it
          Source,      \* the task a start continues, or None
          Controls,    \* operations of codex_task_control
          Action,      \* "steer", "interrupt" or "resume"
          Target,      \* the task a control is for
          Asking,      \* tasks whose turns may ask for an approval
          Outcomes,    \* how a turn may end by itself
          MaxHistory,  \* MAX_OPERATION_HISTORY
          None

ASSUME OperationAssumption ==
  /\ Tasks \cap Controls = {} /\ None \notin Tasks \cup Controls
  /\ Source \in [Tasks -> Tasks \cup {None}] /\ \A t \in Tasks : Source[t] # t
  /\ Action \in [Controls -> {"steer", "interrupt", "resume"}]
  /\ Target \in [Controls -> Tasks] /\ Asking \subseteq Tasks
ASSUME HistoryAssumption == MaxHistory \in Nat \ {0}
ASSUME OutcomeAssumption == Outcomes \subseteq {"completed", "failed"}

VARIABLES rec,    \* the task records of the store
          reg,    \* per process and task: the runtime and its child
          call,   \* the tool call each caller has under way
          wire,   \* the request an operation put on its child's stdin
          turns,  \* app-server: the turns of each thread
          news,   \* app-server: notifications the actor has not read
          ask,    \* the approval request of each task's turn under way
          begun,  \* history: thread/start requests served per task
          served  \* history: turn requests served per operation

server == <<turns, news, begun, served>>
vars   == <<rec, reg, call, wire, ask, server>>

Callers == Procs \X Slots
Home(c) == c[1]

Ops == Tasks \cup Controls
TaskOf(o) == IF o \in Tasks THEN o ELSE Target[o]

NoRecord == [status |-> "missing", thread |-> None, turn |-> None, prev |-> None,
             claim |-> None, ops |-> <<>>, tombs |-> {}]

\* TaskStatus::is_terminal
Terminal(status) == status \in {"completed", "interrupted", "failed"}

Idle == [pc |-> "idle", kind |-> "none", op |-> None, task |-> None, lease |-> FALSE,
         client |-> "none", turn |-> None, prev |-> None, status |-> "missing"]
NoWire == [state |-> "none", turn |-> None]
NoAsk == [stage |-> "none", turn |-> None, proc |-> None]

Init ==
  /\ rec = [t \in Tasks |-> NoRecord]
  /\ reg = [p \in Procs |-> [t \in Tasks |-> "none"]]
  /\ call = [c \in Callers |-> Idle]
  /\ wire = [o \in Ops |-> NoWire]
  /\ turns = [t \in Tasks |-> <<>>]
  /\ news = [t \in Tasks |-> <<>>]
  /\ ask = [t \in Tasks |-> NoAsk]
  /\ begun = [t \in Tasks |-> 0]
  /\ served = [o \in Ops |-> 0]

-----------------------------------------------------------------------------
(* Records and receipts. *)

Exists(t) == rec[t].status # "missing"
Receipt(r, o) == {i \in DOMAIN r.ops : r.ops[i].op = o}
Phase(r, o) == {r.ops[i].phase : i \in Receipt(r, o)}

\* update_operation_receipt
SetPhase(r, o, phase) ==
  [r EXCEPT !.ops = [i \in DOMAIN r.ops |->
                      IF r.ops[i].op = o THEN [op |-> o, phase |-> phase] ELSE r.ops[i]]]

\* A new receipt; the oldest one makes room for it and leaves a tombstone.
Push(r, o) ==
  LET full == Len(r.ops) >= MaxHistory
  IN  [r EXCEPT !.ops = Append(IF full THEN Tail(@) ELSE @, [op |-> o, phase |-> "accepted"]),
                !.tombs = IF full THEN @ \cup {Head(r.ops).op} ELSE @]

\* The record task_start builds.
NewRecord(t) ==
  [NoRecord EXCEPT !.status = "accepted", !.ops = <<[op |-> t, phase |-> "accepted"]>>]

Unsettled(r) == \E i \in DOMAIN r.ops : r.ops[i].phase = "accepted"

-----------------------------------------------------------------------------
(* Runtimes, children and leases.  A runtime is registered while its child *)
(* is "live" or has ended ("dead"); "dying" has been taken out of the      *)
(* registry and is being shut down.  Registered handle, actor and call     *)
(* share the lease; flock keeps every other holder out, in whichever       *)
(* process it is.                                                          *)

Registered(p, t) == reg[p][t] \in {"live", "dead"}
\* Defect: the actor does not share the lease, so it goes with the handle.
LeaseOfHandles(t) ==
  \/ \E p \in Procs : Registered(p, t)
  \/ \E c \in Callers : call[c].task = t /\ call[c].lease

LeaseHeld(t) ==
  \/ \E p \in Procs : reg[p][t] # "none"
  \/ \E c \in Callers : call[c].task = t /\ call[c].lease

Children(p) ==
  {t \in Tasks : \/ reg[p][t] \in {"live", "dying"}
                 \/ \E c \in Callers : /\ Home(c) = p
                                       /\ call[c].task = t /\ call[c].client = "own"}
Alive(t) == \E p \in Procs : t \in Children(p)

\* The shared clients of a runtime that ends are of no use any more.
Disconnected(p, t) ==
  [c \in Callers |-> IF Home(c) = p /\ call[c].task = t /\ call[c].client = "shared"
                     THEN [call[c] EXCEPT !.client = "dead"] ELSE call[c]]

\* App-server: what the end of the children of these tasks does.
Stopped(s) == [i \in DOMAIN s |-> IF s[i].status = "running"
                                  THEN [s[i] EXCEPT !.status = "interrupted"] ELSE s[i]]
ChildrenEnd(ended) ==
  LET threads == {rec[t].thread : t \in ended}
  IN  /\ turns' = [h \in Tasks |-> IF h \in threads THEN Stopped(turns[h]) ELSE turns[h]]
      /\ news' = [h \in Tasks |-> IF h \in threads THEN <<>> ELSE news[h]]
      /\ UNCHANGED <<begun, served>>
\* Requests such a child has not served are lost; the answers it gave are not.
Lost(ended) ==
  wire' = [o \in Ops |-> IF TaskOf(o) \in ended /\ wire[o].state = "sent" THEN NoWire ELSE wire[o]]

\* The child exits; the handle stays registered until its lifetime is over.
RuntimeDies(p, t) ==
  /\ reg[p][t] = "live"
  /\ reg' = [reg EXCEPT ![p][t] = "dead"]
  /\ call' = Disconnected(p, t)
  /\ ChildrenEnd({t}) /\ Lost({t})
  /\ UNCHANGED <<rec, ask>>

\* The monitor of insert_runtime_unchecked after CHILD_LIFETIME.
LifetimeOver(p, t) ==
  /\ Registered(p, t)
  /\ reg' = [reg EXCEPT ![p][t] = IF @ = "live" THEN "dying" ELSE "none"]
  /\ call' = Disconnected(p, t)
  /\ UNCHANGED <<rec, wire, server, ask>>

\* run_actor reads the shutdown, kills the child and lets go of the lease.
ActorEnds(p, t) ==
  /\ reg[p][t] = "dying"
  /\ reg' = [reg EXCEPT ![p][t] = "none"]
  /\ ChildrenEnd({t}) /\ Lost({t})
  /\ UNCHANGED <<rec, call, ask>>

Awaits(c, o) == call[c].op = o /\ call[c].pc = "wait"

Crash(p) ==
  /\ call' = [c \in Callers |-> IF Home(c) = p THEN Idle ELSE call[c]]
  /\ reg' = [reg EXCEPT ![p] = [t \in Tasks |-> "none"]]
  /\ ask' = [t \in Tasks |-> IF ask[t].proc = p THEN NoAsk ELSE ask[t]]
  /\ ChildrenEnd(Children(p))
  /\ wire' = [o \in Ops |-> IF \/ TaskOf(o) \in Children(p)
                               \/ \E c \in Callers : Home(c) = p /\ Awaits(c, o)
                            THEN NoWire ELSE wire[o]]
  /\ UNCHANGED rec

-----------------------------------------------------------------------------
(* codex_task_start. *)

Goto(c, pc) == call' = [call EXCEPT ![c].pc = pc]
Return(c) == call' = [call EXCEPT ![c] = Idle]
Begin(c, kind, o, pc, lease) ==
  call' = [call EXCEPT ![c] = [Idle EXCEPT !.pc = pc, !.kind = kind, !.op = o, !.lease = lease,
                                           !.task = TaskOf(o), !.turn = rec'[TaskOf(o)].turn]]
At(c, kind, pc) == call[c].kind = kind /\ call[c].pc = pc

\* Defect: a start that needs reconciliation is taken for one that may be retried.
RetryableUncertain(t) ==
  /\ rec[t].status \in {"retryable", "reconcile"} /\ rec[t].thread = None
  /\ Source[t] # None => rec[Source[t]].claim = t

\* accept_start_locked, the retry of a start that failed before its thread.
Retryable(t) ==
  /\ rec[t].status = "retryable" /\ rec[t].thread = None
  /\ "retryable" \in Phase(rec[t], t)
  /\ Source[t] # None => rec[Source[t]].claim = t

RetryStart(c, t) ==
  /\ call[c] = Idle
  /\ Retryable(t)
  /\ ~LeaseHeld(t)
  /\ rec' = [rec EXCEPT ![t] = SetPhase([@ EXCEPT !.status = "accepted"], t, "accepted")]
  /\ Begin(c, "start", t, "admit", TRUE)
  /\ UNCHANGED <<reg, wire, server, ask>>

\* accept_start_locked: may this caller's process continue the source?
Continuable(p, s, t) ==
  /\ Terminal(rec[s].status) /\ ~Unsettled(rec[s])
  /\ rec[s].claim \in {None, t}
  /\ rec[s].thread # None
  /\ Registered(p, s) \/ ~LeaseHeld(s)

\* accept_start_locked, no record yet.  Any other repeat is answered from the record.
StartAccept(c, t) ==
  LET p == Home(c)
      s == Source[t]
  IN  /\ call[c] = Idle
      /\ ~Exists(t) /\ ~LeaseHeld(t)
      /\ IF s = None
         THEN /\ rec' = [rec EXCEPT ![t] = NewRecord(t)]
              /\ UNCHANGED reg
              /\ Begin(c, "start", t, "admit", TRUE)
         ELSE /\ Continuable(p, s, t)
              /\ rec' = [rec EXCEPT ![s].claim = t, ![t] = NewRecord(t)]
              /\ reg' = [reg EXCEPT ![p][s] = CASE @ = "live" -> "dying"
                                                [] @ = "dead" -> "none"
                                                [] OTHER -> @]
              /\ Begin(c, "start", t, IF Registered(p, s) THEN "retire" ELSE "admit", TRUE)
      /\ UNCHANGED <<wire, server, ask>>

\* Only the first of the two saves happens: the claim stays without its successor.
StartTorn(c, t) ==
  /\ call[c] = Idle
  /\ ~Exists(t) /\ ~LeaseHeld(t)
  /\ Source[t] # None /\ Continuable(Home(c), Source[t], t)
  /\ rec' = [rec EXCEPT ![Source[t]].claim = t]
  /\ UNCHANGED <<reg, call, wire, server, ask>>

\* The source's runtime has shut down, or its actor did not end cleanly.
Retire(c) ==
  /\ At(c, "start", "retire")
  /\ reg[Home(c)][Source[call[c].task]] # "dying"
  /\ \/ Goto(c, "admit") /\ UNCHANGED rec
     \/ /\ rec' = [rec EXCEPT ![call[c].task] =
                     SetPhase([@ EXCEPT !.status = "failed"], call[c].op, "applied")]
        /\ Return(c)
  /\ UNCHANGED <<reg, wire, server, ask>>

\* The lease goes first, the record follows.
AdmissionFails(c) ==
  /\ At(c, "start", "admit")
  /\ call' = [call EXCEPT ![c].pc = "refused", ![c].lease = FALSE]
  /\ UNCHANGED <<rec, reg, wire, server, ask>>

RefusalSaved(c) ==
  /\ At(c, "start", "refused")
  /\ rec' = [rec EXCEPT ![call[c].task] =
               SetPhase([@ EXCEPT !.status = "failed"], call[c].op, "applied")]
  /\ Return(c)
  /\ UNCHANGED <<reg, wire, server, ask>>

\* spawn_initialized_client and model/list succeed.
Spawn(c) ==
  /\ At(c, "start", "admit")
  /\ call' = [call EXCEPT ![c].pc = "thread", ![c].client = "own"]
  /\ UNCHANGED <<rec, reg, wire, server, ask>>

\* They fail, or the model is not offered.
SpawnFails(c) ==
  /\ At(c, "start", "admit")
  /\ \E verdict \in {<<"retryable", "retryable">>, <<"failed", "applied">>} :
       rec' = [rec EXCEPT ![call[c].task] =
                 IF Terminal(@.status) THEN @
                 ELSE SetPhase([@ EXCEPT !.status = verdict[1]], call[c].op, verdict[2])]
  /\ Return(c)
  /\ UNCHANGED <<reg, wire, server, ask>>

\* thread/start or thread/resume is served.
ThreadServed(c) ==
  /\ At(c, "start", "thread")
  /\ Goto(c, "bind")
  /\ begun' = [begun EXCEPT ![call[c].task] = IF Source[call[c].task] = None THEN @ + 1 ELSE @]
  /\ UNCHANGED <<rec, reg, wire, turns, news, ask, served>>

\* The conversation a task's thread/start or thread/resume opens.
Conversation(t) == IF Source[t] = None THEN t ELSE rec[Source[t]].thread

\* apply_thread_start_response, then turn/start goes out.
BindThread(c) ==
  LET t == call[c].task
  IN  /\ At(c, "start", "bind")
      /\ Terminal(rec[t].status) \/ rec[t].thread = None
      /\ rec' = [rec EXCEPT ![t] = IF Terminal(@.status) THEN @
                                   ELSE [@ EXCEPT !.thread = Conversation(t)]]
      /\ wire' = [wire EXCEPT ![t] = [state |-> "sent", turn |-> None]]
      /\ Goto(c, "wait")
      /\ UNCHANGED <<reg, server, ask>>

\* apply_turn_start_response
TurnStarted(r, o) ==
  IF Terminal(r.status) THEN r
  ELSE SetPhase([r EXCEPT !.turn = o,
                          !.status = IF @ \in {"accepted", "unknown", "reconcile"}
                                     THEN "running" ELSE @], o, "applied")

StartReplied(c) ==
  LET t == call[c].task
  IN  /\ At(c, "start", "wait")
      /\ wire[t].state = "ok"
      /\ Terminal(rec[t].status) \/ rec[t].turn \in {None, t}
      /\ rec' = [rec EXCEPT ![t] = TurnStarted(@, t)]
      /\ wire' = [wire EXCEPT ![t] = NoWire]
      /\ Goto(c, "insert")
      /\ UNCHANGED <<reg, server, ask>>

\* A request fails, times out or is answered with what does not fit: the
\* child is shut down, then the record and its receipt ask for reconciliation.
StartFails(c) ==
  LET t == call[c].task
  IN  /\ call[c].kind = "start" /\ call[c].pc \in {"thread", "bind", "wait"}
      /\ ChildrenEnd({t})
      /\ wire' = [wire EXCEPT ![t] = NoWire]
      /\ rec' = [rec EXCEPT ![t] = IF Terminal(@.status) THEN @
                                   ELSE SetPhase([@ EXCEPT !.status = "reconcile"], t, "accepted")]
      /\ Return(c)
      /\ UNCHANGED <<reg, ask>>

\* insert_runtime: the call's child and lease become the registered runtime's.
InsertRuntime(c) ==
  /\ At(c, "start", "insert")
  /\ ~Registered(Home(c), call[c].task)
  /\ reg' = [reg EXCEPT ![Home(c)][call[c].task] = "live"]
  /\ Return(c)
  /\ UNCHANGED <<rec, wire, server, ask>>

-----------------------------------------------------------------------------
(* codex_task_control and codex_task_get. *)

\* accept_control_locked: a steer of an ended turn opens another one.
Reopens(o) ==
  Action[o] = "steer" /\ rec[Target[o]].status \in {"completed", "interrupted"}

\* Defect: the claim is not looked at.
ControllableWhenClaimed(o) ==
  LET r == rec[Target[o]]
  IN  /\ r.status # "missing" /\ Receipt(r, o) = {} /\ o \notin r.tombs
      /\ Reopens(o) \/ r.status \in {"running", "waiting"}
      /\ r.thread # None /\ r.turn # None

\* Defect: the tombstones are not looked at.
ControllableOnceCompacted(o) ==
  LET r == rec[Target[o]]
  IN  /\ r.status # "missing" /\ r.claim = None /\ Receipt(r, o) = {}
      /\ r.status \in IF Action[o] = "resume" THEN {"unknown", "reconcile"}
                      ELSE {"running", "waiting"}
      /\ r.thread # None /\ (Action[o] # "resume" => r.turn # None)

Controllable(o) ==
  LET r == rec[Target[o]]
  IN  /\ r.status # "missing" /\ r.claim = None
      /\ Receipt(r, o) = {} /\ o \notin r.tombs
      /\ CASE Action[o] = "resume" -> r.status \in {"unknown", "reconcile"}
           [] OTHER -> Reopens(o) \/ r.status \in {"running", "waiting"}
      /\ r.thread # None
      /\ Action[o] # "resume" => r.turn # None

\* accept_control_locked.  Any other repeat is answered from the receipt.
ControlAccept(c, o) ==
  LET t == Target[o]
      opened(r) == IF Reopens(o)
                   THEN [r EXCEPT !.prev = r.turn, !.turn = None, !.status = "reconcile"]
                   ELSE r
  IN  /\ call[c] = Idle
      /\ Controllable(o)
      /\ Registered(Home(c), t) \/ ~LeaseHeld(t)
      /\ rec' = [rec EXCEPT ![t] = Push(opened(@), o)]
      /\ Begin(c, Action[o], o, "ensure", ~Registered(Home(c), t))
      /\ UNCHANGED <<reg, wire, server, ask>>

\* task_get: load_for_reconciliation.  A claimed task, and one another
\* process owns, is answered from the record.
GetAccept(c, t) ==
  LET r == rec[t]
  IN  /\ call[c] = Idle
      /\ Exists(t) /\ r.claim = None
      /\ Registered(Home(c), t) \/ ~LeaseHeld(t)
      /\ r.thread # None \/ r.status = "accepted"
      /\ call' = [call EXCEPT ![c] =
                    [Idle EXCEPT !.pc = IF r.thread = None THEN "orphan" ELSE "ensure",
                                 !.kind = "get", !.op = t, !.task = t,
                                 !.lease = ~Registered(Home(c), t),
                                 !.turn = r.turn, !.prev = r.prev, !.status = r.status]]
      /\ UNCHANGED <<rec, reg, wire, server, ask>>

\* A start that died before its thread.
OrphanSaved(c) ==
  LET t == call[c].task
  IN  /\ At(c, "get", "orphan")
      /\ rec' = [rec EXCEPT ![t] = IF Terminal(@.status) THEN @
                                   ELSE SetPhase([@ EXCEPT !.status = "reconcile"], t, "accepted")]
      /\ Return(c)
      /\ UNCHANGED <<reg, wire, server, ask>>

\* ensure_runtime_with_binary: the registered runtime serves this call too.
UseRuntime(c) ==
  LET state == reg[Home(c)][call[c].task]
  IN  /\ call[c].pc = "ensure"
      /\ Registered(Home(c), call[c].task)
      /\ call' = [call EXCEPT ![c].pc = "send", ![c].lease = FALSE,
                              ![c].client = IF state = "live" THEN "shared" ELSE "dead"]
      /\ UNCHANGED <<rec, reg, wire, server, ask>>

\* OwnedElsewhere
OwnedElsewhere(c) ==
  /\ call[c].pc = "ensure"
  /\ ~call[c].lease /\ LeaseHeld(call[c].task)
  /\ IF call[c].kind = "get" THEN Return(c) ELSE Goto(c, "fail")
  /\ UNCHANGED <<rec, reg, wire, server, ask>>

\* No runtime here: with the lease, and the claim looked at again, a child is
\* spawned, or that fails.
Attach(c) ==
  LET t == call[c].task
  IN  /\ call[c].pc = "ensure"
      /\ ~Registered(Home(c), t)
      /\ call[c].lease \/ ~LeaseHeld(t)
      /\ \/ /\ rec[t].claim = None
            /\ call' = [call EXCEPT ![c].pc = "attach", ![c].lease = TRUE, ![c].client = "own"]
         \/ call' = [call EXCEPT ![c].pc = "fail", ![c].lease = FALSE]
      /\ UNCHANGED <<rec, reg, wire, server, ask>>

\* thread/resume succeeds and the runtime is registered.
Attached(c) ==
  LET t == call[c].task
  IN  /\ call[c].pc = "attach"
      /\ ~Registered(Home(c), t)
      /\ reg' = [reg EXCEPT ![Home(c)][t] = "live"]
      /\ call' = [call EXCEPT ![c].pc = "send", ![c].lease = FALSE, ![c].client = "shared"]
      /\ UNCHANGED <<rec, wire, server, ask>>

AttachFails(c) ==
  /\ call[c].pc = "attach"
  /\ ChildrenEnd({call[c].task}) /\ Lost({call[c].task})
  /\ call' = [call EXCEPT ![c].pc = "fail", ![c].lease = FALSE, ![c].client = "none"]
  /\ UNCHANGED <<rec, reg, ask>>

\* turn/start, turn/steer or turn/interrupt goes out.
Send(c) ==
  /\ call[c].pc = "send" /\ call[c].kind \in {"steer", "interrupt"}
  /\ call[c].client = "shared"
  /\ wire' = [wire EXCEPT ![call[c].op] = [state |-> "sent", turn |-> call[c].turn]]
  /\ Goto(c, "wait")
  /\ UNCHANGED <<rec, reg, server, ask>>

\* derive_thread_state_after: the expected turn, else the one after the
\* predecessor, else the last; without one the state of the thread.
Derived(s, expected, predecessor) ==
  LET at(o) == {i \in DOMAIN s : s[i].op = o}
      picked == CASE at(expected) # {} -> at(expected)
                  [] at(expected) = {} /\ predecessor # None ->
                       {i + 1 : i \in at(predecessor)} \cap DOMAIN s
                  [] OTHER -> {Len(s)} \cap DOMAIN s
      active == \E i \in DOMAIN s : s[i].status = "running"
  IN  IF picked # {} THEN {[turn |-> s[i].op, status |-> s[i].status] : i \in picked}
      ELSE {[turn |-> None, status |-> status] : status \in
             IF active THEN {"running"}
             ELSE {IF predecessor # None THEN "reconcile" ELSE "unknown", "failed"}}

\* thread/read answers; the decision to write is made against the loaded copy.
Read(c) ==
  LET k == call[c]
      h == rec[k.task].thread
  IN  /\ k.pc = "send" /\ k.kind \in {"resume", "get"}
      /\ k.client = "shared"
      /\ \E d \in Derived(turns[h], k.turn, IF k.kind = "get" THEN k.prev ELSE None) :
           \/ call' = [call EXCEPT ![c].pc = "apply", ![c].turn = d.turn, ![c].status = d.status]
           \/ /\ k.kind = "get" /\ k.turn = d.turn
              /\ k.status = d.status \/ (Terminal(k.status) /\ ~Terminal(d.status))
              /\ Return(c)
      /\ UNCHANGED <<rec, reg, wire, server, ask>>

\* The client is gone, the request failed or was not answered in RPC_TIMEOUT.
RequestFails(c) ==
  /\ call[c].pc \in {"send", "wait"} /\ call[c].kind # "start"
  /\ Goto(c, "fail")
  /\ wire' = [o \in Ops |-> IF Awaits(c, o) /\ wire[o].state # "sent" THEN NoWire ELSE wire[o]]
  /\ UNCHANGED <<rec, reg, server, ask>>

\* Defect: an interrupt whose outcome is not known is taken for done.
FailureTakenForDone(c) ==
  LET t == call[c].task
      verdict == CASE call[c].kind = "get" -> "unknown"
                   [] call[c].kind = "interrupt" -> "interrupted"
                   [] OTHER -> "reconcile"
  IN  /\ call[c].pc = "fail"
      /\ rec' = [rec EXCEPT ![t].status = IF Terminal(@) THEN @ ELSE verdict]
      /\ Return(c)
      /\ UNCHANGED <<reg, wire, server, ask>>

\* apply_control_failure, and what task_get writes when it could not read.
FailureSaved(c) ==
  LET t == call[c].task
      verdict == IF call[c].kind = "get" THEN "unknown" ELSE "reconcile"
  IN  /\ call[c].pc = "fail"
      /\ rec' = [rec EXCEPT ![t].status = IF Terminal(@) THEN @ ELSE verdict]
      /\ Return(c)
      /\ UNCHANGED <<reg, wire, server, ask>>

\* What a successful control makes of the record it finds.
Controlled(r, k) ==
  IF Terminal(r.status) THEN r
  ELSE LET done == CASE k.kind = "resume" ->
                          [r EXCEPT !.status = k.status,
                                    !.turn = IF k.turn # None THEN k.turn ELSE @]
                     [] k.kind = "steer" /\ k.turn = None ->
                          [r EXCEPT !.turn = k.op, !.prev = None, !.status = "running"]
                     [] OTHER ->
                          [r EXCEPT !.status = IF k.kind = "interrupt"
                                               THEN "interrupted" ELSE "running"]
       IN  SetPhase(done, k.op, "applied")

ControlApplied(c) ==
  /\ call[c].kind \in {"steer", "interrupt", "resume"}
  /\ \/ call[c].pc = "wait" /\ wire[call[c].op].state = "ok"
     \/ call[c].pc = "apply"
  /\ rec' = [rec EXCEPT ![call[c].task] = Controlled(@, call[c])]
  /\ wire' = [wire EXCEPT ![call[c].op] = NoWire]
  /\ Return(c)
  /\ UNCHANGED <<reg, server, ask>>

\* Defect: the record is not looked at again.
ReconciledAnyway(r, k) ==
  [r EXCEPT !.status = k.status, !.turn = IF k.turn # None THEN k.turn ELSE @]

\* What task_get writes on the record it finds.
Reconciled(r, k) ==
  IF Terminal(r.status) THEN r
  ELSE LET seen == [r EXCEPT !.status = k.status, !.turn = IF k.turn # None THEN k.turn ELSE @]
       IN  IF k.turn # None /\ "accepted" \in Phase(r, k.task)
           THEN SetPhase(seen, k.task, "applied") ELSE seen

GetApplied(c) ==
  /\ At(c, "get", "apply")
  /\ rec' = [rec EXCEPT ![call[c].task] = Reconciled(@, call[c])]
  /\ Return(c)
  /\ UNCHANGED <<reg, wire, server, ask>>

-----------------------------------------------------------------------------
(* The app-server, its notifications and its approval requests. *)

Running(h) == \E i \in DOMAIN turns[h] : turns[h][i].status = "running"
RunningTurn(h, o) == \E i \in DOMAIN turns[h] : turns[h][i] = [op |-> o, status |-> "running"]
Announce(h, o, status) == news' = [news EXCEPT ![h] = Append(@, [turn |-> o, status |-> status])]
Answer(o, state) ==
  wire' = [wire EXCEPT ![o] = IF \E c \in Callers : Awaits(c, o)
                              THEN [@ EXCEPT !.state = state] ELSE NoWire]
EndTurn(h, status) ==
  turns' = [turns EXCEPT ![h] = [i \in DOMAIN @ |-> IF @[i].status = "running"
                                                    THEN [@[i] EXCEPT !.status = status] ELSE @[i]]]

Serve(o) ==
  LET h == rec[TaskOf(o)].thread
      x == wire[o].turn
      interrupt == o \in Controls /\ Action[o] = "interrupt"
  IN  /\ wire[o].state = "sent" /\ Alive(TaskOf(o)) /\ h # None
      /\ \/ /\ x = None /\ ~Running(h)
            /\ turns' = [turns EXCEPT ![h] = Append(@, [op |-> o, status |-> "running"])]
            /\ Announce(h, o, "running")
            /\ Answer(o, "ok")
         \/ /\ x # None /\ RunningTurn(h, x) /\ ~interrupt
            /\ Answer(o, "ok") /\ UNCHANGED <<turns, news>>
         \/ /\ x # None /\ RunningTurn(h, x) /\ interrupt
            /\ EndTurn(h, "interrupted")
            /\ Announce(h, x, "interrupted")
            /\ Answer(o, "ok")
         \/ /\ IF x = None THEN Running(h) ELSE ~RunningTurn(h, x)
            /\ Answer(o, "err") /\ UNCHANGED <<turns, news>>
      /\ served' = [served EXCEPT ![o] = @ + 1]
      /\ UNCHANGED <<rec, reg, call, ask, begun>>

TurnEnds(t) ==
  LET h == rec[t].thread
  IN  /\ Alive(t) /\ h # None
      /\ \E i \in DOMAIN turns[h], status \in Outcomes :
           /\ turns[h][i].status = "running"
           /\ ask[t].turn # turns[h][i].op
           /\ EndTurn(h, status)
           /\ Announce(h, turns[h][i].op, status)
      /\ UNCHANGED <<rec, reg, call, wire, ask, begun, served>>

\* handle_notification
Notified(r, n) ==
  IF \/ Terminal(r.status)
     \/ r.prev = n.turn
     \/ r.turn \notin {None, n.turn}
  THEN r
  ELSE [r EXCEPT !.status = n.status, !.turn = n.turn,
                 !.prev = IF r.turn = None THEN None ELSE @]

Notification(t) ==
  LET h == rec[t].thread
  IN  /\ Alive(t) /\ h # None /\ news[h] # <<>>
      /\ rec' = [rec EXCEPT ![t] = Notified(@, Head(news[h]))]
      /\ news' = [news EXCEPT ![h] = Tail(@)]
      /\ UNCHANGED <<reg, call, wire, turns, ask, begun, served>>

\* A running turn asks; handle_server_request is spawned for it.
Asks(p, t) ==
  LET h == rec[t].thread
  IN  /\ t \in Asking /\ t \in Children(p) /\ h # None
      /\ ask[t] = NoAsk
      /\ \E i \in DOMAIN turns[h] :
           /\ turns[h][i].status = "running" /\ TaskOf(turns[h][i].op) = t
           /\ ask' = [ask EXCEPT ![t] = [stage |-> "asked", turn |-> turns[h][i].op, proc |-> p]]
      /\ UNCHANGED <<rec, reg, call, wire, server>>

\* bind_approval_turn; a request that does not fit is answered with an error.
AskBound(t) ==
  /\ ask[t].stage = "asked"
  /\ IF ~Terminal(rec[t].status) /\ rec[t].turn \in {None, ask[t].turn}
     THEN /\ rec' = [rec EXCEPT ![t].turn = ask[t].turn]
          /\ ask' = [ask EXCEPT ![t].stage = "bound"]
     ELSE ask' = [ask EXCEPT ![t] = NoAsk] /\ UNCHANGED rec
  /\ UNCHANGED <<reg, call, wire, server>>

\* mark_waiting_approval(true)
AskWaits(t) ==
  /\ ask[t].stage = "bound"
  /\ rec' = [rec EXCEPT ![t].status = IF Terminal(@) THEN @ ELSE "waiting"]
  /\ ask' = [ask EXCEPT ![t].stage = "waiting"]
  /\ UNCHANGED <<reg, call, wire, server>>

\* The user decides; mark_waiting_approval(false)
AskDecided(t) ==
  /\ ask[t].stage = "waiting"
  /\ rec' = [rec EXCEPT ![t].status = IF @ = "waiting" THEN "running" ELSE @]
  /\ ask' = [ask EXCEPT ![t] = NoAsk]
  /\ UNCHANGED <<reg, call, wire, server>>

-----------------------------------------------------------------------------
StartStep(c) ==
  \/ Retire(c) \/ AdmissionFails(c) \/ RefusalSaved(c)
  \/ Spawn(c) \/ SpawnFails(c) \/ ThreadServed(c) \/ BindThread(c)
  \/ StartReplied(c) \/ StartFails(c) \/ InsertRuntime(c)
RuntimeStep(c) ==
  \/ UseRuntime(c) \/ OwnedElsewhere(c) \/ Attach(c) \/ Attached(c) \/ AttachFails(c)
RequestStep(c) ==
  \/ OrphanSaved(c) \/ Send(c) \/ Read(c) \/ RequestFails(c)
  \/ FailureSaved(c) \/ ControlApplied(c) \/ GetApplied(c)

Next ==
  \/ \E c \in Callers : \/ StartStep(c) \/ RuntimeStep(c) \/ RequestStep(c)
                        \/ \E t \in Tasks : \/ StartAccept(c, t) \/ StartTorn(c, t)
                                            \/ RetryStart(c, t) \/ GetAccept(c, t)
                        \/ \E o \in Controls : ControlAccept(c, o)
  \/ \E p \in Procs : \/ Crash(p)
                      \/ \E t \in Tasks : \/ RuntimeDies(p, t) \/ LifetimeOver(p, t)
                                          \/ ActorEnds(p, t) \/ Asks(p, t)
  \/ \E o \in Ops : Serve(o)
  \/ \E t \in Tasks : \/ TurnEnds(t) \/ Notification(t)
                      \/ AskBound(t) \/ AskWaits(t) \/ AskDecided(t)

Spec == Init /\ [][Next]_vars

-----------------------------------------------------------------------------
(* Properties. *)

Statuses == {"missing", "accepted", "running", "waiting", "retryable", "completed",
             "interrupted", "failed", "reconcile", "unknown"}
Kinds == {"none", "start", "steer", "interrupt", "resume", "get"}
Pcs == {"idle", "retire", "admit", "refused", "thread", "bind", "wait", "insert",
        "orphan", "ensure", "attach", "send", "apply", "fail"}
Phases == {"accepted", "applied", "retryable"}

TurnStatuses == {"running", "completed", "failed", "interrupted"}
Record == [status : Statuses, thread : Tasks \cup {None}, turn : Ops \cup {None},
           prev : Ops \cup {None}, claim : Tasks \cup {None},
           ops : Seq([op : Ops, phase : Phases]), tombs : SUBSET Ops]
Call == [pc : Pcs, kind : Kinds, op : Ops \cup {None}, task : Tasks \cup {None},
         lease : BOOLEAN, client : {"none", "own", "shared", "dead"},
         turn : Ops \cup {None}, prev : Ops \cup {None}, status : Statuses]
Wire == [state : {"none", "sent", "ok", "err"}, turn : Ops \cup {None}]
Ask == [stage : {"none", "asked", "bound", "waiting"}, turn : Ops \cup {None},
        proc : Procs \cup {None}]

\* Every variable has the shape the code gives it.
TypeOK ==
  /\ rec \in [Tasks -> Record]
  /\ reg \in [Procs -> [Tasks -> {"none", "live", "dead", "dying"}]]
  /\ call \in [Callers -> Call]
  /\ wire \in [Ops -> Wire]
  /\ turns \in [Tasks -> Seq([op : Ops, status : TurnStatuses])]
  /\ news \in [Tasks -> Seq([turn : Ops, status : TurnStatuses])]
  /\ ask \in [Tasks -> Ask]
  /\ begun \in [Tasks -> Nat] /\ served \in [Ops -> Nat]

\* An operation reaches the app-server at most once, however often it is
\* repeated, to whichever process, and whatever crashed, failed or was
\* compacted in between: one thread/start, one turn/start, steer or interrupt.
AtMostOnce ==
  (\A t \in Tasks : begun[t] <= 1) /\ (\A o \in Ops : served[o] <= 1)

\* The children that work, or are about to work, on a task.
Drivers(t) ==
  {<<"runtime", p>> : p \in {q \in Procs : reg[q][t] \in {"live", "dying"}}}
    \cup {<<"call", c>> : c \in {d \in Callers : call[d].task = t /\ call[d].client = "own"}}

\* No conversation has two app-servers at it: not two processes for one task,
\* and not the runtime of a source next to the one of its successor.
OneDriver ==
  \A t, u \in Tasks : Exists(t) /\ Exists(u) /\ Conversation(t) = Conversation(u) =>
    \A d \in Drivers(t), e \in Drivers(u) : t = u /\ d = e

\* From its claim on a source stands still: nothing that was under way for it,
\* no late notification and no repeat touches its record or starts a turn.
ClaimedStandsStill ==
  [][\A s \in Tasks : rec[s].claim # None =>
       /\ rec'[s] = rec[s]
       /\ \A h \in Tasks, o \in Ops : TaskOf(o) = s /\ ~RunningTurn(h, o) => ~RunningTurn(h, o)'
    ]_vars

\* A terminal task leaves its status only by a steer that opens a new turn.
TerminalStays ==
  [][\A t \in Tasks : Terminal(rec[t].status) /\ rec'[t].status # rec[t].status =>
       /\ rec[t].status # "failed" /\ rec[t].claim = None
       /\ rec'[t].prev = rec[t].turn /\ rec'[t].turn = None
       /\ Unsettled(rec'[t])]_vars

\* A task reported terminal has no turn of its own still running.
TerminalIsQuiet ==
  \A t \in Tasks : Terminal(rec[t].status) =>
    \A h \in Tasks, o \in Ops : TaskOf(o) = t => ~RunningTurn(h, o)

\* docs/backend-capabilities.md:17, "the predecessor is fenced during
\* reconciliation": while a steer that reopened a task has its turn running, the
\* record does not say the task has ended, as the turn before it has.
PredecessorFenced ==
  \A o \in Controls : LET r == rec[Target[o]] IN
    Action[o] = "steer" /\ r.thread # None /\ RunningTurn(r.thread, o) =>
      ~Terminal(r.status)

=============================================================================
