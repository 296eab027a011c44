--------------------------- MODULE CodexLifecycle ---------------------------
(***************************************************************************)
(* How the Codex children of a session end with it                         *)
(* (src/codex_app_server.rs): the lifecycle registry of every process, the *)
(* permits of the operations under way, the runtime leases in the task     *)
(* store, the cleanup the supervisor runs when an instance ended, the      *)
(* monitor task of every registered runtime, and the check that lets the   *)
(* next instance start.                                                    *)
(*                                                                         *)
(* An operation is one codex_task_start.  It verifies its instance again   *)
(* before every effect: fence, metadata, probe and admission are separate  *)
(* steps, and the session may end between any two of them.                 *)
(***************************************************************************)
EXTENDS Naturals, FiniteSets

CONSTANTS Procs,         \* processes that run task operations
          Host,          \* the one that runs the session
          Ops,           \* task starts
          MaxInstances,  \* bound: instances of the session
          MaxTimeouts    \* bound: drains that time out

ASSUME ProcessAssumption == Host \in Procs
ASSUME BoundAssumption == MaxInstances \in Nat \ {0} /\ MaxTimeouts \in Nat

VARIABLES cur,      \* the newest instance
          alive,    \* its runtime answers probes
          named,    \* the metadata names it (process id not 0)
          sup,      \* what the supervisor does with it
          entry,    \* lifecycle registry of every process
          op,       \* what every operation is doing
          rec,      \* status of its task record
          child,    \* its app-server child is alive
          regd,     \* its runtime is registered
          mon,      \* what the monitor of the runtime is doing
          cleaned,  \* instances whose cleanup at the host is finished
          late      \* drains that timed out

session == <<cur, alive, named, sup>>
task == <<rec, child, regd>>
vars == <<session, entry, op, task, mon, cleaned, late>>

Inst == 1..MaxInstances
Absent == [here |-> FALSE, closing |-> FALSE, permits |-> {}]
Open == [here |-> TRUE, closing |-> FALSE, permits |-> {}]

Stages == {"accept", "operation", "spawn", "request", "insert"}

\* Every variable has the shape the code gives it.
TypeOK ==
  /\ cur \in Inst /\ alive \in BOOLEAN /\ named \in BOOLEAN
  /\ sup \in {"up", "stopping", "ended", "fenced", "drain", "finalize", "cleaned", "failed"}
  /\ entry \in [Procs -> [Inst -> [here : BOOLEAN, closing : BOOLEAN, permits : SUBSET Ops]]]
  /\ op \in [Ops -> [stage : Stages, n : Inst, p : Procs,
                     pc : {"idle", "check", "meta", "probe", "admit", "act", "wait", "fail", "done"}]]
  /\ rec \in [Ops -> {"none", "accepted", "running", "retryable_failed",
                      "reconciliation_required", "failed", "interrupted"}]
  /\ child \in [Ops -> BOOLEAN] /\ regd \in [Ops -> BOOLEAN]
  /\ mon \in [Ops -> {"none", "watch", "take", "drain", "finalize", "over"}]
  /\ cleaned \subseteq Inst /\ late \in 0..MaxTimeouts

Init ==
  /\ cur = 1 /\ alive = TRUE /\ named = TRUE /\ sup = "up"
  /\ entry = [p \in Procs |-> [n \in Inst |-> Absent]]
  /\ op = [o \in Ops |-> [stage |-> "accept", n |-> 1, p |-> Host, pc |-> "idle"]]
  /\ rec = [o \in Ops |-> "none"]
  /\ child = [o \in Ops |-> FALSE] /\ regd = [o \in Ops |-> FALSE]
  /\ mon = [o \in Ops |-> "none"]
  /\ cleaned = {} /\ late = 0

Terminal(status) == status \in {"failed", "interrupted"}

\* begin_session_instance_shutdown
Begin(p, n) == entry' = [entry EXCEPT ![p][n] = [@ EXCEPT !.here = TRUE, !.closing = TRUE]]

\* Defect: only a registered runtime holds the lease.
LeaseOfRuntimes(o) == regd[o]

\* The lease is shared by the operation, its client and the runtime handle.
LeaseHeld(o) ==
  \/ (rec[o] # "none" /\ op[o].pc \notin {"idle", "done"})
  \/ child[o] \/ regd[o]

-----------------------------------------------------------------------------
(* An operation. *)

Mine(o) == entry[op[o].p][op[o].n]
At(o, pc) == op[o].pc = pc
Go(o, pc) == op' = [op EXCEPT ![o].pc = pc]
Enter(o, stage) == op' = [op EXCEPT ![o].stage = stage, ![o].pc = "check"]
\* CodexLifecyclePermit is dropped; the entry stays.
Dropped(o) == [entry EXCEPT ![op[o].p][op[o].n].permits = @ \ {o}]

\* The caller has looked the session up.
Start(o, p) ==
  /\ At(o, "idle") /\ alive /\ named
  /\ op' = [op EXCEPT ![o].pc = "check", ![o].n = cur, ![o].p = p]
  /\ UNCHANGED <<session, entry, task, mon, cleaned, late>>

\* ensure_current_active_instance, step by step: the fence ...
Check(o) ==
  /\ At(o, "check")
  /\ Go(o, IF Mine(o).closing THEN "fail" ELSE "meta")
  /\ UNCHANGED <<session, entry, task, mon, cleaned, late>>

\* ... the metadata ...
Meta(o) ==
  /\ At(o, "meta")
  /\ Go(o, IF op[o].n = cur /\ named THEN "probe" ELSE "fail")
  /\ UNCHANGED <<session, entry, task, mon, cleaned, late>>

\* ... the probe, which any instance answers ...
Probe(o) ==
  /\ At(o, "probe")
  /\ Go(o, IF alive THEN "admit" ELSE "fail")
  /\ UNCHANGED <<session, entry, task, mon, cleaned, late>>

\* ... and the permit.  The permit of the stage "operation" is kept.
Admit(o) ==
  /\ At(o, "admit")
  /\ IF Mine(o).closing
     THEN Go(o, "fail") /\ UNCHANGED entry
     ELSE /\ entry' = [entry EXCEPT ![op[o].p][op[o].n] =
                         [Open EXCEPT !.permits = Mine(o).permits \cup {o}]]
          /\ IF op[o].stage = "operation" THEN Enter(o, "spawn") ELSE Go(o, "act")
  /\ UNCHANGED <<session, task, mon, cleaned, late>>

\* What the entry must say for the effect that follows.
Live(o) == Mine(o).here /\ ~Mine(o).closing

Refused(o) ==
  /\ At(o, "act") /\ ~Live(o)
  /\ Go(o, "fail")
  /\ UNCHANGED <<session, entry, task, mon, cleaned, late>>

\* accept_start_if_instance_live: the record and the lease.
Accept(o) ==
  /\ At(o, "act") /\ op[o].stage = "accept" /\ Live(o)
  /\ rec' = [rec EXCEPT ![o] = "accepted"]
  /\ entry' = Dropped(o)
  /\ Enter(o, "operation")
  /\ UNCHANGED <<session, child, regd, mon, cleaned, late>>

\* spawn_client_if_instance_live
Spawn(o) ==
  /\ At(o, "act") /\ op[o].stage = "spawn" /\ Live(o)
  /\ child' = [child EXCEPT ![o] = TRUE]
  /\ Enter(o, "request")
  /\ UNCHANGED <<session, entry, rec, regd, mon, cleaned, late>>

\* dispatch_request_for_instance (the handshake, the thread and the turn).
Send(o) ==
  /\ At(o, "act") /\ op[o].stage = "request" /\ Live(o)
  /\ Go(o, "wait")
  /\ UNCHANGED <<session, entry, task, mon, cleaned, late>>

\* The reply is applied under update_if_instance_live, or it does not come,
\* or the fence cancels the wait.
Reply(o) ==
  /\ At(o, "wait")
  /\ \/ /\ child[o] /\ Live(o)
        /\ rec' = [rec EXCEPT ![o] = IF Terminal(@) THEN @ ELSE "running"]
        /\ Enter(o, "insert")
     \/ Go(o, "fail") /\ UNCHANGED rec
  /\ UNCHANGED <<session, entry, child, regd, mon, cleaned, late>>

\* insert_runtime_unchecked; the monitor task starts and the permit goes.
Insert(o) ==
  /\ At(o, "act") /\ op[o].stage = "insert" /\ Live(o)
  /\ regd' = [regd EXCEPT ![o] = TRUE]
  /\ mon' = [mon EXCEPT ![o] = "watch"]
  /\ entry' = Dropped(o)
  /\ Go(o, "done")
  /\ UNCHANGED <<session, rec, child, cleaned, late>>

\* What a failure leaves in the record: nothing is written before the child
\* was asked for, and nothing when the runtime could not be registered.  The
\* stage "request" stands for the handshake and the list of models, which can
\* be retried, for the check of the model, and for the thread and the turn,
\* which may have been started.
AfterFailure(o) ==
  IF op[o].stage \notin {"spawn", "request"} \/ Terminal(rec[o])
  THEN {rec[o]}
  ELSE IF Mine(o).closing THEN {"interrupted"}
  ELSE IF op[o].stage = "spawn" THEN {"retryable_failed"}
  ELSE {"retryable_failed", "failed", "reconciliation_required"}

\* The client is shut down, which waits for the child, the record is saved
\* and the permit is dropped.
Fail(o) ==
  /\ At(o, "fail")
  /\ child' = [child EXCEPT ![o] = FALSE]
  /\ \E status \in AfterFailure(o) : rec' = [rec EXCEPT ![o] = status]
  /\ entry' = Dropped(o)
  /\ Go(o, "done")
  /\ UNCHANGED <<session, regd, mon, cleaned, late>>

ChildDies(o) ==
  /\ child[o]
  /\ child' = [child EXCEPT ![o] = FALSE]
  /\ UNCHANGED <<session, entry, op, rec, regd, mon, cleaned, late>>

-----------------------------------------------------------------------------
(* finalize_session_tasks for the owner n, in the process p. *)

Owned(n) == {o \in Ops : rec[o] # "none" /\ op[o].n = n}

\* Defect: only operations under way defer the cleanup.
DeferredByOps(n) == \E o \in Owned(n) : op[o].pc \notin {"idle", "done"}

Deferred(n) == \E o \in Owned(n) : LeaseHeld(o)

\* finalize_owner: records without a lease become interrupted, finished ones
\* stay as they are.
Finalized(n) ==
  [o \in Ops |-> IF o \in Owned(n) /\ ~LeaseHeld(o) /\ ~Terminal(rec[o])
                 THEN "interrupted" ELSE rec[o]]

\* An entry that was removed and came back is not closing, which the wait and
\* finish_session_shutdown report as an error.
Reopened(p, n) == entry[p][n].here /\ ~entry[p][n].closing
Drained(p, n) == entry[p][n].permits = {} /\ ~Reopened(p, n)

\* finish_session_shutdown
Finish(p, n) ==
  /\ entry' = [entry EXCEPT ![p][n] = Absent]
  /\ cleaned' = IF p = Host THEN cleaned \cup {n} ELSE cleaned

-----------------------------------------------------------------------------
(* The supervisor. *)

\* A stop or restart fences the instance before it ends it.
StopAsked ==
  /\ sup = "up"
  /\ Begin(Host, cur)
  /\ sup' = "stopping"
  /\ UNCHANGED <<cur, alive, named, op, task, mon, cleaned, late>>

\* The runtime stops or crashes.
End ==
  /\ sup \in {"up", "stopping"}
  /\ alive' = FALSE /\ sup' = "ended"
  /\ UNCHANGED <<cur, named, entry, op, task, mon, cleaned, late>>

\* Its join task fences the instance and saves the metadata.
Fence ==
  /\ sup = "ended"
  /\ Begin(Host, cur)
  /\ named' = FALSE /\ sup' = "fenced"
  /\ UNCHANGED <<cur, alive, op, task, mon, cleaned, late>>

\* remove_session: shutdown_session_runtimes ...
Shut ==
  /\ sup = "fenced"
  /\ Begin(Host, cur)
  /\ LET mine == {o \in Ops : regd[o] /\ op[o].p = Host /\ op[o].n = cur}
     IN  /\ child' = [o \in Ops |-> child[o] /\ o \notin mine]
         /\ regd' = [o \in Ops |-> regd[o] /\ o \notin mine]
  /\ sup' = "drain"
  /\ UNCHANGED <<cur, alive, named, op, rec, mon, cleaned, late>>

\* ... wait_for_session_inflight_drain ...
Drain ==
  /\ sup = "drain" /\ (Drained(Host, cur) \/ Reopened(Host, cur))
  /\ sup' = IF Reopened(Host, cur) THEN "failed" ELSE "finalize"
  /\ UNCHANGED <<cur, alive, named, entry, op, task, mon, cleaned, late>>

\* ... finalize_session_tasks, again while a lease is held ...
Finalize ==
  /\ sup = "finalize"
  /\ rec' = Finalized(cur)
  /\ IF Deferred(cur)
     THEN UNCHANGED <<sup, entry, cleaned>>
     ELSE IF Drained(Host, cur)
     THEN Finish(Host, cur) /\ sup' = "cleaned"
     ELSE sup' = "failed" /\ UNCHANGED <<entry, cleaned>>
  /\ UNCHANGED <<cur, alive, named, op, child, regd, mon, late>>

\* ... and the two waits give up.
TimeOut ==
  /\ (sup = "drain" /\ entry[Host][cur].permits # {}) \/ (sup = "finalize" /\ Deferred(cur))
  /\ late < MaxTimeouts
  /\ late' = late + 1 /\ sup' = "failed"
  /\ UNCHANGED <<cur, alive, named, entry, op, task, mon, cleaned>>

\* ensure_session_replacement_allowed: no entry of any instance is left.
ReplacementAllowed == \A n \in Inst : ~entry[Host][n].here

\* The next instance starts.  What a restart cleans up after a failed cleanup
\* is the instance of the metadata, with process id 0, which owns nothing.
Replace ==
  /\ sup \in {"cleaned", "failed"} /\ ReplacementAllowed
  /\ cur < MaxInstances
  /\ cur' = cur + 1
  /\ alive' = TRUE /\ named' = TRUE /\ sup' = "up"
  /\ UNCHANGED <<entry, op, task, mon, cleaned, late>>

-----------------------------------------------------------------------------
(* The monitor task of a registered runtime. *)

\* wait_for_session_stop sees another owner or no listener.
Observe(o) ==
  /\ mon[o] = "watch"
  /\ ~(op[o].n = cur /\ named /\ alive)
  /\ Begin(op[o].p, op[o].n)
  /\ mon' = [mon EXCEPT ![o] = "take"]
  /\ UNCHANGED <<session, op, task, cleaned, late>>

\* Defect: the runtime is forgotten and its client is left alone.
TakeAway(o) ==
  /\ regd' = [regd EXCEPT ![o] = FALSE]
  /\ UNCHANGED child

\* take_runtime_if_instance, then the shutdown of its client.
TakeDown(o) ==
  /\ child' = [child EXCEPT ![o] = @ /\ ~regd[o]]
  /\ regd' = [regd EXCEPT ![o] = FALSE]

Take(o) ==
  /\ mon[o] = "take"
  /\ TakeDown(o)
  /\ mon' = [mon EXCEPT ![o] = "drain"]
  /\ UNCHANGED <<session, entry, op, rec, cleaned, late>>

\* CHILD_LIFETIME has passed.
Expire(o) ==
  /\ mon[o] = "watch"
  /\ TakeDown(o)
  /\ mon' = [mon EXCEPT ![o] = "over"]
  /\ UNCHANGED <<session, entry, op, rec, cleaned, late>>

MonitorDrain(o) ==
  /\ mon[o] = "drain" /\ Drained(op[o].p, op[o].n)
  /\ mon' = [mon EXCEPT ![o] = "finalize"]
  /\ UNCHANGED <<session, entry, op, task, cleaned, late>>

\* A failure, here an entry in use again, is retried.
MonitorFinalize(o) ==
  LET n == op[o].n
  IN  /\ mon[o] = "finalize"
      /\ rec' = Finalized(n)
      /\ IF Deferred(n)
         THEN UNCHANGED <<mon, entry, cleaned>>
         ELSE IF Drained(op[o].p, n)
         THEN Finish(op[o].p, n) /\ mon' = [mon EXCEPT ![o] = "over"]
         ELSE mon' = [mon EXCEPT ![o] = "drain"] /\ UNCHANGED <<entry, cleaned>>
      /\ UNCHANGED <<session, op, child, regd, late>>

-----------------------------------------------------------------------------
Step(o) ==
  \/ Check(o) \/ Meta(o) \/ Probe(o) \/ Admit(o) \/ Refused(o)
  \/ Accept(o) \/ Spawn(o) \/ Send(o) \/ Reply(o) \/ Insert(o) \/ Fail(o)
Watch(o) == Observe(o) \/ Take(o) \/ MonitorDrain(o) \/ MonitorFinalize(o)
Cleanup == Fence \/ Shut \/ Drain \/ Finalize

Next ==
  \/ \E o \in Ops, p \in Procs : Start(o, p)
  \/ \E o \in Ops : Step(o) \/ ChildDies(o) \/ Watch(o) \/ Expire(o)
  \/ StopAsked \/ End \/ Cleanup \/ TimeOut \/ Replace

\* Every task is polled; nothing makes a session end, start or time out.
Fairness ==
  /\ \A o \in Ops : WF_vars(Step(o)) /\ WF_vars(Watch(o))
  /\ WF_vars(Cleanup)

Spec == Init /\ [][Next]_vars /\ Fairness

-----------------------------------------------------------------------------
\* "Restart fences the old full session instance, shuts down its registered
\* Codex runtimes before starting the replacement" (docs/usage.md): once the
\* cleanup of an instance is finished, and so before the next one starts, no
\* child of it lives, in whichever process it was started and however far its
\* operation had come.
CleanedIsQuiet == \A o \in Ops : child[o] => (op[o].n \notin cleaned /\ op[o].n = cur)

\* A runtime is registered only for the instance that was verified and stays
\* known to the cleanup: finishing never forgets one.
RegisteredIsKnown ==
  \A o \in Ops : regd[o] => entry[op[o].p][op[o].n].here

\* No child outlives its instance for good, whether the fence, the cleanup or
\* a monitor reaches it first, drains that time out included.
ChildrenEnd == \A o \in Ops : (child[o] /\ sup = "fenced") ~> ~child[o]
=============================================================================
