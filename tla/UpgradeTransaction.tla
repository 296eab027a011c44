------------------------- MODULE UpgradeTransaction -------------------------
(***************************************************************************)
(* The durable remote upgrade: upgrade_coordinator.rs admits one           *)
(* `upgrade_apply` at a time, persists a transaction record, spawns a      *)
(* detached coordinator process and hands it COMMIT once the accepted      *)
(* response is flushed; upgrade_transaction.rs drives the record through   *)
(* its phases.  The local `upgrade` command of session_control.rs shares   *)
(* the admission lock.                                                     *)
(*                                                                         *)
(* A transaction is named by the `upgrade_apply` call that creates it (its *)
(* ID is that call's operation ID), so one set names both.  Each call and  *)
(* each coordinator is a process of its own: it may die between any two    *)
(* steps, and only the records, the flocks (released by the kernel) and    *)
(* the socket (end of file) tell the others.  Record files are replaced by *)
(* rename, so a record is read and written in one step.                    *)
(***************************************************************************)
EXTENDS Naturals, FiniteSets

CONSTANTS Applies,          \* calls of upgrade_apply, and their transactions
          Targets,          \* versions of the installed executable
          MaxTransactions,  \* MAX_UPGRADE_TRANSACTIONS
          Local,            \* the local `upgrade` command
          NoOne             \* the admission lock is free

ASSUME NameAssumption == Local \notin Applies /\ NoOne \notin Applies /\ Local # NoOne
ASSUME LimitAssumption == MaxTransactions \in Nat /\ IsFiniteSet(Applies)

VARIABLES state,      \* the durable state of each record ("absent": no file)
          sequence,   \* its sequence (durable with the record)
          target,     \* its target version (durable with the record)
          needs,      \* the optional phases it requires (likewise)
          admission,  \* the holder of admission.lock
          lock,       \* the transactions whose lock file a coordinator holds
          apply,      \* program counter of each upgrade_apply call
          stale,      \* PREPARED records of the first load still to be probed
          mark,       \* the unowned record a call is about to terminalize
          stream,     \* the commit socket between call and coordinator
          child,      \* program counter of each coordinator
          copy,       \* the coordinator's in-memory transaction state
          upgrade     \* program counter of the local command

vars == <<state, sequence, target, needs, admission, lock, apply, stale, mark,
          stream, child, copy, upgrade>>

records == <<state, sequence, target, needs>>

-----------------------------------------------------------------------------
(* The state machine of one record. *)

Terminal == {"completed", "failed", "rolled_back"}

Order == [prepared |-> 0, committed |-> 1, supervisor_handoff |-> 2,
          sessions_verifying |-> 3, ingress_restarting |-> 4,
          endpoint_verifying |-> 5, plugin_reconciling |-> 6, completed |-> 7]

Forward == {"prepared", "committed", "supervisor_handoff", "sessions_verifying",
            "ingress_restarting", "endpoint_verifying", "plugin_reconciling", "completed"}

States == Forward \cup Terminal

Optional == {"supervisor_handoff", "ingress_restarting"}

CanTransition(s, n) ==
  /\ s \notin Terminal
  /\ n \in {"failed", "rolled_back"} \/ (n \in Forward /\ Order[n] > Order[s])

\* coordinator_phases, and the one that the coordinator reaches from s.
Phases(t) == {p \in Forward \ {"prepared", "committed"} : p \in Optional => p \in needs[t]}

IsNextPhase(t, s, p) ==
  /\ p \in Phases(t)
  /\ Order[s] < Order[p]
  /\ \A q \in Phases(t) : Order[s] < Order[q] => Order[p] <= Order[q]

-----------------------------------------------------------------------------
(* The record set, as load_transactions and admit_apply see it. *)

Present == {t \in Applies : state[t] # "absent"}
Active == {t \in Present : state[t] \notin Terminal}

\* list_transaction_ids refuses a directory of more than MaxTransactions records.
CanLoad == Cardinality(Present) <= MaxTransactions

IsLatestCompleted(t) ==
  /\ t \in Present /\ state[t] = "completed"
  /\ \A u \in Present : state[u] = "completed" => sequence[u] <= sequence[t]

\* Defect: the increment is forgotten.
IsMaxSequence(n) ==
  IF Present = {} THEN n = 1
  ELSE \E t \in Present : n = sequence[t] /\ \A u \in Present : sequence[u] <= sequence[t]

IsNextSequence(n) ==
  IF Present = {} THEN n = 1
  ELSE \E t \in Present : /\ n = sequence[t] + 1
                          /\ \A u \in Present : sequence[u] <= sequence[t]

\* The admission lock falls when its holder returns or dies.
Released(x) == IF admission = x THEN NoOne ELSE admission

-----------------------------------------------------------------------------
Init ==
  /\ state = [t \in Applies |-> "absent"]
  /\ sequence = [t \in Applies |-> 0]
  /\ target \in [Applies -> Targets]
  /\ needs \in [Applies -> SUBSET Optional]
  /\ admission = NoOne
  /\ lock = {}
  /\ apply = [a \in Applies |-> "idle"]
  /\ stale = [a \in Applies |-> {}]
  /\ mark = [a \in Applies |-> NoOne]
  /\ stream = [a \in Applies |-> "none"]
  /\ child = [a \in Applies |-> "none"]
  /\ copy = [a \in Applies |-> "absent"]
  /\ upgrade = "idle"

-----------------------------------------------------------------------------
(* prepare_apply: admission, the scan for unowned PREPARED records, the    *)
(* decision, the new record and the spawn.                                 *)

AcquireAdmission(a) ==
  /\ apply[a] = "idle"
  /\ \/ /\ admission = NoOne
        /\ admission' = a
        /\ apply' = [apply EXCEPT ![a] = "admitted"]
     \/ /\ admission # NoOne        \* "another upgrade apply is being admitted"
        /\ apply' = [apply EXCEPT ![a] = "done"]
        /\ UNCHANGED admission
  /\ UNCHANGED <<records, lock, stale, mark, stream, child, copy, upgrade>>

\* Every error return and every answer that starts nothing.
Return(a) ==
  /\ apply' = [apply EXCEPT ![a] = "done"]
  /\ admission' = Released(a)
  /\ UNCHANGED <<records, lock, stale, mark, stream, child, copy, upgrade>>

\* The first load: the PREPARED records are copied, then examined one by one.
LoadSnapshot(a) ==
  /\ apply[a] = "admitted"
  /\ CanLoad
  /\ stale' = [stale EXCEPT ![a] = {t \in Present : state[t] = "prepared"}]
  /\ apply' = [apply EXCEPT ![a] = "scanning"]
  /\ UNCHANGED <<records, admission, lock, mark, stream, child, copy, upgrade>>

\* Defect: the owner is not asked for.
ProbeNothing(a, t) ==
  /\ apply[a] = "scanning"
  /\ t \in stale[a]
  /\ stale' = [stale EXCEPT ![a] = @ \ {t}]
  /\ mark' = [mark EXCEPT ![a] = t]
  /\ apply' = [apply EXCEPT ![a] = "marking"]
  /\ UNCHANGED <<records, admission, lock, stream, child, copy, upgrade>>

\* Defect: a record stays on the list after it was examined.
ProbeAgain(a, t) ==
  /\ apply[a] = "scanning"
  /\ t \in stale[a]
  /\ t \notin lock
  /\ mark' = [mark EXCEPT ![a] = t]
  /\ apply' = [apply EXCEPT ![a] = "marking"]
  /\ UNCHANGED <<records, admission, lock, stale, stream, child, copy, upgrade>>

\* transaction_lock_is_held takes the lock for an instant, so a second prober
\* (upgrade_status) makes an unowned record look owned.
ProbeOwner(a, t) ==
  /\ apply[a] = "scanning"
  /\ t \in stale[a]
  /\ stale' = [stale EXCEPT ![a] = @ \ {t}]
  /\ \/ UNCHANGED <<apply, mark>>
     \/ /\ t \notin lock
        /\ mark' = [mark EXCEPT ![a] = t]
        /\ apply' = [apply EXCEPT ![a] = "marking"]
  /\ UNCHANGED <<records, admission, lock, stream, child, copy, upgrade>>

\* mark_failed succeeds on the copy, which is PREPARED whatever the file holds by now.
TerminalizeStale(a) ==
  /\ apply[a] = "marking"
  /\ state' = [state EXCEPT ![mark[a]] = "failed"]
  /\ apply' = [apply EXCEPT ![a] = "scanning"]
  /\ UNCHANGED <<sequence, target, needs, admission, lock, stale, mark, stream, child, copy,
                 upgrade>>

\* Defect: a PREPARED transaction is not counted as active.
MayStartBesidePrepared == \A t \in Active : state[t] = "prepared"

\* The second load and admit_apply.  An active transaction answers
\* ExistingActive or ConflictActive and several are an error: all return.  A
\* completed one of the same target is returned only when the runtime is
\* current (completed_upgrade_is_current, which asks the preflight).
MayStart == Active = {}

MayReturn(a) ==
  Active # {} \/ \E t \in Present : IsLatestCompleted(t) /\ target[t] = target[a]

Admit(a) ==
  /\ apply[a] = "scanning"
  /\ stale[a] = {}
  /\ CanLoad
  /\ MayStart
  /\ \E n \in 1 .. Cardinality(Applies) :
        /\ IsNextSequence(n)
        /\ sequence' = [sequence EXCEPT ![a] = n]
  /\ apply' = [apply EXCEPT ![a] = "starting"]
  /\ UNCHANGED <<state, target, needs, admission, lock, stale, mark, stream, child, copy, upgrade>>

Refuse(a) ==
  /\ \/ apply[a] = "admitted"       \* planned sessions changed, or too many records
     \/ apply[a] = "scanning" /\ stale[a] = {} /\ (~CanLoad \/ MayReturn(a))
  /\ Return(a)

WritePrepared(a) ==
  /\ apply[a] = "starting"
  /\ state' = [state EXCEPT ![a] = "prepared"]
  /\ apply' = [apply EXCEPT ![a] = "spawning"]
  /\ UNCHANGED <<sequence, target, needs, admission, lock, stale, mark, stream, child, copy,
                 upgrade>>

SpawnCoordinator(a) ==
  /\ apply[a] = "spawning"
  /\ stream' = [stream EXCEPT ![a] = "open"]
  /\ child' = [child EXCEPT ![a] = "started"]
  /\ apply' = [apply EXCEPT ![a] = "awaiting"]
  /\ UNCHANGED <<records, admission, lock, stale, mark, copy, upgrade>>

\* The spawn fails, READY does not come within 30 s, or the socket ends: the
\* call drops its end first and marks its record afterwards.
SpawnFails(a) ==
  /\ apply[a] \in {"spawning", "awaiting"}
  /\ stream' = [stream EXCEPT ![a] = "closed"]
  /\ apply' = [apply EXCEPT ![a] = "failing"]
  /\ UNCHANGED <<records, admission, lock, stale, mark, child, copy, upgrade>>

FailPrepared(a) ==
  /\ apply[a] = "failing"
  /\ state' = [state EXCEPT ![a] = "failed"]
  /\ apply' = [apply EXCEPT ![a] = "done"]
  /\ admission' = Released(a)
  /\ UNCHANGED <<sequence, target, needs, lock, stale, mark, stream, child, copy, upgrade>>

\* READY proves that the coordinator owns the record: admission is released.
ReceiveReady(a) ==
  /\ apply[a] = "awaiting"
  /\ stream[a] = "ready"
  /\ apply' = [apply EXCEPT ![a] = "holding"]
  /\ admission' = Released(a)
  /\ UNCHANGED <<records, lock, stale, mark, stream, child, copy, upgrade>>

\* CoordinatorCommit: commit after the response is flushed, abort (or drop) otherwise.
Decide(a, message) ==
  /\ apply[a] = "holding"
  /\ stream' = [stream EXCEPT ![a] = message]
  /\ apply' = [apply EXCEPT ![a] = "done"]
  /\ UNCHANGED <<records, admission, lock, stale, mark, child, copy, upgrade>>

Commit(a) == Decide(a, "commit")
Abort(a) == Decide(a, "closed")

\* The process of the call dies, its request future is dropped, or reading or
\* writing a file fails.
ApplyDies(a) ==
  /\ apply[a] \notin {"idle", "done"}
  /\ apply' = [apply EXCEPT ![a] = "done"]
  /\ admission' = Released(a)
  /\ stream' = [stream EXCEPT ![a] = IF @ = "none" THEN "none" ELSE "closed"]
  /\ UNCHANGED <<records, lock, stale, mark, child, copy, upgrade>>

-----------------------------------------------------------------------------
(* run_child and run_upgrade_coordinator_with_lock. *)

AcquireTransactionLock(t) ==
  /\ child[t] = "started"
  /\ t \notin lock
  /\ lock' = lock \cup {t}
  /\ child' = [child EXCEPT ![t] = "owning"]
  /\ UNCHANGED <<records, admission, apply, stale, mark, stream, copy, upgrade>>

\* The write fails on a socket the call has dropped.
SendReady(t) ==
  /\ child[t] = "owning"
  /\ stream[t] = "open"
  /\ stream' = [stream EXCEPT ![t] = "ready"]
  /\ child' = [child EXCEPT ![t] = "ready"]
  /\ UNCHANGED <<records, admission, lock, apply, stale, mark, copy, upgrade>>

\* Defect: silence is taken for consent.
ReadSilenceAsCommit(t) ==
  /\ child[t] = "ready"
  /\ child' = [child EXCEPT ![t] = IF stream[t] # "closed" THEN "commit" ELSE "abort"]
  /\ UNCHANGED <<records, admission, lock, apply, stale, mark, stream, copy, upgrade>>

\* Defect: the wait for the decision has no timeout.
ReadWithoutTimeout(t) ==
  /\ child[t] = "ready"
  /\ stream[t] # "ready"
  /\ child' = [child EXCEPT ![t] = IF stream[t] = "commit" THEN "commit" ELSE "abort"]
  /\ UNCHANGED <<records, admission, lock, apply, stale, mark, stream, copy, upgrade>>

\* COMMIT, anything else, end of file or 30 s without a decision.
ReadDecision(t) ==
  /\ child[t] = "ready"
  /\ child' = [child EXCEPT ![t] = IF stream[t] = "commit" THEN "commit" ELSE "abort"]
  /\ UNCHANGED <<records, admission, lock, apply, stale, mark, stream, copy, upgrade>>

\* run_upgrade_coordinator_with_lock reads the record again and refuses
\* anything but PREPARED.
ReadPrepared(t) ==
  /\ child[t] \in {"commit", "abort"}
  /\ state[t] = "prepared"
  /\ copy' = [copy EXCEPT ![t] = "prepared"]
  /\ child' = [child EXCEPT ![t] = IF @ = "commit" THEN "committing" ELSE "aborting"]
  /\ UNCHANGED <<records, admission, lock, apply, stale, mark, stream, upgrade>>

\* set_state or mark_failed on the copy, then write_transaction.
Persist(t, next, pc) ==
  /\ CanTransition(copy[t], next)
  /\ copy' = [copy EXCEPT ![t] = next]
  /\ state' = [state EXCEPT ![t] = next]
  /\ child' = [child EXCEPT ![t] = pc]
  /\ UNCHANGED <<sequence, target, needs, admission, lock, apply, stale, mark, stream, upgrade>>

AbortPersisted(t) ==
  /\ child[t] = "aborting"
  /\ Persist(t, "failed", "exiting")

CommitPersisted(t) ==
  /\ child[t] = "committing"
  /\ Persist(t, "committed", "running")

PhaseSucceeds(t) ==
  /\ child[t] = "running"
  /\ \E phase \in Phases(t) :
        /\ IsNextPhase(t, copy[t], phase)
        /\ Persist(t, phase, IF phase = "completed" THEN "exiting" ELSE "running")

PhaseFails(t) ==
  /\ child[t] = "running"
  /\ ~IsNextPhase(t, copy[t], "completed")
  /\ \E next \in {"failed", "rolled_back"} : Persist(t, next, "exiting")

\* The coordinator returns, or refuses to go on: its lock is busy (a prober), a
\* validation fails, READY cannot be written or the record is not PREPARED.
\* Its lock falls with it.
ChildExits(t) ==
  /\ child[t] \in {"started", "owning", "commit", "abort", "exiting"}
  /\ child' = [child EXCEPT ![t] = "gone"]
  /\ lock' = lock \ {t}
  /\ UNCHANGED <<records, admission, apply, stale, mark, stream, copy, upgrade>>

\* It is killed.
ChildDies(t) ==
  /\ child[t] \notin {"none", "gone"}
  /\ child' = [child EXCEPT ![t] = "gone"]
  /\ lock' = lock \ {t}
  /\ UNCHANGED <<records, admission, apply, stale, mark, stream, copy, upgrade>>

-----------------------------------------------------------------------------
(* The local `upgrade` command holds the admission lock for all its work. *)

LocalAcquire ==
  /\ upgrade = "idle"
  /\ admission = NoOne
  /\ admission' = Local
  /\ upgrade' = "checking"
  /\ UNCHANGED <<records, lock, apply, stale, mark, stream, child, copy>>

\* Defect: the record set is not consulted.
LocalApplyUnchecked ==
  /\ upgrade = "checking"
  /\ upgrade' = "applying"
  /\ UNCHANGED <<records, admission, lock, apply, stale, mark, stream, child, copy>>

LocalApply ==
  /\ upgrade = "checking"
  /\ CanLoad
  /\ Active = {}        \* ensure_no_remote_upgrade_owns_runtime
  /\ upgrade' = "applying"
  /\ UNCHANGED <<records, admission, lock, apply, stale, mark, stream, child, copy>>

\* It ends, refuses or dies.
LocalEnds ==
  /\ upgrade # "idle"
  /\ upgrade' = "idle"
  /\ admission' = Released(Local)
  /\ UNCHANGED <<records, lock, apply, stale, mark, stream, child, copy>>

-----------------------------------------------------------------------------
ApplyStep(a) ==
  \/ AcquireAdmission(a) \/ LoadSnapshot(a)
  \/ \E t \in Applies : ProbeOwner(a, t)
  \/ TerminalizeStale(a) \/ Admit(a) \/ Refuse(a) \/ WritePrepared(a)
  \/ SpawnCoordinator(a) \/ SpawnFails(a) \/ FailPrepared(a)
  \/ ReceiveReady(a)

TransportStep(a) == Commit(a) \/ Abort(a)

ChildStep(t) ==
  \/ AcquireTransactionLock(t) \/ SendReady(t) \/ ReadDecision(t) \/ ReadPrepared(t)
  \/ AbortPersisted(t) \/ CommitPersisted(t) \/ PhaseSucceeds(t) \/ PhaseFails(t)
  \/ ChildExits(t)

LocalStep == LocalAcquire \/ LocalApply \/ LocalEnds

Next ==
  \/ \E a \in Applies : \/ ApplyStep(a) \/ TransportStep(a) \/ ApplyDies(a)
                        \/ ChildStep(a) \/ ChildDies(a)
  \/ LocalStep

Spec == Init /\ [][Next]_vars

\* Processes that run take their next step: every wait is bounded (the flocks
\* are LOCK_NB, READY and the decision have 30 s timeouts) and the phases are
\* bounded control calls.  No call has to begin, and no decision has to come: a
\* client may stall the flush of its response for ever.
FairSpec ==
  /\ Spec
  /\ \A a \in Applies : /\ WF_vars(apply[a] # "idle" /\ ApplyStep(a))
                        /\ WF_vars(ChildStep(a))
  /\ WF_vars(LocalEnds)

-----------------------------------------------------------------------------
(* Properties. *)

ApplyPC == {"idle", "admitted", "scanning", "marking", "starting", "spawning", "awaiting",
            "failing", "holding", "done"}
Admitting == {"admitted", "scanning", "marking", "starting", "spawning", "awaiting", "failing"}
ChildPC == {"none", "started", "owning", "ready", "commit", "abort", "committing", "aborting",
            "running", "exiting", "gone"}

\* Every variable has its type, and the locks are held by processes that are
\* still at a step where the code holds them.
TypeOK ==
  /\ state \in [Applies -> States \cup {"absent"}]
  /\ sequence \in [Applies -> Nat]
  /\ target \in [Applies -> Targets]
  /\ needs \in [Applies -> SUBSET Optional]
  /\ admission \in Applies \cup {Local, NoOne}
  /\ lock \in SUBSET Applies
  /\ apply \in [Applies -> ApplyPC]
  /\ stale \in [Applies -> SUBSET Applies]
  /\ mark \in [Applies -> Applies \cup {NoOne}]
  /\ stream \in [Applies -> {"none", "open", "ready", "commit", "closed"}]
  /\ child \in [Applies -> ChildPC]
  /\ copy \in [Applies -> States \cup {"absent"}]
  /\ upgrade \in {"idle", "checking", "applying"}

\* admit_apply: "only one destructive transaction may own the local runtime at
\* a time": no two records are ever non-terminal together, whatever calls and
\* coordinators die and whatever stale PREPARED copies are written back.
OneActive == \A t, u \in Active : t = u

\* Destructive work has one author: two coordinators never run their phases
\* together, nor a coordinator and the local `upgrade` command, although the
\* call that admitted a coordinator has released the admission lock.
OneDestructive ==
  /\ \A t, u \in Applies : child[t] = "running" /\ child[u] = "running" => t = u
  /\ upgrade = "applying" => \A t \in Applies : child[t] # "running"

\* The commit barrier: a record only passes PREPARED, and a coordinator only
\* runs phases, when the transport wrote COMMIT after flushing the accepted
\* response; a lost call or an expired wait never authorizes it.
CommitAuthorized ==
  \A t \in Applies :
    state[t] \notin {"absent", "prepared", "failed"} \/ child[t] = "running"
      => stream[t] = "commit"

\* While a coordinator runs, the file is what it last wrote: no admission scan,
\* no failing parent and no second coordinator overwrites its progress.
RecordIsCopy == \A t \in Applies : child[t] = "running" => state[t] = copy[t]

\* The active transaction is the newest, so the one that admission, the health
\* endpoint (transaction_for_health) and recent_transaction name is the same.
ActiveIsNewest == \A t \in Active, u \in Present : u # t => sequence[u] < sequence[t]

\* The record directory stops growing one record beyond the limit of the scan.
RecordsBounded == Cardinality(Present) <= MaxTransactions + 1

\* "Terminal states never transition": what the documentation of
\* UpgradeTransactionState says of a record.  The code breaks it: an admission
\* scan that loaded a record while it was PREPARED writes its stale copy back
\* after the owner has finished (see TerminalizeStale).
TerminalIsFinal ==
  [][\A t \in Applies : state[t] \in Terminal => state'[t] = state[t]]_vars

\* The admission lock is never held for ever: every call gives it up on every
\* path (answer, refusal, failed spawn, READY), so a later upgrade can be tried.
AdmissionIsReleased ==
  \A x \in Applies \cup {Local} : admission = x ~> admission # x

\* Every spawned coordinator ends, also when its call stalls or dies and no
\* decision ever comes, so its transaction lock is not held for ever.
CoordinatorEnds ==
  \A t \in Applies : child[t] = "started" ~> child[t] = "gone"

=============================================================================
