------------------------- MODULE SessionSupervisor -------------------------
(***************************************************************************)
(* The life of one managed session (src/supervisor.rs, the runtime of      *)
(* src/approvals.rs, the views and the startup of src/session_control.rs): *)
(* start, stop, restart, restart policy, crash, and the automatic restart. *)
(*                                                                         *)
(* Requests hold the transition lock.  The maintenance tick and the first  *)
(* line of every control connection reap and restart WITHOUT it, and views *)
(* take no lock, so all of them overlap.  A step ends where the code       *)
(* awaits: the metadata and the lifecycle file are read, changed and       *)
(* written back with steps of others in between.  Only the runtime's start *)
(* holds a lock of its own, the lifecycle file lock.                       *)
(*                                                                         *)
(* An instance is <<n, TRUE>>; the metadata of one that ended has process  *)
(* id 0 and reads as <<n, FALSE>>, which is another SessionInstance.       *)
(***************************************************************************)
EXTENDS Naturals, FiniteSets

CONSTANTS Reapers,       \* callers of reap_finished outside the lock
          Requests,      \* control requests
          Viewers,       \* callers of inspect_session
          Kinds,         \* what requests may ask for
          MaxInstances,  \* bound: instances started
          MaxRestarts,   \* MAX_AUTOMATIC_RESTARTS
          MaxRequests,   \* bound: requests made
          MaxViews,      \* bound: views that find a live runtime claimed
          MaxFailures,   \* bound: agent cleanups that fail
          MaxDeaths,     \* bound: deaths of the supervisor process
          None

ASSUME DriverAssumption ==
  /\ Reapers \cap Requests = {} /\ (Reapers \cup Requests) \cap Viewers = {}
  /\ None \notin Reapers \cup Requests \cup Viewers
  /\ Kinds \subseteq {"start", "stop", "restart", "never", "on-failure"}
ASSUME BoundAssumption ==
  /\ MaxInstances \in Nat /\ MaxRestarts \in Nat /\ MaxRequests \in Nat
  /\ MaxViews \in Nat /\ MaxFailures \in Nat /\ MaxDeaths \in Nat

VARIABLES meta,     \* session metadata on disk
          life,     \* lifecycle file
          sock,     \* instance whose listener the socket path names, or 0
          run,      \* runtime and join task of each instance
          result,   \* how each runtime ended
          ending,   \* the lifecycle each join task has read
          managed,  \* the instance whose handle is in `sessions`, or 0
          spec,     \* a restart spec is kept
          closing,  \* agent lifecycle entries that are closing
          lock,     \* holder of the transition lock
          flock,    \* holder of the session lifecycle lock
          drv,      \* what every driver is doing
          view,     \* what every viewer is doing
          spent,    \* how much of each bound is used up
          stopped,  \* history: a stop was granted, and no start since
          origin    \* history: who started each instance of this process

disk == <<meta, life, sock>>
tasks == <<run, result, ending>>
memory == <<managed, spec, closing>>
locks == <<lock, flock>>
history == <<stopped, origin>>
vars == <<disk, tasks, memory, locks, drv, view, spent, history>>

Inst == 1..MaxInstances
Keys == (0..MaxInstances) \X BOOLEAN
Drivers == Reapers \cup Requests

Lives == [status : {"none", "starting", "active", "stopping", "stopped", "crashed"},
          policy : {"never", "on-failure"}, count : 0..MaxRestarts, next : BOOLEAN]
NoLife == [status |-> "none", policy |-> "never", count |-> 0, next |-> FALSE]

Idle == [pc |-> "idle", kind |-> "none", key |-> <<0, FALSE>>, from |-> "none", copy |-> NoLife]

\* Every variable has the shape the code gives it.
TypeOK ==
  /\ meta \in Keys /\ life \in Lives /\ sock \in 0..MaxInstances
  /\ run \in [Inst -> {"none", "bound", "up", "stopping", "ended", "fenced", "read", "saved", "done"}]
  /\ result \in [Inst -> {"none", "stopped", "crashed"}] /\ ending \in [Inst -> Lives]
  /\ managed \in 0..MaxInstances /\ spec \in BOOLEAN /\ closing \subseteq Keys
  /\ lock \in Requests \cup {None} /\ flock \in Drivers \cup {None}
  /\ drv \in [Drivers -> [pc : {"idle", "look", "take", "wait", "clean", "forget", "judge", "keep",
                                "plan", "plan save", "specs", "contains", "due", "due save", "old",
                                "start", "probe", "spawn", "previous", "vacant", "bind",
                                "starting", "metadata", "active", "insert", "spec", "body",
                                "fence", "policy save", "stop", "unmanaged", "cancel",
                                "stop read", "stop save", "shut", "shut read", "shut save",
                                "send", "join"},
                          kind : Kinds \cup {"none", "tick"}, key : Keys,
                          from : {"none", "reap", "due", "body", "stop", "gone", "cancel", "dirty"},
                          copy : Lives]]
  /\ view \in [Viewers -> [pc : {"idle", "probe", "save"}, copy : Lives]]
  /\ spent \in [requests : 0..MaxRequests, views : 0..MaxViews, failures : 0..MaxFailures, deaths : 0..MaxDeaths]
  /\ stopped \in BOOLEAN /\ origin \in [Inst -> {"none", "request", "restart", "lost"}]

Init ==
  /\ meta = <<0, FALSE>> /\ life = NoLife /\ sock = 0
  /\ run = [n \in Inst |-> "none"] /\ result = [n \in Inst |-> "none"]
  /\ ending = [n \in Inst |-> NoLife]
  /\ managed = 0 /\ spec = FALSE /\ closing = {} /\ lock = None /\ flock = None
  /\ drv = [d \in Drivers |-> Idle]
  /\ view = [v \in Viewers |-> [pc |-> "idle", copy |-> NoLife]]
  /\ spent = [requests |-> 0, views |-> 0, failures |-> 0, deaths |-> 0]
  /\ stopped = FALSE /\ origin = [n \in Inst |-> "none"]

Up(n) == run[n] \in {"up", "stopping"}
Done(n) == run[n] = "done"
\* session_is_active: there is a listener.  One that does not serve yet keeps
\* the probe waiting, which then answers late or fails, but never finds none.
Active == sock # 0 /\ run[sock] \in {"bound", "up", "stopping"}

-----------------------------------------------------------------------------
(* The runtime task and the join task that follows it. *)

Crash(n) ==
  /\ Up(n)
  /\ run' = [run EXCEPT ![n] = "ended"] /\ result' = [result EXCEPT ![n] = "crashed"]
  /\ UNCHANGED <<disk, ending, memory, locks, drv, view, spent, history>>

\* RuntimeCommand::Shutdown is served.
Halt(n) ==
  /\ run[n] = "stopping"
  /\ run' = [run EXCEPT ![n] = "ended"] /\ result' = [result EXCEPT ![n] = "stopped"]
  /\ UNCHANGED <<disk, ending, memory, locks, drv, view, spent, history>>

\* The fence, then the metadata with process id 0 ...
JoinMeta(n) ==
  /\ run[n] = "ended"
  /\ closing' = closing \cup {<<n, TRUE>>}
  /\ meta' = <<n, FALSE>>
  /\ run' = [run EXCEPT ![n] = "fenced"]
  /\ UNCHANGED <<life, sock, result, ending, managed, spec, locks, drv, view, spent, history>>

\* ... the lifecycle, read ...
JoinRead(n) ==
  /\ run[n] = "fenced"
  /\ ending' = [ending EXCEPT ![n] = life]
  /\ run' = [run EXCEPT ![n] = "read"]
  /\ UNCHANGED <<disk, result, memory, locks, drv, view, spent, history>>

\* ... and written back ...
JoinSave(n) ==
  /\ run[n] = "read"
  /\ life' = [ending[n] EXCEPT !.status = result[n]]
  /\ ending' = [ending EXCEPT ![n] = NoLife]
  /\ run' = [run EXCEPT ![n] = "saved"]
  /\ UNCHANGED <<meta, sock, result, memory, locks, drv, view, spent, history>>

\* ... and the socket path, whatever it names by now.
JoinSocket(n) ==
  /\ run[n] = "saved"
  /\ sock' = 0
  /\ run' = [run EXCEPT ![n] = "done"]
  /\ UNCHANGED <<meta, life, result, ending, memory, locks, drv, view, spent, history>>

-----------------------------------------------------------------------------
(* Reapers and requests.  Go and GoWith say what a driver does next. *)

Go(d, pc) == drv' = [drv EXCEPT ![d].pc = pc]
GoWith(d, pc, copy) == drv' = [drv EXCEPT ![d].pc = pc, ![d].copy = copy]

\* A request that returns releases the lock.
Return(d) ==
  /\ drv' = [drv EXCEPT ![d] = Idle]
  /\ lock' = None

\* The first part of reap_finished is over ...
Collected(d) == drv' = [drv EXCEPT ![d] = [Idle EXCEPT !.pc = "specs", !.kind = drv[d].kind]]

\* ... and the second.
Reaped(d) == drv' = [drv EXCEPT ![d] = IF d \in Reapers THEN Idle
                                       ELSE [Idle EXCEPT !.pc = "body", !.kind = drv[d].kind]]

Tick(d) ==
  /\ d \in Reapers /\ drv[d].pc = "idle"
  /\ drv' = [drv EXCEPT ![d] = [Idle EXCEPT !.pc = "look", !.kind = "tick"]]
  /\ UNCHANGED <<disk, tasks, memory, locks, view, spent, history>>

Request(d, kind) ==
  /\ d \in Requests /\ drv[d].pc = "idle" /\ lock = None
  /\ spent.requests < MaxRequests
  /\ spent' = [spent EXCEPT !.requests = @ + 1]
  /\ lock' = d
  /\ drv' = [drv EXCEPT ![d] = [Idle EXCEPT !.pc = "look", !.kind = kind]]
  /\ UNCHANGED <<disk, tasks, memory, flock, view, history>>

\* Defect: the lifecycle file says whether the runtime is over.
LookAtStatus(d) ==
  /\ drv[d].pc = "look"
  /\ Go(d, IF managed # 0 /\ life.status = "crashed" THEN "take" ELSE "specs")
  /\ UNCHANGED <<disk, tasks, memory, locks, view, spent, history>>

\* reap_finished: the list of finished handles ...
Look(d) ==
  /\ drv[d].pc = "look"
  /\ Go(d, IF managed # 0 /\ Done(managed) THEN "take" ELSE "specs")
  /\ UNCHANGED <<disk, tasks, memory, locks, view, spent, history>>

\* Defect: the handle is waited for and stays in the map.
TakeShared(d) ==
  /\ drv[d].pc = "take"
  /\ IF managed = 0
     THEN Go(d, "specs") /\ UNCHANGED closing
     ELSE /\ closing' = closing \cup {<<managed, TRUE>>}
          /\ drv' = [drv EXCEPT ![d].pc = "wait", ![d].key = <<managed, TRUE>>, ![d].from = "reap"]
  /\ UNCHANGED <<disk, tasks, managed, spec, locks, view, spent, history>>

\* ... and then, by name, whatever handle the session has by now.
Take(d) ==
  /\ drv[d].pc = "take"
  /\ IF managed = 0
     THEN Go(d, "specs") /\ UNCHANGED <<managed, closing>>
     ELSE /\ closing' = closing \cup {<<managed, TRUE>>}
          /\ managed' = 0
          /\ drv' = [drv EXCEPT ![d].pc = "wait", ![d].key = <<managed, TRUE>>, ![d].from = "reap"]
  /\ UNCHANGED <<disk, tasks, spec, locks, view, spent, history>>

\* RuntimeHandle::wait or shutdown ends with the join task.
Wait(d) ==
  /\ drv[d].pc \in {"wait", "join"} /\ Done(drv[d].key[1])
  /\ closing' = closing \cup {drv[d].key}
  /\ Go(d, "clean")
  /\ UNCHANGED <<disk, tasks, managed, spec, locks, view, spent, history>>

\* shutdown reports how the runtime ended unless it had crashed already.
ShutWell(d) == drv[d].from = "gone" \/ (drv[d].from = "stop" /\ result[drv[d].key[1]] = "stopped")

\* start_resolved is called.
Begin(d, from) == drv' = [drv EXCEPT ![d] = [Idle EXCEPT !.pc = "start", !.kind = drv[d].kind,
                                                         !.from = from]]

\* remove_agent_sessions, what it leaves and where it leads to.
Cleaned(d, ok) ==
  LET from == drv[d].from
      granted == ok /\ ShutWell(d)
  IN  /\ closing' = IF ok THEN closing \ {drv[d].key} ELSE closing
      /\ stopped' = (stopped \/ (drv[d].kind = "stop" /\ granted))
      /\ CASE from = "reap" ->
                Go(d, IF result[drv[d].key[1]] = "stopped" THEN "forget" ELSE "judge")
                  /\ UNCHANGED lock
           [] from = "due" -> (IF ok THEN Begin(d, "due") ELSE Go(d, "plan")) /\ UNCHANGED lock
           [] from = "cancel" -> /\ drv' = [drv EXCEPT ![d].pc = "stop read",
                                                       ![d].from = IF ok THEN @ ELSE "dirty"]
                                 /\ UNCHANGED lock
           [] from \in {"stop", "gone"} ->
                IF drv[d].kind = "restart" /\ granted
                THEN Begin(d, "body") /\ UNCHANGED lock
                ELSE Return(d)
           [] from = "body" -> IF ok THEN Begin(d, "body") /\ UNCHANGED lock ELSE Return(d)

Clean(d) ==
  /\ drv[d].pc = "clean"
  /\ \/ Cleaned(d, TRUE) /\ UNCHANGED spent
     \/ /\ spent.failures < MaxFailures
        /\ spent' = [spent EXCEPT !.failures = @ + 1]
        /\ Cleaned(d, FALSE)
  /\ UNCHANGED <<disk, tasks, managed, spec, flock, view, origin>>

\* The session ended well, or is being stopped: no restart.
Forget(d) ==
  /\ drv[d].pc = "forget"
  /\ spec' = FALSE
  /\ IF drv[d].from = "stop" THEN Go(d, "shut") ELSE Collected(d)
  /\ UNCHANGED <<disk, tasks, managed, closing, locks, view, spent, history>>

\* A crashed session is restarted when its policy says so ...
Judge(d) ==
  /\ drv[d].pc = "judge"
  /\ Go(d, IF life.policy = "on-failure" THEN "keep" ELSE "forget")
  /\ UNCHANGED <<disk, tasks, memory, locks, view, spent, history>>

\* ... and the spec is still there.
HasSpec(d) ==
  /\ drv[d].pc = "keep"
  /\ Go(d, IF spec THEN "plan" ELSE "forget")
  /\ UNCHANGED <<disk, tasks, memory, locks, view, spent, history>>

\* Where schedule_restart returns to.
Planned(d) == IF drv[d].from = "reap" THEN Collected(d) ELSE Reaped(d)

\* schedule_restart reads the lifecycle ...
Plan(d) ==
  /\ drv[d].pc = "plan"
  /\ IF life.policy # "on-failure"
     THEN Planned(d)
     ELSE GoWith(d, "plan save", IF life.count >= MaxRestarts
                               THEN [life EXCEPT !.next = FALSE]
                               ELSE [life EXCEPT !.next = TRUE, !.count = @ + 1])
  /\ UNCHANGED <<disk, tasks, memory, locks, view, spent, history>>

\* ... and writes it back.
PlanSave(d) ==
  /\ drv[d].pc = "plan save"
  /\ life' = drv[d].copy
  /\ Planned(d)
  /\ UNCHANGED <<meta, sock, tasks, memory, locks, view, spent, history>>

-----------------------------------------------------------------------------
(* restart_due_sessions *)

\* The specs are copied ...
Specs(d) ==
  /\ drv[d].pc = "specs"
  /\ IF spec THEN Go(d, "contains") ELSE Reaped(d)
  /\ UNCHANGED <<disk, tasks, memory, locks, view, spent, history>>

\* ... then a session with a handle is passed over ...
Contains(d) ==
  /\ drv[d].pc = "contains"
  /\ IF managed = 0 THEN Go(d, "due") ELSE Reaped(d)
  /\ UNCHANGED <<disk, tasks, memory, locks, view, spent, history>>

Scheduled == life.policy = "on-failure" /\ life.status = "crashed" /\ life.next

\* ... and so is one whose restart is not scheduled, or not due yet.
NotDue(d) ==
  /\ drv[d].pc = "due"
  /\ Reaped(d)
  /\ UNCHANGED <<disk, tasks, memory, locks, view, spent, history>>

Due(d) ==
  /\ drv[d].pc = "due" /\ Scheduled
  /\ drv' = [drv EXCEPT ![d].pc = "due save", ![d].from = "due",
                        ![d].copy = [life EXCEPT !.next = FALSE]]
  /\ UNCHANGED <<disk, tasks, memory, locks, view, spent, history>>

DueSave(d) ==
  /\ drv[d].pc = "due save"
  /\ life' = drv[d].copy
  /\ GoWith(d, "old", NoLife)
  /\ UNCHANGED <<meta, sock, tasks, memory, locks, view, spent, history>>

\* The instance the metadata names is the one to clean up after.
Old(d) ==
  /\ drv[d].pc = "old"
  /\ closing' = closing \cup {meta}
  /\ drv' = [drv EXCEPT ![d].pc = "clean", ![d].key = meta]
  /\ UNCHANGED <<disk, tasks, managed, spec, locks, view, spent, history>>

-----------------------------------------------------------------------------
(* start_resolved and spawn_runtime_inner *)

\* start_resolved is refused.
StartFails(d) ==
  IF drv[d].from = "due" THEN Go(d, "plan") /\ UNCHANGED lock ELSE Return(d)

Start(d) ==
  /\ drv[d].pc = "start"
  /\ IF managed # 0 THEN StartFails(d) ELSE Go(d, "probe") /\ UNCHANGED lock
  /\ UNCHANGED <<disk, tasks, memory, flock, view, spent, history>>

Probe(d) ==
  /\ drv[d].pc = "probe"
  /\ IF Active THEN StartFails(d) ELSE Go(d, "spawn") /\ UNCHANGED lock
  /\ UNCHANGED <<disk, tasks, memory, flock, view, spent, history>>

\* The lifecycle lock, and ensure_session_replacement_allowed under it.
Spawn(d) ==
  /\ drv[d].pc = "spawn" /\ flock = None
  /\ IF closing # {}
     THEN StartFails(d) /\ UNCHANGED flock
     ELSE Go(d, "previous") /\ flock' = d /\ UNCHANGED lock
  /\ UNCHANGED <<disk, tasks, memory, view, spent, history>>

\* The previous lifecycle is read ...
Previous(d) ==
  /\ drv[d].pc = "previous"
  /\ GoWith(d, "vacant", life)
  /\ UNCHANGED <<disk, tasks, memory, locks, view, spent, history>>

\* started_at is the time, moved past every start on disk: a new instance.
Fresh == 1 + Cardinality({n \in Inst : run[n] # "none"})

\* ... remove_inactive_socket_unlocked probes again (at the bound the start
\* fails, as it does when the listener cannot be bound) ...
Vacant(d) ==
  /\ drv[d].pc = "vacant"
  /\ IF Active \/ Fresh > MaxInstances
     THEN StartFails(d) /\ flock' = None
     ELSE Go(d, "bind") /\ UNCHANGED locks
  /\ UNCHANGED <<disk, tasks, memory, view, spent, history>>

\* ... removes the path and binds it ...
Bind(d) ==
  /\ drv[d].pc = "bind"
  /\ sock' = Fresh
  /\ run' = [run EXCEPT ![Fresh] = "bound"]
  /\ drv' = [drv EXCEPT ![d].pc = "starting", ![d].key = <<Fresh, TRUE>>]
  /\ origin' = [origin EXCEPT ![Fresh] = IF drv[d].from = "due" THEN "restart" ELSE "request"]
  /\ UNCHANGED <<meta, life, result, ending, memory, locks, view, spent, stopped>>

\* ... and saves starting, ...
SaveStarting(d) ==
  /\ drv[d].pc = "starting"
  /\ life' = [drv[d].copy EXCEPT !.status = "starting", !.next = FALSE]
  /\ Go(d, "metadata")
  /\ UNCHANGED <<meta, sock, tasks, memory, locks, view, spent, history>>

\* ... the metadata ...
SaveMeta(d) ==
  /\ drv[d].pc = "metadata"
  /\ meta' = drv[d].key
  /\ Go(d, "active")
  /\ UNCHANGED <<life, sock, tasks, memory, locks, view, spent, history>>

\* ... and active, and the runtime serves.
Serve(d) ==
  /\ drv[d].pc = "active"
  /\ life' = [drv[d].copy EXCEPT !.status = "active", !.next = FALSE]
  /\ run' = [run EXCEPT ![drv[d].key[1]] = "up"]
  /\ GoWith(d, "insert", NoLife)
  /\ flock' = None
  /\ stopped' = (stopped /\ drv[d].from = "due")
  /\ UNCHANGED <<meta, sock, result, ending, memory, lock, view, spent, origin>>

\* The handle and then the spec are kept.
Insert(d) ==
  /\ drv[d].pc = "insert"
  /\ managed' = drv[d].key[1]
  /\ Go(d, "spec")
  /\ UNCHANGED <<disk, tasks, spec, closing, locks, view, spent, history>>

InsertSpec(d) ==
  /\ drv[d].pc = "spec"
  /\ spec' = TRUE
  /\ IF drv[d].from = "due" THEN Reaped(d) /\ UNCHANGED lock ELSE Return(d)
  /\ UNCHANGED <<disk, tasks, managed, closing, flock, view, spent, history>>

-----------------------------------------------------------------------------
(* Requests, once they have reaped *)

\* restart_with_environment reads the metadata, set_restart_policy the
\* lifecycle and whether a spec is kept.
Body(d) ==
  /\ drv[d].pc = "body"
  /\ CASE drv[d].kind = "start" -> Begin(d, "body") /\ UNCHANGED lock
       [] drv[d].kind = "stop" -> Go(d, "stop") /\ UNCHANGED lock
       [] drv[d].kind = "restart" ->
            IF meta[1] = 0
            THEN Return(d)
            ELSE /\ drv' = [drv EXCEPT ![d].pc = "fence", ![d].key = meta, ![d].from = "body"]
                 /\ UNCHANGED lock
       [] OTHER ->
            IF life.status = "none"
            THEN Return(d)
            ELSE /\ GoWith(d, "policy save",
                         [life EXCEPT !.policy = drv[d].kind,
                            !.next = /\ drv[d].kind = "on-failure"
                                     /\ \/ @
                                        \/ life.status = "crashed" /\ spec /\ life.count < MaxRestarts])
                 /\ UNCHANGED lock
  /\ UNCHANGED <<disk, tasks, memory, flock, view, spent, history>>

PolicySave(d) ==
  /\ drv[d].pc = "policy save"
  /\ life' = drv[d].copy
  /\ Return(d)
  /\ UNCHANGED <<meta, sock, tasks, memory, flock, view, spent, history>>

\* restart_with_environment fences the instance and probes it; the probe of a
\* listener that does not serve yet may fail.
Fence(d) ==
  /\ drv[d].pc = "fence"
  /\ closing' = closing \cup {drv[d].key}
  /\ \/ Go(d, IF Active THEN "stop" ELSE "clean") /\ UNCHANGED lock
     \/ sock # 0 /\ run[sock] = "bound" /\ Return(d)
  /\ UNCHANGED <<disk, tasks, managed, spec, flock, view, spent, history>>

\* stop_owned_validated: with a handle ...
Stop(d) ==
  /\ drv[d].pc = "stop"
  /\ IF managed = 0
     THEN Go(d, "unmanaged") /\ UNCHANGED <<managed, closing>>
     ELSE /\ closing' = closing \cup {<<managed, TRUE>>}
          /\ managed' = 0
          /\ drv' = [drv EXCEPT ![d].pc = "forget", ![d].key = <<managed, TRUE>>, ![d].from = "stop"]
  /\ UNCHANGED <<disk, tasks, spec, locks, view, spent, history>>

\* ... or without one ...
Unmanaged(d) ==
  /\ drv[d].pc = "unmanaged"
  /\ IF Active THEN Return(d) ELSE Go(d, "cancel") /\ UNCHANGED lock
  /\ UNCHANGED <<disk, tasks, memory, flock, view, spent, history>>

\* ... a pending restart is cancelled ...
Cancel(d) ==
  /\ drv[d].pc = "cancel"
  /\ IF spec
     THEN /\ spec' = FALSE
          /\ closing' = closing \cup {meta}
          /\ drv' = [drv EXCEPT ![d].pc = "clean", ![d].key = meta, ![d].from = "cancel"]
          /\ UNCHANGED lock
     ELSE Return(d) /\ UNCHANGED <<spec, closing>>
  /\ UNCHANGED <<disk, tasks, managed, flock, view, spent, history>>

StopRead(d) ==
  /\ drv[d].pc = "stop read"
  /\ GoWith(d, "stop save", life)
  /\ UNCHANGED <<disk, tasks, memory, locks, view, spent, history>>

\* ... in the file too.
StopSave(d) ==
  /\ drv[d].pc = "stop save"
  /\ life' = [drv[d].copy EXCEPT !.status = "stopped", !.next = FALSE]
  /\ stopped' = (stopped \/ (drv[d].kind = "stop" /\ drv[d].from = "cancel"))
  /\ IF drv[d].kind = "restart" /\ drv[d].from = "cancel"
     THEN Begin(d, "body") /\ UNCHANGED lock
     ELSE Return(d)
  /\ UNCHANGED <<meta, sock, tasks, memory, flock, view, spent, origin>>

\* RuntimeHandle::shutdown: the file may say the session crashed ...
Shut(d) ==
  /\ drv[d].pc = "shut"
  /\ drv' = [drv EXCEPT ![d].pc = IF life.status = "crashed" THEN "join" ELSE "shut read",
                        ![d].from = IF life.status = "crashed" THEN "gone" ELSE @]
  /\ UNCHANGED <<disk, tasks, memory, locks, view, spent, history>>

\* ... or the runtime has ended ...
ShutRead(d) ==
  /\ drv[d].pc = "shut read"
  /\ IF Done(drv[d].key[1]) THEN Go(d, "join") ELSE GoWith(d, "shut save", life)
  /\ UNCHANGED <<disk, tasks, memory, locks, view, spent, history>>

\* ... or is marked stopping, whatever it did since ...
ShutSave(d) ==
  /\ drv[d].pc = "shut save"
  /\ life' = [drv[d].copy EXCEPT !.status = "stopping"]
  /\ GoWith(d, "send", NoLife)
  /\ UNCHANGED <<meta, sock, tasks, memory, locks, view, spent, history>>

\* Defect: the runtime is not told.
SendNothing(d) ==
  /\ drv[d].pc = "send"
  /\ Go(d, "join")
  /\ UNCHANGED <<disk, tasks, memory, locks, view, spent, history>>

\* ... and told to stop.
Send(d) ==
  /\ drv[d].pc = "send"
  /\ run' = [run EXCEPT ![drv[d].key[1]] = IF @ = "up" THEN "stopping" ELSE @]
  /\ Go(d, "join")
  /\ UNCHANGED <<disk, result, ending, memory, locks, view, spent, history>>

-----------------------------------------------------------------------------
(* Views write too: inspect_session records a crash it infers. *)

Inspect(v) ==
  /\ view[v].pc = "idle" /\ spent.views < MaxViews
  /\ spent' = [spent EXCEPT !.views = @ + 1]
  /\ meta[1] # 0 /\ life.status \in {"starting", "active", "stopping"}
  /\ view' = [view EXCEPT ![v] = [pc |-> "probe", copy |-> life]]
  /\ UNCHANGED <<disk, tasks, memory, locks, drv, history>>

InspectProbe(v) ==
  /\ view[v].pc = "probe"
  /\ view' = [view EXCEPT ![v] = IF Active THEN [pc |-> "idle", copy |-> NoLife]
                                 ELSE [@ EXCEPT !.pc = "save"]]
  /\ UNCHANGED <<disk, tasks, memory, locks, drv, spent, history>>

InspectSave(v) ==
  /\ view[v].pc = "save"
  /\ life' = [view[v].copy EXCEPT !.status = "crashed"]
  /\ view' = [view EXCEPT ![v] = [pc |-> "idle", copy |-> NoLife]]
  /\ UNCHANGED <<meta, sock, tasks, memory, locks, drv, spent, history>>

\* Defect: the restart spec outlives the process.
DieKeepingSpec ==
  /\ spent.deaths < MaxDeaths
  /\ spent' = [spent EXCEPT !.deaths = @ + 1]
  /\ life' = IF meta[1] = 0 \/ life.status \in {"none", "stopped"} THEN life
             ELSE [life EXCEPT !.status = "crashed",
                               !.next = IF life.policy = "on-failure" THEN FALSE ELSE @]
  /\ sock' = 0
  /\ run' = [n \in Inst |-> IF run[n] = "none" THEN "none" ELSE "done"]
  /\ result' = [n \in Inst |-> IF run[n] = "none" THEN "none" ELSE "crashed"]
  /\ origin' = [n \in Inst |-> IF run[n] = "none" THEN "none" ELSE "lost"]
  /\ ending' = [n \in Inst |-> NoLife]
  /\ managed' = 0 /\ closing' = {} /\ lock' = None /\ flock' = None
  /\ drv' = [d \in Drivers |-> Idle]
  /\ view' = [v \in Viewers |-> [pc |-> "idle", copy |-> NoLife]]
  /\ UNCHANGED <<meta, spec, stopped>>

\* The supervisor dies with everything in memory; reconcile_stale_sessions
\* runs before the next one listens, over the sessions that have metadata.
Die ==
  /\ spent.deaths < MaxDeaths
  /\ spent' = [spent EXCEPT !.deaths = @ + 1]
  /\ life' = IF meta[1] = 0 \/ life.status \in {"none", "stopped"} THEN life
             ELSE [life EXCEPT !.status = "crashed",
                               !.next = IF life.policy = "on-failure" THEN FALSE ELSE @]
  /\ sock' = 0
  /\ run' = [n \in Inst |-> IF run[n] = "none" THEN "none" ELSE "done"]
  /\ result' = [n \in Inst |-> IF run[n] = "none" THEN "none" ELSE "crashed"]
  /\ origin' = [n \in Inst |-> IF run[n] = "none" THEN "none" ELSE "lost"]
  /\ ending' = [n \in Inst |-> NoLife]
  /\ managed' = 0 /\ spec' = FALSE /\ closing' = {} /\ lock' = None /\ flock' = None
  /\ drv' = [d \in Drivers |-> Idle]
  /\ view' = [v \in Viewers |-> [pc |-> "idle", copy |-> NoLife]]
  /\ UNCHANGED <<meta, stopped>>

-----------------------------------------------------------------------------
Step(d) ==
  \/ Look(d) \/ Take(d) \/ Wait(d) \/ Clean(d) \/ Forget(d) \/ Judge(d) \/ HasSpec(d)
  \/ Plan(d) \/ PlanSave(d) \/ Specs(d) \/ Contains(d) \/ NotDue(d) \/ Due(d) \/ DueSave(d)
  \/ Old(d) \/ Start(d) \/ Probe(d) \/ Spawn(d) \/ Previous(d) \/ Vacant(d) \/ Bind(d)
  \/ SaveStarting(d) \/ SaveMeta(d) \/ Serve(d) \/ Insert(d) \/ InsertSpec(d)
  \/ Body(d) \/ PolicySave(d) \/ Fence(d) \/ Stop(d) \/ Unmanaged(d) \/ Cancel(d)
  \/ StopRead(d) \/ StopSave(d) \/ Shut(d) \/ ShutRead(d) \/ ShutSave(d) \/ Send(d)

Join(n) == Halt(n) \/ JoinMeta(n) \/ JoinRead(n) \/ JoinSave(n) \/ JoinSocket(n)
Views(v) == InspectProbe(v) \/ InspectSave(v)

Next ==
  \/ \E n \in Inst : Crash(n) \/ Join(n)
  \/ \E d \in Drivers : Tick(d) \/ Step(d)
  \/ \E d \in Requests, kind \in Kinds : Request(d, kind)
  \/ \E v \in Viewers : Inspect(v) \/ Views(v)
  \/ Die

\* Every join task, driver and view is polled, the lifecycle lock is granted
\* to whoever polls for it, and the tick is periodic.
Fairness ==
  /\ \A n \in Inst : WF_vars(Join(n))
  /\ \A d \in Drivers : WF_vars(Step(d))
  /\ \A d \in Reapers : WF_vars(Tick(d))
  /\ \A v \in Viewers : WF_vars(Views(v))

Spec == Init /\ [][Next]_vars /\ Fairness

-----------------------------------------------------------------------------
\* d owns the handle of instance n.
Holds(d, n) ==
  /\ drv[d].key = <<n, TRUE>>
  /\ \/ drv[d].pc \in {"insert", "wait", "shut", "shut read", "shut save", "send", "join"}
     \/ drv[d].pc = "forget" /\ drv[d].from = "stop"

\* A runtime's handle has one owner: the map of sessions, or one reaper or
\* request that took it from there.  So the end of a runtime is collected
\* once, however many passes of reap_finished run beside each other.
HandleOnce ==
  \A n \in Inst, d \in Drivers :
    Holds(d, n) => managed # n /\ \A e \in Drivers \ {d} : ~Holds(e, n)

\* A session that can be reached keeps its socket and its metadata against
\* every start, automatic or requested, that overlaps its own: what takes
\* them away is the join task of another instance, which holds no lock.
OnlyJoinEvicts ==
  [][\A n \in Inst :
       Up(n) /\ Up(n)' /\ sock = n /\ meta = <<n, TRUE>>
         => \/ sock' = n /\ meta' = meta
            \/ \E m \in Inst \ {n} : run[m] \in {"ended", "saved"} /\ run'[m] # run[m]]_vars

\* "enables automatic restart only after unexpected runtime failure"
\* (docs/managed-sessions.md): an instance started automatically comes after
\* one of the same supervisor process that crashed.  Views that record a
\* crash nobody had, policy changes and stops do not make for a restart, and
\* a restart that was pending when the supervisor died is not resumed.
RestartFollowsCrash ==
  \A n \in Inst : origin[n] = "restart" =>
    \E m \in 1..(n - 1) : origin[m] \in {"request", "restart"} /\ result[m] = "crashed"

\* d waits for a runtime that nobody told to stop: reap_finished took the
\* handle by name, or shutdown read of a crash in the lifecycle file.
Stuck(d) ==
  /\ drv[d].pc = "wait" \/ (drv[d].pc = "join" /\ drv[d].from = "gone")
  /\ run[drv[d].key[1]] = "up"

\* Nothing but such a runtime holds up a reaper or a request: neither the
\* locks, nor a runtime that was told to stop, nor one that ended.
OnlyLiveRuntimesBlock ==
  \A d \in Drivers : (drv[d].pc # "idle") ~> (drv[d].pc = "idle" \/ Stuck(d))

\* The handle of a runtime that ended does not stay in the map of sessions,
\* whatever the lifecycle file says, as long as the maintenance pass runs.
FinishedIsReaped ==
  (managed # 0 /\ Done(managed))
    ~> (managed = 0 \/ ~Done(managed) \/ \E r \in Reapers : Stuck(r))

\* "graceful stop never restarts" (docs/managed-sessions.md): once a stop has
\* been granted the session is down until it is asked for again.
StopIsFinal == stopped => \A n \in Inst : ~Up(n)
=============================================================================
