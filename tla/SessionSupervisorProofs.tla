----------------------- MODULE SessionSupervisorProofs -----------------------
(***************************************************************************)
(* Proofs about SessionSupervisor, for any number of reapers, requests,    *)
(* viewers, instances, restarts, failed cleanups and deaths, and for every *)
(* interleaving of them.                                                   *)
(*                                                                         *)
(* The transition lock (Locked) and the lifecycle lock (Starting) are what *)
(* the code has to keep drivers apart; Handles and Vacancy follow from     *)
(* them.  The last part shows that a supervisor process none of whose      *)
(* runtimes has crashed yet (Calm) restarts nothing: there a pending       *)
(* restart is either left over from an earlier process, and no spec is     *)
(* kept, or was ordered while a view had the session down as crashed, and  *)
(* then its runtime is still up and answers the probe.                     *)
(***************************************************************************)
EXTENDS SessionSupervisor, FiniteSetTheorems, TLAPS

Pcs == {"idle", "look", "take", "wait", "clean", "forget", "judge", "keep", "plan", "plan save",
        "specs", "contains", "due", "due save", "old", "start", "probe", "spawn", "previous",
        "vacant", "bind", "starting", "metadata", "active", "insert", "spec", "body", "fence",
        "policy save", "stop", "unmanaged", "cancel", "stop read", "stop save", "shut",
        "shut read", "shut save", "send", "join"}
Froms == {"none", "reap", "due", "body", "stop", "gone", "cancel", "dirty"}
AllKinds == Kinds \cup {"none", "tick"}
Driver == [pc : Pcs, kind : AllKinds, key : Keys, from : Froms, copy : Lives]

-----------------------------------------------------------------------------
(* Where drivers are. *)

\* Places only a request gets to.
OfRequests == {"body", "fence", "policy save", "stop", "unmanaged", "cancel", "stop read",
               "stop save", "shut", "shut read", "shut save", "send", "join"}

\* Places inside the lifecycle lock, and those with an instance of its own.
Inside == {"previous", "vacant", "bind", "starting", "metadata", "active"}
Binding == {"starting", "metadata", "active"}
Handling == {"insert", "wait", "shut", "shut read", "shut save", "send", "join"}

\* Which paths lead to a place.
Route(pc, from) ==
  /\ pc \in {"wait", "judge", "keep"} => from = "reap"
  /\ pc = "clean" => from \notin {"none", "dirty"}
  /\ pc = "forget" => from \in {"reap", "stop"}
  /\ pc \in {"plan", "plan save"} => from \in {"reap", "due"}
  /\ pc \in {"due save", "old"} => from = "due"
  /\ pc \in Inside \cup {"start", "probe", "spawn", "insert", "spec"} => from \in {"due", "body"}
  /\ pc \in {"shut", "shut read", "shut save", "send"} => from = "stop"
  /\ pc = "join" => from \in {"stop", "gone"}
  /\ pc = "fence" => from = "body"
  /\ pc \in {"stop read", "stop save"} => from \in {"cancel", "dirty"}
  /\ pc \in {"idle", "look", "take", "specs", "contains", "due", "body", "policy save"} => from = "none"
  /\ pc \in {"stop", "unmanaged", "cancel"} => from \in {"none", "body"}

\* A reaper only reaps and restarts, a request asks for something, and a
\* driver with a handle or a new instance knows which.
Role(d, pc, kind, key, from) ==
  /\ d \in Reapers => pc \notin OfRequests /\ from \in {"none", "reap", "due"}
  /\ d \in Requests /\ pc # "idle" => kind \in Kinds
  /\ pc \in Handling \cup Binding \cup {"spec"} \/ (pc = "forget" /\ from = "stop") =>
       key[1] \in Inst /\ key = <<key[1], TRUE>>
  /\ Route(pc, from)

Roles == \A d \in Drivers : Role(d, drv[d].pc, drv[d].kind, drv[d].key, drv[d].from)

\* A request under way holds the transition lock.
Locked == \A d \in Requests : drv[d].pc # "idle" => lock = d

Base == TypeOK /\ Roles /\ Locked

-----------------------------------------------------------------------------
(* Starts. *)

\* Instances are numbered as they start.
Numbered == \E k \in 0..MaxInstances : \A n \in Inst : run[n] # "none" <=> n <= k

StartsAt(d, pc, key) ==
  /\ pc \in Inside => flock = d
  /\ pc = "bind" => ~Active /\ Fresh \in Inst
  /\ pc \in Binding => run[key[1]] = "bound" /\ sock \in {0, key[1]}

\* A start that has passed the second probe keeps the socket path to itself.
Starting == \A d \in Drivers : StartsAt(d, drv[d].pc, drv[d].key)

-----------------------------------------------------------------------------
(* Handles. *)

\* The handle of an instance exists once it serves.
Owned ==
  /\ managed # 0 => run[managed] \notin {"none", "bound"}
  /\ \A d \in Drivers, n \in Inst : Holds(d, n) => run[n] \notin {"none", "bound"}

Handles == Owned /\ HandleOnce

-----------------------------------------------------------------------------
(* Instances, and the records of them. *)

\* Every instance has an origin, and a result only once it has ended.
Origins ==
  \A n \in Inst :
    /\ run[n] # "none" <=> origin[n] # "none"
    /\ run[n] \in {"none", "bound", "up", "stopping"} => result[n] = "none"
    /\ run[n] \notin {"none", "done"} => origin[n] # "lost"

\* A restart is pending only under the policy that asks for it ...
Sound(l) == l.next => l.policy = "on-failure"
Records ==
  /\ Sound(life)
  /\ \A d \in Drivers : Sound(drv[d].copy)
  /\ \A n \in Inst : Sound(ending[n])
  /\ \A v \in Viewers : Sound(view[v].copy)

\* ... and not before a first start has saved its metadata.
Early == {"idle", "look", "specs", "body", "start", "probe", "spawn", "previous", "vacant", "bind",
          "starting", "metadata", "policy save", "stop", "unmanaged", "cancel"}
Unborn ==
  meta[1] = 0 =>
    /\ ~life.next /\ ~spec /\ managed = 0
    /\ \A d \in Drivers : drv[d].pc \in Early /\ drv[d].from # "due" /\ ~drv[d].copy.next
    /\ \A n \in Inst : run[n] \in {"none", "bound", "done"}
    /\ \A v \in Viewers : view[v].pc = "idle"

-----------------------------------------------------------------------------
(* A process none of whose runtimes has crashed. *)

Calm == \A n \in Inst : result[n] = "crashed" => origin[n] = "lost"

Live(n) == run[n] \notin {"none", "done"}
Leaving(n) == run[n] \in {"stopping", "ended", "fenced", "read", "saved"}

\* The session is down as crashed, and up.
Pinned == life.status = "crashed" /\ sock \in Inst /\ run[sock] = "up"
\* Nothing serves.
Dormant == \A n \in Inst : run[n] \in {"none", "done", "bound"}
\* An automatic restart may be on its way.
Hot == (life.next /\ life.status = "crashed") \/ \E e \in Drivers : drv[e].from = "due"

\* The transition lock belongs to a request at this place.
HeldAt(pc, from) == lock \in Requests /\ drv[lock].pc = pc /\ drv[lock].from = from

CalmWorld ==
  /\ \A m, n \in Inst : Live(m) /\ Live(n) => m = n
  /\ \A n \in Inst : run[n] \in {"bound", "up", "stopping"} => sock = n
  /\ \A n \in Inst : Leaving(n) => HeldAt("join", "stop") /\ drv[lock].key = <<n, TRUE>>
  /\ managed # 0 => run[managed] = "up"
  /\ spec /\ managed = 0 => HeldAt("forget", "stop")
  /\ life.next => Pinned \/ (life.status \in {"none", "stopped"} /\ Dormant)
  /\ \A n \in Inst : ~ending[n].next
  /\ \A v \in Viewers : ~view[v].copy.next

CalmAt(pc, key, from, copy) ==
  /\ pc \notin {"take", "wait", "judge", "keep", "stop read", "stop save"}
  /\ from \notin {"reap", "cancel", "dirty"}
  /\ from = "due" => pc \in {"due save", "old", "clean", "start", "probe", "plan", "plan save"} /\ Pinned
  /\ pc \in {"due save", "plan save"} => copy.status = "crashed"
  /\ pc = "spec" => managed = key[1]
  /\ \/ pc \in {"insert", "forget", "shut", "shut read", "shut save", "send"}
     \/ pc = "join" /\ from = "gone"
     => run[key[1]] = "up"
  /\ pc \in {"unmanaged", "cancel"} => managed = 0
  /\ pc = "shut save" => ~copy.next
  /\ pc = "policy save" /\ copy.next =>
       \/ copy.status = "crashed" /\ Pinned
       \/ copy.status \in {"none", "stopped"} /\ Dormant
  /\ pc = "policy save" /\ Hot => copy.status = "crashed"
  /\ pc \in {"shut read", "shut save", "send"} => ~Hot

CalmInv ==
  Calm => CalmWorld /\ \A d \in Drivers : CalmAt(drv[d].pc, drv[d].key, drv[d].from, drv[d].copy)

-----------------------------------------------------------------------------
(* Types, and what an update makes of a driver. *)

\* The type of everything but the drivers.
Shapes ==
  /\ meta \in Keys /\ life \in Lives /\ sock \in 0..MaxInstances
  /\ run \in [Inst -> {"none", "bound", "up", "stopping", "ended", "fenced", "read", "saved", "done"}]
  /\ result \in [Inst -> {"none", "stopped", "crashed"}] /\ ending \in [Inst -> Lives]
  /\ managed \in 0..MaxInstances /\ spec \in BOOLEAN /\ closing \subseteq Keys
  /\ lock \in Requests \cup {None} /\ flock \in Drivers \cup {None}
  /\ view \in [Viewers -> [pc : {"idle", "probe", "save"}, copy : Lives]]
  /\ spent \in [requests : 0..MaxRequests, views : 0..MaxViews, failures : 0..MaxFailures, deaths : 0..MaxDeaths]
  /\ stopped \in BOOLEAN /\ origin \in [Inst -> {"none", "request", "restart", "lost"}]

\* The type invariant, taken apart and put together again.
LEMMA TypeApart ==
  ASSUME TypeOK
  PROVE  Shapes /\ drv \in [Drivers -> Driver]
BY DEF TypeOK, Shapes, Driver, Pcs, Froms, AllKinds

LEMMA TypeTogether ==
  ASSUME Shapes', drv' \in [Drivers -> Driver]
  PROVE  TypeOK'
BY DEF TypeOK, Shapes, Driver, Pcs, Froms, AllKinds

\* The fields of a driver have their types.
LEMMA DriverFields ==
  ASSUME drv \in [Drivers -> Driver], NEW d \in Drivers
  PROVE  /\ drv[d].pc \in Pcs /\ drv[d].kind \in AllKinds /\ drv[d].key \in Keys
         /\ drv[d].from \in Froms /\ drv[d].copy \in Lives
BY DEF Driver

\* d becomes this, and the other drivers stay what they are.
Becomes(d, pc, kind, key, from, copy) ==
  /\ drv' \in [Drivers -> Driver]
  /\ \A e \in Drivers : e # d => drv'[e] = drv[e]
  /\ drv'[d].pc = pc /\ drv'[d].kind = kind /\ drv'[d].key = key
  /\ drv'[d].from = from /\ drv'[d].copy = copy

\* d goes on to another place, with another copy of the lifecycle, starts
\* over at another place, or returns.
Moves(d, pc) == Becomes(d, pc, drv[d].kind, drv[d].key, drv[d].from, drv[d].copy)
Loads(d, pc, copy) == Becomes(d, pc, drv[d].kind, drv[d].key, drv[d].from, copy)
Restarts(d, pc, from) == Becomes(d, pc, drv[d].kind, <<0, FALSE>>, from, NoLife)
Returns(d) == Becomes(d, "idle", "none", <<0, FALSE>>, "none", NoLife)

\* Each shape of update of the module.
LEMMA GoBecomes ==
  ASSUME drv \in [Drivers -> Driver], NEW d \in Drivers, NEW pc \in Pcs, Go(d, pc)
  PROVE  Moves(d, pc)
BY DEF Go, Becomes, Driver, Moves

LEMMA NoLifeType == NoLife \in Lives
BY BoundAssumption DEF NoLife, Lives

LEMMA KeyType ==
  ASSUME NEW n \in 0..MaxInstances
  PROVE  \A b \in BOOLEAN : <<n, b>> \in Keys
BY DEF Keys

LEMMA LiveKeyType ==
  ASSUME NEW n \in 0..MaxInstances
  PROVE  <<n, TRUE>> \in Keys /\ <<n, FALSE>> \in Keys
BY KeyType, Zenon

LEMMA NoKeyType == <<0, FALSE>> \in Keys
<1>1. 0 \in 0..MaxInstances BY BoundAssumption
<1> QED BY <1>1, LiveKeyType, Zenon

LEMMA IdleType == Idle \in Driver
BY NoKeyType, NoLifeType DEF Idle, Driver, Pcs, AllKinds, Froms

\* An idle driver with some of its fields changed.
LEMMA IdleKindFields ==
  ASSUME NEW pc \in Pcs, NEW kind \in AllKinds
  PROVE  LET r == [Idle EXCEPT !.pc = pc, !.kind = kind]
         IN  /\ r \in Driver /\ r.pc = pc /\ r.kind = kind /\ r.from = "none"
             /\ r.key = <<0, FALSE>> /\ r.copy = NoLife
BY IdleType DEF Driver, Idle

LEMMA SetBecomes ==
  ASSUME drv \in [Drivers -> Driver], NEW d \in Drivers, NEW r \in Driver,
         drv' = [drv EXCEPT ![d] = r]
  PROVE  Becomes(d, r.pc, r.kind, r.key, r.from, r.copy)
BY DEF Becomes

LEMMA IdleBecomes ==
  ASSUME drv \in [Drivers -> Driver], NEW d \in Drivers, drv' = [drv EXCEPT ![d] = Idle]
  PROVE  Returns(d)
<1>1. Becomes(d, Idle.pc, Idle.kind, Idle.key, Idle.from, Idle.copy) BY IdleType, SetBecomes
<1> QED BY <1>1 DEF Idle, Returns

\* d starts over with a kind.
LEMMA KindBecomes ==
  ASSUME drv \in [Drivers -> Driver], NEW d \in Drivers, NEW pc \in Pcs, NEW kind \in AllKinds,
         drv' = [drv EXCEPT ![d] = [Idle EXCEPT !.pc = pc, !.kind = kind]]
  PROVE  Becomes(d, pc, kind, <<0, FALSE>>, "none", NoLife)
<1> DEFINE r == [Idle EXCEPT !.pc = pc, !.kind = kind]
<1>1. /\ r \in Driver /\ r.pc = pc /\ r.kind = kind /\ r.from = "none"
      /\ r.key = <<0, FALSE>> /\ r.copy = NoLife
  BY IdleKindFields
<1>2. drv' = [drv EXCEPT ![d] = r] OBVIOUS
<1> HIDE DEF r
<1>3. Becomes(d, r.pc, r.kind, r.key, r.from, r.copy) BY <1>1, <1>2, SetBecomes
<1> QED BY <1>1, <1>3

LEMMA StartBecomes ==
  ASSUME drv \in [Drivers -> Driver], NEW d \in Drivers, NEW from \in Froms, Begin(d, from)
  PROVE  Restarts(d, "start", from)
<1>0. PICK kind \in AllKinds : kind = drv[d].kind BY DriverFields
<1>p. PICK pc \in Pcs : pc = "start" BY DEF Pcs
<1> DEFINE r == [Idle EXCEPT !.pc = pc, !.kind = kind, !.from = from]
<1>1. /\ r \in Driver /\ r.pc = pc /\ r.kind = kind /\ r.from = from
      /\ r.key = <<0, FALSE>> /\ r.copy = NoLife
  BY IdleType DEF Driver, Idle
<1>2. drv' = [drv EXCEPT ![d] = r] BY <1>0, <1>p DEF Begin
<1> HIDE DEF r
<1>3. Becomes(d, r.pc, r.kind, r.key, r.from, r.copy) BY <1>1, <1>2, SetBecomes
<1> QED BY <1>0, <1>p, <1>1, <1>3 DEF Restarts

LEMMA TakeBecomes ==
  ASSUME drv \in [Drivers -> Driver], NEW d \in Drivers, NEW pc \in Pcs, NEW key \in Keys,
         NEW from \in Froms,
         drv' = [drv EXCEPT ![d].pc = pc, ![d].key = key, ![d].from = from]
  PROVE  Becomes(d, pc, drv[d].kind, key, from, drv[d].copy)
<1>1. drv' \in [Drivers -> Driver] BY DEF Driver
<1>2. drv'[d].pc = pc /\ drv'[d].key = key /\ drv'[d].from = from BY DEF Driver
<1>3. drv'[d].kind = drv[d].kind /\ drv'[d].copy = drv[d].copy BY DEF Driver
<1> QED BY <1>1, <1>2, <1>3 DEF Becomes

LEMMA FromBecomes ==
  ASSUME drv \in [Drivers -> Driver], NEW d \in Drivers, NEW pc \in Pcs, NEW from \in Froms,
         drv' = [drv EXCEPT ![d].pc = pc, ![d].from = from]
  PROVE  Becomes(d, pc, drv[d].kind, drv[d].key, from, drv[d].copy)
<1>1. drv' \in [Drivers -> Driver] BY DEF Driver
<1>2. drv'[d].pc = pc /\ drv'[d].from = from BY DEF Driver
<1>3. drv'[d].kind = drv[d].kind /\ drv'[d].key = drv[d].key /\ drv'[d].copy = drv[d].copy
  BY DEF Driver
<1> QED BY <1>1, <1>2, <1>3 DEF Becomes

LEMMA CopyBecomes ==
  ASSUME drv \in [Drivers -> Driver], NEW d \in Drivers, NEW pc \in Pcs, NEW copy \in Lives,
         GoWith(d, pc, copy)
  PROVE  Loads(d, pc, copy)
<1>0. drv' = [drv EXCEPT ![d].pc = pc, ![d].copy = copy] BY DEF GoWith
<1>1. drv' \in [Drivers -> Driver] BY <1>0 DEF Driver
<1>2. drv'[d].pc = pc /\ drv'[d].copy = copy BY <1>0 DEF Driver
<1>3. drv'[d].kind = drv[d].kind /\ drv'[d].key = drv[d].key /\ drv'[d].from = drv[d].from
  BY <1>0 DEF Driver
<1> QED BY <1>0, <1>1, <1>2, <1>3 DEF Becomes, Loads

LEMMA KeyBecomes ==
  ASSUME drv \in [Drivers -> Driver], NEW d \in Drivers, NEW pc \in Pcs, NEW key \in Keys,
         drv' = [drv EXCEPT ![d].pc = pc, ![d].key = key]
  PROVE  Becomes(d, pc, drv[d].kind, key, drv[d].from, drv[d].copy)
<1>1. drv' \in [Drivers -> Driver] BY DEF Driver
<1>2. drv'[d].pc = pc /\ drv'[d].key = key BY DEF Driver
<1>3. drv'[d].kind = drv[d].kind /\ drv'[d].from = drv[d].from /\ drv'[d].copy = drv[d].copy
  BY DEF Driver
<1> QED BY <1>1, <1>2, <1>3 DEF Becomes

LEMMA DueBecomes ==
  ASSUME drv \in [Drivers -> Driver], NEW d \in Drivers, NEW pc \in Pcs, NEW from \in Froms,
         NEW copy \in Lives,
         drv' = [drv EXCEPT ![d].pc = pc, ![d].from = from, ![d].copy = copy]
  PROVE  Becomes(d, pc, drv[d].kind, drv[d].key, from, copy)
<1>1. drv' \in [Drivers -> Driver] BY DEF Driver
<1>2. drv'[d].pc = pc /\ drv'[d].from = from /\ drv'[d].copy = copy BY DEF Driver
<1>3. drv'[d].kind = drv[d].kind /\ drv'[d].key = drv[d].key BY DEF Driver
<1> QED BY <1>1, <1>2, <1>3 DEF Becomes

LEMMA CollectedBecomes ==
  ASSUME drv \in [Drivers -> Driver], NEW d \in Drivers, Collected(d)
  PROVE  Restarts(d, "specs", "none")
<1>1. drv[d].kind \in AllKinds BY DriverFields
<1> QED BY <1>1, KindBecomes DEF Collected, Pcs, Restarts

LEMMA ReapedBecomes ==
  ASSUME drv \in [Drivers -> Driver], NEW d \in Drivers, Reaped(d)
  PROVE  IF d \in Reapers THEN Returns(d) ELSE Restarts(d, "body", "none")
<1>1. drv[d].kind \in AllKinds BY DriverFields
<1>2. CASE d \in Reapers BY <1>2, IdleBecomes DEF Reaped
<1>3. CASE d \notin Reapers
  <2>1. drv' = [drv EXCEPT ![d] = [Idle EXCEPT !.pc = "body", !.kind = drv[d].kind]] BY <1>3 DEF Reaped
  <2> QED BY <1>1, <1>3, <2>1, KindBecomes DEF Pcs, Restarts
<1> QED BY <1>2, <1>3

-----------------------------------------------------------------------------
(* The steps of a driver keep the types, the places and the lock. *)

LEMMA BaseFacts ==
  ASSUME Base, NEW d \in Drivers
  PROVE  /\ Shapes /\ drv \in [Drivers -> Driver]
         /\ drv[d].pc \in Pcs /\ drv[d].kind \in AllKinds /\ drv[d].key \in Keys
         /\ drv[d].from \in Froms /\ drv[d].copy \in Lives
         /\ Role(d, drv[d].pc, drv[d].kind, drv[d].key, drv[d].from)
         /\ d \in Requests /\ drv[d].pc # "idle" => lock = d
<1>1. TypeOK /\ Roles /\ Locked BY DEF Base
<1>2. Shapes /\ drv \in [Drivers -> Driver] BY <1>1, TypeApart
<1>3. /\ drv[d].pc \in Pcs /\ drv[d].kind \in AllKinds /\ drv[d].key \in Keys
      /\ drv[d].from \in Froms /\ drv[d].copy \in Lives
  BY <1>2, DriverFields
<1>4. Role(d, drv[d].pc, drv[d].kind, drv[d].key, drv[d].from) BY <1>1 DEF Roles
<1>5. d \in Requests /\ drv[d].pc # "idle" => lock = d BY <1>1 DEF Locked
<1> QED BY <1>2, <1>3, <1>4, <1>5

LEMMA MoveBase ==
  ASSUME Base, NEW d \in Drivers, NEW pc, NEW kind, NEW key, NEW from, NEW copy,
         Becomes(d, pc, kind, key, from, copy), Role(d, pc, kind, key, from),
         d \in Requests /\ pc # "idle" => lock' = d,
         \A e \in Requests : e # d /\ drv[e].pc # "idle" => lock' = lock, Shapes'
  PROVE  Base'
<1>1. Roles' BY DEF Base, Roles, Becomes
<1>2. Locked' BY DEF Base, Locked, Becomes, Drivers
<1>3. TypeOK' BY TypeTogether DEF Becomes
<1> QED BY <1>1, <1>2, <1>3 DEF Base

\* A step that leaves the lock alone.
LEMMA StepBase ==
  ASSUME Base, NEW d \in Drivers, NEW pc, NEW kind, NEW key, NEW from, NEW copy,
         drv[d].pc # "idle", lock' = lock,
         Becomes(d, pc, kind, key, from, copy), Role(d, pc, kind, key, from), Shapes'
  PROVE  Base'
<1>1. d \in Requests => lock' = d BY BaseFacts
<1> QED BY <1>1, MoveBase

\* A request that returns held the lock.
LEMMA ReturnBase ==
  ASSUME Base, NEW d \in Requests, drv[d].pc # "idle", Returns(d), Shapes'
  PROVE  Base'
<1>0. d \in Drivers BY DEF Drivers
<1>1. lock = d BY <1>0, BaseFacts
<1>2. \A e \in Requests : e # d => drv[e].pc = "idle" BY <1>1 DEF Base, Locked
<1>3. Role(d, "idle", "none", <<0, FALSE>>, "none")
  BY DriverAssumption DEF Role, Route, OfRequests, Inside, Binding, Handling
<1> QED BY <1>0, <1>2, <1>3, MoveBase DEF Returns

\* Reapers and requests are told apart.
LEMMA WhoIs ==
  ASSUME NEW d \in Drivers
  PROVE  d \in Requests <=> d \notin Reapers
BY DriverAssumption DEF Drivers

LEMMA ReapedMoves ==
  ASSUME Base, NEW d \in Drivers, drv[d].pc # "idle", Reaped(d), lock' = lock, Shapes'
  PROVE  /\ Base'
         /\ IF d \in Reapers THEN Returns(d) ELSE Restarts(d, "body", "none")
<1> USE BaseFacts, WhoIs
<1>1. IF d \in Reapers THEN Returns(d) ELSE Restarts(d, "body", "none") BY ReapedBecomes
<1>2. CASE d \in Reapers
  <2>1. Role(d, "idle", "none", <<0, FALSE>>, "none")
    BY <1>2 DEF Role, Route, OfRequests, Inside, Binding, Handling
  <2> QED BY <1>1, <1>2, <2>1, StepBase DEF Returns
<1>3. CASE d \in Requests
  <2>1. Role(d, "body", drv[d].kind, <<0, FALSE>>, "none")
    BY <1>3 DEF Role, Route, OfRequests, Inside, Binding, Handling
  <2> QED BY <1>1, <1>3, <2>1, StepBase DEF Restarts
<1> QED BY <1>1, <1>2, <1>3

LEMMA CollectedMoves ==
  ASSUME Base, NEW d \in Drivers, drv[d].pc # "idle", Collected(d), lock' = lock, Shapes'
  PROVE  Base' /\ Restarts(d, "specs", "none")
<1> USE BaseFacts
<1>1. Restarts(d, "specs", "none") BY CollectedBecomes
<1>2. Role(d, "specs", drv[d].kind, <<0, FALSE>>, "none")
  BY DEF Role, Route, OfRequests, Inside, Binding, Handling
<1> QED BY <1>1, <1>2, StepBase DEF Restarts

LEMMA StartFailsMoves ==
  ASSUME Base, NEW d \in Drivers, drv[d].pc \in {"start", "probe", "spawn", "vacant"}, StartFails(d), Shapes'
  PROVE  /\ Base'
         /\ IF drv[d].from = "due" THEN Moves(d, "plan") /\ lock' = lock
            ELSE Returns(d) /\ lock' = None /\ d \in Requests
<1> USE BaseFacts, WhoIs
<1>0. drv[d].pc # "idle" OBVIOUS
<1>1. CASE drv[d].from = "due"
  <2>1. Moves(d, "plan") /\ lock' = lock BY <1>1, GoBecomes DEF StartFails, Pcs
  <2>2. Role(d, "plan", drv[d].kind, drv[d].key, drv[d].from)
    BY <1>0, <1>1 DEF Role, Route, OfRequests, Inside, Binding, Handling
  <2> QED BY <1>0, <1>1, <2>1, <2>2, StepBase DEF Moves
<1>2. CASE drv[d].from # "due"
  <2>1. Returns(d) /\ lock' = None BY <1>2, IdleBecomes DEF StartFails, Return
  <2>2. drv[d].from = "body" BY <1>2 DEF Role, Route, Inside
  <2>3. d \in Requests BY <2>2 DEF Role
  <2> QED BY <1>0, <1>2, <2>1, <2>3, ReturnBase
<1> QED BY <1>1, <1>2

LEMMA TickMoves ==
  ASSUME Base, NEW d \in Drivers, Tick(d)
  PROVE  Base' /\ Becomes(d, "look", "tick", <<0, FALSE>>, "none", NoLife)
<1> USE BaseFacts, WhoIs
<1>1. Becomes(d, "look", "tick", <<0, FALSE>>, "none", NoLife) BY KindBecomes DEF Tick, Pcs, AllKinds
<1>2. Shapes' BY DEF Shapes, Tick, disk, tasks, memory, locks, history
<1>3. Role(d, "look", "tick", <<0, FALSE>>, "none")
  BY DEF Tick, Role, Route, OfRequests, Inside, Binding, Handling
<1> QED BY <1>1, <1>2, <1>3, MoveBase DEF Tick, locks

LEMMA RequestMoves ==
  ASSUME Base, NEW d \in Requests, NEW kind \in Kinds, Request(d, kind)
  PROVE  Base' /\ Becomes(d, "look", kind, <<0, FALSE>>, "none", NoLife)
<1>0. d \in Drivers BY DEF Drivers
<1> USE BaseFacts, WhoIs
<1>1. Becomes(d, "look", kind, <<0, FALSE>>, "none", NoLife) BY <1>0, KindBecomes DEF Request, Pcs, AllKinds
<1>s. Shapes BY <1>0
<1>t. /\ spent \in [requests : 0..MaxRequests, views : 0..MaxViews, failures : 0..MaxFailures, deaths : 0..MaxDeaths]
      /\ spent' = [spent EXCEPT !.requests = @ + 1] /\ spent.requests < MaxRequests
  BY <1>s DEF Shapes, Request
<1>u. spent' \in [requests : 0..MaxRequests, views : 0..MaxViews, failures : 0..MaxFailures, deaths : 0..MaxDeaths]
  BY <1>t, BoundAssumption
<1>2. Shapes' BY <1>s, <1>u DEF Shapes, Request, disk, tasks, memory, history
<1>3. Role(d, "look", kind, <<0, FALSE>>, "none")
  BY <1>0 DEF Role, Route, OfRequests, Inside, Binding, Handling
<1>4. \A e \in Requests : drv[e].pc = "idle" BY DriverAssumption DEF Request, Base, Locked
<1> QED BY <1>0, <1>1, <1>2, <1>3, <1>4, MoveBase DEF Request

LEMMA LookMoves ==
  ASSUME Base, NEW d \in Drivers, Look(d)
  PROVE  /\ Base'
         /\ IF managed # 0 /\ Done(managed) THEN Moves(d, "take") ELSE Moves(d, "specs")
<1> USE BaseFacts
<1>1. IF managed # 0 /\ Done(managed) THEN Moves(d, "take") ELSE Moves(d, "specs")
  BY GoBecomes DEF Look, Pcs
<1>2. Shapes' BY DEF Shapes, Look, disk, tasks, memory, locks, history
<1>3. \A pc \in {"take", "specs"} : Role(d, pc, drv[d].kind, drv[d].key, drv[d].from)
  BY DEF Look, Role, Route, OfRequests, Inside, Binding, Handling
<1>4. drv[d].pc # "idle" /\ lock' = lock BY DEF Look, locks
<1> QED BY <1>1, <1>2, <1>3, <1>4, StepBase DEF Moves

LEMMA TakeMoves ==
  ASSUME Base, NEW d \in Drivers, Take(d)
  PROVE  /\ Base'
         /\ IF managed = 0 THEN Moves(d, "specs") /\ UNCHANGED managed
            ELSE /\ Becomes(d, "wait", drv[d].kind, <<managed, TRUE>>, "reap", drv[d].copy)
                 /\ managed' = 0 /\ managed \in Inst
<1> USE BaseFacts
<1>0. managed \in 0..MaxInstances /\ 0 \in 0..MaxInstances BY BoundAssumption DEF Shapes
<1>k. <<managed, TRUE>> \in Keys BY <1>0, LiveKeyType
<1>4. drv[d].pc = "take" /\ lock' = lock BY DEF Take, locks
<1>5. CASE managed = 0
  <2>1. Moves(d, "specs") /\ UNCHANGED <<managed, closing>> BY <1>5, GoBecomes DEF Take, Pcs
  <2>2. Shapes' BY <2>1 DEF Shapes, Take, disk, tasks, locks, history
  <2>3. Role(d, "specs", drv[d].kind, drv[d].key, drv[d].from)
    BY <1>4 DEF Role, Route, OfRequests, Inside, Binding, Handling
  <2> QED BY <1>4, <1>5, <2>1, <2>2, <2>3, StepBase DEF Moves
<1>6. CASE managed # 0
  <2>1. /\ Becomes(d, "wait", drv[d].kind, <<managed, TRUE>>, "reap", drv[d].copy)
        /\ closing' = closing \cup {<<managed, TRUE>>} /\ managed' = 0
    BY <1>6, <1>k, TakeBecomes DEF Take, Pcs, Froms
  <2>2. Shapes' BY <1>0, <1>k, <2>1 DEF Shapes, Take, disk, tasks, locks, history
  <2>n. managed \in Inst BY <1>0, <1>6, BoundAssumption DEF Inst
  <2>3. Role(d, "wait", drv[d].kind, <<managed, TRUE>>, "reap")
    BY <1>4, <2>n DEF Role, Route, OfRequests, Inside, Binding, Handling
  <2> QED BY <1>4, <1>6, <2>1, <2>2, <2>3, <2>n, StepBase
<1> QED BY <1>5, <1>6

LEMMA WaitMoves ==
  ASSUME Base, NEW d \in Drivers, Wait(d)
  PROVE  Base' /\ Moves(d, "clean")
<1> USE BaseFacts
<1>1. Moves(d, "clean") BY GoBecomes DEF Wait, Pcs
<1>2. Shapes' BY DEF Shapes, Wait, disk, tasks, locks, history
<1>3. Role(d, "clean", drv[d].kind, drv[d].key, drv[d].from)
  BY DEF Wait, Role, Route, OfRequests, Inside, Binding, Handling
<1>4. drv[d].pc # "idle" /\ lock' = lock BY DEF Wait, locks
<1> QED BY <1>1, <1>2, <1>3, <1>4, StepBase DEF Moves

\* What a cleanup that went well, or did not, leads to.
CleanedTo(d, ok) ==
  LET from == drv[d].from
  IN  \/ from = "reap" /\ (Moves(d, "forget") \/ Moves(d, "judge")) /\ lock' = lock
      \/ from = "due" /\ (Restarts(d, "start", "due") \/ Moves(d, "plan")) /\ lock' = lock
      \/ /\ from = "cancel" /\ lock' = lock
         /\ \E to \in {"cancel", "dirty"} :
              Becomes(d, "stop read", drv[d].kind, drv[d].key, to, drv[d].copy)
      \/ from \in {"stop", "gone", "body"} /\ Restarts(d, "start", "body") /\ lock' = lock
      \/ from \in {"stop", "gone", "body"} /\ Returns(d) /\ lock' = None

LEMMA CleanedMoves ==
  ASSUME Base, NEW d \in Drivers, NEW ok \in BOOLEAN, drv[d].pc = "clean", Cleaned(d, ok)
  PROVE  CleanedTo(d, ok)
<1> USE BaseFacts
<1> DEFINE from == drv[d].from
           key == drv[d].key
<1>0. from \in {"reap", "due", "cancel", "stop", "gone", "body"} BY DEF Role, Route, Froms
<1>1. CASE from = "reap"
  <2>1. Go(d, IF result[key[1]] = "stopped" THEN "forget" ELSE "judge") /\ lock' = lock
    BY <1>1 DEF Cleaned
  <2>2. Moves(d, "forget") \/ Moves(d, "judge") BY <2>1, GoBecomes DEF Pcs
  <2> QED BY <1>1, <2>1, <2>2 DEF CleanedTo
<1>2. CASE from = "due"
  <2>1. (IF ok THEN Begin(d, "due") ELSE Go(d, "plan")) /\ lock' = lock BY <1>2 DEF Cleaned
  <2>2. Restarts(d, "start", "due") \/ Moves(d, "plan")
    BY <2>1, GoBecomes, StartBecomes DEF Pcs, Froms
  <2> QED BY <1>2, <2>1, <2>2 DEF CleanedTo
<1>3. CASE from = "cancel"
  <2>1. drv' = [drv EXCEPT ![d].pc = "stop read", ![d].from = IF ok THEN @ ELSE "dirty"] /\ lock' = lock
    BY <1>3 DEF Cleaned
  <2>2. PICK to \in {"cancel", "dirty"} : to = IF ok THEN from ELSE "dirty" BY <1>3
  <2>3. drv' = [drv EXCEPT ![d].pc = "stop read", ![d].from = to] BY <2>1, <2>2
  <2>4. to \in Froms BY DEF Froms
  <2>5. Becomes(d, "stop read", drv[d].kind, key, to, drv[d].copy)
    BY <2>3, <2>4, FromBecomes DEF Pcs
  <2> QED BY <1>3, <2>1, <2>5 DEF CleanedTo
<1>4. CASE from \in {"stop", "gone"}
  <2>1. (Begin(d, "body") /\ lock' = lock) \/ Return(d) BY <1>4 DEF Cleaned
  <2> QED BY <1>4, <2>1, StartBecomes, IdleBecomes DEF CleanedTo, Return, Froms
<1>5. CASE from = "body"
  <2>1. (Begin(d, "body") /\ lock' = lock) \/ Return(d) BY <1>5 DEF Cleaned
  <2> QED BY <1>5, <2>1, StartBecomes, IdleBecomes DEF CleanedTo, Return, Froms
<1> QED BY <1>0, <1>1, <1>2, <1>3, <1>4, <1>5

LEMMA CleanMoves ==
  ASSUME Base, NEW d \in Drivers, Clean(d)
  PROVE  Base' /\ \E ok \in BOOLEAN : CleanedTo(d, ok)
<1> USE BaseFacts, WhoIs
<1>1. PICK ok \in BOOLEAN : Cleaned(d, ok) BY DEF Clean
<1>2. CleanedTo(d, ok) BY <1>1, CleanedMoves DEF Clean
<1>3. drv[d].pc = "clean" BY DEF Clean
<1>s. spent' \in [requests : 0..MaxRequests, views : 0..MaxViews, failures : 0..MaxFailures, deaths : 0..MaxDeaths]
  <2>1. spent \in [requests : 0..MaxRequests, views : 0..MaxViews, failures : 0..MaxFailures, deaths : 0..MaxDeaths]
    BY DEF Shapes
  <2>2. CASE spent' = spent BY <2>1, <2>2
  <2>3. CASE spent.failures < MaxFailures /\ spent' = [spent EXCEPT !.failures = @ + 1]
    BY <2>1, <2>3, BoundAssumption
  <2> QED BY <2>2, <2>3 DEF Clean
<1>l. lock' \in Requests \cup {None} BY <1>2 DEF CleanedTo, Shapes
<1>c. closing' \subseteq Keys /\ stopped' \in BOOLEAN BY <1>1 DEF Cleaned, Shapes
<1>4. Shapes' BY <1>s, <1>l, <1>c DEF Shapes, Clean, disk, tasks
<1>5. CASE drv[d].from = "reap"
  <2>1. \A pc \in {"forget", "judge"} : Role(d, pc, drv[d].kind, drv[d].key, drv[d].from)
    BY <1>3, <1>5 DEF Role, Route, OfRequests, Inside, Binding, Handling
  <2> QED BY <1>2, <1>3, <1>4, <1>5, <2>1, StepBase DEF CleanedTo, Moves
<1>6. CASE drv[d].from = "due"
  <2>1. /\ Role(d, "plan", drv[d].kind, drv[d].key, drv[d].from)
        /\ Role(d, "start", drv[d].kind, <<0, FALSE>>, "due")
    BY <1>3, <1>6 DEF Role, Route, OfRequests, Inside, Binding, Handling
  <2> QED BY <1>2, <1>3, <1>4, <1>6, <2>1, StepBase DEF CleanedTo, Moves, Restarts
<1>7. CASE drv[d].from \notin {"reap", "due"}
  <2>1. d \in Requests BY <1>3, <1>7 DEF Role, Route
  <2>2. CASE Returns(d) BY <1>2, <1>3, <1>4, <2>1, <2>2, ReturnBase
  <2>3. CASE Restarts(d, "start", "body") /\ lock' = lock
    <3>1. Role(d, "start", drv[d].kind, <<0, FALSE>>, "body")
      BY <1>3, <2>1 DEF Role, Route, OfRequests, Inside, Binding, Handling
    <3> QED BY <1>2, <1>3, <1>4, <2>3, <3>1, StepBase DEF Restarts
  <2>4. CASE /\ lock' = lock
             /\ \E to \in {"cancel", "dirty"} :
                  Becomes(d, "stop read", drv[d].kind, drv[d].key, to, drv[d].copy)
    <3>1. PICK to \in {"cancel", "dirty"} :
            Becomes(d, "stop read", drv[d].kind, drv[d].key, to, drv[d].copy)
      BY <2>4
    <3>2. Role(d, "stop read", drv[d].kind, drv[d].key, to)
      BY <1>3, <2>1 DEF Role, Route, OfRequests, Inside, Binding, Handling
    <3> QED BY <1>2, <1>3, <1>4, <2>4, <3>1, <3>2, StepBase
  <2> QED BY <1>2, <1>7, <2>2, <2>3, <2>4 DEF CleanedTo
<1> QED BY <1>5, <1>6, <1>7

LEMMA ForgetMoves ==
  ASSUME Base, NEW d \in Drivers, Forget(d)
  PROVE  /\ Base'
         /\ IF drv[d].from = "stop" THEN Moves(d, "shut") ELSE Restarts(d, "specs", "none")
<1> USE BaseFacts
<1>1. Shapes' BY DEF Shapes, Forget, disk, tasks, locks, history
<1>2. drv[d].pc = "forget" /\ lock' = lock BY DEF Forget, locks
<1>3. CASE drv[d].from = "stop"
  <2>1. Moves(d, "shut") BY <1>3, GoBecomes DEF Forget, Pcs
  <2>2. Role(d, "shut", drv[d].kind, drv[d].key, drv[d].from)
    BY <1>2, <1>3 DEF Role, Route, OfRequests, Inside, Binding, Handling
  <2> QED BY <1>1, <1>2, <1>3, <2>1, <2>2, StepBase DEF Moves
<1>4. CASE drv[d].from # "stop" BY <1>1, <1>2, <1>4, CollectedMoves DEF Forget
<1> QED BY <1>3, <1>4

LEMMA JudgeMoves ==
  ASSUME Base, NEW d \in Drivers, Judge(d)
  PROVE  Base' /\ (Moves(d, "keep") \/ Moves(d, "forget"))
<1> USE BaseFacts
<1>1. Moves(d, "keep") \/ Moves(d, "forget") BY GoBecomes DEF Judge, Pcs
<1>2. Shapes' BY DEF Shapes, Judge, disk, tasks, memory, locks, history
<1>3. \A pc \in {"keep", "forget"} : Role(d, pc, drv[d].kind, drv[d].key, drv[d].from)
  BY DEF Judge, Role, Route, OfRequests, Inside, Binding, Handling
<1>4. drv[d].pc # "idle" /\ lock' = lock BY DEF Judge, locks
<1> QED BY <1>1, <1>2, <1>3, <1>4, StepBase DEF Moves

LEMMA HasSpecMoves ==
  ASSUME Base, NEW d \in Drivers, HasSpec(d)
  PROVE  Base' /\ (Moves(d, "plan") \/ Moves(d, "forget"))
<1> USE BaseFacts
<1>1. Moves(d, "plan") \/ Moves(d, "forget") BY GoBecomes DEF HasSpec, Pcs
<1>2. Shapes' BY DEF Shapes, HasSpec, disk, tasks, memory, locks, history
<1>3. \A pc \in {"plan", "forget"} : Role(d, pc, drv[d].kind, drv[d].key, drv[d].from)
  BY DEF HasSpec, Role, Route, OfRequests, Inside, Binding, Handling
<1>4. drv[d].pc # "idle" /\ lock' = lock BY DEF HasSpec, locks
<1> QED BY <1>1, <1>2, <1>3, <1>4, StepBase DEF Moves

\* Where a plan that is made, or not, leads to.
PlannedTo(d) ==
  IF drv[d].from = "reap" THEN Restarts(d, "specs", "none")
  ELSE IF d \in Reapers THEN Returns(d) ELSE Restarts(d, "body", "none")

LEMMA PlannedMoves ==
  ASSUME Base, NEW d \in Drivers, drv[d].pc # "idle", Planned(d), lock' = lock, Shapes'
  PROVE  Base' /\ PlannedTo(d)
BY CollectedMoves, ReapedMoves DEF Planned, PlannedTo

\* What schedule_restart writes.
Scheduling(l) ==
  IF l.count >= MaxRestarts THEN [l EXCEPT !.next = FALSE] ELSE [l EXCEPT !.next = TRUE, !.count = @ + 1]

LEMMA SchedulingType ==
  ASSUME NEW l \in Lives
  PROVE  /\ Scheduling(l) \in Lives
         /\ Scheduling(l).status = l.status /\ Scheduling(l).policy = l.policy
<1>1. CASE l.count >= MaxRestarts BY <1>1 DEF Lives, Scheduling
<1>2. CASE ~(l.count >= MaxRestarts)
  <2>1. l.count \in 0..MaxRestarts /\ l.count + 1 \in 0..MaxRestarts BY <1>2, BoundAssumption DEF Lives
  <2>2. PICK c \in 0..MaxRestarts : c = l.count + 1 BY <2>1
  <2>3. Scheduling(l) = [l EXCEPT !.next = TRUE, !.count = c] BY <1>2, <2>2 DEF Scheduling
  <2> QED BY <2>3 DEF Lives
<1> QED BY <1>1, <1>2

LEMMA PlanMoves ==
  ASSUME Base, NEW d \in Drivers, Plan(d)
  PROVE  /\ Base'
         /\ PlannedTo(d) \/ (life.policy = "on-failure" /\ Loads(d, "plan save", Scheduling(life)))
<1> USE BaseFacts
<1>1. Shapes' BY DEF Shapes, Plan, disk, tasks, memory, locks, history
<1>2. drv[d].pc = "plan" /\ lock' = lock BY DEF Plan, locks
<1>3. CASE life.policy # "on-failure" BY <1>1, <1>2, <1>3, PlannedMoves DEF Plan
<1>4. CASE life.policy = "on-failure"
  <2>1. life \in Lives BY DEF Shapes
  <2>2. GoWith(d, "plan save", Scheduling(life)) BY <1>4 DEF Plan, Scheduling
  <2>3. Loads(d, "plan save", Scheduling(life)) BY <2>1, <2>2, SchedulingType, CopyBecomes DEF Pcs
  <2>4. Role(d, "plan save", drv[d].kind, drv[d].key, drv[d].from)
    BY <1>2 DEF Role, Route, OfRequests, Inside, Binding, Handling
  <2> QED BY <1>1, <1>2, <1>4, <2>3, <2>4, StepBase DEF Loads
<1> QED BY <1>3, <1>4

LEMMA PlanSaveMoves ==
  ASSUME Base, NEW d \in Drivers, PlanSave(d)
  PROVE  Base' /\ PlannedTo(d)
<1> USE BaseFacts
<1>1. Shapes' BY DEF Shapes, PlanSave, tasks, memory, locks, history
<1> QED BY <1>1, PlannedMoves DEF PlanSave, locks

LEMMA SpecsMoves ==
  ASSUME Base, NEW d \in Drivers, Specs(d)
  PROVE  /\ Base'
         /\ \/ spec /\ Moves(d, "contains")
            \/ IF d \in Reapers THEN Returns(d) ELSE Restarts(d, "body", "none")
<1> USE BaseFacts
<1>1. Shapes' BY DEF Shapes, Specs, disk, tasks, memory, locks, history
<1>2. drv[d].pc = "specs" /\ lock' = lock BY DEF Specs, locks
<1>3. CASE spec
  <2>1. Moves(d, "contains") BY <1>3, GoBecomes DEF Specs, Pcs
  <2>2. Role(d, "contains", drv[d].kind, drv[d].key, drv[d].from)
    BY <1>2 DEF Role, Route, OfRequests, Inside, Binding, Handling
  <2> QED BY <1>1, <1>2, <1>3, <2>1, <2>2, StepBase DEF Moves
<1>4. CASE ~spec BY <1>1, <1>2, <1>4, ReapedMoves DEF Specs
<1> QED BY <1>3, <1>4

LEMMA ContainsMoves ==
  ASSUME Base, NEW d \in Drivers, Contains(d)
  PROVE  /\ Base'
         /\ \/ Moves(d, "due")
            \/ IF d \in Reapers THEN Returns(d) ELSE Restarts(d, "body", "none")
<1> USE BaseFacts
<1>1. Shapes' BY DEF Shapes, Contains, disk, tasks, memory, locks, history
<1>2. drv[d].pc = "contains" /\ lock' = lock BY DEF Contains, locks
<1>3. CASE managed = 0
  <2>1. Moves(d, "due") BY <1>3, GoBecomes DEF Contains, Pcs
  <2>2. Role(d, "due", drv[d].kind, drv[d].key, drv[d].from)
    BY <1>2 DEF Role, Route, OfRequests, Inside, Binding, Handling
  <2> QED BY <1>1, <1>2, <2>1, <2>2, StepBase DEF Moves
<1>4. CASE managed # 0 BY <1>1, <1>2, <1>4, ReapedMoves DEF Contains
<1> QED BY <1>3, <1>4

LEMMA NotDueMoves ==
  ASSUME Base, NEW d \in Drivers, NotDue(d)
  PROVE  Base' /\ IF d \in Reapers THEN Returns(d) ELSE Restarts(d, "body", "none")
<1> USE BaseFacts
<1>1. Shapes' BY DEF Shapes, NotDue, disk, tasks, memory, locks, history
<1> QED BY <1>1, ReapedMoves DEF NotDue, locks

LEMMA DueMoves ==
  ASSUME Base, NEW d \in Drivers, Due(d)
  PROVE  /\ Base'
         /\ Becomes(d, "due save", drv[d].kind, drv[d].key, "due", [life EXCEPT !.next = FALSE])
<1> USE BaseFacts
<1>0. life \in Lives BY DEF Shapes
<1>1. [life EXCEPT !.next = FALSE] \in Lives BY <1>0 DEF Lives
<1>2. Becomes(d, "due save", drv[d].kind, drv[d].key, "due", [life EXCEPT !.next = FALSE])
  BY <1>1, DueBecomes DEF Due, Pcs, Froms
<1>3. Shapes' BY DEF Shapes, Due, disk, tasks, memory, locks, history
<1>4. Role(d, "due save", drv[d].kind, drv[d].key, "due")
  BY DEF Due, Role, Route, OfRequests, Inside, Binding, Handling
<1>5. drv[d].pc # "idle" /\ lock' = lock BY DEF Due, locks
<1> QED BY <1>2, <1>3, <1>4, <1>5, StepBase

LEMMA DueSaveMoves ==
  ASSUME Base, NEW d \in Drivers, DueSave(d)
  PROVE  Base' /\ Loads(d, "old", NoLife)
<1> USE BaseFacts
<1>1. Loads(d, "old", NoLife) BY NoLifeType, CopyBecomes DEF DueSave, Pcs
<1>2. Shapes' BY DEF Shapes, DueSave, tasks, memory, locks, history
<1>3. Role(d, "old", drv[d].kind, drv[d].key, drv[d].from)
  BY DEF DueSave, Role, Route, OfRequests, Inside, Binding, Handling
<1>4. drv[d].pc # "idle" /\ lock' = lock BY DEF DueSave, locks
<1> QED BY <1>1, <1>2, <1>3, <1>4, StepBase DEF Loads

LEMMA OldMoves ==
  ASSUME Base, NEW d \in Drivers, Old(d)
  PROVE  Base' /\ Becomes(d, "clean", drv[d].kind, meta, drv[d].from, drv[d].copy)
<1> USE BaseFacts
<1>0. meta \in Keys BY DEF Shapes
<1>1. Becomes(d, "clean", drv[d].kind, meta, drv[d].from, drv[d].copy)
  BY <1>0, KeyBecomes DEF Old, Pcs
<1>2. Shapes' BY DEF Shapes, Old, disk, tasks, locks, history
<1>3. Role(d, "clean", drv[d].kind, meta, drv[d].from)
  BY DEF Old, Role, Route, OfRequests, Inside, Binding, Handling
<1>4. drv[d].pc # "idle" /\ lock' = lock BY DEF Old, locks
<1> QED BY <1>1, <1>2, <1>3, <1>4, StepBase

LEMMA StartMoves ==
  ASSUME Base, NEW d \in Drivers, Start(d)
  PROVE  /\ Base'
         /\ \/ Moves(d, "probe") /\ lock' = lock
            \/ drv[d].from = "due" /\ Moves(d, "plan") /\ lock' = lock
            \/ drv[d].from # "due" /\ Returns(d) /\ lock' = None /\ d \in Requests
<1> USE BaseFacts
<1>l. lock' \in Requests \cup {None} BY DEF Start, StartFails, Return, Shapes
<1>1. Shapes' BY <1>l DEF Shapes, Start, disk, tasks, memory, history
<1>2. drv[d].pc = "start" BY DEF Start
<1>3. CASE managed = 0
  <2>1. Moves(d, "probe") /\ lock' = lock BY <1>3, GoBecomes DEF Start, Pcs
  <2>2. Role(d, "probe", drv[d].kind, drv[d].key, drv[d].from)
    BY <1>2 DEF Role, Route, OfRequests, Inside, Binding, Handling
  <2> QED BY <1>1, <1>2, <2>1, <2>2, StepBase DEF Moves
<1>4. CASE managed # 0 BY <1>1, <1>2, <1>4, StartFailsMoves DEF Start
<1> QED BY <1>3, <1>4

LEMMA ProbeMoves ==
  ASSUME Base, NEW d \in Drivers, Probe(d)
  PROVE  /\ Base'
         /\ \/ ~Active /\ Moves(d, "spawn") /\ lock' = lock
            \/ drv[d].from = "due" /\ Moves(d, "plan") /\ lock' = lock
            \/ drv[d].from # "due" /\ Returns(d) /\ lock' = None /\ d \in Requests
<1> USE BaseFacts
<1>l. lock' \in Requests \cup {None} BY DEF Probe, StartFails, Return, Shapes
<1>1. Shapes' BY <1>l DEF Shapes, Probe, disk, tasks, memory, history
<1>2. drv[d].pc = "probe" BY DEF Probe
<1>3. CASE ~Active
  <2>1. Moves(d, "spawn") /\ lock' = lock BY <1>3, GoBecomes DEF Probe, Pcs
  <2>2. Role(d, "spawn", drv[d].kind, drv[d].key, drv[d].from)
    BY <1>2 DEF Role, Route, OfRequests, Inside, Binding, Handling
  <2> QED BY <1>1, <1>2, <1>3, <2>1, <2>2, StepBase DEF Moves
<1>4. CASE Active BY <1>1, <1>2, <1>4, StartFailsMoves DEF Probe
<1> QED BY <1>3, <1>4

LEMMA SpawnMoves ==
  ASSUME Base, NEW d \in Drivers, Spawn(d)
  PROVE  /\ Base'
         /\ \/ Moves(d, "previous") /\ flock' = d /\ lock' = lock
            \/ drv[d].from = "due" /\ Moves(d, "plan") /\ flock' = flock /\ lock' = lock
            \/ drv[d].from # "due" /\ Returns(d) /\ flock' = flock /\ lock' = None /\ d \in Requests
<1> USE BaseFacts
<1>l. lock' \in Requests \cup {None} BY DEF Spawn, StartFails, Return, Shapes
<1>f. flock' \in Drivers \cup {None} BY DEF Spawn, Shapes
<1>1. Shapes' BY <1>l, <1>f DEF Shapes, Spawn, disk, tasks, memory, history
<1>2. drv[d].pc = "spawn" BY DEF Spawn
<1>3. CASE closing = {}
  <2>1. Moves(d, "previous") /\ flock' = d /\ lock' = lock BY <1>3, GoBecomes DEF Spawn, Pcs
  <2>2. Role(d, "previous", drv[d].kind, drv[d].key, drv[d].from)
    BY <1>2 DEF Role, Route, OfRequests, Inside, Binding, Handling
  <2> QED BY <1>1, <1>2, <2>1, <2>2, StepBase DEF Moves
<1>4. CASE closing # {} BY <1>1, <1>2, <1>4, StartFailsMoves DEF Spawn
<1> QED BY <1>3, <1>4

LEMMA PreviousMoves ==
  ASSUME Base, NEW d \in Drivers, Previous(d)
  PROVE  Base' /\ Loads(d, "vacant", life)
<1> USE BaseFacts
<1>0. life \in Lives BY DEF Shapes
<1>1. Loads(d, "vacant", life) BY <1>0, CopyBecomes DEF Previous, Pcs
<1>2. Shapes' BY DEF Shapes, Previous, disk, tasks, memory, locks, history
<1>3. Role(d, "vacant", drv[d].kind, drv[d].key, drv[d].from)
  BY DEF Previous, Role, Route, OfRequests, Inside, Binding, Handling
<1>4. drv[d].pc # "idle" /\ lock' = lock BY DEF Previous, locks
<1> QED BY <1>1, <1>2, <1>3, <1>4, StepBase DEF Loads

LEMMA VacantMoves ==
  ASSUME Base, NEW d \in Drivers, Vacant(d)
  PROVE  /\ Base'
         /\ \/ ~Active /\ ~(Fresh > MaxInstances) /\ Moves(d, "bind") /\ flock' = flock /\ lock' = lock
            \/ drv[d].from = "due" /\ Moves(d, "plan") /\ flock' = None /\ lock' = lock
            \/ drv[d].from # "due" /\ Returns(d) /\ flock' = None /\ lock' = None /\ d \in Requests
<1> USE BaseFacts
<1>l. lock' \in Requests \cup {None} BY DEF Vacant, StartFails, Return, Shapes, locks
<1>f. flock' \in Drivers \cup {None} BY DEF Vacant, Shapes, locks
<1>1. Shapes' BY <1>l, <1>f DEF Shapes, Vacant, disk, tasks, memory, history
<1>2. drv[d].pc = "vacant" BY DEF Vacant
<1>3. CASE ~(Active \/ Fresh > MaxInstances)
  <2>1. Moves(d, "bind") /\ flock' = flock /\ lock' = lock BY <1>3, GoBecomes DEF Vacant, Pcs, locks
  <2>2. Role(d, "bind", drv[d].kind, drv[d].key, drv[d].from)
    BY <1>2 DEF Role, Route, OfRequests, Inside, Binding, Handling
  <2>3. Base' BY <1>1, <1>2, <2>1, <2>2, StepBase DEF Moves
  <2> QED BY <1>3, <2>1, <2>3
<1>4. CASE Active \/ Fresh > MaxInstances
  <2>1. StartFails(d) /\ flock' = None BY <1>4 DEF Vacant
  <2> QED BY <1>1, <1>2, <2>1, StartFailsMoves
<1> QED BY <1>3, <1>4

LEMMA BindMoves ==
  ASSUME Base, NEW d \in Drivers, Bind(d), Fresh \in Inst
  PROVE  /\ Base'
         /\ Becomes(d, "starting", drv[d].kind, <<Fresh, TRUE>>, drv[d].from, drv[d].copy)
<1> USE BaseFacts
<1>n. PICK n \in Inst : n = Fresh OBVIOUS
<1>0. n \in 0..MaxInstances BY BoundAssumption DEF Inst
<1>k. <<n, TRUE>> \in Keys BY <1>0, LiveKeyType
<1>1. Becomes(d, "starting", drv[d].kind, <<n, TRUE>>, drv[d].from, drv[d].copy)
  BY <1>n, <1>k, KeyBecomes DEF Bind, Pcs
<1>2. Shapes' BY <1>n, <1>0 DEF Shapes, Bind, memory, locks
<1>3. Role(d, "starting", drv[d].kind, <<n, TRUE>>, drv[d].from)
  BY DEF Bind, Role, Route, OfRequests, Inside, Binding, Handling
<1>4. drv[d].pc # "idle" /\ lock' = lock BY DEF Bind, locks
<1>5. Base' BY <1>1, <1>2, <1>3, <1>4, StepBase
<1> QED BY <1>1, <1>5, <1>n

LEMMA SaveStartingMoves ==
  ASSUME Base, NEW d \in Drivers, SaveStarting(d)
  PROVE  Base' /\ Moves(d, "metadata")
<1> USE BaseFacts
<1>1. Moves(d, "metadata") BY GoBecomes DEF SaveStarting, Pcs
<1>2. life' \in Lives BY DEF SaveStarting, Lives
<1>3. Shapes' BY <1>2 DEF Shapes, SaveStarting, tasks, memory, locks, history
<1>4. Role(d, "metadata", drv[d].kind, drv[d].key, drv[d].from)
  BY DEF SaveStarting, Role, Route, OfRequests, Inside, Binding, Handling
<1>5. drv[d].pc # "idle" /\ lock' = lock BY DEF SaveStarting, locks
<1> QED BY <1>1, <1>3, <1>4, <1>5, StepBase DEF Moves

LEMMA SaveMetaMoves ==
  ASSUME Base, NEW d \in Drivers, SaveMeta(d)
  PROVE  Base' /\ Moves(d, "active")
<1> USE BaseFacts
<1>1. Moves(d, "active") BY GoBecomes DEF SaveMeta, Pcs
<1>2. Shapes' BY DEF Shapes, SaveMeta, tasks, memory, locks, history
<1>3. Role(d, "active", drv[d].kind, drv[d].key, drv[d].from)
  BY DEF SaveMeta, Role, Route, OfRequests, Inside, Binding, Handling
<1>4. drv[d].pc # "idle" /\ lock' = lock BY DEF SaveMeta, locks
<1> QED BY <1>1, <1>2, <1>3, <1>4, StepBase DEF Moves

LEMMA ServeMoves ==
  ASSUME Base, NEW d \in Drivers, Serve(d)
  PROVE  Base' /\ Loads(d, "insert", NoLife)
<1> USE BaseFacts
<1>1. Loads(d, "insert", NoLife) BY NoLifeType, CopyBecomes DEF Serve, Pcs
<1>2. life' \in Lives BY DEF Serve, Lives
<1>3. run' \in [Inst -> {"none", "bound", "up", "stopping", "ended", "fenced", "read", "saved", "done"}]
  BY DEF Serve, Shapes
<1>4. Shapes' BY <1>2, <1>3 DEF Shapes, Serve, memory
<1>5. Role(d, "insert", drv[d].kind, drv[d].key, drv[d].from)
  BY DEF Serve, Role, Route, OfRequests, Inside, Binding, Handling
<1>6. drv[d].pc # "idle" /\ lock' = lock BY DEF Serve
<1> QED BY <1>1, <1>4, <1>5, <1>6, StepBase DEF Loads

LEMMA InsertMoves ==
  ASSUME Base, NEW d \in Drivers, Insert(d)
  PROVE  Base' /\ Moves(d, "spec") /\ drv[d].key[1] \in Inst
<1> USE BaseFacts
<1>0. drv[d].key[1] \in Inst BY DEF Insert, Role, Handling
<1>1. Moves(d, "spec") BY GoBecomes DEF Insert, Pcs
<1>2. managed' \in 0..MaxInstances BY <1>0, BoundAssumption DEF Insert, Inst
<1>3. Shapes' BY <1>2 DEF Shapes, Insert, disk, tasks, locks, history
<1>4. Role(d, "spec", drv[d].kind, drv[d].key, drv[d].from)
  BY DEF Insert, Role, Route, OfRequests, Inside, Binding, Handling
<1>5. drv[d].pc # "idle" /\ lock' = lock BY DEF Insert, locks
<1> QED BY <1>0, <1>1, <1>3, <1>4, <1>5, StepBase DEF Moves

LEMMA InsertSpecMoves ==
  ASSUME Base, NEW d \in Drivers, InsertSpec(d)
  PROVE  /\ Base'
         /\ IF drv[d].from = "due"
            THEN lock' = lock /\ IF d \in Reapers THEN Returns(d) ELSE Restarts(d, "body", "none")
            ELSE Returns(d) /\ lock' = None /\ d \in Requests
<1> USE BaseFacts, WhoIs
<1>l. lock' \in Requests \cup {None} BY DEF InsertSpec, Return, Shapes
<1>1. Shapes' BY <1>l DEF Shapes, InsertSpec, disk, tasks, history
<1>2. drv[d].pc = "spec" BY DEF InsertSpec
<1>3. CASE drv[d].from = "due" BY <1>1, <1>2, <1>3, ReapedMoves DEF InsertSpec
<1>4. CASE drv[d].from # "due"
  <2>1. Returns(d) /\ lock' = None BY <1>4, IdleBecomes DEF InsertSpec, Return
  <2>2. d \in Requests BY <1>2, <1>4 DEF Role, Route
  <2> QED BY <1>1, <1>2, <1>4, <2>1, <2>2, ReturnBase
<1> QED BY <1>3, <1>4

\* What set_restart_policy writes.
Ordered(l, kind) ==
  [l EXCEPT !.policy = kind,
            !.next = /\ kind = "on-failure"
                     /\ @ \/ (l.status = "crashed" /\ spec /\ l.count < MaxRestarts)]

LEMMA OrderedType ==
  ASSUME NEW l \in Lives, NEW kind \in {"never", "on-failure"}
  PROVE  /\ Ordered(l, kind) \in Lives
         /\ Ordered(l, kind).status = l.status /\ Ordered(l, kind).policy = kind
         /\ kind = "never" => ~Ordered(l, kind).next
         /\ Ordered(l, kind).next => l.next \/ (l.status = "crashed" /\ spec)
<1> DEFINE next == /\ kind = "on-failure"
                   /\ l.next \/ (l.status = "crashed" /\ spec /\ l.count < MaxRestarts)
<1>1. next \in BOOLEAN OBVIOUS
<1>2. kind = "never" => ~next OBVIOUS
<1>3. next => l.next \/ (l.status = "crashed" /\ spec) OBVIOUS
<1>4. Ordered(l, kind) = [l EXCEPT !.policy = kind, !.next = next] BY DEF Ordered
<1> HIDE DEF next
<1> QED BY <1>1, <1>2, <1>3, <1>4 DEF Lives

LEMMA BodyMoves ==
  ASSUME Base, NEW d \in Drivers, Body(d)
  PROVE  /\ Base' /\ d \in Requests
         /\ \/ Restarts(d, "start", "body") /\ lock' = lock
            \/ Moves(d, "stop") /\ lock' = lock
            \/ Returns(d) /\ lock' = None
            \/ meta[1] # 0 /\ Becomes(d, "fence", drv[d].kind, meta, "body", drv[d].copy) /\ lock' = lock
            \/ /\ drv[d].kind \in {"never", "on-failure"} /\ lock' = lock
               /\ Loads(d, "policy save", Ordered(life, drv[d].kind))
<1> USE BaseFacts, WhoIs
<1>0. drv[d].pc = "body" /\ d \in Requests BY DEF Body, Role, OfRequests
<1>l. lock' \in Requests \cup {None} BY DEF Body, Return, Shapes
<1>1. Shapes' BY <1>l DEF Shapes, Body, disk, tasks, memory, history
<1>k. drv[d].kind \in {"start", "stop", "restart", "never", "on-failure"}
  BY <1>0, DriverAssumption DEF Role
<1>2. CASE drv[d].kind = "start"
  <2>1. Restarts(d, "start", "body") /\ lock' = lock BY <1>2, StartBecomes DEF Body, Froms
  <2>2. Role(d, "start", drv[d].kind, <<0, FALSE>>, "body")
    BY <1>0 DEF Role, Route, OfRequests, Inside, Binding, Handling
  <2> QED BY <1>0, <1>1, <2>1, <2>2, StepBase DEF Restarts
<1>3. CASE drv[d].kind = "stop"
  <2>1. Moves(d, "stop") /\ lock' = lock BY <1>3, GoBecomes DEF Body, Pcs
  <2>2. Role(d, "stop", drv[d].kind, drv[d].key, drv[d].from)
    BY <1>0 DEF Role, Route, OfRequests, Inside, Binding, Handling
  <2> QED BY <1>0, <1>1, <2>1, <2>2, StepBase DEF Moves
<1>4. CASE Return(d)
  <2>1. Returns(d) /\ lock' = None BY <1>4, IdleBecomes DEF Return
  <2> QED BY <1>0, <1>1, <2>1, ReturnBase
<1>5. CASE drv[d].kind = "restart" /\ ~Return(d)
  <2>0. meta \in Keys BY DEF Shapes
  <2>1. /\ drv' = [drv EXCEPT ![d].pc = "fence", ![d].key = meta, ![d].from = "body"]
        /\ lock' = lock /\ meta[1] # 0
    BY <1>5 DEF Body
  <2>2. Becomes(d, "fence", drv[d].kind, meta, "body", drv[d].copy)
    BY <2>0, <2>1, TakeBecomes DEF Pcs, Froms
  <2>3. Role(d, "fence", drv[d].kind, meta, "body")
    BY <1>0 DEF Role, Route, OfRequests, Inside, Binding, Handling
  <2> QED BY <1>0, <1>1, <2>1, <2>2, <2>3, StepBase
<1>6. CASE drv[d].kind \in {"never", "on-failure"} /\ ~Return(d)
  <2>0. life \in Lives BY DEF Shapes
  <2>1. GoWith(d, "policy save", Ordered(life, drv[d].kind)) /\ lock' = lock
    BY <1>6 DEF Body, Ordered
  <2>2. Ordered(life, drv[d].kind) \in Lives BY <1>6, <2>0, OrderedType
  <2>3. Loads(d, "policy save", Ordered(life, drv[d].kind)) BY <2>1, <2>2, CopyBecomes DEF Pcs
  <2>4. Role(d, "policy save", drv[d].kind, drv[d].key, drv[d].from)
    BY <1>0 DEF Role, Route, OfRequests, Inside, Binding, Handling
  <2>5. Base' BY <1>0, <1>1, <2>1, <2>3, <2>4, StepBase DEF Loads
  <2> QED BY <1>0, <1>6, <2>1, <2>3, <2>5
<1> QED BY <1>k, <1>2, <1>3, <1>4, <1>5, <1>6

LEMMA PolicySaveMoves ==
  ASSUME Base, NEW d \in Drivers, PolicySave(d)
  PROVE  Base' /\ Returns(d) /\ lock' = None /\ d \in Requests
<1> USE BaseFacts, WhoIs
<1>0. drv[d].pc = "policy save" /\ d \in Requests BY DEF PolicySave, Role, OfRequests
<1>1. Returns(d) /\ lock' = None BY IdleBecomes DEF PolicySave, Return
<1>2. Shapes' BY <1>1 DEF Shapes, PolicySave, tasks, memory, history
<1> QED BY <1>0, <1>1, <1>2, ReturnBase

LEMMA FenceMoves ==
  ASSUME Base, NEW d \in Drivers, Fence(d)
  PROVE  /\ Base' /\ d \in Requests
         /\ \/ (Moves(d, "stop") \/ Moves(d, "clean")) /\ lock' = lock
            \/ Returns(d) /\ lock' = None
<1> USE BaseFacts, WhoIs
<1>0. drv[d].pc = "fence" /\ d \in Requests BY DEF Fence, Role, OfRequests
<1>l. lock' \in Requests \cup {None} BY DEF Fence, Return, Shapes
<1>1. Shapes' BY <1>l DEF Shapes, Fence, disk, tasks, history
<1>2. \A pc \in {"stop", "clean"} : Role(d, pc, drv[d].kind, drv[d].key, drv[d].from)
  BY <1>0 DEF Role, Route, OfRequests, Inside, Binding, Handling
<1>3. CASE Return(d)
  <2>1. Returns(d) /\ lock' = None BY <1>3, IdleBecomes DEF Return
  <2> QED BY <1>0, <1>1, <2>1, ReturnBase
<1>4. CASE ~Return(d)
  <2>1. Go(d, IF Active THEN "stop" ELSE "clean") /\ lock' = lock BY <1>4 DEF Fence
  <2>2. Moves(d, "stop") \/ Moves(d, "clean") BY <2>1, GoBecomes DEF Pcs
  <2> QED BY <1>0, <1>1, <1>2, <2>1, <2>2, StepBase DEF Moves
<1> QED BY <1>3, <1>4

LEMMA StopMoves ==
  ASSUME Base, NEW d \in Drivers, Stop(d)
  PROVE  /\ Base' /\ d \in Requests /\ lock' = lock
         /\ IF managed = 0 THEN Moves(d, "unmanaged") /\ managed' = managed
            ELSE /\ Becomes(d, "forget", drv[d].kind, <<managed, TRUE>>, "stop", drv[d].copy)
                 /\ managed' = 0 /\ managed \in Inst
<1> USE BaseFacts, WhoIs
<1>0. managed \in 0..MaxInstances /\ 0 \in 0..MaxInstances BY BoundAssumption DEF Shapes
<1>k. <<managed, TRUE>> \in Keys BY <1>0, LiveKeyType
<1>4. drv[d].pc = "stop" /\ lock' = lock /\ d \in Requests BY DEF Stop, locks, Role, OfRequests
<1>5. CASE managed = 0
  <2>1. Moves(d, "unmanaged") /\ UNCHANGED <<managed, closing>> BY <1>5, GoBecomes DEF Stop, Pcs
  <2>2. Shapes' BY <2>1 DEF Shapes, Stop, disk, tasks, locks, history
  <2>3. Role(d, "unmanaged", drv[d].kind, drv[d].key, drv[d].from)
    BY <1>4 DEF Role, Route, OfRequests, Inside, Binding, Handling
  <2> QED BY <1>4, <1>5, <2>1, <2>2, <2>3, StepBase DEF Moves
<1>6. CASE managed # 0
  <2>1. /\ Becomes(d, "forget", drv[d].kind, <<managed, TRUE>>, "stop", drv[d].copy)
        /\ closing' = closing \cup {<<managed, TRUE>>} /\ managed' = 0
    BY <1>6, <1>k, TakeBecomes DEF Stop, Pcs, Froms
  <2>2. Shapes' BY <1>0, <1>k, <2>1 DEF Shapes, Stop, disk, tasks, locks, history
  <2>n. managed \in Inst BY <1>0, <1>6, BoundAssumption DEF Inst
  <2>3. Role(d, "forget", drv[d].kind, <<managed, TRUE>>, "stop")
    BY <1>4, <2>n DEF Role, Route, OfRequests, Inside, Binding, Handling
  <2> QED BY <1>4, <1>6, <2>1, <2>2, <2>3, <2>n, StepBase
<1> QED BY <1>5, <1>6

LEMMA UnmanagedMoves ==
  ASSUME Base, NEW d \in Drivers, Unmanaged(d)
  PROVE  /\ Base' /\ d \in Requests
         /\ (Moves(d, "cancel") /\ lock' = lock) \/ (Returns(d) /\ lock' = None)
<1> USE BaseFacts, WhoIs
<1>0. drv[d].pc = "unmanaged" /\ d \in Requests BY DEF Unmanaged, Role, OfRequests
<1>l. lock' \in Requests \cup {None} BY DEF Unmanaged, Return, Shapes
<1>1. Shapes' BY <1>l DEF Shapes, Unmanaged, disk, tasks, memory, history
<1>2. Role(d, "cancel", drv[d].kind, drv[d].key, drv[d].from)
  BY <1>0 DEF Role, Route, OfRequests, Inside, Binding, Handling
<1>3. CASE Active
  <2>1. Returns(d) /\ lock' = None BY <1>3, IdleBecomes DEF Return, Unmanaged
  <2> QED BY <1>0, <1>1, <2>1, ReturnBase
<1>4. CASE ~Active
  <2>1. Moves(d, "cancel") /\ lock' = lock BY <1>4, GoBecomes DEF Unmanaged, Pcs
  <2> QED BY <1>0, <1>1, <1>2, <2>1, StepBase DEF Moves
<1> QED BY <1>3, <1>4

LEMMA CancelMoves ==
  ASSUME Base, NEW d \in Drivers, Cancel(d)
  PROVE  /\ Base' /\ d \in Requests
         /\ IF spec
            THEN /\ Becomes(d, "clean", drv[d].kind, meta, "cancel", drv[d].copy)
                 /\ lock' = lock /\ spec' = FALSE
            ELSE Returns(d) /\ lock' = None /\ spec' = spec
<1> USE BaseFacts, WhoIs
<1>0. drv[d].pc = "cancel" /\ d \in Requests BY DEF Cancel, Role, OfRequests
<1>m. meta \in Keys BY DEF Shapes
<1>l. lock' \in Requests \cup {None} BY DEF Cancel, Return, Shapes
<1>c. closing' \subseteq Keys BY <1>m DEF Cancel, Shapes
<1>p. spec' \in BOOLEAN BY DEF Cancel, Shapes
<1>1. Shapes' BY <1>l, <1>c, <1>p DEF Shapes, Cancel, disk, tasks, history
<1>3. CASE spec
  <2>1. /\ drv' = [drv EXCEPT ![d].pc = "clean", ![d].key = meta, ![d].from = "cancel"]
        /\ lock' = lock /\ spec' = FALSE
    BY <1>3 DEF Cancel
  <2>2. Becomes(d, "clean", drv[d].kind, meta, "cancel", drv[d].copy)
    BY <1>m, <2>1, TakeBecomes DEF Pcs, Froms
  <2>3. Role(d, "clean", drv[d].kind, meta, "cancel")
    BY <1>0 DEF Role, Route, OfRequests, Inside, Binding, Handling
  <2> QED BY <1>0, <1>1, <1>3, <2>1, <2>2, <2>3, StepBase
<1>4. CASE ~spec
  <2>1. Returns(d) /\ lock' = None /\ spec' = spec BY <1>4, IdleBecomes DEF Return, Cancel
  <2> QED BY <1>0, <1>1, <1>4, <2>1, ReturnBase
<1> QED BY <1>3, <1>4

LEMMA StopReadMoves ==
  ASSUME Base, NEW d \in Drivers, StopRead(d)
  PROVE  Base' /\ Loads(d, "stop save", life)
<1> USE BaseFacts
<1>0. life \in Lives BY DEF Shapes
<1>1. Loads(d, "stop save", life) BY <1>0, CopyBecomes DEF StopRead, Pcs
<1>2. Shapes' BY DEF Shapes, StopRead, disk, tasks, memory, locks, history
<1>3. Role(d, "stop save", drv[d].kind, drv[d].key, drv[d].from)
  BY DEF StopRead, Role, Route, OfRequests, Inside, Binding, Handling
<1>4. drv[d].pc # "idle" /\ lock' = lock BY DEF StopRead, locks
<1> QED BY <1>1, <1>2, <1>3, <1>4, StepBase DEF Loads

LEMMA StopSaveMoves ==
  ASSUME Base, NEW d \in Drivers, StopSave(d)
  PROVE  Base' /\ (Restarts(d, "start", "body") \/ Returns(d))
<1> USE BaseFacts, WhoIs
<1>0. drv[d].pc = "stop save" /\ d \in Requests BY DEF StopSave, Role, OfRequests
<1>l. lock' \in Requests \cup {None} BY DEF StopSave, Return, Shapes
<1>c. life' \in Lives /\ stopped' \in BOOLEAN BY DEF StopSave, Lives, Shapes
<1>1. Shapes' BY <1>l, <1>c DEF Shapes, StopSave, tasks, memory
<1>3. CASE Return(d)
  <2>1. Returns(d) /\ lock' = None BY <1>3, IdleBecomes DEF Return
  <2> QED BY <1>0, <1>1, <2>1, ReturnBase
<1>4. CASE ~Return(d)
  <2>1. Begin(d, "body") /\ lock' = lock BY <1>4 DEF StopSave
  <2>2. Restarts(d, "start", "body") BY <2>1, StartBecomes DEF Froms
  <2>3. Role(d, "start", drv[d].kind, <<0, FALSE>>, "body")
    BY <1>0 DEF Role, Route, OfRequests, Inside, Binding, Handling
  <2> QED BY <1>0, <1>1, <2>1, <2>2, <2>3, StepBase DEF Restarts
<1> QED BY <1>3, <1>4

LEMMA ShutMoves ==
  ASSUME Base, NEW d \in Drivers, Shut(d)
  PROVE  /\ Base'
         /\ IF life.status = "crashed"
            THEN Becomes(d, "join", drv[d].kind, drv[d].key, "gone", drv[d].copy)
            ELSE Moves(d, "shut read")
<1> USE BaseFacts, WhoIs
<1>0. drv[d].pc = "shut" /\ lock' = lock BY DEF Shut, locks
<1>1. Shapes' BY DEF Shapes, Shut, disk, tasks, memory, locks, history
<1>2. CASE life.status = "crashed"
  <2>1. drv' = [drv EXCEPT ![d].pc = "join", ![d].from = "gone"] BY <1>2 DEF Shut
  <2>2. Becomes(d, "join", drv[d].kind, drv[d].key, "gone", drv[d].copy)
    BY <2>1, FromBecomes DEF Pcs, Froms
  <2>3. Role(d, "join", drv[d].kind, drv[d].key, "gone")
    BY <1>0 DEF Role, Route, OfRequests, Inside, Binding, Handling
  <2> QED BY <1>0, <1>1, <1>2, <2>2, <2>3, StepBase
<1>3. CASE life.status # "crashed"
  <2>0. PICK from \in Froms : from = drv[d].from OBVIOUS
  <2>1. drv' = [drv EXCEPT ![d].pc = "shut read", ![d].from = from] BY <1>3, <2>0 DEF Shut
  <2>2. Moves(d, "shut read") BY <2>0, <2>1, FromBecomes DEF Pcs, Moves
  <2>3. Role(d, "shut read", drv[d].kind, drv[d].key, drv[d].from)
    BY <1>0 DEF Role, Route, OfRequests, Inside, Binding, Handling
  <2> QED BY <1>0, <1>1, <1>3, <2>2, <2>3, StepBase DEF Moves
<1> QED BY <1>2, <1>3

LEMMA ShutReadMoves ==
  ASSUME Base, NEW d \in Drivers, ShutRead(d)
  PROVE  /\ Base'
         /\ IF Done(drv[d].key[1]) THEN Moves(d, "join") ELSE Loads(d, "shut save", life)
<1> USE BaseFacts
<1>0. drv[d].pc = "shut read" /\ lock' = lock BY DEF ShutRead, locks
<1>1. Shapes' BY DEF Shapes, ShutRead, disk, tasks, memory, locks, history
<1>2. \A pc \in {"join", "shut save"} : Role(d, pc, drv[d].kind, drv[d].key, drv[d].from)
  BY <1>0 DEF Role, Route, OfRequests, Inside, Binding, Handling
<1>3. CASE Done(drv[d].key[1])
  <2>1. Moves(d, "join") BY <1>3, GoBecomes DEF ShutRead, Pcs
  <2> QED BY <1>0, <1>1, <1>2, <1>3, <2>1, StepBase DEF Moves
<1>4. CASE ~Done(drv[d].key[1])
  <2>0. life \in Lives BY DEF Shapes
  <2>1. Loads(d, "shut save", life) BY <1>4, <2>0, CopyBecomes DEF ShutRead, Pcs
  <2> QED BY <1>0, <1>1, <1>2, <1>4, <2>1, StepBase DEF Loads
<1> QED BY <1>3, <1>4

LEMMA ShutSaveMoves ==
  ASSUME Base, NEW d \in Drivers, ShutSave(d)
  PROVE  Base' /\ Loads(d, "send", NoLife)
<1> USE BaseFacts
<1>1. Loads(d, "send", NoLife) BY NoLifeType, CopyBecomes DEF ShutSave, Pcs
<1>2. life' \in Lives BY DEF ShutSave, Lives
<1>3. Shapes' BY <1>2 DEF Shapes, ShutSave, tasks, memory, locks, history
<1>4. Role(d, "send", drv[d].kind, drv[d].key, drv[d].from)
  BY DEF ShutSave, Role, Route, OfRequests, Inside, Binding, Handling
<1>5. drv[d].pc # "idle" /\ lock' = lock BY DEF ShutSave, locks
<1> QED BY <1>1, <1>3, <1>4, <1>5, StepBase DEF Loads

LEMMA SendMoves ==
  ASSUME Base, NEW d \in Drivers, Send(d)
  PROVE  Base' /\ Moves(d, "join")
<1> USE BaseFacts
<1>1. Moves(d, "join") BY GoBecomes DEF Send, Pcs
<1>2. run' \in [Inst -> {"none", "bound", "up", "stopping", "ended", "fenced", "read", "saved", "done"}]
  BY DEF Send, Shapes
<1>3. Shapes' BY <1>2 DEF Shapes, Send, disk, memory, locks, history
<1>4. Role(d, "join", drv[d].kind, drv[d].key, drv[d].from)
  BY DEF Send, Role, Route, OfRequests, Inside, Binding, Handling
<1>5. drv[d].pc # "idle" /\ lock' = lock BY DEF Send, locks
<1> QED BY <1>1, <1>3, <1>4, <1>5, StepBase DEF Moves

-----------------------------------------------------------------------------
(* So do the steps of the others. *)

LEMMA OtherBase ==
  ASSUME Base, drv' = drv, lock' = lock, Shapes'
  PROVE  Base'
<1>1. TypeOK' BY TypeTogether, TypeApart DEF Base
<1> QED BY <1>1 DEF Base, Roles, Locked

LEMMA CrashKeepsBase ==
  ASSUME Base, NEW n \in Inst, Crash(n)
  PROVE  Base'
<1>1. Shapes BY TypeApart DEF Base
<1>2. Shapes' BY <1>1 DEF Crash, Shapes, disk, memory, locks, history
<1> QED BY <1>2, OtherBase DEF Crash, locks

LEMMA JoinKeepsBase ==
  ASSUME Base, NEW n \in Inst, Join(n)
  PROVE  Base'
<1>0. Shapes BY TypeApart DEF Base
<1>n. n \in 0..MaxInstances /\ 0 \in 0..MaxInstances BY BoundAssumption DEF Inst
<1>k. <<n, TRUE>> \in Keys /\ <<n, FALSE>> \in Keys BY <1>n, LiveKeyType
<1>1. CASE Halt(n)
  <2>1. Shapes' BY <1>0, <1>1 DEF Halt, Shapes, disk, memory, locks, history
  <2> QED BY <1>1, <2>1, OtherBase DEF Halt, locks
<1>2. CASE JoinMeta(n)
  <2>1. Shapes' BY <1>0, <1>2, <1>k DEF JoinMeta, Shapes, locks, history
  <2> QED BY <1>2, <2>1, OtherBase DEF JoinMeta, locks
<1>3. CASE JoinRead(n)
  <2>1. Shapes' BY <1>0, <1>3 DEF JoinRead, Shapes, disk, memory, locks, history
  <2> QED BY <1>3, <2>1, OtherBase DEF JoinRead, locks
<1>4. CASE JoinSave(n)
  <2>0. ending[n] \in Lives /\ result[n] \in {"none", "stopped", "crashed"} BY <1>0 DEF Shapes
  <2>1. life' \in Lives BY <1>4, <2>0 DEF JoinSave, Lives
  <2>2. Shapes' BY <1>0, <1>4, <2>1, NoLifeType DEF JoinSave, Shapes, memory, locks, history
  <2> QED BY <1>4, <2>2, OtherBase DEF JoinSave, locks
<1>5. CASE JoinSocket(n)
  <2>1. Shapes' BY <1>0, <1>5, <1>n DEF JoinSocket, Shapes, memory, locks, history
  <2> QED BY <1>5, <2>1, OtherBase DEF JoinSocket, locks
<1> QED BY <1>1, <1>2, <1>3, <1>4, <1>5 DEF Join

LEMMA ViewKeepsBase ==
  ASSUME Base, NEW v \in Viewers, Inspect(v) \/ Views(v)
  PROVE  Base'
<1>0. Shapes BY TypeApart DEF Base
<1>v. view[v] \in [pc : {"idle", "probe", "save"}, copy : Lives] BY <1>0 DEF Shapes
<1>1. CASE Inspect(v)
  <2>1. spent \in [requests : 0..MaxRequests, views : 0..MaxViews, failures : 0..MaxFailures, deaths : 0..MaxDeaths]
    BY <1>0 DEF Shapes
  <2>2. spent' \in [requests : 0..MaxRequests, views : 0..MaxViews, failures : 0..MaxFailures, deaths : 0..MaxDeaths]
    BY <1>1, <2>1, BoundAssumption DEF Inspect
  <2>3. Shapes' BY <1>0, <1>1, <2>2 DEF Inspect, Shapes, disk, tasks, memory, locks, history
  <2> QED BY <1>1, <2>3, OtherBase DEF Inspect, locks
<1>2. CASE InspectProbe(v)
  <2>1. view' \in [Viewers -> [pc : {"idle", "probe", "save"}, copy : Lives]]
    BY <1>0, <1>2, <1>v, NoLifeType DEF InspectProbe, Shapes
  <2>2. Shapes' BY <1>0, <1>2, <2>1 DEF InspectProbe, Shapes, disk, tasks, memory, locks, history
  <2> QED BY <1>2, <2>2, OtherBase DEF InspectProbe, locks
<1>3. CASE InspectSave(v)
  <2>1. view' \in [Viewers -> [pc : {"idle", "probe", "save"}, copy : Lives]]
    BY <1>0, <1>3, NoLifeType DEF InspectSave, Shapes
  <2>2. life' \in Lives BY <1>3, <1>v DEF InspectSave, Lives
  <2>3. Shapes' BY <1>0, <1>3, <2>1, <2>2 DEF InspectSave, Shapes, tasks, memory, locks, history
  <2> QED BY <1>3, <2>3, OtherBase DEF InspectSave, locks
<1> QED BY <1>1, <1>2, <1>3 DEF Views

\* Whatever the process was doing, it starts anew.
LEMMA DieFacts ==
  ASSUME Base, Die
  PROVE  /\ Base'
         /\ \A d \in Drivers : drv'[d] = Idle
<1>0. Shapes BY TypeApart DEF Base
<1>1. drv' \in [Drivers -> Driver] /\ \A d \in Drivers : drv'[d] = Idle BY IdleType DEF Die
<1>2. spent' \in [requests : 0..MaxRequests, views : 0..MaxViews, failures : 0..MaxFailures, deaths : 0..MaxDeaths]
  <2>1. spent \in [requests : 0..MaxRequests, views : 0..MaxViews, failures : 0..MaxFailures, deaths : 0..MaxDeaths]
    BY <1>0 DEF Shapes
  <2> QED BY <2>1, BoundAssumption DEF Die
<1>3. life' \in Lives
  <2>0. life \in Lives BY <1>0 DEF Shapes
  <2>1. CASE meta[1] = 0 \/ life.status \in {"none", "stopped"} BY <2>0, <2>1 DEF Die
  <2>2. CASE ~(meta[1] = 0 \/ life.status \in {"none", "stopped"})
    <3>1. PICK next \in BOOLEAN : next = IF life.policy = "on-failure" THEN FALSE ELSE life.next
      BY <2>0 DEF Lives
    <3>2. life' = [life EXCEPT !.status = "crashed", !.next = next] BY <2>2, <3>1 DEF Die
    <3> QED BY <2>0, <3>2 DEF Lives
  <2> QED BY <2>1, <2>2
<1>4. /\ run' \in [Inst -> {"none", "bound", "up", "stopping", "ended", "fenced", "read", "saved", "done"}]
      /\ result' \in [Inst -> {"none", "stopped", "crashed"}] /\ ending' \in [Inst -> Lives]
      /\ origin' \in [Inst -> {"none", "request", "restart", "lost"}]
      /\ view' \in [Viewers -> [pc : {"idle", "probe", "save"}, copy : Lives]]
  BY NoLifeType DEF Die
<1>m. /\ sock' = 0 /\ managed' = 0 /\ spec' = FALSE /\ closing' = {} /\ lock' = None /\ flock' = None
      /\ UNCHANGED <<meta, stopped>>
  BY DEF Die
<1>z. 0 \in 0..MaxInstances BY BoundAssumption
<1>5. Shapes' BY <1>0, <1>2, <1>3, <1>4, <1>m, <1>z DEF Shapes
<1>6. TypeOK' BY <1>1, <1>5, TypeTogether
<1>7. Roles'
  <2>1. \A d \in Drivers : Role(d, "idle", "none", <<0, FALSE>>, "none")
    BY DEF Role, Route, OfRequests, Inside, Binding, Handling
  <2>2. Idle.pc = "idle" /\ Idle.kind = "none" /\ Idle.key = <<0, FALSE>> /\ Idle.from = "none"
    BY DEF Idle
  <2> QED BY <1>1, <2>1, <2>2 DEF Roles
<1>8. Locked' BY <1>1 DEF Locked, Drivers, Idle
<1> QED BY <1>1, <1>6, <1>7, <1>8 DEF Base

-----------------------------------------------------------------------------
(* Starts: the lifecycle lock keeps them apart. *)

\* Only d moves.
Others(d) ==
  /\ drv' \in [Drivers -> Driver]
  /\ \A e \in Drivers : e # d => drv'[e] = drv[e]

\* The steps that neither start nor end anything.
Quiet(d) ==
  \/ Look(d) \/ Take(d) \/ Wait(d) \/ Clean(d) \/ Forget(d) \/ Judge(d) \/ HasSpec(d)
  \/ Plan(d) \/ PlanSave(d) \/ Specs(d) \/ Contains(d) \/ NotDue(d) \/ Due(d) \/ DueSave(d)
  \/ Old(d) \/ Start(d) \/ Probe(d) \/ Insert(d) \/ InsertSpec(d)
  \/ Body(d) \/ PolicySave(d) \/ Fence(d) \/ Stop(d) \/ Unmanaged(d) \/ Cancel(d)
  \/ StopRead(d) \/ StopSave(d) \/ Shut(d) \/ ShutRead(d) \/ ShutSave(d)

LEMMA QuietSteps ==
  ASSUME NEW d \in Drivers, Quiet(d)
  PROVE  UNCHANGED <<run, sock, flock, result, origin, ending, view, meta>>
<1>1. CASE Look(d) \/ Take(d) \/ Wait(d) \/ Clean(d) \/ Forget(d) \/ Judge(d) \/ HasSpec(d)
  BY <1>1 DEF Look, Take, Wait, Clean, Forget, Judge, HasSpec, disk, tasks, locks, history
<1>2. CASE Plan(d) \/ PlanSave(d) \/ Specs(d) \/ Contains(d) \/ NotDue(d) \/ Due(d) \/ DueSave(d)
  BY <1>2 DEF Plan, PlanSave, Specs, Contains, NotDue, Due, DueSave, disk, tasks, locks, history
<1>3. CASE Old(d) \/ Start(d) \/ Probe(d) \/ Insert(d) \/ InsertSpec(d)
  BY <1>3 DEF Old, Start, Probe, Insert, InsertSpec, disk, tasks, locks, history
<1>4. CASE Body(d) \/ PolicySave(d) \/ Fence(d) \/ Stop(d) \/ Unmanaged(d) \/ Cancel(d)
  BY <1>4 DEF Body, PolicySave, Fence, Stop, Unmanaged, Cancel, disk, tasks, locks, history
<1>5. CASE StopRead(d) \/ StopSave(d) \/ Shut(d) \/ ShutRead(d) \/ ShutSave(d)
  BY <1>5 DEF StopRead, StopSave, Shut, ShutRead, ShutSave, disk, tasks, locks, history
<1> QED BY <1>1, <1>2, <1>3, <1>4, <1>5 DEF Quiet

\* The steps of the rest of the reaper that concern no handle.
LEMMA QuietMoves ==
  ASSUME Base, NEW d \in Drivers, Quiet(d)
  PROVE  Base' /\ Others(d) /\ drv'[d].pc \notin Inside
<1> USE DEF Moves, Loads, Restarts, Returns, Becomes, Others, Inside
<1>1. CASE Look(d) BY <1>1, LookMoves
<1>2. CASE Take(d) BY <1>2, TakeMoves
<1>3. CASE Wait(d) BY <1>3, WaitMoves
<1>4. CASE Clean(d) BY <1>4, CleanMoves DEF CleanedTo
<1>5. CASE Forget(d) BY <1>5, ForgetMoves
<1>6. CASE Judge(d) BY <1>6, JudgeMoves
<1>7. CASE HasSpec(d) BY <1>7, HasSpecMoves
<1>8. CASE Plan(d) BY <1>8, PlanMoves DEF PlannedTo
<1>9. CASE PlanSave(d) BY <1>9, PlanSaveMoves DEF PlannedTo
<1>10. CASE Specs(d) BY <1>10, SpecsMoves
<1>11. CASE Contains(d) BY <1>11, ContainsMoves
<1>12. CASE NotDue(d) BY <1>12, NotDueMoves
<1>13. CASE Due(d) BY <1>13, DueMoves
<1>14. CASE DueSave(d) BY <1>14, DueSaveMoves
<1>15. CASE Old(d) BY <1>15, OldMoves
<1>16. CASE Start(d) BY <1>16, StartMoves
<1>17. CASE Probe(d) BY <1>17, ProbeMoves
<1>18. CASE Insert(d) BY <1>18, InsertMoves
<1>19. CASE InsertSpec(d) BY <1>19, InsertSpecMoves
<1>20. CASE Body(d) BY <1>20, BodyMoves
<1>21. CASE PolicySave(d) BY <1>21, PolicySaveMoves
<1>22. CASE Fence(d) BY <1>22, FenceMoves
<1>23. CASE Stop(d) BY <1>23, StopMoves
<1>24. CASE Unmanaged(d) BY <1>24, UnmanagedMoves
<1>25. CASE Cancel(d) BY <1>25, CancelMoves
<1>26. CASE StopRead(d) BY <1>26, StopReadMoves
<1>27. CASE StopSave(d) BY <1>27, StopSaveMoves
<1>28. CASE Shut(d) BY <1>28, ShutMoves
<1>29. CASE ShutRead(d) BY <1>29, ShutReadMoves
<1>30. CASE ShutSave(d) BY <1>30, ShutSaveMoves
<1> QED BY <1>1, <1>2, <1>3, <1>4, <1>5, <1>6, <1>7, <1>8, <1>9, <1>10, <1>11, <1>12, <1>13, <1>14,
           <1>15, <1>16, <1>17, <1>18, <1>19, <1>20, <1>21, <1>22, <1>23, <1>24, <1>25, <1>26, <1>27,
           <1>28, <1>29, <1>30 DEF Quiet

StartInv == Base /\ Numbered /\ Starting

\* The next instance is the first that has not been started.
LEMMA FreshFacts ==
  ASSUME Numbered
  PROVE  /\ Fresh \in Nat /\ Fresh > 0
         /\ \A n \in Inst : run[n] # "none" <=> n < Fresh
<1>1. PICK k \in 0..MaxInstances : \A n \in Inst : run[n] # "none" <=> n <= k BY DEF Numbered
<1>2. {n \in Inst : run[n] # "none"} = 1..k BY <1>1, BoundAssumption DEF Inst
<1>3. Cardinality(1..k) = k BY FS_Interval, BoundAssumption
<1>4. Fresh = 1 + k BY <1>2, <1>3 DEF Fresh
<1> QED BY <1>1, <1>4, BoundAssumption DEF Inst

\* Nothing is started.
LEMMA SameFresh ==
  ASSUME Numbered, \A n \in Inst : run'[n] = "none" <=> run[n] = "none"
  PROVE  Numbered' /\ Fresh' = Fresh
<1>1. {n \in Inst : run'[n] # "none"} = {n \in Inst : run[n] # "none"} OBVIOUS
<1>2. Fresh' = Fresh BY <1>1 DEF Fresh
<1>3. Numbered' BY DEF Numbered
<1> QED BY <1>2, <1>3

\* No step but Bind makes the socket path answer.
LEMMA QuietStart ==
  ASSUME StartInv, NEW d \in Drivers, Others(d), drv'[d].pc \notin Inside, Base',
         UNCHANGED <<run, sock>>, flock' = flock \/ drv[d].pc \in Inside
  PROVE  StartInv'
<1>1. Numbered' /\ Fresh' = Fresh BY SameFresh DEF StartInv
<1>2. Active' = Active BY DEF Active
<1>3. ASSUME NEW e \in Drivers PROVE StartsAt(e, drv[e].pc, drv[e].key)'
  <2>1. CASE e = d BY <2>1 DEF StartsAt, Inside, Binding
  <2>2. CASE e # d
    <3>1. StartsAt(e, drv[e].pc, drv[e].key) /\ StartsAt(d, drv[d].pc, drv[d].key)
      BY DEF StartInv, Starting
    <3>2. drv'[e] = drv[e] BY <2>2 DEF Others
    <3>3. drv[e].pc \in Inside => flock' = flock BY <2>2, <3>1 DEF StartsAt
    <3> QED BY <1>1, <1>2, <3>1, <3>2, <3>3 DEF StartsAt, Inside, Binding
  <2> QED BY <2>1, <2>2
<1> QED BY <1>1, <1>3 DEF StartInv, Starting

LEMMA WithinStart ==
  ASSUME StartInv, NEW d \in Drivers, Others(d), drv[d].pc \in Inside, Base',
         UNCHANGED <<run, sock, flock>>, StartsAt(d, drv'[d].pc, drv'[d].key)
  PROVE  StartInv'
<1>1. Numbered' /\ Fresh' = Fresh BY SameFresh DEF StartInv
<1>2. Active' = Active BY DEF Active
<1>3. ASSUME NEW e \in Drivers PROVE StartsAt(e, drv[e].pc, drv[e].key)'
  <2>1. StartsAt(e, drv[e].pc, drv[e].key) BY DEF StartInv, Starting
  <2>2. CASE e = d BY <1>1, <1>2, <2>2 DEF StartsAt
  <2>3. CASE e # d
    <3>1. drv'[e] = drv[e] BY <2>3 DEF Others
    <3> QED BY <1>1, <1>2, <2>1, <3>1 DEF StartsAt
  <2> QED BY <2>2, <2>3
<1> QED BY <1>1, <1>3 DEF StartInv, Starting

\* Runtimes and their join tasks only make the socket path answer less.
LEMMA RunStart ==
  ASSUME StartInv, drv' = drv, flock' = flock, Base', sock' \in {0, sock},
         \A n \in Inst : run'[n] = run[n] \/ (run[n] \notin {"none", "bound"} /\ run'[n] \notin {"none", "bound"}),
         Active' => Active
  PROVE  StartInv'
<1>1. \A n \in Inst : run'[n] = "none" <=> run[n] = "none" OBVIOUS
<1>2. Numbered' /\ Fresh' = Fresh BY <1>1, SameFresh DEF StartInv
<1>3. ASSUME NEW e \in Drivers PROVE StartsAt(e, drv[e].pc, drv[e].key)'
  <2>1. StartsAt(e, drv[e].pc, drv[e].key) BY DEF StartInv, Starting
  <2>2. Role(e, drv[e].pc, drv[e].kind, drv[e].key, drv[e].from) BY BaseFacts DEF StartInv
  <2>3. drv[e].pc \in Binding => drv[e].key[1] \in Inst BY <2>2 DEF Role
  <2> QED BY <1>2, <2>1, <2>3 DEF StartsAt
<1> QED BY <1>2, <1>3 DEF StartInv, Starting

LEMMA SpawnStart ==
  ASSUME StartInv, NEW d \in Drivers, Spawn(d)
  PROVE  StartInv' /\ Others(d)
<1> USE DEF Moves, Returns, Becomes, Others
<1>b. Base BY DEF StartInv
<1>0. flock = None /\ UNCHANGED <<run, sock>> /\ drv[d].pc = "spawn" BY DEF Spawn, disk, tasks
<1>1. CASE flock' = flock
  <2>1. Base' /\ Others(d) /\ drv'[d].pc \notin Inside
    BY <1>b, <1>0, <1>1, SpawnMoves, DriverAssumption DEF Inside, Drivers
  <2> QED BY <1>0, <1>1, <2>1, QuietStart
<1>2. CASE flock' # flock
  <2>1. Base' /\ Moves(d, "previous") /\ flock' = d BY <1>b, <1>2, SpawnMoves
  <2>2. Numbered' BY <1>0, SameFresh DEF StartInv
  <2>3. ASSUME NEW e \in Drivers PROVE StartsAt(e, drv[e].pc, drv[e].key)'
    <3>1. CASE e = d BY <2>1, <3>1 DEF StartsAt, Inside, Binding
    <3>2. CASE e # d
      <4>1. drv[e].pc \notin Inside
        BY <1>0, DriverAssumption DEF StartInv, Starting, StartsAt, Drivers
      <4> QED BY <2>1, <3>2, <4>1 DEF StartsAt, Inside, Binding
    <3> QED BY <3>1, <3>2
  <2> QED BY <2>1, <2>2, <2>3 DEF StartInv, Starting
<1> QED BY <1>1, <1>2

LEMMA PreviousStart ==
  ASSUME StartInv, NEW d \in Drivers, Previous(d)
  PROVE  StartInv' /\ Others(d)
<1>b. Base BY DEF StartInv
<1>0. UNCHANGED <<run, sock, flock>> /\ drv[d].pc = "previous" BY DEF Previous, disk, tasks, locks
<1>1. Base' /\ Others(d) /\ drv'[d].pc = "vacant"
  BY <1>b, PreviousMoves DEF Loads, Becomes, Others
<1>2. StartsAt(d, "vacant", drv'[d].key)
  BY <1>0 DEF StartInv, Starting, StartsAt, Inside, Binding
<1> QED BY <1>0, <1>1, <1>2, WithinStart DEF Inside

LEMMA VacantStart ==
  ASSUME StartInv, NEW d \in Drivers, Vacant(d)
  PROVE  StartInv' /\ Others(d)
<1> USE DEF Moves, Returns, Becomes, Others
<1>b. Base BY DEF StartInv
<1>0. UNCHANGED <<run, sock>> /\ drv[d].pc = "vacant" BY DEF Vacant, disk, tasks
<1>1. Base' /\ Others(d) BY <1>b, VacantMoves
<1>2. CASE drv'[d].pc \notin Inside BY <1>0, <1>1, <1>2, QuietStart DEF Inside
<1>3. CASE drv'[d].pc \in Inside
  <2>1. ~Active /\ ~(Fresh > MaxInstances) /\ drv'[d].pc = "bind" /\ flock' = flock
    BY <1>b, <1>3, VacantMoves DEF Inside
  <2>2. Fresh \in Inst BY <2>1, FreshFacts, BoundAssumption DEF StartInv, Inst
  <2>3. StartsAt(d, "bind", drv'[d].key)
    BY <1>0, <2>1, <2>2 DEF StartInv, Starting, StartsAt, Inside, Binding
  <2> QED BY <1>0, <1>1, <2>1, <2>3, WithinStart DEF Inside
<1> QED BY <1>1, <1>2, <1>3

\* The instance that is started is new, and alone at the socket path.
LEMMA BindFacts ==
  ASSUME StartInv, NEW d \in Drivers, Bind(d)
  PROVE  /\ Fresh \in Inst /\ run[Fresh] = "none" /\ ~Active /\ flock = d
         /\ Base' /\ Others(d)
         /\ drv'[d].pc = "starting" /\ drv'[d].kind = drv[d].kind /\ drv'[d].key = <<Fresh, TRUE>>
         /\ drv'[d].from = drv[d].from /\ drv'[d].copy = drv[d].copy
         /\ run'[Fresh] = "bound" /\ \A n \in Inst : n # Fresh => run'[n] = run[n]
         /\ sock' = Fresh
<1>b. Base BY DEF StartInv
<1>1. Fresh \in Inst /\ ~Active /\ flock = d BY DEF Bind, StartInv, Starting, StartsAt, Inside
<1>2. run[Fresh] = "none"
  <2>1. PICK n \in Inst : n = Fresh BY <1>1
  <2>2. run[n] # "none" <=> n < Fresh BY FreshFacts DEF StartInv
  <2>3. ~(n < Fresh) BY <2>1, FreshFacts DEF StartInv
  <2> QED BY <2>1, <2>2, <2>3
<1>3. /\ Base'
      /\ Becomes(d, "starting", drv[d].kind, <<Fresh, TRUE>>, drv[d].from, drv[d].copy)
  BY <1>b, <1>1, BindMoves
<1>4. run'[Fresh] = "bound" /\ \A n \in Inst : n # Fresh => run'[n] = run[n]
  BY <1>b, <1>1 DEF Bind, Base, TypeOK
<1> QED BY <1>1, <1>2, <1>3, <1>4 DEF Becomes, Others, Bind

LEMMA BindStart ==
  ASSUME StartInv, NEW d \in Drivers, Bind(d)
  PROVE  StartInv'
<1>1. /\ Fresh \in Inst /\ run[Fresh] = "none" /\ flock = d
      /\ Base' /\ Others(d) /\ drv'[d].pc = "starting" /\ drv'[d].key = <<Fresh, TRUE>>
      /\ run'[Fresh] = "bound" /\ \A n \in Inst : n # Fresh => run'[n] = run[n]
      /\ sock' = Fresh
  BY BindFacts
<1>2. flock' = flock BY DEF Bind, locks
<1>3. Numbered'
  <2>1. PICK k \in 0..MaxInstances : k = Fresh BY <1>1, BoundAssumption DEF Inst
  <2>2. \A n \in Inst : run[n] # "none" <=> n < Fresh BY FreshFacts DEF StartInv
  <2>3. \A n \in Inst : run'[n] # "none" <=> n <= k BY <1>1, <2>1, <2>2, BoundAssumption DEF Inst
  <2> QED BY <2>3 DEF Numbered
<1>4. ASSUME NEW e \in Drivers PROVE StartsAt(e, drv[e].pc, drv[e].key)'
  <2>1. CASE e = d
    <3>1. PICK n \in Inst : n = Fresh BY <1>1
    <3>2. /\ drv'[d].pc = "starting" /\ drv'[d].key = <<n, TRUE>> /\ run'[n] = "bound" /\ sock' = n
          /\ flock' = d
      BY <1>1, <1>2, <3>1
    <3> QED BY <2>1, <3>2 DEF StartsAt, Inside, Binding
  <2>2. CASE e # d
    <3>1. drv[e].pc \notin Inside /\ drv'[e] = drv[e]
      BY <1>1, <2>2 DEF StartInv, Starting, StartsAt, Others
    <3> QED BY <3>1 DEF StartsAt, Inside, Binding
  <2> QED BY <2>1, <2>2
<1> QED BY <1>1, <1>3, <1>4 DEF StartInv, Starting

LEMMA SaveStartingStart ==
  ASSUME StartInv, NEW d \in Drivers, SaveStarting(d)
  PROVE  StartInv' /\ Others(d)
<1>b. Base BY DEF StartInv
<1>0. UNCHANGED <<run, sock, flock>> /\ drv[d].pc = "starting" BY DEF SaveStarting, tasks, locks
<1>1. Base' /\ Others(d) /\ drv'[d].pc = "metadata" /\ drv'[d].key = drv[d].key
  BY <1>b, SaveStartingMoves DEF Moves, Becomes, Others
<1>2. StartsAt(d, "metadata", drv[d].key)
  BY <1>0 DEF StartInv, Starting, StartsAt, Inside, Binding
<1> QED BY <1>0, <1>1, <1>2, WithinStart DEF Inside

LEMMA SaveMetaStart ==
  ASSUME StartInv, NEW d \in Drivers, SaveMeta(d)
  PROVE  StartInv' /\ Others(d)
<1>b. Base BY DEF StartInv
<1>0. UNCHANGED <<run, sock, flock>> /\ drv[d].pc = "metadata" BY DEF SaveMeta, tasks, locks
<1>1. Base' /\ Others(d) /\ drv'[d].pc = "active" /\ drv'[d].key = drv[d].key
  BY <1>b, SaveMetaMoves DEF Moves, Becomes, Others
<1>2. StartsAt(d, "active", drv[d].key)
  BY <1>0 DEF StartInv, Starting, StartsAt, Inside, Binding
<1> QED BY <1>0, <1>1, <1>2, WithinStart DEF Inside

\* The runtime that begins to serve is the one that was bound.
LEMMA ServeFacts ==
  ASSUME StartInv, NEW d \in Drivers, Serve(d)
  PROVE  /\ drv[d].key[1] \in Inst /\ drv[d].key = <<drv[d].key[1], TRUE>>
         /\ run[drv[d].key[1]] = "bound" /\ sock \in {0, drv[d].key[1]} /\ flock = d
         /\ Base' /\ Others(d)
         /\ drv'[d].pc = "insert" /\ drv'[d].kind = drv[d].kind /\ drv'[d].key = drv[d].key
         /\ drv'[d].from = drv[d].from /\ drv'[d].copy = NoLife
         /\ run'[drv[d].key[1]] = "up" /\ \A n \in Inst : n # drv[d].key[1] => run'[n] = run[n]
<1>b. Base BY DEF StartInv
<1>1. drv[d].pc = "active" BY DEF Serve
<1>2. drv[d].key[1] \in Inst /\ drv[d].key = <<drv[d].key[1], TRUE>>
  BY <1>b, <1>1, BaseFacts DEF Role, Binding
<1>3. run[drv[d].key[1]] = "bound" /\ sock \in {0, drv[d].key[1]} /\ flock = d
  BY <1>1 DEF StartInv, Starting, StartsAt, Inside, Binding
<1>4. Base' /\ Loads(d, "insert", NoLife) BY <1>b, ServeMoves
<1>5. run'[drv[d].key[1]] = "up" /\ \A n \in Inst : n # drv[d].key[1] => run'[n] = run[n]
  BY <1>b, <1>2 DEF Serve, Base, TypeOK
<1> QED BY <1>2, <1>3, <1>4, <1>5 DEF Loads, Becomes, Others

LEMMA ServeStart ==
  ASSUME StartInv, NEW d \in Drivers, Serve(d)
  PROVE  StartInv'
<1>1. PICK m \in Inst :
        /\ drv[d].key = <<m, TRUE>> /\ run[m] = "bound" /\ flock = d
        /\ Base' /\ Others(d) /\ drv'[d].pc = "insert"
        /\ run'[m] = "up" /\ \A n \in Inst : n # m => run'[n] = run[n]
  BY ServeFacts
<1>2. \A n \in Inst : run'[n] = "none" <=> run[n] = "none" BY <1>1
<1>3. Numbered' BY <1>2, SameFresh DEF StartInv
<1>4. ASSUME NEW e \in Drivers PROVE StartsAt(e, drv[e].pc, drv[e].key)'
  <2>1. drv'[e].pc \notin Inside
    BY <1>1 DEF StartInv, Starting, StartsAt, Others, Inside
  <2> QED BY <2>1 DEF StartsAt, Inside, Binding
<1> QED BY <1>1, <1>3, <1>4 DEF StartInv, Starting

\* A runtime that is told to stop was up.
LEMMA SendFacts ==
  ASSUME Base, NEW d \in Drivers, Send(d)
  PROVE  /\ drv[d].key[1] \in Inst /\ drv[d].key = <<drv[d].key[1], TRUE>>
         /\ Base' /\ Others(d) /\ d \in Requests
         /\ drv'[d].pc = "join" /\ drv'[d].kind = drv[d].kind /\ drv'[d].key = drv[d].key
         /\ drv'[d].from = drv[d].from /\ drv'[d].copy = drv[d].copy
         /\ \A n \in Inst : run'[n] = IF n = drv[d].key[1] /\ run[n] = "up" THEN "stopping" ELSE run[n]
<1>1. drv[d].pc = "send" BY DEF Send
<1>2. drv[d].key[1] \in Inst /\ drv[d].key = <<drv[d].key[1], TRUE>> /\ d \in Requests
  BY <1>1, BaseFacts, WhoIs DEF Role, Handling, OfRequests
<1>3. Base' /\ Moves(d, "join") BY SendMoves
<1>4. \A n \in Inst : run'[n] = IF n = drv[d].key[1] /\ run[n] = "up" THEN "stopping" ELSE run[n]
  BY <1>2 DEF Send, Base, TypeOK
<1> QED BY <1>2, <1>3, <1>4 DEF Moves, Becomes, Others

LEMMA SendStart ==
  ASSUME StartInv, NEW d \in Drivers, Send(d)
  PROVE  StartInv'
<1>b. Base BY DEF StartInv
<1>0. UNCHANGED <<sock, flock>> /\ drv[d].pc = "send" BY DEF Send, disk, locks
<1>1. /\ Base' /\ Others(d) /\ drv'[d].pc = "join"
      /\ \A n \in Inst : run'[n] = run[n] \/ (run[n] = "up" /\ run'[n] = "stopping")
  BY <1>b, SendFacts
<1>2. \A n \in Inst : run'[n] = "none" <=> run[n] = "none" BY <1>1
<1>3. Numbered' /\ Fresh' = Fresh BY <1>2, SameFresh DEF StartInv
<1>4. Active' => Active
  <2>1. sock \in 0..MaxInstances BY <1>b DEF Base, TypeOK
  <2>2. sock # 0 => sock \in Inst BY <2>1, BoundAssumption DEF Inst
  <2> QED BY <1>0, <1>1, <2>2 DEF Active
<1>5. ASSUME NEW e \in Drivers PROVE StartsAt(e, drv[e].pc, drv[e].key)'
  <2>1. StartsAt(e, drv[e].pc, drv[e].key) BY DEF StartInv, Starting
  <2>2. CASE e = d BY <1>1, <2>2 DEF StartsAt, Inside, Binding
  <2>3. CASE e # d
    <3>1. drv'[e] = drv[e] BY <1>1, <2>3 DEF Others
    <3>2. drv[e].pc \in Binding => drv[e].key[1] \in Inst BY <1>b, BaseFacts DEF Role
    <3>3. drv[e].pc \in Binding => run'[drv[e].key[1]] = run[drv[e].key[1]]
      BY <1>1, <2>1, <3>2 DEF StartsAt
    <3> QED BY <1>0, <1>3, <1>4, <2>1, <3>1, <3>3 DEF StartsAt
  <2> QED BY <2>2, <2>3
<1> QED BY <1>1, <1>3, <1>5 DEF StartInv, Starting

LEMMA SockType ==
  ASSUME Base
  PROVE  /\ sock # 0 => sock \in Inst
         /\ managed # 0 => managed \in Inst
<1>1. sock \in 0..MaxInstances /\ managed \in 0..MaxInstances BY DEF Base, TypeOK
<1> QED BY <1>1, BoundAssumption DEF Inst

\* What a crash and the steps of the join task do to runtimes.
LEMMA CrashFacts ==
  ASSUME Base, NEW n \in Inst, Crash(n)
  PROVE  /\ Base' /\ run[n] \in {"up", "stopping"} /\ run'[n] = "ended" /\ result'[n] = "crashed"
         /\ \A m \in Inst : m # n => run'[m] = run[m] /\ result'[m] = result[m]
         /\ UNCHANGED <<disk, ending, memory, locks, drv, view, spent, history>>
<1>1. Base' BY CrashKeepsBase
<1>2. /\ run \in [Inst -> {"none", "bound", "up", "stopping", "ended", "fenced", "read", "saved", "done"}]
      /\ result \in [Inst -> {"none", "stopped", "crashed"}]
  BY DEF Base, TypeOK
<1> QED BY <1>1, <1>2 DEF Crash, Up

LEMMA JoinFacts ==
  ASSUME Base, NEW n \in Inst, Join(n)
  PROVE  /\ Base' /\ run[n] \in {"stopping", "ended", "fenced", "read", "saved"}
         /\ run'[n] \in {"ended", "fenced", "read", "saved", "done"}
         /\ \A m \in Inst : m # n => run'[m] = run[m] /\ result'[m] = result[m] /\ ending'[m] = ending[m]
         /\ result'[n] = result[n] \/ (run[n] = "stopping" /\ result'[n] = "stopped")
         /\ sock' = sock \/ (sock' = 0 /\ run[n] = "saved")
         /\ meta' = meta \/ meta'[1] = n
         /\ UNCHANGED <<managed, spec, locks, drv, view, spent, history>>
<1>1. Base' BY JoinKeepsBase
<1>t. /\ run \in [Inst -> {"none", "bound", "up", "stopping", "ended", "fenced", "read", "saved", "done"}]
      /\ result \in [Inst -> {"none", "stopped", "crashed"}] /\ ending \in [Inst -> Lives]
  BY DEF Base, TypeOK
<1>2. CASE Halt(n) BY <1>1, <1>2, <1>t DEF Halt, disk, memory
<1>3. CASE JoinMeta(n) BY <1>1, <1>3, <1>t DEF JoinMeta
<1>4. CASE JoinRead(n) BY <1>1, <1>4, <1>t DEF JoinRead, disk, memory
<1>5. CASE JoinSave(n) BY <1>1, <1>5, <1>t DEF JoinSave, memory
<1>6. CASE JoinSocket(n) BY <1>1, <1>6, <1>t DEF JoinSocket, memory
<1> QED BY <1>2, <1>3, <1>4, <1>5, <1>6 DEF Join

LEMMA CrashStart ==
  ASSUME StartInv, NEW n \in Inst, Crash(n)
  PROVE  StartInv'
<1>b. Base BY DEF StartInv
<1>1. /\ Base' /\ run[n] \in {"up", "stopping"} /\ run'[n] = "ended"
      /\ \A m \in Inst : m # n => run'[m] = run[m]
      /\ UNCHANGED <<sock, drv, flock>>
  BY <1>b, CrashFacts DEF disk, locks
<1>2. sock # 0 => sock \in Inst BY <1>b, SockType
<1>3. Active' => Active BY <1>1, <1>2 DEF Active
<1> QED BY <1>1, <1>3, RunStart

LEMMA JoinStart ==
  ASSUME StartInv, NEW n \in Inst, Join(n)
  PROVE  StartInv'
<1>b. Base BY DEF StartInv
<1>1. /\ Base' /\ run[n] \in {"stopping", "ended", "fenced", "read", "saved"}
      /\ run'[n] \in {"ended", "fenced", "read", "saved", "done"}
      /\ \A m \in Inst : m # n => run'[m] = run[m]
      /\ sock' \in {0, sock} /\ UNCHANGED <<drv, flock>>
  BY <1>b, JoinFacts DEF locks
<1>2. sock # 0 => sock \in Inst BY <1>b, SockType
<1>3. Active' => Active BY <1>1, <1>2 DEF Active
<1> QED BY <1>1, <1>3, RunStart

LEMMA ViewFacts ==
  ASSUME Base, NEW v \in Viewers, Inspect(v) \/ Views(v)
  PROVE  Base' /\ UNCHANGED <<meta, sock, tasks, memory, locks, drv, history>>
<1>1. Base' BY ViewKeepsBase
<1> QED BY <1>1 DEF Inspect, Views, InspectProbe, InspectSave, disk

LEMMA ViewStart ==
  ASSUME StartInv, NEW v \in Viewers, Inspect(v) \/ Views(v)
  PROVE  StartInv'
<1>1. Base' /\ UNCHANGED <<sock, run, drv, flock>> BY ViewFacts DEF StartInv, tasks, locks
<1>2. Active' => Active BY <1>1 DEF Active
<1> QED BY <1>1, <1>2, RunStart

LEMMA DieStart ==
  ASSUME StartInv, Die
  PROVE  StartInv'
<1>1. Base' /\ \A d \in Drivers : drv'[d] = Idle BY DieFacts DEF StartInv
<1>2. \A n \in Inst : run'[n] = "none" <=> run[n] = "none" BY DEF Die
<1>3. Numbered' BY <1>2, SameFresh DEF StartInv
<1>4. Idle.pc = "idle" BY DEF Idle
<1>5. Starting' BY <1>1, <1>4 DEF Starting, StartsAt, Inside, Binding
<1> QED BY <1>1, <1>3, <1>5 DEF StartInv

LEMMA StepStart ==
  ASSUME StartInv, NEW d \in Drivers, Step(d)
  PROVE  StartInv' /\ Others(d)
<1>1. CASE Quiet(d)
  <2>1. Base' /\ Others(d) /\ drv'[d].pc \notin Inside BY <1>1, QuietMoves DEF StartInv
  <2>2. UNCHANGED <<run, sock, flock>> BY <1>1, QuietSteps
  <2> QED BY <2>1, <2>2, QuietStart
<1>2. CASE Spawn(d) BY <1>2, SpawnStart
<1>3. CASE Previous(d) BY <1>3, PreviousStart
<1>4. CASE Vacant(d) BY <1>4, VacantStart
<1>5. CASE Bind(d) BY <1>5, BindStart, BindFacts
<1>6. CASE SaveStarting(d) BY <1>6, SaveStartingStart
<1>7. CASE SaveMeta(d) BY <1>7, SaveMetaStart
<1>8. CASE Serve(d) BY <1>8, ServeStart, ServeFacts
<1>9. CASE Send(d) BY <1>9, SendStart, SendFacts DEF StartInv
<1> QED BY <1>1, <1>2, <1>3, <1>4, <1>5, <1>6, <1>7, <1>8, <1>9 DEF Step, Quiet

\* A driver that begins.
LEMMA TickStart ==
  ASSUME StartInv, NEW d \in Drivers, Tick(d)
  PROVE  StartInv' /\ Others(d)
<1>1. Base' /\ Others(d) /\ drv'[d].pc = "look"
  BY TickMoves DEF StartInv, Becomes, Others
<1>2. UNCHANGED <<run, sock, flock>> BY DEF Tick, disk, tasks, locks
<1> QED BY <1>1, <1>2, QuietStart DEF Inside

LEMMA RequestStart ==
  ASSUME StartInv, NEW d \in Requests, NEW kind \in Kinds, Request(d, kind)
  PROVE  StartInv' /\ Others(d)
<1>0. d \in Drivers BY DEF Drivers
<1>1. Base' /\ Others(d) /\ drv'[d].pc = "look"
  BY RequestMoves DEF StartInv, Becomes, Others
<1>2. UNCHANGED <<run, sock, flock>> BY DEF Request, disk, tasks
<1> QED BY <1>0, <1>1, <1>2, QuietStart DEF Inside

LEMMA StutterStart ==
  ASSUME StartInv, UNCHANGED vars
  PROVE  StartInv'
<1>v. /\ UNCHANGED <<meta, life, sock, run, result, ending, managed, spec, closing>>
      /\ UNCHANGED <<lock, flock, drv, view, spent, stopped, origin>>
  BY DEF vars, disk, tasks, memory, locks, history
<1>s. Shapes BY TypeApart DEF StartInv, Base
<1>1. Shapes' BY <1>s, <1>v DEF Shapes
<1>2. Base' BY <1>1, <1>v, OtherBase DEF StartInv
<1>3. Active' => Active BY <1>v DEF Active
<1> QED BY <1>2, <1>3, <1>v, RunStart

LEMMA StartNext ==
  ASSUME StartInv, [Next]_vars
  PROVE  StartInv'
<1>1. CASE \E n \in Inst : Crash(n) \/ Join(n) BY <1>1, CrashStart, JoinStart
<1>2. CASE \E d \in Drivers : Tick(d) \/ Step(d) BY <1>2, TickStart, StepStart
<1>3. CASE \E d \in Requests, kind \in Kinds : Request(d, kind) BY <1>3, RequestStart
<1>4. CASE \E v \in Viewers : Inspect(v) \/ Views(v) BY <1>4, ViewStart
<1>5. CASE Die BY <1>5, DieStart
<1>6. CASE UNCHANGED vars BY <1>6, StutterStart
<1> QED BY <1>1, <1>2, <1>3, <1>4, <1>5, <1>6 DEF Next

LEMMA StartInit ==
  ASSUME Init
  PROVE  StartInv
<1>1. drv \in [Drivers -> Driver] /\ \A d \in Drivers : drv[d] = Idle BY IdleType DEF Init
<1>i. /\ Idle.pc = "idle" /\ Idle.kind = "none" /\ Idle.key = <<0, FALSE>> /\ Idle.from = "none"
  BY DEF Idle
<1>2. TypeOK
  <2>1. meta \in Keys /\ life \in Lives BY NoKeyType, NoLifeType DEF Init
  <2>2. /\ run \in [Inst -> {"none", "bound", "up", "stopping", "ended", "fenced", "read", "saved", "done"}]
        /\ result \in [Inst -> {"none", "stopped", "crashed"}] /\ ending \in [Inst -> Lives]
        /\ origin \in [Inst -> {"none", "request", "restart", "lost"}]
        /\ view \in [Viewers -> [pc : {"idle", "probe", "save"}, copy : Lives]]
    BY NoLifeType DEF Init
  <2>3. spent \in [requests : 0..MaxRequests, views : 0..MaxViews, failures : 0..MaxFailures, deaths : 0..MaxDeaths]
    BY BoundAssumption DEF Init
  <2>4. sock \in 0..MaxInstances /\ managed \in 0..MaxInstances BY BoundAssumption DEF Init
  <2>5. /\ closing \subseteq Keys /\ lock \in Requests \cup {None} /\ flock \in Drivers \cup {None}
        /\ spec \in BOOLEAN /\ stopped \in BOOLEAN
    BY DEF Init
  <2> QED BY <1>1, <2>1, <2>2, <2>3, <2>4, <2>5 DEF TypeOK, Driver, Pcs, Froms, AllKinds
<1>3. Roles
  <2>1. \A d \in Drivers : Role(d, "idle", "none", <<0, FALSE>>, "none")
    BY DEF Role, Route, OfRequests, Inside, Binding, Handling
  <2> QED BY <1>1, <1>i, <2>1 DEF Roles
<1>4. Locked BY <1>1, <1>i DEF Locked, Drivers
<1>5. Starting BY <1>1, <1>i DEF Starting, StartsAt, Inside, Binding
<1>6. Numbered
  <2>1. \A n \in Inst : run[n] # "none" <=> n <= 0 BY BoundAssumption DEF Init, Inst
  <2>2. 0 \in 0..MaxInstances BY BoundAssumption
  <2> QED BY <2>1, <2>2 DEF Numbered
<1> QED BY <1>2, <1>3, <1>4, <1>5, <1>6 DEF StartInv, Base

\* The transition lock has one holder, and a start that has bound the socket
\* keeps it until its runtime serves (StartInv, for every reachable state).
THEOREM StartCorrect == Spec => []StartInv
<1>1. Init => StartInv BY StartInit
<1>2. StartInv /\ [Next]_vars => StartInv' BY StartNext
<1> QED BY <1>1, <1>2, PTL DEF Spec

\* Every reachable state of the supervisor is well typed.
THEOREM TypeCorrect == Spec => []TypeOK
<1>1. StartInv => TypeOK BY DEF StartInv, Base
<1> QED BY <1>1, StartCorrect, PTL

\* A session that can be reached loses its socket and its metadata to no
\* start: only to the join task of another instance.
THEOREM SocketCorrect == Spec => OnlyJoinEvicts
<1> DEFINE Kept(n) ==
      Up(n) /\ Up(n)' /\ sock = n /\ meta = <<n, TRUE>>
        => \/ sock' = n /\ meta' = meta
           \/ \E m \in Inst \ {n} : run[m] \in {"ended", "saved"} /\ run'[m] # run[m]
<1>1. ASSUME StartInv, Next, NEW n \in Inst, Up(n), Up(n)', sock = n, meta = <<n, TRUE>>
      PROVE  \/ sock' = n /\ meta' = meta
             \/ \E m \in Inst \ {n} : run[m] \in {"ended", "saved"} /\ run'[m] # run[m]
  <2>b. Base BY <1>1 DEF StartInv
  <2>n. n # 0 BY BoundAssumption DEF Inst
  <2>a. Active BY <1>1, <2>n DEF Active, Up
  <2>1. ASSUME NEW m \in Inst, Crash(m) PROVE sock' = n /\ meta' = meta
    BY <1>1, <2>1 DEF Crash, disk
  <2>2. ASSUME NEW m \in Inst, Join(m), ~(sock' = n /\ meta' = meta)
        PROVE  m # n /\ run[m] \in {"ended", "saved"} /\ run'[m] # run[m]
    <3>1. CASE Halt(m) BY <1>1, <2>2, <3>1 DEF Halt, disk
    <3>2. CASE JoinMeta(m)
      <4>1. run[m] = "ended" /\ run'[m] = "fenced" BY <2>b, <3>2 DEF JoinMeta, Base, TypeOK
      <4> QED BY <1>1, <4>1 DEF Up
    <3>3. CASE JoinRead(m) BY <1>1, <2>2, <3>3 DEF JoinRead, disk
    <3>4. CASE JoinSave(m) BY <1>1, <2>2, <3>4 DEF JoinSave
    <3>5. CASE JoinSocket(m)
      <4>1. run[m] = "saved" /\ run'[m] = "done" BY <2>b, <3>5 DEF JoinSocket, Base, TypeOK
      <4> QED BY <1>1, <4>1 DEF Up
    <3> QED BY <2>2, <3>1, <3>2, <3>3, <3>4, <3>5 DEF Join
  <2>3. ASSUME NEW d \in Drivers, Tick(d) PROVE sock' = n /\ meta' = meta
    BY <1>1, <2>3 DEF Tick, disk
  <2>4. ASSUME NEW d \in Drivers, Step(d) PROVE sock' = n /\ meta' = meta
    <3>1. CASE Quiet(d) BY <1>1, <3>1, QuietSteps
    <3>2. CASE Bind(d) BY <1>1, <2>a, <3>2, BindFacts
    <3>3. CASE SaveMeta(d)
      <4>1. run[drv[d].key[1]] = "bound" /\ sock \in {0, drv[d].key[1]}
        BY <1>1, <3>3 DEF SaveMeta, StartInv, Starting, StartsAt, Inside, Binding
      <4> QED BY <1>1, <2>n, <4>1 DEF Up
    <3>4. CASE Spawn(d) \/ Previous(d) \/ Vacant(d) \/ SaveStarting(d) \/ Serve(d) \/ Send(d)
      BY <1>1, <3>4 DEF Spawn, Previous, Vacant, SaveStarting, Serve, Send, disk
    <3> QED BY <2>4, <3>1, <3>2, <3>3, <3>4 DEF Step, Quiet
  <2>5. ASSUME NEW d \in Requests, NEW kind \in Kinds, Request(d, kind)
        PROVE  sock' = n /\ meta' = meta
    BY <1>1, <2>5 DEF Request, disk
  <2>6. ASSUME NEW v \in Viewers, Inspect(v) \/ Views(v) PROVE sock' = n /\ meta' = meta
    BY <1>1, <2>b, <2>6, ViewFacts
  <2>7. CASE Die
    <3>1. run'[n] \in {"none", "done"} BY <2>7 DEF Die
    <3> QED BY <1>1, <3>1 DEF Up
  <2> QED BY <1>1, <2>1, <2>2, <2>3, <2>4, <2>5, <2>6, <2>7 DEF Next
<1>2. StartInv /\ [Next]_vars => [\A n \in Inst : Kept(n)]_vars BY <1>1
<1>3. Spec => [][\A n \in Inst : Kept(n)]_vars BY <1>2, StartCorrect, PTL DEF Spec
<1> QED BY <1>3 DEF OnlyJoinEvicts

-----------------------------------------------------------------------------
(* Handles. *)

HandInv == StartInv /\ Handles

\* d gets no handle it does not have, and the map stays what it is.
LEMMA KeepHandles ==
  ASSUME HandInv, StartInv', NEW d \in Drivers, Others(d), managed' = managed,
         \A n \in Inst : Holds(d, n)' => Holds(d, n),
         \A n \in Inst : run[n] \notin {"none", "bound"} => run'[n] \notin {"none", "bound"}
  PROVE  HandInv'
<1>1. \A e \in Drivers, n \in Inst : Holds(e, n)' => Holds(e, n) BY DEF Others, Holds
<1>2. managed # 0 => managed \in Inst BY SockType DEF HandInv, StartInv
<1>3. Owned' BY <1>1, <1>2 DEF HandInv, Handles, Owned
<1>4. HandleOnce' BY <1>1 DEF HandInv, Handles, HandleOnce
<1> QED BY <1>3, <1>4 DEF HandInv, Handles

\* Nobody moves.
LEMMA SameHandles ==
  ASSUME HandInv, StartInv', drv' = drv, managed' = managed,
         \A n \in Inst : run[n] \notin {"none", "bound"} => run'[n] \notin {"none", "bound"}
  PROVE  HandInv'
<1>1. \A e \in Drivers, n \in Inst : Holds(e, n)' <=> Holds(e, n) BY DEF Holds
<1>2. managed # 0 => managed \in Inst BY SockType DEF HandInv, StartInv
<1>3. Owned' BY <1>1, <1>2 DEF HandInv, Handles, Owned
<1>4. HandleOnce' BY <1>1 DEF HandInv, Handles, HandleOnce
<1> QED BY <1>3, <1>4 DEF HandInv, Handles

\* The steps between the places of a driver that has a handle keep it, and
\* the others lead to places without one.
LEMMA QuietHolds ==
  ASSUME Base, NEW d \in Drivers, Quiet(d), ~Take(d), ~Stop(d), ~Insert(d)
  PROVE  /\ managed' = managed
         /\ \A n \in Inst : Holds(d, n)' => Holds(d, n)
<1> USE BaseFacts DEF Moves, Loads, Restarts, Returns, Becomes, Holds, Role, Route, memory
<1>1. CASE Look(d) BY <1>1, LookMoves DEF Look
<1>3. CASE Wait(d) BY <1>3, WaitMoves DEF Wait
<1>4. CASE Clean(d) BY <1>4, CleanMoves DEF CleanedTo, Clean
<1>5. CASE Forget(d) BY <1>5, ForgetMoves DEF Forget
<1>6. CASE Judge(d) BY <1>6, JudgeMoves DEF Judge
<1>7. CASE HasSpec(d) BY <1>7, HasSpecMoves DEF HasSpec
<1>8. CASE Plan(d) BY <1>8, PlanMoves DEF PlannedTo, Plan
<1>9. CASE PlanSave(d) BY <1>9, PlanSaveMoves DEF PlannedTo, PlanSave
<1>10. CASE Specs(d) BY <1>10, SpecsMoves DEF Specs
<1>11. CASE Contains(d) BY <1>11, ContainsMoves DEF Contains
<1>12. CASE NotDue(d) BY <1>12, NotDueMoves DEF NotDue
<1>13. CASE Due(d) BY <1>13, DueMoves DEF Due
<1>14. CASE DueSave(d) BY <1>14, DueSaveMoves DEF DueSave
<1>15. CASE Old(d) BY <1>15, OldMoves DEF Old
<1>16. CASE Start(d) BY <1>16, StartMoves DEF Start
<1>17. CASE Probe(d) BY <1>17, ProbeMoves DEF Probe
<1>19. CASE InsertSpec(d) BY <1>19, InsertSpecMoves DEF InsertSpec
<1>20. CASE Body(d) BY <1>20, BodyMoves DEF Body
<1>21. CASE PolicySave(d) BY <1>21, PolicySaveMoves DEF PolicySave
<1>22. CASE Fence(d) BY <1>22, FenceMoves DEF Fence
<1>24. CASE Unmanaged(d) BY <1>24, UnmanagedMoves DEF Unmanaged
<1>25. CASE Cancel(d) BY <1>25, CancelMoves DEF Cancel
<1>26. CASE StopRead(d) BY <1>26, StopReadMoves DEF StopRead
<1>27. CASE StopSave(d) BY <1>27, StopSaveMoves DEF StopSave
<1>28. CASE Shut(d) BY <1>28, ShutMoves DEF Shut
<1>29. CASE ShutRead(d) BY <1>29, ShutReadMoves DEF ShutRead
<1>30. CASE ShutSave(d) BY <1>30, ShutSaveMoves DEF ShutSave
<1> QED BY <1>1, <1>3, <1>4, <1>5, <1>6, <1>7, <1>8, <1>9, <1>10, <1>11, <1>12, <1>13, <1>14,
           <1>15, <1>16, <1>17, <1>19, <1>20, <1>21, <1>22, <1>24, <1>25, <1>26, <1>27,
           <1>28, <1>29, <1>30 DEF Quiet

\* A reaper or a stop takes the handle out of the map.
LEMMA TakeHandles ==
  ASSUME HandInv, StartInv', NEW d \in Drivers, Take(d) \/ Stop(d)
  PROVE  HandInv'
<1>b. Base BY DEF HandInv, StartInv
<1>r. run' = run BY DEF Take, Stop, tasks
<1>1. CASE managed = 0
  <2>1. Moves(d, "specs") \/ Moves(d, "unmanaged") BY <1>b, <1>1, TakeMoves, StopMoves
  <2>2. managed' = managed BY <1>1 DEF Take, Stop
  <2>3. Others(d) /\ \A n \in Inst : Holds(d, n)' => Holds(d, n)
    BY <2>1 DEF Moves, Becomes, Others, Holds
  <2> QED BY <1>r, <2>2, <2>3, KeepHandles
<1>2. CASE managed # 0
  <2>1. /\ managed \in Inst /\ managed' = 0 /\ Others(d) /\ drv'[d].key = <<managed, TRUE>>
        /\ drv'[d].pc = "wait" \/ (drv'[d].pc = "forget" /\ drv'[d].from = "stop")
    BY <1>b, <1>2, TakeMoves, StopMoves DEF Becomes, Others
  <2>m. PICK m \in Inst : m = managed BY <2>1
  <2>k. drv'[d].key = <<m, TRUE>> BY <2>1, <2>m
  <2>h. \A n \in Inst : Holds(d, n)' => n = m
    <3>1. \A n \in Inst : Holds(d, n)' => drv'[d].key = <<n, TRUE>> BY DEF Holds
    <3>2. \A n \in Inst : <<m, TRUE>> = <<n, TRUE>> => n = m OBVIOUS
    <3> QED BY <2>k, <3>1, <3>2
  <2>2. \A n \in Inst : Holds(d, n)' => n = managed BY <2>h, <2>m
  <2>3. \A e \in Drivers, n \in Inst : e # d => (Holds(e, n)' <=> Holds(e, n)) BY <2>1 DEF Others, Holds
  <2>4. \A e \in Drivers : ~Holds(e, managed) BY <2>1 DEF HandInv, Handles, HandleOnce
  <2>5. Owned' BY <1>2, <1>r, <2>1, <2>2, <2>3 DEF HandInv, Handles, Owned
  <2>n. 0 \notin Inst BY BoundAssumption DEF Inst
  <2>6. HandleOnce' BY <2>1, <2>2, <2>3, <2>4, <2>n DEF HandInv, Handles, HandleOnce
  <2> QED BY <2>5, <2>6 DEF HandInv, Handles
<1> QED BY <1>1, <1>2

LEMMA InsertHandles ==
  ASSUME HandInv, StartInv', NEW d \in Drivers, Insert(d)
  PROVE  HandInv'
<1>b. Base BY DEF HandInv, StartInv
<1>r. run' = run BY DEF Insert, tasks
<1>1. PICK m \in Inst : m = drv[d].key[1] BY <1>b, InsertMoves
<1>2. /\ managed' = m /\ drv[d].pc = "insert" /\ drv[d].key = <<m, TRUE>>
  BY <1>b, <1>1, BaseFacts DEF Insert, Role, Handling
<1>3. Others(d) /\ drv'[d].pc = "spec" BY <1>b, InsertMoves DEF Moves, Becomes, Others
<1>4. Holds(d, m) BY <1>2 DEF Holds
<1>5. \A n \in Inst : ~Holds(d, n)' BY <1>3 DEF Holds
<1>6. \A e \in Drivers, n \in Inst : e # d => (Holds(e, n)' <=> Holds(e, n)) BY <1>3 DEF Others, Holds
<1>7. \A e \in Drivers \ {d} : ~Holds(e, m) BY <1>4 DEF HandInv, Handles, HandleOnce
<1>8. Owned' BY <1>r, <1>2, <1>4, <1>5, <1>6 DEF HandInv, Handles, Owned
<1>9. HandleOnce' BY <1>2, <1>5, <1>6, <1>7 DEF HandInv, Handles, HandleOnce
<1> QED BY <1>8, <1>9 DEF HandInv, Handles

\* A handle is made once.
LEMMA ServeHandles ==
  ASSUME HandInv, StartInv', NEW d \in Drivers, Serve(d)
  PROVE  HandInv'
<1>1. PICK m \in Inst :
        /\ drv[d].key = <<m, TRUE>> /\ run[m] = "bound" /\ Others(d)
        /\ drv'[d].pc = "insert" /\ drv'[d].key = <<m, TRUE>>
        /\ run'[m] = "up" /\ \A n \in Inst : n # m => run'[n] = run[n]
  BY ServeFacts DEF HandInv
<1>2. managed' = managed BY DEF Serve, memory
<1>3. \A n \in Inst : Holds(d, n)' => n = m BY <1>1 DEF Holds
<1>4. \A e \in Drivers, n \in Inst : e # d => (Holds(e, n)' <=> Holds(e, n)) BY <1>1 DEF Others, Holds
<1>5. managed # m /\ \A e \in Drivers : ~Holds(e, m)
  <2>1. m # 0 BY BoundAssumption DEF Inst
  <2> QED BY <1>1, <2>1 DEF HandInv, Handles, Owned
<1>6. managed # 0 => managed \in Inst BY SockType DEF HandInv, StartInv
<1>7. Owned' BY <1>1, <1>2, <1>3, <1>4, <1>5, <1>6 DEF HandInv, Handles, Owned
<1>8. HandleOnce' BY <1>2, <1>3, <1>4, <1>5 DEF HandInv, Handles, HandleOnce
<1> QED BY <1>7, <1>8 DEF HandInv, Handles

\* The steps of a start, before it serves.
LEMMA StartingHandles ==
  ASSUME HandInv, StartInv', NEW d \in Drivers,
         Spawn(d) \/ Previous(d) \/ Vacant(d) \/ Bind(d) \/ SaveStarting(d) \/ SaveMeta(d)
  PROVE  HandInv'
<1>b. Base /\ StartInv BY DEF HandInv, StartInv
<1>1. managed' = managed BY DEF Spawn, Previous, Vacant, Bind, SaveStarting, SaveMeta, memory
<1>2. Others(d) /\ \A n \in Inst : ~Holds(d, n)'
  <2> USE DEF Moves, Loads, Returns, Becomes, Others, Holds
  <2>1. CASE Spawn(d) BY <1>b, <2>1, SpawnMoves
  <2>2. CASE Previous(d) BY <1>b, <2>2, PreviousMoves
  <2>3. CASE Vacant(d) BY <1>b, <2>3, VacantMoves
  <2>4. CASE Bind(d) BY <1>b, <2>4, BindFacts
  <2>5. CASE SaveStarting(d) BY <1>b, <2>5, SaveStartingMoves
  <2>6. CASE SaveMeta(d) BY <1>b, <2>6, SaveMetaMoves
  <2> QED BY <2>1, <2>2, <2>3, <2>4, <2>5, <2>6
<1>3. \A n \in Inst : run[n] \notin {"none", "bound"} => run'[n] \notin {"none", "bound"}
  <2>1. CASE Bind(d) BY <1>b, <2>1, BindFacts
  <2>2. CASE ~Bind(d) BY <2>2 DEF Spawn, Previous, Vacant, SaveStarting, SaveMeta, tasks
  <2> QED BY <2>1, <2>2
<1> QED BY <1>1, <1>2, <1>3, KeepHandles

LEMMA HandNext ==
  ASSUME HandInv, [Next]_vars
  PROVE  HandInv'
<1>b. Base /\ StartInv BY DEF HandInv, StartInv
<1>s. StartInv' BY <1>b, StartNext
<1>1. ASSUME NEW n \in Inst, Crash(n) PROVE HandInv'
  BY <1>b, <1>s, <1>1, CrashFacts, SameHandles DEF memory
<1>2. ASSUME NEW n \in Inst, Join(n) PROVE HandInv'
  BY <1>b, <1>s, <1>2, JoinFacts, SameHandles
<1>3. ASSUME NEW d \in Drivers, Tick(d) PROVE HandInv'
  <2>1. Others(d) /\ \A n \in Inst : ~Holds(d, n)'
    BY <1>b, <1>3, TickMoves DEF Becomes, Others, Holds
  <2>2. UNCHANGED <<managed, run>> BY <1>3 DEF Tick, memory, tasks
  <2> QED BY <1>s, <2>1, <2>2, KeepHandles
<1>4. ASSUME NEW d \in Drivers, Step(d) PROVE HandInv'
  <2>1. CASE Take(d) \/ Stop(d) BY <1>s, <2>1, TakeHandles
  <2>2. CASE Insert(d) BY <1>s, <2>2, InsertHandles
  <2>3. CASE Quiet(d) /\ ~Take(d) /\ ~Stop(d) /\ ~Insert(d)
    <3>1. Others(d) BY <1>b, <2>3, QuietMoves
    <3>2. run' = run BY <2>3, QuietSteps
    <3>3. managed' = managed /\ \A n \in Inst : Holds(d, n)' => Holds(d, n)
      BY <1>b, <2>3, QuietHolds
    <3> QED BY <1>s, <3>1, <3>2, <3>3, KeepHandles
  <2>4. CASE Serve(d) BY <1>s, <2>4, ServeHandles
  <2>5. CASE Send(d)
    <3>1. /\ Others(d) /\ drv'[d].pc = "join" /\ drv'[d].key = drv[d].key
          /\ \A n \in Inst : run'[n] = run[n] \/ (run[n] = "up" /\ run'[n] = "stopping")
      BY <1>b, <2>5, SendFacts
    <3>2. managed' = managed /\ drv[d].pc = "send" BY <2>5 DEF Send, memory
    <3>3. \A n \in Inst : Holds(d, n)' => Holds(d, n) BY <3>1, <3>2 DEF Holds
    <3> QED BY <1>s, <3>1, <3>2, <3>3, KeepHandles
  <2>6. CASE Spawn(d) \/ Previous(d) \/ Vacant(d) \/ Bind(d) \/ SaveStarting(d) \/ SaveMeta(d)
    BY <1>s, <2>6, StartingHandles
  <2> QED BY <1>4, <2>1, <2>2, <2>3, <2>4, <2>5, <2>6 DEF Step, Quiet
<1>5. ASSUME NEW d \in Requests, NEW kind \in Kinds, Request(d, kind) PROVE HandInv'
  <2>0. d \in Drivers BY DEF Drivers
  <2>1. Others(d) /\ \A n \in Inst : ~Holds(d, n)'
    BY <1>b, <1>5, RequestMoves DEF Becomes, Others, Holds
  <2>2. UNCHANGED <<managed, run>> BY <1>5 DEF Request, memory, tasks
  <2> QED BY <1>s, <2>0, <2>1, <2>2, KeepHandles
<1>6. ASSUME NEW v \in Viewers, Inspect(v) \/ Views(v) PROVE HandInv'
  <2>1. UNCHANGED <<drv, managed, run>> BY <1>b, <1>6, ViewFacts DEF memory, tasks
  <2> QED BY <1>s, <2>1, SameHandles
<1>7. CASE Die
  <2>1. \A d \in Drivers : drv'[d] = Idle BY <1>b, <1>7, DieFacts
  <2>2. Idle.pc = "idle" BY DEF Idle
  <2>3. \A d \in Drivers, n \in Inst : ~Holds(d, n)' BY <2>1, <2>2 DEF Holds
  <2>4. managed' = 0 BY <1>7 DEF Die
  <2> QED BY <1>s, <2>3, <2>4 DEF HandInv, Handles, Owned, HandleOnce
<1>8. CASE UNCHANGED vars
  <2>1. UNCHANGED <<drv, managed, run>> BY <1>8 DEF vars, memory, tasks
  <2> QED BY <1>s, <2>1, SameHandles
<1> QED BY <1>1, <1>2, <1>3, <1>4, <1>5, <1>6, <1>7, <1>8 DEF Next

\* Beside the locks, every handle belongs to a runtime that serves or has
\* served, and to one owner (HandInv, for every reachable state).
THEOREM HandInvCorrect == Spec => []HandInv
<1>1. Init => HandInv
  <2>1. SUFFICES ASSUME Init PROVE HandInv OBVIOUS
  <2>2. StartInv BY <2>1, StartInit
  <2>3. Idle.pc = "idle" BY DEF Idle
  <2>4. \A d \in Drivers, n \in Inst : ~Holds(d, n) BY <2>1, <2>3 DEF Holds, Init
  <2>5. managed = 0 BY <2>1 DEF Init
  <2> QED BY <2>2, <2>4, <2>5 DEF HandInv, Handles, Owned, HandleOnce
<1>2. HandInv /\ [Next]_vars => HandInv' BY HandNext
<1> QED BY <1>1, <1>2, PTL DEF Spec

\* The handle of a runtime has one owner, however many reapers and requests
\* are under way.
THEOREM HandleCorrect == Spec => []HandleOnce
<1>1. HandInv => HandleOnce BY DEF HandInv, Handles
<1> QED BY <1>1, HandInvCorrect, PTL

-----------------------------------------------------------------------------
(* Instances, and the records of them. *)

\* Origins depend on these only.
LEMMA SameOrigins ==
  ASSUME Origins, UNCHANGED <<run, result, origin>>
  PROVE  Origins'
BY DEF Origins

\* A runtime moves on.
LEMMA RunOrigins ==
  ASSUME Origins, NEW n \in Inst, run[n] \notin {"none", "done"}, run'[n] # "none",
         \A m \in Inst : m # n => run'[m] = run[m] /\ result'[m] = result[m],
         run'[n] \in {"bound", "up", "stopping"} => run[n] \in {"bound", "up", "stopping"} /\ result'[n] = result[n],
         origin' = origin
  PROVE  Origins'
BY DEF Origins

LEMMA OriginsNext ==
  ASSUME HandInv, Origins, [Next]_vars
  PROVE  Origins'
<1>b. Base /\ StartInv BY DEF HandInv, StartInv
<1>1. ASSUME NEW n \in Inst, Crash(n) PROVE Origins'
  BY <1>b, <1>1, CrashFacts, RunOrigins DEF history
<1>2. ASSUME NEW n \in Inst, Join(n) PROVE Origins'
  BY <1>b, <1>2, JoinFacts, RunOrigins DEF history
<1>3. ASSUME NEW d \in Drivers, Tick(d) PROVE Origins'
  BY <1>3, SameOrigins DEF Tick, tasks, history
<1>4. ASSUME NEW d \in Drivers, Step(d) PROVE Origins'
  <2>1. CASE Quiet(d) BY <2>1, QuietSteps, SameOrigins
  <2>2. CASE Bind(d)
    <3>1. PICK m \in Inst :
            /\ m = Fresh /\ run[m] = "none" /\ run'[m] = "bound"
            /\ \A n \in Inst : n # m => run'[n] = run[n]
      BY <1>b, <2>2, BindFacts
    <3>2. /\ result' = result /\ origin'[m] \in {"request", "restart"}
          /\ \A n \in Inst : n # m => origin'[n] = origin[n]
      BY <1>b, <2>2, <3>1 DEF Bind, Base, TypeOK
    <3> QED BY <3>1, <3>2 DEF Origins
  <2>3. CASE Serve(d)
    <3>1. PICK m \in Inst :
            run[m] = "bound" /\ run'[m] = "up" /\ \A n \in Inst : n # m => run'[n] = run[n]
      BY <1>b, <2>3, ServeFacts
    <3>2. UNCHANGED <<result, origin>> BY <2>3 DEF Serve
    <3> QED BY <3>1, <3>2, RunOrigins
  <2>4. CASE Send(d)
    <3>1. \A n \in Inst : run'[n] = run[n] \/ (run[n] = "up" /\ run'[n] = "stopping")
      BY <1>b, <2>4, SendFacts
    <3>2. UNCHANGED <<result, origin>> BY <2>4 DEF Send, history
    <3> QED BY <3>1, <3>2 DEF Origins
  <2>5. CASE Spawn(d) \/ Previous(d) \/ Vacant(d) \/ SaveStarting(d) \/ SaveMeta(d)
    BY <2>5, SameOrigins DEF Spawn, Previous, Vacant, SaveStarting, SaveMeta, tasks, history
  <2> QED BY <1>4, <2>1, <2>2, <2>3, <2>4, <2>5 DEF Step, Quiet
<1>5. ASSUME NEW d \in Requests, NEW kind \in Kinds, Request(d, kind) PROVE Origins'
  BY <1>5, SameOrigins DEF Request, tasks, history
<1>6. ASSUME NEW v \in Viewers, Inspect(v) \/ Views(v) PROVE Origins'
  BY <1>b, <1>6, ViewFacts, SameOrigins DEF tasks, history
<1>7. CASE Die BY <1>7 DEF Die, Origins
<1>8. CASE UNCHANGED vars BY <1>8, SameOrigins DEF vars, tasks, history
<1> QED BY <1>1, <1>2, <1>3, <1>4, <1>5, <1>6, <1>7, <1>8 DEF Next

\* d has a record that is sound, or writes one.
LEMMA KeepRecords ==
  ASSUME Records, NEW d \in Drivers, Others(d), Sound(life'), Sound(drv'[d].copy), UNCHANGED <<ending, view>>
  PROVE  Records'
<1>1. \A e \in Drivers : Sound(drv'[e].copy) BY DEF Records, Others
<1> QED BY <1>1 DEF Records, Sound

\* The changes made to a record.
LEMMA SoundChanges ==
  ASSUME NEW l \in Lives, Sound(l)
  PROVE  /\ Sound(NoLife) /\ ~NoLife.next
         /\ [l EXCEPT !.next = FALSE] \in Lives
         /\ ~[l EXCEPT !.next = FALSE].next /\ [l EXCEPT !.next = FALSE].status = l.status
         /\ \A s \in {"starting", "active", "stopped"} :
              LET r == [l EXCEPT !.status = s, !.next = FALSE] IN ~r.next /\ r.status = s
         /\ \A s \in {"none", "stopping", "stopped", "crashed"} :
              LET r == [l EXCEPT !.status = s] IN Sound(r) /\ r.next = l.next /\ r.status = s
         /\ \A kind \in {"never", "on-failure"} : Sound(Ordered(l, kind))
         /\ l.policy = "on-failure" => Sound(Scheduling(l))
<1>1. Sound(NoLife) /\ ~NoLife.next BY DEF Sound, NoLife
<1>2. /\ [l EXCEPT !.next = FALSE] \in Lives
      /\ ~[l EXCEPT !.next = FALSE].next /\ [l EXCEPT !.next = FALSE].status = l.status
  BY DEF Lives
<1>3. ASSUME NEW s \in {"starting", "active", "stopped"}
      PROVE  LET r == [l EXCEPT !.status = s, !.next = FALSE] IN ~r.next /\ r.status = s
  BY DEF Lives
<1>4. ASSUME NEW s \in {"none", "stopping", "stopped", "crashed"}
      PROVE  LET r == [l EXCEPT !.status = s] IN Sound(r) /\ r.next = l.next /\ r.status = s
  <2> DEFINE r == [l EXCEPT !.status = s]
  <2>1. r.next = l.next /\ r.policy = l.policy /\ r.status = s BY DEF Lives
  <2> HIDE DEF r
  <2>2. Sound(r) BY <2>1 DEF Sound
  <2> QED BY <2>1, <2>2 DEF r
<1>5. \A kind \in {"never", "on-failure"} : Sound(Ordered(l, kind)) BY OrderedType DEF Sound
<1>6. l.policy = "on-failure" => Sound(Scheduling(l)) BY SchedulingType DEF Sound
<1> QED BY <1>1, <1>2, <1>3, <1>4, <1>5, <1>6

LEMMA RecordFacts ==
  ASSUME Base, Records, NEW d \in Drivers
  PROVE  /\ life \in Lives /\ Sound(life) /\ drv[d].copy \in Lives /\ Sound(drv[d].copy)
         /\ Sound(NoLife) /\ Sound([life EXCEPT !.next = FALSE])
         /\ life.policy = "on-failure" => Sound(Scheduling(life))
         /\ \A kind \in {"never", "on-failure"} : Sound(Ordered(life, kind))
<1>1. life \in Lives /\ drv[d].copy \in Lives BY BaseFacts DEF Shapes
<1>2. Sound(life) /\ Sound(drv[d].copy) BY DEF Records
<1>3. Sound([life EXCEPT !.next = FALSE]) BY <1>1, <1>2, SoundChanges DEF Sound
<1> QED BY <1>1, <1>2, <1>3, SoundChanges

LEMMA QuietRecords ==
  ASSUME Base, Records, NEW d \in Drivers, Quiet(d)
  PROVE  Sound(life') /\ Sound(drv'[d].copy)
<1> USE RecordFacts DEF Moves, Loads, Restarts, Returns, Becomes, disk
<1>1. CASE Look(d) BY <1>1, LookMoves DEF Look
<1>2. CASE Take(d) BY <1>2, TakeMoves DEF Take
<1>3. CASE Wait(d) BY <1>3, WaitMoves DEF Wait
<1>4. CASE Clean(d) BY <1>4, CleanMoves DEF CleanedTo, Clean
<1>5. CASE Forget(d) BY <1>5, ForgetMoves DEF Forget
<1>6. CASE Judge(d) BY <1>6, JudgeMoves DEF Judge
<1>7. CASE HasSpec(d) BY <1>7, HasSpecMoves DEF HasSpec
<1>8. CASE Plan(d) BY <1>8, PlanMoves DEF PlannedTo, Plan
<1>9. CASE PlanSave(d) BY <1>9, PlanSaveMoves DEF PlannedTo, PlanSave
<1>10. CASE Specs(d) BY <1>10, SpecsMoves DEF Specs
<1>11. CASE Contains(d) BY <1>11, ContainsMoves DEF Contains
<1>12. CASE NotDue(d) BY <1>12, NotDueMoves DEF NotDue
<1>13. CASE Due(d) BY <1>13, DueMoves DEF Due
<1>14. CASE DueSave(d) BY <1>14, DueSaveMoves DEF DueSave
<1>15. CASE Old(d) BY <1>15, OldMoves DEF Old
<1>16. CASE Start(d) BY <1>16, StartMoves DEF Start
<1>17. CASE Probe(d) BY <1>17, ProbeMoves DEF Probe
<1>18. CASE Insert(d) BY <1>18, InsertMoves DEF Insert
<1>19. CASE InsertSpec(d) BY <1>19, InsertSpecMoves DEF InsertSpec
<1>20. CASE Body(d) BY <1>20, BodyMoves DEF Body
<1>21. CASE PolicySave(d) BY <1>21, PolicySaveMoves DEF PolicySave
<1>22. CASE Fence(d) BY <1>22, FenceMoves DEF Fence
<1>23. CASE Stop(d) BY <1>23, StopMoves DEF Stop
<1>24. CASE Unmanaged(d) BY <1>24, UnmanagedMoves DEF Unmanaged
<1>25. CASE Cancel(d) BY <1>25, CancelMoves DEF Cancel
<1>26. CASE StopRead(d) BY <1>26, StopReadMoves DEF StopRead
<1>27. CASE StopSave(d)
  <2>1. life' = [drv[d].copy EXCEPT !.status = "stopped", !.next = FALSE] BY <1>27 DEF StopSave
  <2>2. Sound(life') BY <2>1, SoundChanges DEF Sound
  <2> QED BY <1>27, <2>2, StopSaveMoves
<1>28. CASE Shut(d) BY <1>28, ShutMoves DEF Shut
<1>29. CASE ShutRead(d) BY <1>29, ShutReadMoves DEF ShutRead
<1>30. CASE ShutSave(d)
  <2>1. life' = [drv[d].copy EXCEPT !.status = "stopping"] BY <1>30 DEF ShutSave
  <2>2. Sound(life') BY <2>1, SoundChanges
  <2> QED BY <1>30, <2>2, ShutSaveMoves
<1> QED BY <1>1, <1>2, <1>3, <1>4, <1>5, <1>6, <1>7, <1>8, <1>9, <1>10, <1>11, <1>12, <1>13, <1>14,
           <1>15, <1>16, <1>17, <1>18, <1>19, <1>20, <1>21, <1>22, <1>23, <1>24, <1>25, <1>26, <1>27,
           <1>28, <1>29, <1>30 DEF Quiet

\* The steps of a start.
LEMMA StartingRecords ==
  ASSUME StartInv, Records, NEW d \in Drivers,
         \/ Spawn(d) \/ Previous(d) \/ Vacant(d) \/ Bind(d) \/ SaveStarting(d) \/ SaveMeta(d)
         \/ Serve(d) \/ Send(d)
  PROVE  Records'
<1>b. Base BY DEF StartInv
<1> USE <1>b, RecordFacts DEF Moves, Loads, Returns, Becomes, disk, tasks
<1>1. UNCHANGED <<ending, view>>
  BY DEF Spawn, Previous, Vacant, Bind, SaveStarting, SaveMeta, Serve, Send
<1>2. Others(d) BY StepStart DEF Step
<1>3. CASE Spawn(d)
  <2>1. Sound(drv'[d].copy) /\ Sound(life') BY <1>3, SpawnMoves DEF Spawn
  <2> QED BY <1>1, <1>2, <2>1, KeepRecords
<1>4. CASE Previous(d)
  <2>1. Sound(drv'[d].copy) /\ Sound(life') BY <1>4, PreviousMoves DEF Previous
  <2> QED BY <1>1, <1>2, <2>1, KeepRecords
<1>5. CASE Vacant(d)
  <2>1. Sound(drv'[d].copy) /\ Sound(life') BY <1>5, VacantMoves DEF Vacant
  <2> QED BY <1>1, <1>2, <2>1, KeepRecords
<1>6. CASE Bind(d)
  <2>1. Sound(drv'[d].copy) /\ Sound(life') BY <1>6, BindFacts DEF Bind
  <2> QED BY <1>1, <1>2, <2>1, KeepRecords
<1>7. CASE SaveStarting(d)
  <2>1. life' = [drv[d].copy EXCEPT !.status = "starting", !.next = FALSE] BY <1>7 DEF SaveStarting
  <2>2. Sound(life') BY <2>1, SoundChanges DEF Sound
  <2>3. Sound(drv'[d].copy) BY <1>7, SaveStartingMoves
  <2> QED BY <1>1, <1>2, <2>2, <2>3, KeepRecords
<1>8. CASE SaveMeta(d)
  <2>1. Sound(drv'[d].copy) /\ Sound(life') BY <1>8, SaveMetaMoves DEF SaveMeta
  <2> QED BY <1>1, <1>2, <2>1, KeepRecords
<1>9. CASE Serve(d)
  <2>1. life' = [drv[d].copy EXCEPT !.status = "active", !.next = FALSE] BY <1>9 DEF Serve
  <2>2. Sound(life') BY <2>1, SoundChanges DEF Sound
  <2>3. Sound(drv'[d].copy) BY <1>9, ServeFacts
  <2> QED BY <1>1, <1>2, <2>2, <2>3, KeepRecords
<1>10. CASE Send(d)
  <2>1. Sound(drv'[d].copy) /\ Sound(life') BY <1>10, SendFacts DEF Send
  <2> QED BY <1>1, <1>2, <2>1, KeepRecords
<1> QED BY <1>3, <1>4, <1>5, <1>6, <1>7, <1>8, <1>9, <1>10

LEMMA JoinRecords ==
  ASSUME Base, Records, NEW n \in Inst, Join(n)
  PROVE  Records'
<1>0. /\ life \in Lives /\ ending \in [Inst -> Lives] /\ ending[n] \in Lives
      /\ result[n] \in {"none", "stopped", "crashed"}
  BY DEF Base, TypeOK
<1>s. Sound(life) /\ Sound(ending[n]) BY DEF Records
<1>1. CASE Halt(n) BY <1>1 DEF Halt, Records, Sound, disk
<1>2. CASE JoinMeta(n) BY <1>2 DEF JoinMeta, Records, Sound
<1>3. CASE JoinRead(n)
  <2>1. UNCHANGED <<life, drv, view>> BY <1>3 DEF JoinRead, disk
  <2>2. \A m \in Inst : ending'[m] \in {life, ending[m]} BY <1>0, <1>3 DEF JoinRead
  <2>3. \A m \in Inst : Sound(ending'[m]) BY <2>2 DEF Records
  <2> QED BY <2>1, <2>3 DEF Records, Sound
<1>4. CASE JoinSave(n)
  <2>1. UNCHANGED <<drv, view>> BY <1>4 DEF JoinSave
  <2>2. \A m \in Inst : ending'[m] \in {NoLife, ending[m]} BY <1>0, <1>4 DEF JoinSave
  <2>3. \A m \in Inst : Sound(ending'[m]) BY <1>0, <1>s, <2>2, SoundChanges DEF Records
  <2>4. life' = [ending[n] EXCEPT !.status = result[n]] BY <1>4 DEF JoinSave
  <2>5. Sound(life') BY <1>0, <1>s, <2>4, SoundChanges
  <2> QED BY <2>1, <2>3, <2>5 DEF Records, Sound
<1>5. CASE JoinSocket(n) BY <1>5 DEF JoinSocket, Records, Sound
<1> QED BY <1>1, <1>2, <1>3, <1>4, <1>5 DEF Join

LEMMA ViewRecords ==
  ASSUME Base, Records, NEW v \in Viewers, Inspect(v) \/ Views(v)
  PROVE  Records'
<1>0. /\ life \in Lives /\ view \in [Viewers -> [pc : {"idle", "probe", "save"}, copy : Lives]]
      /\ view[v].copy \in Lives
  BY DEF Base, TypeOK
<1>s. Sound(life) /\ Sound(view[v].copy) BY DEF Records
<1>d. UNCHANGED <<drv, ending>> BY ViewFacts DEF tasks
<1>c. \A u \in Viewers : view'[u].copy \in {NoLife, life, view[u].copy}
  BY <1>0 DEF Inspect, Views, InspectProbe, InspectSave
<1>1. \A u \in Viewers : Sound(view'[u].copy) BY <1>0, <1>s, <1>c, SoundChanges DEF Records
<1>2. Sound(life')
  <2>1. CASE InspectSave(v)
    <3>1. life' = [view[v].copy EXCEPT !.status = "crashed"] BY <2>1 DEF InspectSave
    <3> QED BY <1>0, <1>s, <3>1, SoundChanges
  <2>2. CASE ~InspectSave(v)
    <3>1. life' = life BY <2>2 DEF Inspect, Views, InspectProbe, disk
    <3> QED BY <1>s, <3>1
  <2> QED BY <2>1, <2>2
<1> QED BY <1>1, <1>2, <1>d DEF Records, Sound

LEMMA DieRecords ==
  ASSUME Base, Records, Die
  PROVE  /\ Records'
         /\ life'.next => life.next /\ (meta[1] = 0 \/ life'.status \in {"none", "stopped"})
<1>0. life \in Lives /\ Sound(life) BY DEF Base, TypeOK, Records
<1>1. Sound(life') /\ (life'.next => life.next /\ (meta[1] = 0 \/ life'.status \in {"none", "stopped"}))
  <2>1. CASE meta[1] = 0 \/ life.status \in {"none", "stopped"} BY <1>0, <2>1 DEF Die
  <2>2. CASE ~(meta[1] = 0 \/ life.status \in {"none", "stopped"})
    <3>1. PICK next \in BOOLEAN : next = IF life.policy = "on-failure" THEN FALSE ELSE life.next
      BY <1>0 DEF Lives
    <3>2. life' = [life EXCEPT !.status = "crashed", !.next = next] BY <2>2, <3>1 DEF Die
    <3>3. ~next BY <1>0, <3>1 DEF Sound
    <3>4. life'.next = next BY <1>0, <3>2 DEF Lives
    <3> QED BY <3>3, <3>4 DEF Sound
  <2> QED BY <2>1, <2>2
<1>2. \A d \in Drivers : drv'[d].copy = NoLife
  <2>1. Idle.copy = NoLife BY DEF Idle
  <2> QED BY <2>1, DieFacts
<1>3. /\ \A n \in Inst : ending'[n] = NoLife
      /\ \A v \in Viewers : view'[v].copy = NoLife
  BY DEF Die
<1>4. Sound(NoLife) BY DEF Sound, NoLife
<1>5. Records' BY <1>1, <1>2, <1>3, <1>4 DEF Records, Sound
<1> QED BY <1>1, <1>5

LEMMA RecordsNext ==
  ASSUME HandInv, Records, [Next]_vars
  PROVE  Records'
<1>b. Base /\ StartInv BY DEF HandInv, StartInv
<1>1. ASSUME NEW n \in Inst, Crash(n) PROVE Records'
  BY <1>1 DEF Crash, Records, Sound, disk
<1>2. ASSUME NEW n \in Inst, Join(n) PROVE Records' BY <1>b, <1>2, JoinRecords
<1>3. ASSUME NEW d \in Drivers, Tick(d) PROVE Records'
  <2>1. Others(d) /\ drv'[d].copy = NoLife BY <1>b, <1>3, TickMoves DEF Becomes, Others
  <2>2. UNCHANGED <<life, ending, view>> BY <1>3 DEF Tick, disk, tasks
  <2> QED BY <1>b, <2>1, <2>2, RecordFacts, KeepRecords
<1>4. ASSUME NEW d \in Drivers, Step(d) PROVE Records'
  <2>1. CASE Quiet(d)
    <3>1. Others(d) BY <1>b, <2>1, QuietMoves
    <3>2. UNCHANGED <<ending, view>> BY <2>1, QuietSteps
    <3>3. Sound(life') /\ Sound(drv'[d].copy) BY <1>b, <2>1, QuietRecords
    <3> QED BY <3>1, <3>2, <3>3, KeepRecords
  <2>2. CASE ~Quiet(d) BY <1>b, <1>4, <2>2, StartingRecords DEF Step, Quiet
  <2> QED BY <2>1, <2>2
<1>5. ASSUME NEW d \in Requests, NEW kind \in Kinds, Request(d, kind) PROVE Records'
  <2>0. d \in Drivers BY DEF Drivers
  <2>1. Others(d) /\ drv'[d].copy = NoLife BY <1>b, <1>5, RequestMoves DEF Becomes, Others
  <2>2. UNCHANGED <<life, ending, view>> BY <1>5 DEF Request, disk, tasks
  <2> QED BY <1>b, <2>0, <2>1, <2>2, RecordFacts, KeepRecords
<1>6. ASSUME NEW v \in Viewers, Inspect(v) \/ Views(v) PROVE Records' BY <1>b, <1>6, ViewRecords
<1>7. CASE Die BY <1>b, <1>7, DieRecords
<1>8. CASE UNCHANGED vars BY <1>8 DEF vars, disk, tasks, Records, Sound
<1> QED BY <1>1, <1>2, <1>3, <1>4, <1>5, <1>6, <1>7, <1>8 DEF Next

\* Before the first start has saved its metadata.
LEMMA QuietUnborn ==
  ASSUME Base, Unborn, meta[1] = 0, NEW d \in Drivers, Quiet(d)
  PROVE  /\ ~life'.next /\ ~spec' /\ managed' = 0
         /\ drv'[d].pc \in Early /\ drv'[d].from # "due" /\ ~drv'[d].copy.next
<1>u. /\ ~life.next /\ ~spec /\ managed = 0
      /\ drv[d].pc \in Early /\ drv[d].from # "due" /\ ~drv[d].copy.next
  BY DEF Unborn
<1>l. life \in Lives BY DEF Base, TypeOK
<1>n. ~NoLife.next BY DEF NoLife
<1> USE <1>u, <1>n DEF Moves, Loads, Restarts, Returns, Becomes, disk, memory, Early
<1>1. CASE Look(d) BY <1>1, LookMoves DEF Look
<1>2. CASE Specs(d) BY <1>2, SpecsMoves DEF Specs
<1>3. CASE Start(d) BY <1>3, StartMoves DEF Start
<1>4. CASE Probe(d) BY <1>4, ProbeMoves DEF Probe
<1>5. CASE Body(d)
  <2>1. UNCHANGED <<life, spec, managed>> BY <1>5 DEF Body
  <2>2. CASE drv[d].kind \in {"never", "on-failure"} /\ Loads(d, "policy save", Ordered(life, drv[d].kind))
    <3>1. drv[d].from = "none" BY <1>5, BaseFacts DEF Body, Role, Route
    <3>2. ~Ordered(life, drv[d].kind).next BY <1>l, <2>2, OrderedType
    <3> QED BY <2>1, <2>2, <3>1, <3>2
  <2>3. CASE ~(drv[d].kind \in {"never", "on-failure"} /\ Loads(d, "policy save", Ordered(life, drv[d].kind)))
    <3>1. \/ Restarts(d, "start", "body") \/ Moves(d, "stop") \/ Returns(d)
      BY <1>5, <2>3, BodyMoves
    <3> QED BY <2>1, <3>1
  <2> QED BY <2>2, <2>3
<1>6. CASE PolicySave(d) BY <1>6, PolicySaveMoves DEF PolicySave
<1>7. CASE Stop(d) BY <1>7, StopMoves DEF Stop
<1>8. CASE Unmanaged(d) BY <1>8, UnmanagedMoves DEF Unmanaged
<1>9. CASE Cancel(d) BY <1>9, CancelMoves DEF Cancel
<1>10. CASE ~(Look(d) \/ Specs(d) \/ Start(d) \/ Probe(d) \/ Body(d) \/ PolicySave(d) \/ Stop(d) \/ Unmanaged(d) \/ Cancel(d))
  BY <1>10 DEF Quiet, Take, Wait, Clean, Forget, Judge, HasSpec, Plan, PlanSave, Contains, NotDue,
     Due, DueSave, Old, Insert, InsertSpec, Fence, StopRead, StopSave, Shut, ShutRead, ShutSave
<1> QED BY <1>1, <1>2, <1>3, <1>4, <1>5, <1>6, <1>7, <1>8, <1>9, <1>10

LEMMA StartingUnborn ==
  ASSUME StartInv, Unborn, meta[1] = 0, NEW d \in Drivers,
         Spawn(d) \/ Previous(d) \/ Vacant(d) \/ Bind(d) \/ SaveStarting(d)
  PROVE  /\ ~life'.next /\ ~spec' /\ managed' = 0
         /\ drv'[d].pc \in Early /\ drv'[d].from # "due" /\ ~drv'[d].copy.next
         /\ \A n \in Inst : run'[n] \in {"none", "bound", "done"}
<1>b. Base BY DEF StartInv
<1>u. /\ ~life.next /\ ~spec /\ managed = 0
      /\ drv[d].pc \in Early /\ drv[d].from # "due" /\ ~drv[d].copy.next
      /\ \A n \in Inst : run[n] \in {"none", "bound", "done"}
  BY DEF Unborn
<1>l. drv[d].copy \in Lives BY <1>b, BaseFacts
<1>n. ~NoLife.next BY DEF NoLife
<1> USE <1>b, <1>u, <1>n DEF Moves, Loads, Returns, Becomes, disk, memory, tasks, Early
<1>1. CASE Spawn(d) BY <1>1, SpawnMoves DEF Spawn
<1>2. CASE Previous(d) BY <1>2, PreviousMoves DEF Previous
<1>3. CASE Vacant(d) BY <1>3, VacantMoves DEF Vacant
<1>4. CASE Bind(d) BY <1>4, BindFacts DEF Bind
<1>5. CASE SaveStarting(d)
  <2>1. ~life'.next
    <3>1. life' = [drv[d].copy EXCEPT !.status = "starting", !.next = FALSE] BY <1>5 DEF SaveStarting
    <3> QED BY <1>l, <3>1 DEF Lives
  <2> QED BY <1>5, <2>1, SaveStartingMoves DEF SaveStarting
<1> QED BY <1>1, <1>2, <1>3, <1>4, <1>5

LEMMA UnbornNext ==
  ASSUME HandInv, Unborn, [Next]_vars
  PROVE  Unborn'
<1>b. Base /\ StartInv BY DEF HandInv, StartInv
<1> SUFFICES ASSUME meta'[1] = 0 PROVE Unborn' BY DEF Unborn
<1>z. 0 \notin Inst BY BoundAssumption DEF Inst
<1>n. ~NoLife.next /\ Idle.pc = "idle" /\ Idle.from = "none" /\ Idle.copy = NoLife BY DEF NoLife, Idle
\* What one driver does.
<1>k. ASSUME NEW d \in Drivers, Others(d), meta[1] = 0, ~life'.next, ~spec', managed' = 0,
             drv'[d].pc \in Early, drv'[d].from # "due", ~drv'[d].copy.next,
             \A n \in Inst : run'[n] \in {"none", "bound", "done"}, view' = view
      PROVE  Unborn'
  BY <1>k DEF Unborn, Others
<1>1. ASSUME NEW n \in Inst, Crash(n) PROVE Unborn'
  <2>1. meta' = meta /\ run[n] \in {"up", "stopping"} BY <1>1 DEF Crash, disk, Up
  <2> QED BY <2>1 DEF Unborn
<1>2. ASSUME NEW n \in Inst, Join(n) PROVE Unborn'
  <2>1. meta' = meta /\ run[n] \in {"stopping", "ended", "fenced", "read", "saved"}
    BY <1>b, <1>2, <1>z, JoinFacts
  <2> QED BY <2>1 DEF Unborn
<1>3. ASSUME NEW d \in Drivers, Tick(d) PROVE Unborn'
  <2>1. Others(d) /\ drv'[d].pc = "look" /\ drv'[d].from = "none" /\ drv'[d].copy = NoLife
    BY <1>b, <1>3, TickMoves DEF Becomes, Others
  <2>2. UNCHANGED <<meta, life, spec, managed, run, view>> BY <1>3 DEF Tick, disk, memory, tasks
  <2> QED BY <1>k, <1>n, <2>1, <2>2 DEF Unborn, Early
<1>4. ASSUME NEW d \in Drivers, Step(d) PROVE Unborn'
  <2>o. Others(d) BY <1>b, <1>4, StepStart
  <2>1. CASE Quiet(d)
    <3>1. UNCHANGED <<meta, run, view>> BY <2>1, QuietSteps
    <3>2. \A n \in Inst : run'[n] \in {"none", "bound", "done"} BY <3>1 DEF Unborn
    <3> QED BY <1>b, <1>k, <2>1, <2>o, <3>1, <3>2, QuietUnborn
  <2>2. CASE Spawn(d) \/ Previous(d) \/ Vacant(d) \/ Bind(d) \/ SaveStarting(d)
    <3>1. UNCHANGED <<meta, view>> BY <2>2 DEF Spawn, Previous, Vacant, Bind, SaveStarting, disk
    <3> QED BY <1>b, <1>k, <2>2, <2>o, <3>1, StartingUnborn
  <2>3. CASE SaveMeta(d)
    <3>1. meta' = drv[d].key /\ drv[d].key[1] \in Inst
      BY <1>b, <2>3, BaseFacts DEF SaveMeta, Role, Binding
    <3> QED BY <1>z, <3>1
  <2>4. CASE Serve(d) \/ Send(d)
    <3>1. meta' = meta /\ drv[d].pc \in {"active", "send"} BY <2>4 DEF Serve, Send, disk
    <3> QED BY <3>1 DEF Unborn, Early
  <2> QED BY <1>4, <2>1, <2>2, <2>3, <2>4 DEF Step, Quiet
<1>5. ASSUME NEW d \in Requests, NEW kind \in Kinds, Request(d, kind) PROVE Unborn'
  <2>0. d \in Drivers BY DEF Drivers
  <2>1. Others(d) /\ drv'[d].pc = "look" /\ drv'[d].from = "none" /\ drv'[d].copy = NoLife
    BY <1>b, <1>5, RequestMoves DEF Becomes, Others
  <2>2. UNCHANGED <<meta, life, spec, managed, run, view>> BY <1>5 DEF Request, disk, memory, tasks
  <2> QED BY <1>k, <1>n, <2>0, <2>1, <2>2 DEF Unborn, Early
<1>6. ASSUME NEW v \in Viewers, Inspect(v) \/ Views(v) PROVE Unborn'
  <2>1. meta' = meta BY <1>b, <1>6, ViewFacts
  <2> QED BY <1>6, <2>1 DEF Unborn, Inspect, Views, InspectProbe, InspectSave
<1>7. CASE Die
  <2>1. \A d \in Drivers : drv'[d] = Idle BY <1>b, <1>7, DieFacts
  <2>2. /\ meta' = meta /\ life' = life /\ ~spec' /\ managed' = 0
        /\ \A n \in Inst : run'[n] \in {"none", "done"}
        /\ \A v \in Viewers : view'[v].pc = "idle"
    BY <1>7 DEF Die
  <2> QED BY <1>n, <2>1, <2>2 DEF Unborn, Early
<1>8. CASE UNCHANGED vars BY <1>8 DEF vars, disk, memory, tasks, Unborn
<1> QED BY <1>1, <1>2, <1>3, <1>4, <1>5, <1>6, <1>7, <1>8 DEF Next

-----------------------------------------------------------------------------
(* A process none of whose runtimes has crashed. *)

WorldInv == HandInv /\ Origins /\ Records /\ Unborn

At(d) == CalmAt(drv[d].pc, drv[d].key, drv[d].from, drv[d].copy)
CalmAll == CalmWorld /\ \A d \in Drivers : At(d)

LEMMA WorldFacts ==
  ASSUME WorldInv
  PROVE  HandInv /\ StartInv /\ Base /\ Origins /\ Records /\ Unborn
BY DEF WorldInv, HandInv, StartInv

\* Facts about the variables that Calm speaks of.
LEMMA PlainFacts ==
  ASSUME Base
  PROVE  /\ life \in Lives /\ 0 \notin Inst
         /\ run \in [Inst -> {"none", "bound", "up", "stopping", "ended", "fenced", "read", "saved", "done"}]
         /\ managed # 0 => managed \in Inst
         /\ sock # 0 => sock \in Inst
         /\ lock \in Requests \cup {None} /\ None \notin Requests /\ Requests \subseteq Drivers
<1>1. life \in Lives /\ lock \in Requests \cup {None} BY DEF Base, TypeOK
<1>2. run \in [Inst -> {"none", "bound", "up", "stopping", "ended", "fenced", "read", "saved", "done"}]
  BY DEF Base, TypeOK
<1>3. 0 \notin Inst BY BoundAssumption DEF Inst
<1> QED BY <1>1, <1>2, <1>3, SockType, DriverAssumption DEF Drivers

\* What is said of a place goes on to hold when none of this is disturbed.
LEMMA StaysCalm ==
  ASSUME NEW pc, NEW key, NEW from, NEW copy, CalmAt(pc, key, from, copy),
         Pinned => Pinned', Dormant => Dormant', Hot' => Hot, managed' = managed,
         run[key[1]] = "up" => run'[key[1]] = "up"
  PROVE  CalmAt(pc, key, from, copy)'
BY DEF CalmAt

\* While a request is under way the others are idle or reap.
LEMMA Bystander ==
  ASSUME Base, NEW d \in Requests, drv[d].pc # "idle", NEW e \in Drivers, e # d, At(e)
  PROVE  /\ drv[e].pc \notin OfRequests /\ drv[e].from \in {"none", "due"}
         /\ drv[e].pc \notin {"insert", "spec", "forget", "bind", "starting", "metadata", "active"}
<1>1. CASE e \in Requests
  <2>1. drv[e].pc = "idle" BY <1>1 DEF Base, Locked
  <2> QED BY <2>1, BaseFacts DEF Role, Route, OfRequests
<1>2. CASE e \in Reapers
  <2>1. Role(e, drv[e].pc, drv[e].kind, drv[e].key, drv[e].from) BY BaseFacts
  <2>2. drv[e].from \in {"none", "due"} BY <1>2, <2>1 DEF Role, At, CalmAt
  <2>3. drv[e].pc \in {"insert", "spec", "forget", "bind", "starting", "metadata", "active"} => drv[e].from = "due"
    BY <2>1, <2>2 DEF Role, Route, Inside
  <2>4. drv[e].pc \notin {"insert", "spec", "forget", "bind", "starting", "metadata", "active"}
    BY <2>3 DEF At, CalmAt
  <2> QED BY <1>2, <2>1, <2>2, <2>4 DEF Role
<1> QED BY <1>1, <1>2 DEF Drivers

LEMMA BystanderStays ==
  ASSUME Base, NEW d \in Requests, drv[d].pc # "idle", NEW e \in Drivers, e # d, At(e), Others(d),
         drv[e].from = "due" => Pinned'
  PROVE  At(e)'
<1>1. drv'[e] = drv[e] BY DEF Others
<1>2. /\ drv[e].pc \notin OfRequests /\ drv[e].from \in {"none", "due"}
      /\ drv[e].pc \notin {"insert", "spec", "forget", "bind", "starting", "metadata", "active"}
  BY Bystander
<1> QED BY <1>1, <1>2 DEF At, CalmAt, OfRequests

\* In a calm process everything but a pending restart is a request's.
LEMMA CalmRequest ==
  ASSUME Base, NEW d \in Drivers, At(d),
         \/ drv[d].pc \in OfRequests
         \/ drv[d].pc \in {"insert", "spec", "forget", "spawn"} \cup Inside
  PROVE  d \in Requests /\ lock = d
<1>1. Role(d, drv[d].pc, drv[d].kind, drv[d].key, drv[d].from) BY BaseFacts
<1>2. d \in Requests
  <2>1. CASE drv[d].pc \in OfRequests BY <1>1, <2>1, WhoIs DEF Role
  <2>2. CASE drv[d].pc \in {"insert", "spec", "forget", "spawn"} \cup Inside
    <3>1. drv[d].from \notin {"due", "reap"} BY <2>2 DEF At, CalmAt, Inside
    <3>2. drv[d].from \in {"body", "stop"} BY <1>1, <2>2, <3>1 DEF Role, Route, Inside
    <3> QED BY <1>1, <3>2, WhoIs DEF Role
  <2> QED BY <2>1, <2>2
<1>3. drv[d].pc # "idle" BY DEF OfRequests, Inside
<1> QED BY <1>2, <1>3, BaseFacts

\* The holder of the transition lock, when a runtime is leaving or a spec has
\* outlived its handle.
LEMMA HolderWaits ==
  ASSUME Base, CalmWorld, NEW d \in Drivers, drv[d].pc \notin {"idle", "join", "forget"},
         lock' = lock \/ (d \in Requests /\ lock' = None)
  PROVE  /\ \A n \in Inst : Leaving(n) => lock' = lock /\ lock # d
         /\ spec /\ managed = 0 => lock' = lock /\ lock # d
<1>1. \A n \in Inst : Leaving(n) => lock # d BY DEF CalmWorld, HeldAt
<1>2. spec /\ managed = 0 => lock # d BY DEF CalmWorld, HeldAt
<1>3. d \in Requests => lock = d BY BaseFacts
<1> QED BY <1>1, <1>2, <1>3

\* A step that changes nothing but its driver and the locks.
LEMMA CalmFrame ==
  ASSUME Base, CalmAll, NEW d \in Drivers, Others(d),
         UNCHANGED <<life, sock, run, managed, spec, ending, view>>,
         \A n \in Inst : Leaving(n) => lock' = lock /\ lock # d,
         spec /\ managed = 0 => lock' = lock /\ lock # d,
         drv'[d].from = "due" => Hot,
         CalmAt(drv'[d].pc, drv'[d].key, drv'[d].from, drv'[d].copy)
  PROVE  CalmAll'
<1>1. (Pinned <=> Pinned') /\ (Dormant <=> Dormant') BY DEF Pinned, Dormant
<1>2. Hot' => Hot BY DEF Hot, Others
<1>3. ASSUME NEW e \in Drivers PROVE At(e)'
  <2>1. CASE e = d BY <1>1, <1>2, <2>1 DEF At, CalmAt
  <2>2. CASE e # d
    <3>1. drv'[e] = drv[e] BY <2>2 DEF Others
    <3>2. At(e) BY DEF CalmAll
    <3> QED BY <1>1, <1>2, <3>1, <3>2 DEF At, CalmAt
  <2> QED BY <2>1, <2>2
<1>4. CalmWorld'
  <2>1. \A n \in Inst : (Live(n) <=> Live(n)') /\ (Leaving(n) <=> Leaving(n)') BY DEF Live, Leaving
  <2>2. \A n \in Inst : Leaving(n)' => HeldAt("join", "stop")' /\ drv'[lock'].key = <<n, TRUE>>
    <3>1. \A n \in Inst : Leaving(n) => HeldAt("join", "stop") /\ drv[lock].key = <<n, TRUE>> /\ lock' = lock /\ drv'[lock] = drv[lock]
      BY PlainFacts DEF CalmAll, CalmWorld, HeldAt, Others
    <3> QED BY <2>1, <3>1 DEF HeldAt
  <2>3. spec' /\ managed' = 0 => HeldAt("forget", "stop")'
    <3>1. spec /\ managed = 0 => HeldAt("forget", "stop") /\ lock' = lock /\ drv'[lock] = drv[lock]
      BY PlainFacts DEF CalmAll, CalmWorld, HeldAt, Others
    <3> QED BY <3>1 DEF HeldAt
  <2> QED BY <1>1, <2>1, <2>2, <2>3 DEF CalmAll, CalmWorld
<1> QED BY <1>3, <1>4 DEF CalmAll


\* What a step of d needs of the others when it changes nothing but d.
LEMMA HolderFrame ==
  ASSUME Base, CalmAll, NEW d \in Drivers, Others(d), drv[d].pc \notin {"idle", "join", "forget"},
         lock' = lock \/ (d \in Requests /\ lock' = None),
         UNCHANGED <<life, sock, run, managed, spec, ending, view>>,
         drv'[d].from = "due" => Hot,
         CalmAt(drv'[d].pc, drv'[d].key, drv'[d].from, drv'[d].copy)
  PROVE  CalmAll'
<1>1. CalmWorld BY DEF CalmAll
<1>2. /\ \A n \in Inst : Leaving(n) => lock' = lock /\ lock # d
      /\ spec /\ managed = 0 => lock' = lock /\ lock # d
  BY <1>1, HolderWaits
<1> QED BY <1>2, CalmFrame

\* A driver with nothing of a restart about it.
LEMMA PlainPlace ==
  ASSUME NEW pc, NEW key, NEW copy, NEW from \in {"none", "body", "stop", "gone"},
         pc \in {"idle", "look", "specs", "contains", "due", "body", "start", "probe", "spawn", "previous",
                 "vacant", "bind", "starting", "metadata", "active", "fence", "stop", "clean"}
  PROVE  CalmAt(pc, key, from, copy)
BY DEF CalmAt

LEMMA DueIsHot ==
  ASSUME CalmAll, NEW d \in Drivers, drv[d].from = "due"
  PROVE  Hot /\ Pinned /\ life.status = "crashed"
<1>1. Hot BY DEF Hot
<1>2. Pinned BY DEF CalmAll, At, CalmAt
<1> QED BY <1>1, <1>2 DEF Pinned

\* restart_due_sessions, and what leads to it.
LEMMA CalmReap ==
  ASSUME Base, CalmAll, NEW d \in Drivers,
         Look(d) \/ Specs(d) \/ Contains(d) \/ NotDue(d) \/ Due(d) \/ Old(d)
  PROVE  CalmAll'
<1> USE DEF disk, tasks, memory, locks
<1>r. Role(d, drv[d].pc, drv[d].kind, drv[d].key, drv[d].from) BY BaseFacts
<1>1. CASE Look(d)
  <2>0. managed = 0 \/ ~Done(managed) BY DEF CalmAll, CalmWorld, Done
  <2>1. Moves(d, "specs") BY <1>1, <2>0, LookMoves
  <2>2. drv[d].from = "none" BY <1>1, <1>r DEF Look, Role, Route
  <2> QED BY <1>1, <2>1, <2>2, PlainPlace, HolderFrame DEF Look, Moves, Becomes, Others
<1>2. CASE Specs(d)
  <2>1. Moves(d, "contains") \/ Returns(d) \/ Restarts(d, "body", "none") BY <1>2, SpecsMoves
  <2>2. drv[d].from = "none" BY <1>2, <1>r DEF Specs, Role, Route
  <2> QED BY <1>2, <2>1, <2>2, PlainPlace, HolderFrame DEF Specs, Moves, Returns, Restarts, Becomes, Others
<1>3. CASE Contains(d)
  <2>1. Moves(d, "due") \/ Returns(d) \/ Restarts(d, "body", "none") BY <1>3, ContainsMoves
  <2>2. drv[d].from = "none" BY <1>3, <1>r DEF Contains, Role, Route
  <2> QED BY <1>3, <2>1, <2>2, PlainPlace, HolderFrame DEF Contains, Moves, Returns, Restarts, Becomes, Others
<1>4. CASE NotDue(d)
  <2>1. Returns(d) \/ Restarts(d, "body", "none") BY <1>4, NotDueMoves
  <2> QED BY <1>4, <2>1, PlainPlace, HolderFrame DEF NotDue, Returns, Restarts, Becomes, Others
<1>5. CASE Due(d)
  <2>1. Becomes(d, "due save", drv[d].kind, drv[d].key, "due", [life EXCEPT !.next = FALSE]) BY <1>5, DueMoves
  <2>2. life.next /\ life.status = "crashed" BY <1>5 DEF Due, Scheduled
  <2>3. Pinned /\ Hot BY <2>2 DEF CalmAll, CalmWorld, Hot
  <2>4. [life EXCEPT !.next = FALSE].status = "crashed" BY <2>2, PlainFacts DEF Lives
  <2>5. CalmAt("due save", drv[d].key, "due", [life EXCEPT !.next = FALSE]) BY <2>3, <2>4 DEF CalmAt
  <2>6. /\ UNCHANGED <<life, sock, run, managed, spec, ending, view, lock>>
        /\ drv[d].pc = "due"
    BY <1>5 DEF Due
  <2>7. Others(d) /\ CalmAt(drv'[d].pc, drv'[d].key, drv'[d].from, drv'[d].copy)
    BY <2>1, <2>5 DEF Becomes, Others
  <2> QED BY <2>3, <2>6, <2>7, HolderFrame
<1>6. CASE Old(d)
  <2>1. Becomes(d, "clean", drv[d].kind, meta, drv[d].from, drv[d].copy) BY <1>6, OldMoves
  <2>2. drv[d].from = "due" BY <1>6, <1>r DEF Old, Role, Route
  <2>3. Pinned /\ Hot BY <2>2, DueIsHot
  <2>4. CalmAt("clean", meta, "due", drv[d].copy) BY <2>3 DEF CalmAt
  <2> QED BY <1>6, <2>1, <2>2, <2>3, <2>4, HolderFrame DEF Old, Becomes, Others
<1> QED BY <1>1, <1>2, <1>3, <1>4, <1>5, <1>6

LEMMA CalmPlan ==
  ASSUME Base, CalmAll, NEW d \in Drivers, Clean(d) \/ Plan(d)
  PROVE  CalmAll'
<1> USE DEF disk, tasks, memory, locks
<1>r. Role(d, drv[d].pc, drv[d].kind, drv[d].key, drv[d].from) BY BaseFacts
<1>c. drv[d].from \notin {"reap", "cancel", "dirty"} BY DEF CalmAll, At, CalmAt
<1>1. CASE Clean(d)
  <2>0. UNCHANGED <<life, sock, run, managed, spec, ending, view>> /\ drv[d].pc = "clean" BY <1>1 DEF Clean
  <2>1. PICK ok \in BOOLEAN : CleanedTo(d, ok) BY <1>1, CleanMoves
  <2>2. CASE drv[d].from = "due"
    <3>1. (Restarts(d, "start", "due") \/ Moves(d, "plan")) /\ lock' = lock BY <2>1, <2>2 DEF CleanedTo
    <3>2. Pinned /\ Hot BY <2>2, DueIsHot
    <3>3. \A key, copy : \A pc \in {"start", "plan"} : CalmAt(pc, key, "due", copy) BY <3>2 DEF CalmAt
    <3> QED BY <2>0, <2>2, <3>1, <3>2, <3>3, HolderFrame DEF Restarts, Moves, Becomes, Others
  <2>3. CASE drv[d].from # "due"
    <3>1. \/ Restarts(d, "start", "body") /\ lock' = lock
          \/ Returns(d) /\ lock' = None
      BY <1>c, <2>1, <2>3 DEF CleanedTo
    <3>2. d \in Requests
      <4>1. drv[d].from \in {"stop", "gone", "body"} BY <1>c, <2>1, <2>3 DEF CleanedTo
      <4> QED BY <1>r, <4>1, WhoIs DEF Role
    <3> QED BY <2>0, <3>1, <3>2, PlainPlace, HolderFrame DEF Restarts, Returns, Becomes, Others
  <2> QED BY <2>2, <2>3
<1>2. CASE Plan(d)
  <2>0. UNCHANGED <<life, sock, run, managed, spec, ending, view, lock>> /\ drv[d].pc = "plan" BY <1>2 DEF Plan
  <2>1. drv[d].from = "due" BY <1>r, <1>c, <2>0 DEF Role, Route
  <2>2. Pinned /\ Hot /\ life.status = "crashed" BY <2>1, DueIsHot
  <2>3. CASE PlannedTo(d)
    <3>1. Returns(d) \/ Restarts(d, "body", "none") BY <2>1, <2>3 DEF PlannedTo
    <3> QED BY <2>0, <3>1, PlainPlace, HolderFrame DEF Restarts, Returns, Becomes, Others
  <2>4. CASE Loads(d, "plan save", Scheduling(life))
    <3>1. Scheduling(life).status = "crashed" BY <2>2, SchedulingType, PlainFacts
    <3>2. CalmAt("plan save", drv[d].key, "due", Scheduling(life)) BY <2>2, <3>1 DEF CalmAt
    <3> QED BY <2>0, <2>1, <2>2, <2>4, <3>2, HolderFrame DEF Loads, Becomes, Others
  <2> QED BY <1>2, <2>3, <2>4, PlanMoves
<1> QED BY <1>1, <1>2

\* A start, up to the socket.
LEMMA CalmStart ==
  ASSUME Base, CalmAll, NEW d \in Drivers,
         Start(d) \/ Probe(d) \/ Spawn(d) \/ Previous(d) \/ Vacant(d) \/ SaveMeta(d)
  PROVE  CalmAll'
<1> USE DEF disk, tasks, memory, locks
<1>r. Role(d, drv[d].pc, drv[d].kind, drv[d].key, drv[d].from) BY BaseFacts
<1>a. At(d) BY DEF CalmAll
<1>0. /\ UNCHANGED <<life, sock, run, managed, spec, ending, view>>
      /\ drv[d].pc \in {"start", "probe", "spawn", "previous", "vacant", "metadata"}
  BY DEF Start, Probe, Spawn, Previous, Vacant, SaveMeta
<1>f. drv[d].from \in {"due", "body"} BY <1>0, <1>r DEF Role, Route, Inside
<1>1. CASE drv[d].from = "due"
  <2>1. Pinned /\ Hot BY <1>1, DueIsHot
  <2>2. drv[d].pc \in {"start", "probe"} BY <1>0, <1>1, <1>a DEF At, CalmAt
  <2>3. Active BY <2>1, PlainFacts DEF Pinned, Active
  <2>4. \A pc \in {"probe", "plan"} : CalmAt(pc, drv[d].key, "due", drv[d].copy) BY <2>1 DEF CalmAt
  <2>5. Start(d) \/ Probe(d) BY <2>2 DEF Spawn, Previous, Vacant, SaveMeta
  <2>6. (Moves(d, "probe") \/ Moves(d, "plan")) /\ lock' = lock BY <1>1, <2>3, <2>5, StartMoves, ProbeMoves
  <2> QED BY <1>0, <1>1, <2>1, <2>4, <2>6, HolderFrame DEF Moves, Becomes, Others
<1>2. CASE drv[d].from = "body"
  <2>0. d \in Requests BY <1>2, <1>r, WhoIs DEF Role
  <2>1. \/ \E pc \in {"probe", "spawn", "previous", "bind", "active"} : Moves(d, pc) /\ lock' = lock
        \/ Loads(d, "vacant", life) /\ lock' = lock
        \/ Returns(d) /\ lock' = None
    <3>1. CASE Start(d) BY <1>2, <3>1, StartMoves
    <3>2. CASE Probe(d) BY <1>2, <3>2, ProbeMoves
    <3>3. CASE Spawn(d) BY <1>2, <3>3, SpawnMoves
    <3>4. CASE Previous(d) BY <3>4, PreviousMoves DEF Previous
    <3>5. CASE Vacant(d) BY <1>2, <3>5, VacantMoves
    <3>6. CASE SaveMeta(d) BY <3>6, SaveMetaMoves DEF SaveMeta
    <3> QED BY <3>1, <3>2, <3>3, <3>4, <3>5, <3>6
  <2> QED BY <1>0, <1>2, <2>0, <2>1, PlainPlace, HolderFrame DEF Moves, Loads, Returns, Becomes, Others
<1> QED BY <1>f, <1>1, <1>2

\* A request, where it writes nothing.
LEMMA CalmBody ==
  ASSUME Base, CalmAll, NEW d \in Drivers, Body(d)
  PROVE  CalmAll'
<1>0. /\ UNCHANGED <<life, sock, run, managed, spec, ending, view>>
      /\ drv[d].pc = "body"
  BY DEF Body, disk, tasks, memory
<1>r. Role(d, drv[d].pc, drv[d].kind, drv[d].key, drv[d].from) BY BaseFacts
<1>q. d \in Requests /\ lock = d BY <1>0, CalmRequest DEF CalmAll, OfRequests
<1>f. drv[d].from = "none" BY <1>0, <1>r DEF Role, Route
<1>1. CASE Restarts(d, "start", "body") /\ lock' = lock
  BY <1>0, <1>1, PlainPlace, HolderFrame DEF Restarts, Becomes, Others
<1>2. CASE Moves(d, "stop") /\ lock' = lock
  BY <1>0, <1>2, <1>f, PlainPlace, HolderFrame DEF Moves, Becomes, Others
<1>3. CASE Returns(d) /\ lock' = None
  BY <1>0, <1>q, <1>3, PlainPlace, HolderFrame DEF Returns, Becomes, Others
<1>4. CASE Becomes(d, "fence", drv[d].kind, meta, "body", drv[d].copy) /\ lock' = lock
  BY <1>0, <1>4, PlainPlace, HolderFrame DEF Becomes, Others
<1>5. CASE /\ drv[d].kind \in {"never", "on-failure"} /\ lock' = lock
           /\ Loads(d, "policy save", Ordered(life, drv[d].kind))
  <2>0. life \in Lives BY PlainFacts
  <2>w. CalmWorld BY DEF CalmAll
  <2>1. PICK copy : /\ copy = Ordered(life, drv[d].kind) /\ copy.status = life.status
                    /\ copy.next => life.next \/ (life.status = "crashed" /\ spec)
    BY <1>5, <2>0, OrderedType
  <2>2. ~(spec /\ managed = 0) BY <1>0, <1>q, <2>w DEF CalmWorld, HeldAt
  <2>3. spec => managed \in Inst /\ run[managed] = "up" /\ sock = managed
    BY <2>2, <2>w, PlainFacts DEF CalmWorld
  <2>4. life.status = "crashed" /\ spec => Pinned BY <2>3 DEF Pinned
  <2>5. copy.next => \/ copy.status = "crashed" /\ Pinned
                     \/ copy.status \in {"none", "stopped"} /\ Dormant
    <3>1. life.next => \/ life.status = "crashed" /\ Pinned
                       \/ life.status \in {"none", "stopped"} /\ Dormant
      BY <2>w DEF CalmWorld, Pinned
    <3> QED BY <2>1, <2>4, <3>1
  <2>6. Hot => life.status = "crashed" BY DueIsHot DEF Hot
  <2>7. CalmAt("policy save", drv[d].key, "none", copy) BY <2>1, <2>5, <2>6 DEF CalmAt
  <2> QED BY <1>0, <1>5, <1>f, <2>1, <2>7, HolderFrame DEF Loads, Becomes, Others
<1> QED BY <1>1, <1>2, <1>3, <1>4, <1>5, BodyMoves

LEMMA CalmStop ==
  ASSUME Base, CalmAll, NEW d \in Drivers, Fence(d) \/ Unmanaged(d) \/ Cancel(d) \/ Shut(d) \/ ShutRead(d)
  PROVE  CalmAll'
<1> USE DEF disk, tasks, memory, locks
<1>r. Role(d, drv[d].pc, drv[d].kind, drv[d].key, drv[d].from) BY BaseFacts
<1>w. CalmWorld /\ At(d) BY DEF CalmAll
<1>p. drv[d].pc \in {"fence", "unmanaged", "cancel", "shut", "shut read"}
  BY DEF Fence, Unmanaged, Cancel, Shut, ShutRead
<1>q. d \in Requests /\ lock = d BY <1>p, <1>w, CalmRequest DEF OfRequests
<1>s. ~(spec /\ managed = 0) BY <1>p, <1>q, <1>w DEF CalmWorld, HeldAt
<1>f. drv[d].from \notin {"due", "reap", "cancel", "dirty"} BY <1>p, <1>w DEF At, CalmAt
<1>1. CASE Fence(d)
  <2>1. \/ (Moves(d, "stop") \/ Moves(d, "clean")) /\ lock' = lock
        \/ Returns(d) /\ lock' = None
    BY <1>1, FenceMoves
  <2>2. drv[d].from = "body" BY <1>1, <1>r DEF Fence, Role, Route
  <2>3. UNCHANGED <<life, sock, run, managed, spec, ending, view>> /\ drv[d].pc = "fence" BY <1>1 DEF Fence
  <2> QED BY <1>q, <2>1, <2>2, <2>3, PlainPlace, HolderFrame DEF Moves, Returns, Becomes, Others
<1>2. CASE Unmanaged(d)
  <2>1. (Moves(d, "cancel") /\ lock' = lock) \/ (Returns(d) /\ lock' = None) BY <1>2, UnmanagedMoves
  <2>2. UNCHANGED <<life, sock, run, managed, spec, ending, view>> /\ drv[d].pc = "unmanaged"
    BY <1>2 DEF Unmanaged
  <2>3. CalmAt("cancel", drv[d].key, drv[d].from, drv[d].copy) BY <1>w, <1>f, <2>2 DEF At, CalmAt
  <2> QED BY <1>q, <1>f, <2>1, <2>2, <2>3, PlainPlace, HolderFrame DEF Moves, Returns, Becomes, Others
<1>3. CASE Cancel(d)
  <2>1. managed = 0 BY <1>3, <1>w DEF Cancel, At, CalmAt
  <2>2. Returns(d) /\ lock' = None /\ spec' = spec BY <1>3, <1>s, <2>1, CancelMoves
  <2>3. UNCHANGED <<life, sock, run, managed, ending, view>> /\ drv[d].pc = "cancel" BY <1>3 DEF Cancel
  <2> QED BY <1>q, <2>2, <2>3, PlainPlace, HolderFrame DEF Returns, Becomes, Others
<1>4. CASE Shut(d)
  <2>0. UNCHANGED <<life, sock, run, managed, spec, ending, view, lock>> /\ drv[d].pc = "shut" BY <1>4 DEF Shut
  <2>1. run[drv[d].key[1]] = "up" BY <1>w, <2>0 DEF At, CalmAt
  <2>2. CASE life.status = "crashed"
    <3>1. Becomes(d, "join", drv[d].kind, drv[d].key, "gone", drv[d].copy) BY <1>4, <2>2, ShutMoves
    <3>2. CalmAt("join", drv[d].key, "gone", drv[d].copy) BY <2>1 DEF CalmAt
    <3> QED BY <2>0, <3>1, <3>2, HolderFrame DEF Becomes, Others
  <2>3. CASE life.status # "crashed"
    <3>1. Moves(d, "shut read") BY <1>4, <2>3, ShutMoves
    <3>2. ~Hot BY <2>3, DueIsHot DEF Hot
    <3>3. CalmAt("shut read", drv[d].key, drv[d].from, drv[d].copy) BY <1>f, <2>1, <3>2 DEF CalmAt
    <3> QED BY <1>f, <2>0, <3>1, <3>3, HolderFrame DEF Moves, Becomes, Others
  <2> QED BY <2>2, <2>3
<1>5. CASE ShutRead(d)
  <2>0. UNCHANGED <<life, sock, run, managed, spec, ending, view, lock>> /\ drv[d].pc = "shut read"
    BY <1>5 DEF ShutRead
  <2>1. run[drv[d].key[1]] = "up" /\ ~Hot BY <1>w, <2>0 DEF At, CalmAt
  <2>2. drv[d].key[1] \in Inst BY <1>r, <2>0 DEF Role, Handling
  <2>3. Loads(d, "shut save", life) BY <1>5, <2>1, ShutReadMoves DEF Done
  <2>4. ~life.next BY <1>w, <2>1, <2>2 DEF CalmWorld, Pinned, Hot, Dormant
  <2>5. CalmAt("shut save", drv[d].key, drv[d].from, life) BY <1>f, <2>1, <2>4 DEF CalmAt
  <2> QED BY <1>f, <2>0, <2>3, <2>5, HolderFrame DEF Loads, Becomes, Others
<1> QED BY <1>1, <1>2, <1>3, <1>4, <1>5

\* The end of a shutdown, and the start of a pass and of a request.
LEMMA CalmWait ==
  ASSUME Base, CalmAll, NEW d \in Drivers, Wait(d)
  PROVE  CalmAll'
<1>0. /\ UNCHANGED <<life, sock, run, managed, spec, ending, view, lock>>
      /\ drv[d].pc \in {"wait", "join"} /\ run[drv[d].key[1]] = "done"
  BY DEF Wait, Done, disk, tasks, locks
<1>w. CalmWorld /\ At(d) BY DEF CalmAll
<1>1. drv[d].pc = "join" /\ drv[d].from # "gone" BY <1>0, <1>w DEF At, CalmAt
<1>2. d \in Requests /\ lock = d BY <1>1, <1>w, CalmRequest DEF OfRequests
<1>3. Role(d, drv[d].pc, drv[d].kind, drv[d].key, drv[d].from) BY BaseFacts
<1>4. drv[d].from = "stop" BY <1>1, <1>3 DEF Role, Route
<1>5. \A n \in Inst : ~Leaving(n)
  <2> SUFFICES ASSUME NEW n \in Inst, Leaving(n) PROVE FALSE OBVIOUS
  <2>1. drv[d].key = <<n, TRUE>> BY <1>2, <1>w DEF CalmWorld
  <2>2. drv[d].key[1] = n BY <2>1
  <2> QED BY <1>0, <2>2 DEF Leaving
<1>6. ~(spec /\ managed = 0) BY <1>1, <1>2, <1>w DEF CalmWorld, HeldAt
<1>7. Moves(d, "clean") BY WaitMoves
<1>8. CalmAt("clean", drv[d].key, "stop", drv[d].copy) BY PlainPlace
<1> QED BY <1>0, <1>4, <1>5, <1>6, <1>7, <1>8, CalmFrame DEF Moves, Becomes, Others

LEMMA CalmTick ==
  ASSUME Base, CalmAll, NEW d \in Drivers, Tick(d)
  PROVE  CalmAll'
<1>0. UNCHANGED <<life, sock, run, managed, spec, ending, view, lock>> /\ d \in Reapers
  BY DEF Tick, disk, tasks, memory, locks
<1>1. Becomes(d, "look", "tick", <<0, FALSE>>, "none", NoLife) BY TickMoves
<1>2. CalmAt("look", <<0, FALSE>>, "none", NoLife) BY PlainPlace
<1>3. lock \in Requests => lock # d BY <1>0, WhoIs
<1>4. /\ \A n \in Inst : Leaving(n) => lock # d
      /\ spec /\ managed = 0 => lock # d
  BY <1>3 DEF CalmAll, CalmWorld, HeldAt
<1> QED BY <1>0, <1>1, <1>2, <1>4, CalmFrame DEF Becomes, Others

LEMMA CalmAsk ==
  ASSUME Base, CalmAll, NEW d \in Requests, NEW kind \in Kinds, Request(d, kind)
  PROVE  CalmAll'
<1>d. d \in Drivers BY DEF Drivers
<1>0. UNCHANGED <<life, sock, run, managed, spec, ending, view>> /\ lock = None
  BY DEF Request, disk, tasks, memory
<1>1. Becomes(d, "look", kind, <<0, FALSE>>, "none", NoLife) BY RequestMoves
<1>2. CalmAt("look", <<0, FALSE>>, "none", NoLife) BY PlainPlace
<1>3. lock \notin Requests BY <1>0, DriverAssumption
<1>4. (\A n \in Inst : ~Leaving(n)) /\ ~(spec /\ managed = 0)
  BY <1>3 DEF CalmAll, CalmWorld, HeldAt
<1> QED BY <1>d, <1>0, <1>1, <1>2, <1>4, CalmFrame DEF Becomes, Others

-----------------------------------------------------------------------------
(* Steps that write. *)

\* A restart that is on its way writes that the session is down as crashed.
LEMMA CalmDueSave ==
  ASSUME Base, CalmAll, NEW d \in Drivers, PlanSave(d) \/ DueSave(d)
  PROVE  CalmAll'
<1> USE DEF disk, tasks, memory, locks
<1>0. /\ UNCHANGED <<sock, run, managed, spec, ending, view, lock>> /\ life' = drv[d].copy
      /\ drv[d].pc \in {"plan save", "due save"}
  BY DEF PlanSave, DueSave
<1>r. Role(d, drv[d].pc, drv[d].kind, drv[d].key, drv[d].from) BY BaseFacts
<1>w. CalmWorld /\ At(d) BY DEF CalmAll
<1>f. drv[d].from = "due" /\ drv[d].copy.status = "crashed" BY <1>0, <1>r, <1>w DEF Role, Route, At, CalmAt
<1>1. Pinned /\ Hot BY <1>f, DueIsHot
<1>2. Pinned' BY <1>0, <1>1, <1>f DEF Pinned
<1>3. Dormant <=> Dormant' BY <1>0 DEF Dormant
<1>4. \/ Becomes(d, "old", drv[d].kind, drv[d].key, "due", NoLife)
      \/ Returns(d) \/ Restarts(d, "body", "none")
  BY <1>f, PlanSaveMoves, DueSaveMoves DEF PlannedTo, Loads
<1>5. Others(d) BY <1>4 DEF Returns, Restarts, Becomes, Others
<1>6. ASSUME NEW e \in Drivers PROVE At(e)'
  <2>1. CASE e = d
    <3>1. \/ drv'[d].pc = "old" /\ drv'[d].from = "due"
          \/ drv'[d].pc \in {"idle", "body"} /\ drv'[d].from = "none"
      BY <1>4 DEF Returns, Restarts, Becomes
    <3> QED BY <1>2, <2>1, <3>1 DEF At, CalmAt
  <2>2. CASE e # d
    <3>1. drv'[e] = drv[e] /\ At(e) BY <1>5, <2>2 DEF Others, CalmAll
    <3> QED BY <1>0, <1>1, <1>2, <1>3, <3>1 DEF At, CalmAt
  <2> QED BY <2>1, <2>2
<1>7. /\ \A n \in Inst : Leaving(n) => lock # d
      /\ spec /\ managed = 0 => lock # d
  BY <1>0, <1>w, HolderWaits
<1>8. CalmWorld'
  <2>1. \A n \in Inst : (Live(n) <=> Live(n)') /\ (Leaving(n) <=> Leaving(n)') BY <1>0 DEF Live, Leaving
  <2>2. \A n \in Inst : Leaving(n)' => HeldAt("join", "stop")' /\ drv'[lock'].key = <<n, TRUE>>
    <3>1. \A n \in Inst : Leaving(n) => HeldAt("join", "stop") /\ drv[lock].key = <<n, TRUE>> /\ drv'[lock] = drv[lock]
      BY <1>5, <1>7, <1>w, PlainFacts DEF CalmWorld, HeldAt, Others
    <3> QED BY <1>0, <2>1, <3>1 DEF HeldAt
  <2>3. spec' /\ managed' = 0 => HeldAt("forget", "stop")'
    <3>1. spec /\ managed = 0 => HeldAt("forget", "stop") /\ drv'[lock] = drv[lock]
      BY <1>5, <1>7, <1>w, PlainFacts DEF CalmWorld, HeldAt, Others
    <3> QED BY <1>0, <3>1 DEF HeldAt
  <2> QED BY <1>0, <1>2, <1>w, <2>1, <2>2, <2>3 DEF CalmWorld
<1> QED BY <1>6, <1>8 DEF CalmAll

\* The step of a request that is not waiting for a runtime and has not just
\* taken its handle: nothing is leaving.
LEMMA HolderAlone ==
  ASSUME Base, CalmAll, NEW d \in Drivers,
         \/ drv[d].pc \in OfRequests \ {"join"}
         \/ drv[d].pc \in {"insert", "spec", "spawn", "forget"} \cup Inside
  PROVE  /\ d \in Requests /\ lock = d /\ drv[d].pc # "idle" /\ None # d
         /\ \A n \in Inst : ~Leaving(n)
         /\ drv[d].pc # "forget" => ~(spec /\ managed = 0)
<1>w. CalmWorld /\ At(d) BY DEF CalmAll
<1>1. d \in Requests /\ lock = d BY <1>w, CalmRequest
<1>2. drv[d].pc \notin {"idle", "join"} BY DEF OfRequests, Inside
<1> QED BY <1>1, <1>2, <1>w, DriverAssumption DEF CalmWorld, HeldAt

LEMMA RequestCalm ==
  ASSUME Base, CalmAll, NEW d \in Requests, drv[d].pc # "idle", Others(d),
         \A e \in Drivers : e # d /\ drv[e].from = "due" => Pinned',
         CalmWorld', At(d)'
  PROVE  CalmAll'
<1>1. ASSUME NEW e \in Drivers PROVE At(e)'
  <2>1. CASE e # d BY <2>1, BystanderStays DEF CalmAll
  <2> QED BY <2>1
<1> QED BY <1>1 DEF CalmAll

\* The requests' writes of the lifecycle.
LEMMA CalmSave ==
  ASSUME StartInv, CalmAll, NEW d \in Drivers, PolicySave(d) \/ ShutSave(d) \/ SaveStarting(d)
  PROVE  CalmAll'
<1> USE DEF disk, tasks, memory, locks
<1>b. Base BY DEF StartInv
<1>r. Role(d, drv[d].pc, drv[d].kind, drv[d].key, drv[d].from) /\ drv[d].copy \in Lives BY <1>b, BaseFacts
<1>w. CalmWorld /\ At(d) BY DEF CalmAll
<1>0. UNCHANGED <<sock, run, managed, spec, ending, view>> /\ drv[d].pc \in {"policy save", "shut save", "starting"}
  BY DEF PolicySave, ShutSave, SaveStarting
<1>a. /\ d \in Requests /\ drv[d].pc # "idle" /\ \A n \in Inst : ~Leaving(n)
      /\ ~(spec /\ managed = 0)
  BY <1>b, <1>0, HolderAlone DEF OfRequests, Inside
<1>1. ASSUME life'.next => Pinned' \/ (life'.status \in {"none", "stopped"} /\ Dormant)
      PROVE  CalmWorld'
  <2>1. \A n \in Inst : (Live(n) <=> Live(n)') /\ ~Leaving(n)' BY <1>0, <1>a DEF Live, Leaving
  <2>2. Dormant => Dormant' BY <1>0 DEF Dormant
  <2> QED BY <1>0, <1>1, <1>a, <1>w, <2>1, <2>2 DEF CalmWorld
<1>2. CASE PolicySave(d)
  <2>1. life' = drv[d].copy /\ drv[d].pc = "policy save" BY <1>2 DEF PolicySave
  <2>2. life'.next => Pinned' \/ (life'.status \in {"none", "stopped"} /\ Dormant)
    BY <1>0, <1>w, <2>1 DEF At, CalmAt, Pinned
  <2>3. ASSUME NEW e \in Drivers, drv[e].from = "due" PROVE Pinned'
    <3>1. Pinned /\ Hot BY <2>3, DueIsHot
    <3>2. drv[d].copy.status = "crashed" BY <1>w, <2>1, <3>1 DEF At, CalmAt
    <3> QED BY <1>0, <2>1, <3>1, <3>2 DEF Pinned
  <2>4. Returns(d) BY <1>b, <1>2, PolicySaveMoves
  <2>5. At(d)' BY <2>4 DEF At, CalmAt, Returns, Becomes
  <2> QED BY <1>b, <1>a, <1>1, <2>2, <2>3, <2>4, <2>5, RequestCalm DEF Returns, Becomes, Others
<1>3. CASE ShutSave(d)
  <2>0. drv[d].pc = "shut save" BY <1>3 DEF ShutSave
  <2>1. ~drv[d].copy.next /\ ~Hot /\ run[drv[d].key[1]] = "up" BY <1>w, <2>0 DEF At, CalmAt
  <2>2. life' = [drv[d].copy EXCEPT !.status = "stopping"] BY <1>3 DEF ShutSave
  <2>3. ~life'.next /\ life'.status = "stopping" BY <1>r, <2>1, <2>2 DEF Lives
  <2>4. \A e \in Drivers : drv[e].from # "due" BY <2>1 DEF Hot
  <2>5. Loads(d, "send", NoLife) BY <1>b, <1>3, ShutSaveMoves
  <2>6. drv[d].from = "stop" BY <1>r, <2>0 DEF Role, Route
  <2>7. Others(d) /\ drv'[d].pc = "send" /\ drv'[d].from = "stop" /\ drv'[d].key = drv[d].key
    BY <2>5, <2>6 DEF Loads, Becomes, Others
  <2>8. ~Hot'
    <3>1. \A e \in Drivers : drv'[e].from # "due" BY <2>4, <2>7 DEF Others
    <3> QED BY <2>3, <3>1 DEF Hot
  <2>9. At(d)' BY <1>0, <2>1, <2>7, <2>8 DEF At, CalmAt
  <2> QED BY <1>b, <1>a, <1>1, <2>3, <2>4, <2>7, <2>9, RequestCalm
<1>4. CASE SaveStarting(d)
  <2>0. drv[d].pc = "starting" BY <1>4 DEF SaveStarting
  <2>1. life' = [drv[d].copy EXCEPT !.status = "starting", !.next = FALSE] BY <1>4 DEF SaveStarting
  <2>2. ~life'.next BY <1>r, <2>1 DEF Lives
  <2>3. drv[d].key[1] \in Inst /\ run[drv[d].key[1]] = "bound"
    BY <1>r, <2>0 DEF Role, Binding, StartInv, Starting, StartsAt
  <2>4. ~Pinned BY <1>w, <2>3 DEF Pinned, CalmWorld
  <2>5. \A e \in Drivers : drv[e].from # "due" BY <2>4, DueIsHot
  <2>6. Moves(d, "metadata") BY <1>b, <1>4, SaveStartingMoves
  <2>7. Others(d) /\ drv'[d].pc = "metadata" /\ drv'[d].from = drv[d].from BY <2>6 DEF Moves, Becomes, Others
  <2>8. drv[d].from = "body" BY <1>r, <2>0, <2>5 DEF Role, Route, Inside
  <2>9. At(d)' BY <2>7, <2>8 DEF At, CalmAt
  <2> QED BY <1>b, <1>a, <1>1, <2>2, <2>5, <2>7, <2>9, RequestCalm
<1> QED BY <1>2, <1>3, <1>4

\* The runtime is bound, serves, and its handle is kept.
LEMMA CalmBind ==
  ASSUME StartInv, CalmAll, NEW d \in Drivers, Bind(d)
  PROVE  CalmAll'
<1>b. Base BY DEF StartInv
<1>w. CalmWorld /\ At(d) BY DEF CalmAll
<1>p. drv[d].pc = "bind" BY DEF Bind
<1>a. /\ d \in Requests /\ drv[d].pc # "idle" /\ \A n \in Inst : ~Leaving(n)
      /\ ~(spec /\ managed = 0)
  BY <1>b, <1>p, HolderAlone DEF Inside
<1>1. PICK m \in Inst : /\ m = Fresh /\ ~Active /\ Others(d) /\ sock' = m
                        /\ drv'[d].pc = "starting" /\ drv'[d].from = drv[d].from
                        /\ run'[m] = "bound" /\ \A n \in Inst : n # m => run'[n] = run[n]
  BY BindFacts
<1>2. UNCHANGED <<life, managed, spec, ending, view, lock>> BY DEF Bind, memory, locks
<1>3. \A n \in Inst : run[n] \in {"none", "done"}
  <2> SUFFICES ASSUME NEW n \in Inst, run[n] \notin {"none", "done"} PROVE FALSE OBVIOUS
  <2>1. run[n] \in {"bound", "up", "stopping"} BY <1>a, <1>b, PlainFacts DEF Leaving
  <2>2. sock = n BY <1>w, <2>1 DEF CalmWorld
  <2> QED BY <1>1, <1>b, <2>1, <2>2, PlainFacts DEF Active
<1>4. ~Pinned BY <1>3 DEF Pinned
<1>5. managed = 0 /\ ~spec
  <2>1. managed = 0 BY <1>3, <1>w, <1>b, PlainFacts DEF CalmWorld
  <2> QED BY <1>a, <2>1
<1>6. \A e \in Drivers : drv[e].from # "due" BY <1>4, DueIsHot
<1>7. CalmWorld'
  <2>1. \A n \in Inst : (Live(n)' => n = m) /\ ~Leaving(n)' BY <1>1, <1>3 DEF Live, Leaving
  <2>2. \A n \in Inst : run'[n] \in {"bound", "up", "stopping"} => sock' = n BY <1>1, <1>3
  <2>3. Dormant' BY <1>1, <1>3 DEF Dormant
  <2>4. life'.next => life'.status \in {"none", "stopped"} BY <1>2, <1>4, <1>w DEF CalmWorld
  <2>5. spec' = FALSE /\ managed' = 0
    <3>1. spec \in BOOLEAN BY <1>b DEF Base, TypeOK
    <3> QED BY <1>2, <1>5, <3>1
  <2>6. (\A n \in Inst : ~ending'[n].next) /\ \A v \in Viewers : ~view'[v].copy.next
    BY <1>2, <1>w DEF CalmWorld
  <2> QED BY <2>1, <2>2, <2>3, <2>4, <2>5, <2>6 DEF CalmWorld
<1>8. At(d)' BY <1>1, <1>6, <1>w DEF At, CalmAt
<1> QED BY <1>b, <1>a, <1>1, <1>6, <1>7, <1>8, RequestCalm

LEMMA CalmServe ==
  ASSUME StartInv, CalmAll, NEW d \in Drivers, Serve(d)
  PROVE  CalmAll'
<1>b. Base BY DEF StartInv
<1>w. CalmWorld /\ At(d) BY DEF CalmAll
<1>p. drv[d].pc = "active" BY DEF Serve
<1>a. /\ d \in Requests /\ drv[d].pc # "idle" /\ \A n \in Inst : ~Leaving(n)
      /\ ~(spec /\ managed = 0)
  BY <1>b, <1>p, HolderAlone DEF Inside
<1>1. PICK m \in Inst : /\ m = drv[d].key[1] /\ run[m] = "bound" /\ Others(d)
                        /\ drv'[d].pc = "insert" /\ drv'[d].from = drv[d].from /\ drv'[d].key = drv[d].key
                        /\ run'[m] = "up" /\ \A n \in Inst : n # m => run'[n] = run[n]
  BY ServeFacts
<1>2. UNCHANGED <<sock, managed, spec, ending, view, lock>> BY DEF Serve, memory
<1>3. ~life'.next
  <2>1. drv[d].copy \in Lives BY <1>b, BaseFacts
  <2>2. life' = [drv[d].copy EXCEPT !.status = "active", !.next = FALSE] BY DEF Serve
  <2> QED BY <2>1, <2>2 DEF Lives
<1>4. ~Pinned BY <1>1, <1>w DEF Pinned, CalmWorld
<1>5. \A e \in Drivers : drv[e].from # "due" BY <1>4, DueIsHot
<1>6. CalmWorld'
  <2>1. \A n \in Inst : (Live(n) <=> Live(n)') /\ ~Leaving(n)' BY <1>1, <1>a DEF Live, Leaving
  <2>2. \A n \in Inst : run'[n] \in {"bound", "up", "stopping"} => sock' = n BY <1>1, <1>2, <1>w DEF CalmWorld
  <2>3. managed' # 0 => run'[managed'] = "up" BY <1>1, <1>2, <1>b, <1>w, PlainFacts DEF CalmWorld
  <2>4. ~(spec' /\ managed' = 0) BY <1>2, <1>a
  <2> QED BY <1>2, <1>3, <1>w, <2>1, <2>2, <2>3, <2>4 DEF CalmWorld
<1>7. At(d)' BY <1>1, <1>5, <1>w DEF At, CalmAt
<1> QED BY <1>b, <1>a, <1>1, <1>5, <1>6, <1>7, RequestCalm

LEMMA CalmKeep ==
  ASSUME Base, CalmAll, NEW d \in Drivers, Insert(d) \/ InsertSpec(d) \/ Forget(d) \/ Stop(d)
  PROVE  CalmAll'
<1> USE DEF disk, tasks, memory, locks
<1>r. Role(d, drv[d].pc, drv[d].kind, drv[d].key, drv[d].from) BY BaseFacts
<1>w. CalmWorld /\ At(d) BY DEF CalmAll
<1>0. UNCHANGED <<life, sock, run, ending, view>> /\ drv[d].pc \in {"insert", "spec", "forget", "stop"}
  BY DEF Insert, InsertSpec, Forget, Stop
<1>a. /\ d \in Requests /\ lock = d /\ drv[d].pc # "idle" /\ \A n \in Inst : ~Leaving(n)
      /\ drv[d].pc # "forget" => ~(spec /\ managed = 0)
  BY <1>0, HolderAlone DEF OfRequests, Inside
<1>f. drv[d].from \notin {"reap", "cancel", "dirty"} /\ (drv[d].pc # "stop" => drv[d].from # "due")
  BY <1>0, <1>w DEF At, CalmAt
<1>1. Pinned' <=> Pinned BY <1>0 DEF Pinned
<1>2. \A e \in Drivers : drv[e].from = "due" => Pinned' BY <1>1, DueIsHot
<1>3. ASSUME managed' # 0 => run[managed'] = "up",
             spec' /\ managed' = 0 => HeldAt("forget", "stop")'
      PROVE  CalmWorld'
  <2>1. \A n \in Inst : (Live(n) <=> Live(n)') /\ ~Leaving(n)' BY <1>0, <1>a DEF Live, Leaving
  <2>2. Dormant => Dormant' BY <1>0 DEF Dormant
  <2> QED BY <1>0, <1>1, <1>3, <1>w, <2>1, <2>2 DEF CalmWorld
<1>4. CASE Insert(d)
  <2>1. managed' = drv[d].key[1] /\ drv[d].pc = "insert" BY <1>4 DEF Insert
  <2>2. run[drv[d].key[1]] = "up" BY <1>w, <2>1 DEF At, CalmAt
  <2>3. Moves(d, "spec") /\ drv[d].key[1] \in Inst BY <1>4, InsertMoves
  <2>4. managed' # 0 BY <2>1, <2>3, PlainFacts
  <2>5. CalmWorld' BY <1>3, <2>1, <2>2, <2>4
  <2>6. At(d)' BY <1>f, <2>1, <2>3 DEF At, CalmAt, Moves, Becomes
  <2> QED BY <1>a, <1>2, <2>3, <2>5, <2>6, RequestCalm DEF Moves, Becomes, Others
<1>5. CASE InsertSpec(d)
  <2>1. drv[d].pc = "spec" /\ managed' = managed BY <1>5 DEF InsertSpec
  <2>2. managed = drv[d].key[1] /\ drv[d].key[1] \in Inst BY <1>r, <1>w, <2>1 DEF At, CalmAt, Role
  <2>3. managed' # 0 /\ run[managed'] = "up" BY <1>w, <2>1, <2>2, PlainFacts DEF CalmWorld
  <2>4. CalmWorld' BY <1>3, <2>3
  <2>5. Returns(d) BY <1>5, <1>f, <2>1, InsertSpecMoves
  <2>6. At(d)' BY <2>5 DEF At, CalmAt, Returns, Becomes
  <2> QED BY <1>a, <1>2, <2>4, <2>5, <2>6, RequestCalm DEF Returns, Becomes, Others
<1>6. CASE Forget(d)
  <2>1. drv[d].pc = "forget" /\ managed' = managed /\ spec' = FALSE BY <1>6 DEF Forget
  <2>2. drv[d].from = "stop" BY <1>r, <1>f, <2>1 DEF Role, Route
  <2>3. run[drv[d].key[1]] = "up" BY <1>w, <2>1 DEF At, CalmAt
  <2>4. CalmWorld' BY <1>3, <1>w, <2>1 DEF CalmWorld
  <2>5. Moves(d, "shut") BY <1>6, <2>2, ForgetMoves
  <2>6. At(d)' BY <1>0, <2>2, <2>3, <2>5 DEF At, CalmAt, Moves, Becomes
  <2> QED BY <1>a, <1>2, <2>4, <2>5, <2>6, RequestCalm DEF Moves, Becomes, Others
<1>7. CASE Stop(d)
  <2>0. drv[d].pc = "stop" /\ UNCHANGED <<spec, lock>> BY <1>7 DEF Stop
  <2>f. drv[d].from \in {"none", "body"} BY <1>r, <2>0 DEF Role, Route
  <2>1. CASE managed = 0
    <3>1. Moves(d, "unmanaged") /\ managed' = managed BY <1>7, <2>1, StopMoves
    <3>2. CalmAt("unmanaged", drv[d].key, drv[d].from, drv[d].copy) BY <2>1, <2>f DEF CalmAt
    <3> QED BY <1>0, <2>0, <2>f, <3>1, <3>2, HolderFrame DEF Moves, Becomes, Others
  <2>2. CASE managed # 0
    <3>1. PICK m \in Inst : /\ m = managed /\ managed' = 0
                            /\ Becomes(d, "forget", drv[d].kind, <<m, TRUE>>, "stop", drv[d].copy)
      BY <1>7, <2>2, StopMoves
    <3>2. run[m] = "up" BY <1>w, <2>2, <3>1 DEF CalmWorld
    <3>3. HeldAt("forget", "stop")' BY <1>a, <2>0, <3>1 DEF HeldAt, Becomes
    <3>4. CalmWorld' BY <1>3, <3>1, <3>3
    <3>5. drv'[d].key[1] = m /\ drv'[d].pc = "forget" /\ drv'[d].from = "stop" BY <3>1 DEF Becomes
    <3>6. At(d)' BY <1>0, <3>2, <3>5 DEF At, CalmAt
    <3> QED BY <1>a, <1>2, <3>1, <3>4, <3>6, RequestCalm DEF Becomes, Others
  <2> QED BY <2>1, <2>2
<1> QED BY <1>4, <1>5, <1>6, <1>7

\* The runtime is told to stop.
LEMMA CalmSend ==
  ASSUME HandInv, CalmAll, NEW d \in Drivers, Send(d)
  PROVE  CalmAll'
<1>b. Base /\ HandleOnce BY DEF HandInv, StartInv, Handles
<1>r. Role(d, drv[d].pc, drv[d].kind, drv[d].key, drv[d].from) BY <1>b, BaseFacts
<1>w. CalmWorld /\ At(d) BY DEF CalmAll
<1>p. drv[d].pc = "send" BY DEF Send
<1>f. drv[d].from = "stop" BY <1>p, <1>r DEF Role, Route
<1>a. /\ d \in Requests /\ lock = d /\ drv[d].pc # "idle" /\ \A n \in Inst : ~Leaving(n)
      /\ ~(spec /\ managed = 0)
  BY <1>b, <1>p, HolderAlone DEF OfRequests
<1>1. PICK m \in Inst : /\ m = drv[d].key[1] /\ drv[d].key = <<m, TRUE>> /\ Others(d)
                        /\ drv'[d].pc = "join" /\ drv'[d].from = drv[d].from /\ drv'[d].key = drv[d].key
                        /\ \A n \in Inst : run'[n] = IF n = m /\ run[n] = "up" THEN "stopping" ELSE run[n]
  BY <1>b, SendFacts
<1>2. UNCHANGED <<life, sock, managed, spec, ending, view, lock>> BY DEF Send, disk, memory, locks
<1>3. run[m] = "up" /\ ~Hot BY <1>1, <1>p, <1>w DEF At, CalmAt
<1>4. \A n \in Inst : n # m => run[n] \in {"none", "done"} BY <1>3, <1>w DEF CalmWorld, Live
<1>5. managed = 0
  <2>1. Holds(d, m) BY <1>1, <1>p DEF Holds
  <2>2. managed # m BY <1>b, <2>1 DEF HandleOnce
  <2> QED BY <1>4, <1>b, <1>w, <2>2, PlainFacts DEF CalmWorld
<1>6. ~life.next BY <1>3, <1>w DEF CalmWorld, Pinned, Dormant, Hot
<1>7. \A e \in Drivers : drv[e].from # "due" BY <1>3 DEF Hot
<1>8. CalmWorld'
  <2>1. \A n \in Inst : (Live(n)' => n = m) /\ (Leaving(n)' => n = m) BY <1>1, <1>4 DEF Live, Leaving
  <2>2. HeldAt("join", "stop")' /\ drv'[lock'].key = <<m, TRUE>> BY <1>1, <1>2, <1>a, <1>f DEF HeldAt
  <2>3. \A n \in Inst : run'[n] \in {"bound", "up", "stopping"} => sock' = n
    BY <1>1, <1>2, <1>3, <1>4, <1>w DEF CalmWorld
  <2>4. managed' = 0 /\ ~(spec' /\ managed' = 0) /\ ~life'.next BY <1>2, <1>a, <1>5, <1>6
  <2>5. (\A n \in Inst : ~ending'[n].next) /\ \A v \in Viewers : ~view'[v].copy.next
    BY <1>2, <1>w DEF CalmWorld
  <2> QED BY <2>1, <2>2, <2>3, <2>4, <2>5 DEF CalmWorld
<1>9. At(d)' BY <1>1, <1>f DEF At, CalmAt
<1> QED BY <1>b, <1>a, <1>1, <1>7, <1>8, <1>9, RequestCalm

\* A runtime that was told to stop ends; nobody else is concerned.
LEMMA CalmJoin ==
  ASSUME Base, CalmAll, NEW n \in Inst, Join(n)
  PROVE  CalmAll'
<1>w. CalmWorld BY DEF CalmAll
<1>1. /\ run[n] \in {"stopping", "ended", "fenced", "read", "saved"}
      /\ run'[n] \in {"ended", "fenced", "read", "saved", "done"}
      /\ \A m \in Inst : m # n => run'[m] = run[m] /\ ending'[m] = ending[m]
      /\ UNCHANGED <<managed, spec, lock, drv, view>>
  BY JoinFacts DEF locks
<1>2. HeldAt("join", "stop") /\ drv[lock].key = <<n, TRUE>> BY <1>1, <1>w DEF CalmWorld, Leaving
<1>3. \A m \in Inst : m # n => run[m] \in {"none", "done"} BY <1>1, <1>w DEF CalmWorld, Live
<1>4. ~Pinned /\ ~Dormant BY <1>1, <1>3 DEF Pinned, Dormant
<1>5. managed = 0 /\ ~(spec /\ managed = 0)
  <2>1. managed = 0 BY <1>1, <1>3, <1>w, PlainFacts DEF CalmWorld
  <2>2. ~(spec /\ managed = 0) BY <1>2, <1>w DEF CalmWorld, HeldAt
  <2> QED BY <2>1, <2>2
<1>6. ~life.next BY <1>4, <1>w DEF CalmWorld
<1>7. ~life'.next /\ ~ending'[n].next
  <2>0. ending \in [Inst -> Lives] /\ result \in [Inst -> {"none", "stopped", "crashed"}]
    BY DEF Base, TypeOK
  <2>1. ~ending[n].next BY <1>w DEF CalmWorld
  <2>2. CASE JoinRead(n) BY <1>6, <2>0, <2>2 DEF JoinRead, disk
  <2>3. CASE JoinSave(n)
    <3>1. life' = [ending[n] EXCEPT !.status = result[n]] BY <2>3 DEF JoinSave
    <3>2. ~life'.next BY <2>0, <2>1, <3>1 DEF Lives
    <3>3. ending'[n] = NoLife BY <2>0, <2>3 DEF JoinSave
    <3> QED BY <3>2, <3>3 DEF NoLife
  <2>4. CASE Halt(n) \/ JoinMeta(n) \/ JoinSocket(n)
    BY <1>6, <2>1, <2>4 DEF Halt, JoinMeta, JoinSocket, disk
  <2> QED BY <2>2, <2>3, <2>4 DEF Join
<1>8. CalmWorld'
  <2>1. \A m \in Inst : (Live(m)' => m = n) /\ (Leaving(m)' => m = n) BY <1>1, <1>3 DEF Live, Leaving
  <2>2. HeldAt("join", "stop")' /\ drv'[lock'].key = <<n, TRUE>> BY <1>1, <1>2 DEF HeldAt
  <2>3. \A m \in Inst : run'[m] \notin {"bound", "up", "stopping"} BY <1>1, <1>3
  <2>4. managed' = 0 /\ ~(spec' /\ managed' = 0) BY <1>1, <1>5
  <2>5. (\A m \in Inst : ~ending'[m].next) /\ \A v \in Viewers : ~view'[v].copy.next
    BY <1>1, <1>7, <1>w DEF CalmWorld
  <2> QED BY <1>7, <2>1, <2>2, <2>3, <2>4, <2>5 DEF CalmWorld
<1>9. ASSUME NEW e \in Drivers PROVE At(e)'
  <2>0. At(e) /\ drv[e].from # "due" BY <1>4, DueIsHot DEF CalmAll
  <2>q. lock \in Requests /\ lock \in Drivers /\ drv[lock].pc = "join" /\ drv[lock].from = "stop"
    BY <1>2 DEF HeldAt, Drivers
  <2>1. CASE e = lock BY <1>1, <2>1, <2>q DEF At, CalmAt
  <2>2. CASE e # lock
    <3>1. PICK d \in Requests : d = lock BY <2>q
    <3>2. /\ drv[e].pc \notin OfRequests
          /\ drv[e].pc \notin {"insert", "spec", "forget", "bind", "starting", "metadata", "active"}
      BY <2>0, <2>2, <2>q, <3>1, Bystander
    <3> QED BY <1>1, <2>0, <3>2 DEF At, CalmAt, OfRequests
  <2> QED BY <2>1, <2>2
<1> QED BY <1>8, <1>9 DEF CalmAll

\* Views.
LEMMA CalmView ==
  ASSUME Base, CalmAll, NEW v \in Viewers, Inspect(v) \/ Views(v)
  PROVE  CalmAll'
<1>w. CalmWorld BY DEF CalmAll
<1>t. life \in Lives /\ view \in [Viewers -> [pc : {"idle", "probe", "save"}, copy : Lives]]
  BY DEF Base, TypeOK
<1>1. UNCHANGED <<sock, run, ending, managed, spec, lock, drv>> BY ViewFacts DEF tasks, memory, locks
<1>n. ~NoLife.next BY DEF NoLife
<1>2. /\ \A u \in Viewers : ~view'[u].copy.next
      /\ life' = life \/ (~life'.next /\ life'.status = "crashed")
  <2>1. CASE Inspect(v)
    <3>1. ~life.next BY <1>w, <2>1 DEF CalmWorld, Pinned, Inspect
    <3>2. view' = [view EXCEPT ![v] = [pc |-> "probe", copy |-> life]] /\ life' = life
      BY <2>1 DEF Inspect, disk
    <3>3. \A u \in Viewers : view'[u].copy = IF u = v THEN life ELSE view[u].copy BY <1>t, <3>2
    <3> QED BY <1>w, <3>1, <3>2, <3>3 DEF CalmWorld
  <2>2. CASE InspectProbe(v)
    <3>1. life' = life BY <2>2 DEF InspectProbe, disk
    <3>2. \A u \in Viewers : view'[u].copy \in {NoLife, view[u].copy}
      <4>1. CASE Active
        <5>1. view' = [view EXCEPT ![v] = [pc |-> "idle", copy |-> NoLife]] BY <2>2, <4>1 DEF InspectProbe
        <5> QED BY <1>t, <5>1
      <4>2. CASE ~Active
        <5>1. view' = [view EXCEPT ![v] = [@ EXCEPT !.pc = "save"]] BY <2>2, <4>2 DEF InspectProbe
        <5> QED BY <1>t, <5>1
      <4> QED BY <4>1, <4>2
    <3> QED BY <1>w, <1>n, <3>1, <3>2 DEF CalmWorld
  <2>3. CASE InspectSave(v)
    <3>1. life' = [view[v].copy EXCEPT !.status = "crashed"] BY <2>3 DEF InspectSave
    <3>2. view[v].copy \in Lives /\ ~view[v].copy.next BY <1>t, <1>w DEF CalmWorld
    <3>3. ~life'.next /\ life'.status = "crashed" BY <3>1, <3>2 DEF Lives
    <3>4. view' = [view EXCEPT ![v] = [pc |-> "idle", copy |-> NoLife]] BY <2>3 DEF InspectSave
    <3>5. \A u \in Viewers : view'[u].copy \in {NoLife, view[u].copy} BY <1>t, <3>4
    <3> QED BY <1>w, <1>n, <3>3, <3>5 DEF CalmWorld
  <2> QED BY <2>1, <2>2, <2>3 DEF Views
<1>3. (Pinned => Pinned') /\ (Dormant <=> Dormant') BY <1>1, <1>2 DEF Pinned, Dormant
<1>4. Hot' => Hot BY <1>1, <1>2 DEF Hot
<1>5. ASSUME NEW e \in Drivers PROVE At(e)'
  <2>1. At(e) BY DEF CalmAll
  <2> QED BY <1>1, <1>3, <1>4, <2>1 DEF At, CalmAt
<1>6. CalmWorld'
  <2>1. \A n \in Inst : (Live(n) <=> Live(n)') /\ (Leaving(n) <=> Leaving(n)') BY <1>1 DEF Live, Leaving
  <2>2. \A n \in Inst : Leaving(n)' => HeldAt("join", "stop")' /\ drv'[lock'].key = <<n, TRUE>>
    BY <1>1, <1>w, <2>1 DEF CalmWorld, HeldAt
  <2>3. spec' /\ managed' = 0 => HeldAt("forget", "stop")' BY <1>1, <1>w DEF CalmWorld, HeldAt
  <2>4. life'.next => Pinned' \/ (life'.status \in {"none", "stopped"} /\ Dormant')
    BY <1>2, <1>3, <1>w DEF CalmWorld
  <2> QED BY <1>1, <1>2, <1>w, <2>1, <2>2, <2>3, <2>4 DEF CalmWorld
<1> QED BY <1>5, <1>6 DEF CalmAll

\* The next process starts with nothing but the files.
LEMMA CalmDie ==
  ASSUME Base, Records, Unborn, Die
  PROVE  CalmAll'
<1>1. \A d \in Drivers : drv'[d] = Idle BY DieFacts
<1>2. /\ \A n \in Inst : run'[n] \in {"none", "done"} /\ ending'[n] = NoLife
      /\ managed' = 0 /\ spec' = FALSE
      /\ \A v \in Viewers : view'[v].copy = NoLife
  BY DEF Die
<1>3. life'.next => life'.status \in {"none", "stopped"} BY DieRecords DEF Unborn
<1>4. Dormant' BY <1>2 DEF Dormant
<1>5. CalmWorld'
  <2>1. \A n \in Inst : ~Live(n)' /\ ~Leaving(n)' BY <1>2 DEF Live, Leaving
  <2>2. \A n \in Inst : run'[n] \notin {"bound", "up", "stopping"} BY <1>2
  <2>3. ~NoLife.next BY DEF NoLife
  <2> QED BY <1>2, <1>3, <1>4, <2>1, <2>2, <2>3 DEF CalmWorld
<1>6. ASSUME NEW d \in Drivers PROVE At(d)'
  <2>1. drv'[d].pc = "idle" /\ drv'[d].from = "none" BY <1>1 DEF Idle
  <2> QED BY <2>1 DEF At, CalmAt
<1> QED BY <1>5, <1>6 DEF CalmAll

\* A crash is not forgotten while the process lives.
LEMMA CrashLasts ==
  ASSUME HandInv, Origins, [Next]_vars, ~Die
  PROVE  \A m \in Inst : result[m] = "crashed" => result'[m] = "crashed" /\ origin'[m] = origin[m]
<1>b. Base /\ StartInv BY DEF HandInv, StartInv
<1>1. ASSUME NEW n \in Inst, Crash(n)
      PROVE  \A m \in Inst : result[m] = "crashed" => result'[m] = "crashed" /\ origin'[m] = origin[m]
  BY <1>b, <1>1, CrashFacts DEF history
<1>2. ASSUME NEW n \in Inst, Join(n)
      PROVE  \A m \in Inst : result[m] = "crashed" => result'[m] = "crashed" /\ origin'[m] = origin[m]
  <2>1. run[n] = "stopping" => result[n] = "none" BY DEF Origins
  <2> QED BY <1>b, <1>2, <2>1, JoinFacts DEF history
<1>3. ASSUME NEW d \in Drivers, Step(d)
      PROVE  \A m \in Inst : result[m] = "crashed" => result'[m] = "crashed" /\ origin'[m] = origin[m]
  <2>1. CASE Quiet(d) BY <2>1, QuietSteps
  <2>2. CASE Bind(d)
    <3>1. PICK n \in Inst : n = Fresh /\ run[n] = "none" BY <1>b, <2>2, BindFacts
    <3>2. result' = result /\ \A m \in Inst : m # n => origin'[m] = origin[m]
      BY <1>b, <2>2, <3>1 DEF Bind, Base, TypeOK
    <3> QED BY <3>1, <3>2 DEF Origins
  <2>3. CASE ~Quiet(d) /\ ~Bind(d)
    <3>1. \/ Spawn(d) \/ Previous(d) \/ Vacant(d) \/ SaveStarting(d) \/ SaveMeta(d) \/ Serve(d) \/ Send(d)
      BY <1>3, <2>3 DEF Step, Quiet
    <3> QED BY <3>1 DEF Spawn, Previous, Vacant, SaveStarting, SaveMeta, Serve, Send, tasks, history
  <2> QED BY <2>1, <2>2, <2>3
<1>4. ASSUME NEW d \in Drivers, Tick(d) PROVE UNCHANGED <<result, origin>>
  BY <1>4 DEF Tick, tasks, history
<1>5. ASSUME NEW d \in Requests, NEW kind \in Kinds, Request(d, kind) PROVE UNCHANGED <<result, origin>>
  BY <1>5 DEF Request, tasks, history
<1>6. ASSUME NEW v \in Viewers, Inspect(v) \/ Views(v) PROVE UNCHANGED <<result, origin>>
  BY <1>b, <1>6, ViewFacts DEF tasks, history
<1>7. CASE UNCHANGED vars BY <1>7 DEF vars, tasks, history
<1> QED BY <1>1, <1>2, <1>3, <1>4, <1>5, <1>6, <1>7 DEF Next

LEMMA CalmStep ==
  ASSUME WorldInv, CalmAll, NEW d \in Drivers, Step(d)
  PROVE  CalmAll'
<1>f. HandInv /\ StartInv /\ Base BY WorldFacts
<1>a. /\ drv[d].pc \notin {"take", "wait", "judge", "keep", "stop read", "stop save"}
  BY DEF CalmAll, At, CalmAt
<1>1. CASE Look(d) \/ Specs(d) \/ Contains(d) \/ NotDue(d) \/ Due(d) \/ Old(d) BY <1>f, <1>1, CalmReap
<1>2. CASE Clean(d) \/ Plan(d) BY <1>f, <1>2, CalmPlan
<1>3. CASE Start(d) \/ Probe(d) \/ Spawn(d) \/ Previous(d) \/ Vacant(d) \/ SaveMeta(d)
  BY <1>f, <1>3, CalmStart
<1>4. CASE Body(d) BY <1>f, <1>4, CalmBody
<1>5. CASE Fence(d) \/ Unmanaged(d) \/ Cancel(d) \/ Shut(d) \/ ShutRead(d) BY <1>f, <1>5, CalmStop
<1>6. CASE Wait(d) BY <1>f, <1>6, CalmWait
<1>7. CASE PlanSave(d) \/ DueSave(d) BY <1>f, <1>7, CalmDueSave
<1>8. CASE PolicySave(d) \/ ShutSave(d) \/ SaveStarting(d) BY <1>f, <1>8, CalmSave
<1>9. CASE Bind(d) BY <1>f, <1>9, CalmBind
<1>10. CASE Serve(d) BY <1>f, <1>10, CalmServe
<1>11. CASE Insert(d) \/ InsertSpec(d) \/ Forget(d) \/ Stop(d) BY <1>f, <1>11, CalmKeep
<1>12. CASE Send(d) BY <1>f, <1>12, CalmSend
<1>13. CASE Take(d) \/ Judge(d) \/ HasSpec(d) \/ StopRead(d) \/ StopSave(d)
  BY <1>a, <1>13 DEF Take, Judge, HasSpec, StopRead, StopSave
<1> QED BY <1>1, <1>2, <1>3, <1>4, <1>5, <1>6, <1>7, <1>8, <1>9, <1>10, <1>11, <1>12, <1>13 DEF Step

LEMMA CalmNext ==
  ASSUME WorldInv, CalmInv, [Next]_vars
  PROVE  CalmInv'
<1>f. HandInv /\ StartInv /\ Base /\ Origins /\ Records /\ Unborn BY WorldFacts
<1>g. CalmInv <=> (Calm => CalmAll) BY DEF CalmInv, CalmAll, At
<1>h. CalmInv' <=> (Calm' => CalmAll') BY DEF CalmInv, CalmAll, At
<1>1. CASE Die BY <1>1, <1>f, <1>h, CalmDie
<1>2. CASE ~Die
  <2> SUFFICES ASSUME Calm' PROVE CalmAll' BY <1>h
  <2>1. Calm BY <1>2, <1>f, CrashLasts DEF Calm
  <2>2. CalmAll BY <1>g, <2>1
  <2>3. ASSUME NEW n \in Inst, Crash(n) PROVE FALSE
    <3>1. /\ run[n] \in {"up", "stopping"} /\ result'[n] = "crashed" /\ origin' = origin
      BY <1>f, <2>3, CrashFacts DEF history
    <3>2. origin[n] # "lost" BY <1>f, <3>1 DEF Origins
    <3> QED BY <3>1, <3>2 DEF Calm
  <2>4. ASSUME NEW n \in Inst, Join(n) PROVE CalmAll' BY <1>f, <2>2, <2>4, CalmJoin
  <2>5. ASSUME NEW d \in Drivers, Tick(d) PROVE CalmAll' BY <1>f, <2>2, <2>5, CalmTick
  <2>6. ASSUME NEW d \in Drivers, Step(d) PROVE CalmAll' BY <2>2, <2>6, CalmStep
  <2>7. ASSUME NEW d \in Requests, NEW kind \in Kinds, Request(d, kind) PROVE CalmAll'
    BY <1>f, <2>2, <2>7, CalmAsk
  <2>8. ASSUME NEW v \in Viewers, Inspect(v) \/ Views(v) PROVE CalmAll' BY <1>f, <2>2, <2>8, CalmView
  <2>9. CASE UNCHANGED vars
    <3>1. UNCHANGED <<life, sock, run, ending, managed, spec, lock, drv, view>>
      BY <2>9 DEF vars, disk, tasks, memory, locks
    <3>2. (Pinned <=> Pinned') /\ (Dormant <=> Dormant') /\ (Hot <=> Hot') BY <3>1 DEF Pinned, Dormant, Hot
    <3>3. \A e \in Drivers : At(e)' BY <2>2, <3>1, <3>2 DEF CalmAll, At, CalmAt
    <3>4. CalmWorld' BY <2>2, <3>1, <3>2 DEF CalmAll, CalmWorld, Live, Leaving, HeldAt
    <3> QED BY <3>3, <3>4 DEF CalmAll
  <2> QED BY <1>2, <2>3, <2>4, <2>5, <2>6, <2>7, <2>8, <2>9 DEF Next
<1> QED BY <1>1, <1>2

RestartInv == WorldInv /\ CalmInv /\ RestartFollowsCrash

\* Only Bind makes a restart of an instance.
LEMMA OriginStep ==
  ASSUME HandInv, [Next]_vars, ~Die, NEW n \in Inst, origin'[n] = "restart", origin[n] # "restart"
  PROVE  \E d \in Drivers : Bind(d) /\ drv[d].from = "due" /\ n = Fresh
<1>b. Base /\ StartInv BY DEF HandInv, StartInv
<1>0. origin'[n] # origin[n] OBVIOUS
<1>1. ~\E m \in Inst : Crash(m) \/ Join(m)
  <2>1. ASSUME NEW m \in Inst, Crash(m) \/ Join(m) PROVE FALSE BY <1>b, <1>0, <2>1, CrashFacts, JoinFacts DEF history
  <2> QED BY <2>1
<1>2. ~\E d \in Drivers : Tick(d) BY <1>0 DEF Tick, history
<1>3. ~\E d \in Requests, kind \in Kinds : Request(d, kind) BY <1>0 DEF Request, history
<1>4. ~\E v \in Viewers : Inspect(v) \/ Views(v)
  <2>1. ASSUME NEW v \in Viewers, Inspect(v) \/ Views(v) PROVE FALSE BY <1>b, <1>0, <2>1, ViewFacts DEF history
  <2> QED BY <2>1
<1>5. ~UNCHANGED vars BY <1>0 DEF vars, history
<1>6. PICK d \in Drivers : Step(d) BY <1>1, <1>2, <1>3, <1>4, <1>5 DEF Next
<1>7. ~Quiet(d) BY <1>0, QuietSteps
<1>8. Bind(d)
  BY <1>0, <1>6, <1>7 DEF Step, Quiet, Spawn, Previous, Vacant, SaveStarting, SaveMeta, Serve, Send, history
<1>9. PICK m \in Inst : m = Fresh BY <1>b, <1>8, BindFacts
<1>10. \A k \in Inst : origin'[k] = IF k = m THEN IF drv[d].from = "due" THEN "restart" ELSE "request" ELSE origin[k]
  BY <1>b, <1>8, <1>9 DEF Bind, Base, TypeOK
<1> QED BY <1>0, <1>8, <1>9, <1>10

LEMMA RestartNext ==
  ASSUME RestartInv, [Next]_vars
  PROVE  RestartFollowsCrash'
<1>f. HandInv /\ StartInv /\ Base /\ Origins /\ Records /\ Unborn BY WorldFacts DEF RestartInv
<1>1. CASE Die BY <1>1 DEF Die, RestartFollowsCrash
<1>2. CASE ~Die
  <2>0. \A m \in Inst : result[m] = "crashed" => result'[m] = "crashed" /\ origin'[m] = origin[m]
    BY <1>2, <1>f, CrashLasts
  <2>i. \A n \in Inst : \A m \in 1..(n - 1) : m \in Inst BY BoundAssumption DEF Inst
  <2> SUFFICES ASSUME NEW n \in Inst, origin'[n] = "restart"
               PROVE  \E m \in 1..(n - 1) : origin'[m] \in {"request", "restart"} /\ result'[m] = "crashed"
    BY DEF RestartFollowsCrash
  <2>1. \E m \in 1..(n - 1) : origin[m] \in {"request", "restart"} /\ result[m] = "crashed"
    <3>1. CASE origin[n] = "restart" BY <3>1 DEF RestartInv, RestartFollowsCrash
    <3>2. CASE origin[n] # "restart"
      <4>1. PICK d \in Drivers : Bind(d) /\ drv[d].from = "due" /\ n = Fresh BY <1>2, <1>f, <3>2, OriginStep
      <4>2. ~Calm
        <5>1. drv[d].pc = "bind" BY <4>1 DEF Bind
        <5> QED BY <4>1, <5>1 DEF RestartInv, CalmInv, CalmAt
      <4>3. PICK m \in Inst : result[m] = "crashed" /\ origin[m] # "lost" BY <4>2 DEF Calm
      <4>4. run[m] # "none" BY <1>f, <4>3 DEF Origins
      <4>5. origin[m] \in {"none", "request", "restart", "lost"} BY <1>f DEF Base, TypeOK
      <4>6. origin[m] \in {"request", "restart"} BY <1>f, <4>3, <4>4, <4>5 DEF Origins
      <4>7. m < Fresh BY <1>f, <4>4, FreshFacts DEF StartInv
      <4>8. m \in 1..(n - 1) BY <4>1, <4>7, BoundAssumption DEF Inst
      <4> QED BY <4>3, <4>6, <4>8
    <3> QED BY <3>1, <3>2
  <2> QED BY <2>0, <2>1, <2>i
<1> QED BY <1>1, <1>2

LEMMA RestartInit ==
  ASSUME Init
  PROVE  Origins /\ Records /\ Unborn /\ CalmInv /\ RestartFollowsCrash
<1>n. ~NoLife.next /\ Sound(NoLife) BY DEF NoLife, Sound
<1>d. \A d \in Drivers : drv[d].pc = "idle" /\ drv[d].from = "none" /\ drv[d].copy = NoLife
  <2>1. \A d \in Drivers : drv[d] = Idle BY DEF Init
  <2> QED BY <2>1 DEF Idle
<1>i. /\ \A n \in Inst : run[n] = "none" /\ result[n] = "none" /\ origin[n] = "none" /\ ending[n] = NoLife
      /\ \A v \in Viewers : view[v].pc = "idle" /\ view[v].copy = NoLife
      /\ life = NoLife /\ managed = 0 /\ spec = FALSE
  BY DEF Init
<1>1. Origins BY <1>i DEF Origins
<1>2. Records BY <1>n, <1>d, <1>i DEF Records
<1>3. Unborn BY <1>n, <1>d, <1>i DEF Unborn, Early
<1>4. CalmWorld BY <1>n, <1>i DEF CalmWorld, Live, Leaving
<1>5. \A d \in Drivers : CalmAt(drv[d].pc, drv[d].key, drv[d].from, drv[d].copy) BY <1>d DEF CalmAt
<1>6. RestartFollowsCrash BY <1>i DEF RestartFollowsCrash
<1> QED BY <1>1, <1>2, <1>3, <1>4, <1>5, <1>6 DEF CalmInv

\* An instance is started automatically only after one of the same supervisor
\* process has crashed, whatever reapers, requests, views and deaths overlap.
THEOREM RestartCorrect == Spec => []RestartFollowsCrash
<1>1. Init /\ HandInv => RestartInv BY RestartInit DEF RestartInv, WorldInv
<1>2. RestartInv /\ HandInv' /\ [Next]_vars => RestartInv'
  <2> SUFFICES ASSUME RestartInv, HandInv', [Next]_vars PROVE RestartInv' OBVIOUS
  <2>1. WorldInv /\ CalmInv /\ HandInv /\ Origins /\ Records /\ Unborn BY WorldFacts DEF RestartInv
  <2>2. Origins' /\ Records' /\ Unborn' BY <2>1, OriginsNext, RecordsNext, UnbornNext
  <2>3. CalmInv' BY <2>1, CalmNext
  <2>4. RestartFollowsCrash' BY RestartNext
  <2> QED BY <2>2, <2>3, <2>4 DEF RestartInv, WorldInv
<1>3. RestartInv => RestartFollowsCrash BY DEF RestartInv
<1> QED BY <1>1, <1>2, <1>3, HandInvCorrect, PTL DEF Spec
=============================================================================
