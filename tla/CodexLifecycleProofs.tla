------------------------ MODULE CodexLifecycleProofs ------------------------
(***************************************************************************)
(* Proofs about CodexLifecycle, for any set of processes and operations,   *)
(* any number of instances and of drains that time out.                    *)
(*                                                                         *)
(* A cleanup is finished only when no lease of the instance is held, and   *)
(* an operation holds its lease from the acceptance of its record to its   *)
(* end.  So an operation that was accepted before the cleanup has kept it  *)
(* from finishing, and one that is accepted afterwards (its verification   *)
(* may be that old) has to verify its instance again before it spawns:     *)
(* by then the metadata name no instance or another one.  Verified says    *)
(* this stage by stage; Sessions says what the supervisor's progress and   *)
(* the registry at the host tell about the current instance.               *)
(***************************************************************************)
EXTENDS CodexLifecycle, TLAPS

Busy(o) == op[o].pc \notin {"idle", "done"}

\* The instance of o is the current one and its cleanup is not finished.
Current(o) == op[o].n = cur /\ op[o].n \notin cleaned

\* Operations and their records.
Shape ==
  \A o \in Ops :
    /\ op[o].n <= cur
    /\ op[o].pc = "idle" => op[o].stage = "accept" /\ mon[o] = "none" /\ ~regd[o] /\ ~child[o]
    /\ op[o].stage # "accept" \/ child[o] \/ regd[o] => rec[o] # "none"

\* Children, runtimes, and the operations that may still have one.
Verified ==
  \A o \in Ops :
    /\ child[o] \/ regd[o] => Current(o)
    /\ op[o].stage \in {"request", "insert"} /\ Busy(o) => Current(o)
    /\ op[o].stage = "spawn" /\ op[o].pc \in {"probe", "admit", "act"} => Current(o)
    /\ op[o].stage = "spawn" /\ Busy(o) /\ op[o].n \in cleaned => op[o].n # cur
    /\ op[o].stage = "operation" /\ op[o].pc = "admit" /\ op[o].n \in cleaned => op[o].n # cur

\* The supervisor and the monitors.
Sessions ==
  /\ \A n \in cleaned : n <= cur
  /\ alive => named /\ sup \in {"up", "stopping"} /\ cur \notin cleaned
  /\ sup \in {"fenced", "drain", "finalize", "failed"} => entry[Host][cur].here \/ cur \in cleaned
  /\ sup = "cleaned" => cur \in cleaned
  /\ \A o \in Ops : mon[o] \in {"take", "drain", "finalize"} => ~(op[o].n = cur /\ alive)

IndInv == TypeOK /\ Shape /\ Verified /\ Sessions /\ RegisteredIsKnown

-----------------------------------------------------------------------------
(* What the updates of an operation and of a registry entry do. *)

Pcs == {"idle", "check", "meta", "probe", "admit", "act", "wait", "fail", "done"}
OpType == [Ops -> [stage : Stages, n : Inst, p : Procs, pc : Pcs]]
EntryType == [Procs -> [Inst -> [here : BOOLEAN, closing : BOOLEAN, permits : SUBSET Ops]]]

\* Only o moves, and only in its program counter and stage.
Moves(o, stage, pc) ==
  /\ op' \in OpType
  /\ op'[o].pc = pc /\ op'[o].stage = stage
  /\ \A x \in Ops : op'[x].n = op[x].n /\ op'[x].p = op[x].p
  /\ \A x \in Ops : x # o => op'[x].stage = op[x].stage /\ op'[x].pc = op[x].pc

\* Every entry that was there still is.
Keeps ==
  /\ entry' \in EntryType
  /\ \A p \in Procs, n \in Inst : entry[p][n].here => entry'[p][n].here

\* Go changes the program counter only.
LEMMA GoMoves ==
    ASSUME TypeOK, NEW o \in Ops, NEW pc \in Pcs, Go(o, pc)
    PROVE  Moves(o, op[o].stage, pc)
BY DEF TypeOK, Go, Moves, OpType, Pcs

\* Enter begins the verification of a stage.
LEMMA EnterMoves ==
    ASSUME TypeOK, NEW o \in Ops, NEW stage \in Stages, Enter(o, stage)
    PROVE  Moves(o, stage, "check")
<1>1. op \in OpType
  BY DEF TypeOK, OpType, Pcs
<1> DEFINE mid == [op EXCEPT ![o].stage = stage]
<1>2. mid \in OpType /\ mid[o].stage = stage
  BY <1>1 DEF OpType
<1>3. \A x \in Ops : mid[x].n = op[x].n /\ mid[x].p = op[x].p
  BY <1>1 DEF OpType
<1>4. \A x \in Ops : x # o => mid[x] = op[x]
  BY <1>1 DEF OpType
<1>5. op' = [mid EXCEPT ![o].pc = "check"]
  BY DEF Enter
<1> HIDE DEF mid
<1> QED
  BY <1>2, <1>3, <1>4, <1>5 DEF Moves, OpType, Pcs

\* Dropping a permit leaves the entry.
LEMMA DroppedKeeps ==
    ASSUME TypeOK, NEW o \in Ops, entry' = Dropped(o)
    PROVE  Keeps
<1> DEFINE p == op[o].p
           n == op[o].n
<1>1. p \in Procs /\ n \in Inst
  BY DEF TypeOK
<1> HIDE DEF p, n
<1>2. entry' = [entry EXCEPT ![p][n].permits = @ \ {o}]
  BY DEF Dropped, p, n
<1>3. entry \in EntryType
  BY DEF TypeOK, EntryType
<1> QED
  BY <1>1, <1>2, <1>3 DEF Keeps, EntryType

\* A closed entry is an entry that is there.
LEMMA ClosedEntry ==
    ASSUME NEW e \in [here : BOOLEAN, closing : BOOLEAN, permits : SUBSET Ops]
    PROVE  LET f == [e EXCEPT !.here = TRUE, !.closing = TRUE]
           IN  f \in [here : BOOLEAN, closing : BOOLEAN, permits : SUBSET Ops] /\ f.here
OBVIOUS

\* begin_session_instance_shutdown creates or closes the entry.
LEMMA BeginKeeps ==
    ASSUME TypeOK, NEW p \in Procs, NEW n \in Inst, Begin(p, n)
    PROVE  Keeps /\ entry'[p][n].here
<1>1. entry \in EntryType
  BY DEF TypeOK, EntryType
<1> DEFINE new == [entry[p][n] EXCEPT !.here = TRUE, !.closing = TRUE]
<1>2. new \in [here : BOOLEAN, closing : BOOLEAN, permits : SUBSET Ops] /\ new.here
  <2>1. entry[p][n] \in [here : BOOLEAN, closing : BOOLEAN, permits : SUBSET Ops]
    BY <1>1 DEF EntryType
  <2> QED
    BY <2>1, ClosedEntry
<1>3. entry' = [entry EXCEPT ![p][n] = new]
  BY DEF Begin
<1> HIDE DEF new
<1> QED
  BY <1>1, <1>2, <1>3 DEF Keeps, EntryType

-----------------------------------------------------------------------------
(* The initial states. *)

\* The invariant holds initially.
LEMMA InitInv == Init => IndInv
<1> SUFFICES ASSUME Init PROVE IndInv
  OBVIOUS
<1> USE ProcessAssumption, BoundAssumption DEF Init
<1>1. 1 \in Inst
  BY DEF Inst
<1>2. Absent \in [here : BOOLEAN, closing : BOOLEAN, permits : SUBSET Ops]
  BY DEF Absent
<1>3. TypeOK
  <2>1. entry \in EntryType
    BY <1>2 DEF EntryType
  <2>2. op \in OpType
    BY <1>1 DEF OpType, Stages, Pcs
  <2> QED
    BY <1>1, <2>1, <2>2 DEF TypeOK, EntryType, OpType, Pcs
<1>4. Shape
  BY DEF Shape
<1>5. Verified
  BY DEF Verified, Busy
<1>6. Sessions
  BY DEF Sessions
<1>7. RegisteredIsKnown
  BY DEF RegisteredIsKnown
<1> QED
  BY <1>3, <1>4, <1>5, <1>6, <1>7 DEF IndInv

-----------------------------------------------------------------------------
(* The steps. *)

\* An operation looks at the fence.
LEMMA CheckInv ==
    ASSUME IndInv, NEW o \in Ops, Check(o)
    PROVE  IndInv'
<1> USE ProcessAssumption, BoundAssumption
    DEF Check, IndInv, session, task, At
<1>1. \E pc \in {"fail", "meta"} : Moves(o, op[o].stage, pc)
  BY GoMoves DEF Pcs
<1>2. TypeOK'
  BY <1>1 DEF TypeOK, Stages, Moves, Keeps, OpType, EntryType, Pcs
<1>3. Shape'
  BY <1>1 DEF Shape, Moves, Keeps
<1>4. Verified'
  BY <1>1 DEF Shape, Verified, Busy, Current, Sessions, Moves, Keeps
<1>5. Sessions'
  BY <1>1 DEF TypeOK, Sessions, Moves, Keeps
<1>6. RegisteredIsKnown'
  BY <1>1 DEF TypeOK, RegisteredIsKnown, Live, Mine, Moves, Keeps
<1> QED
  BY <1>2, <1>3, <1>4, <1>5, <1>6

\* An operation reads the metadata.
LEMMA MetaInv ==
    ASSUME IndInv, NEW o \in Ops, Meta(o)
    PROVE  IndInv'
<1> USE ProcessAssumption, BoundAssumption
    DEF Meta, IndInv, session, task, At
<1>1. Moves(o, op[o].stage, IF op[o].n = cur /\ named THEN "probe" ELSE "fail")
  BY GoMoves DEF Pcs
<1>2. TypeOK'
  BY <1>1 DEF TypeOK, Stages, Moves, Keeps, OpType, EntryType, Pcs
<1>3. Shape'
  BY <1>1 DEF Shape, Moves, Keeps
<1>4. Verified'
  BY <1>1 DEF Shape, Verified, Busy, Current, Sessions, Moves, Keeps
<1>5. Sessions'
  BY <1>1 DEF TypeOK, Sessions, Moves, Keeps
<1>6. RegisteredIsKnown'
  BY <1>1 DEF TypeOK, RegisteredIsKnown, Live, Mine, Moves, Keeps
<1> QED
  BY <1>2, <1>3, <1>4, <1>5, <1>6

\* An operation probes the runtime.
LEMMA ProbeInv ==
    ASSUME IndInv, NEW o \in Ops, Probe(o)
    PROVE  IndInv'
<1> USE ProcessAssumption, BoundAssumption
    DEF Probe, IndInv, session, task, At
<1>1. Moves(o, op[o].stage, IF alive THEN "admit" ELSE "fail")
  BY GoMoves DEF Pcs
<1>2. TypeOK'
  BY <1>1 DEF TypeOK, Stages, Moves, Keeps, OpType, EntryType, Pcs
<1>3. Shape'
  BY <1>1 DEF Shape, Moves, Keeps
<1>4. Verified'
  BY <1>1 DEF Shape, Verified, Busy, Current, Sessions, Moves, Keeps
<1>5. Sessions'
  BY <1>1 DEF TypeOK, Sessions, Moves, Keeps
<1>6. RegisteredIsKnown'
  BY <1>1 DEF TypeOK, RegisteredIsKnown, Live, Mine, Moves, Keeps
<1> QED
  BY <1>2, <1>3, <1>4, <1>5, <1>6

\* An effect is refused.
LEMMA RefusedInv ==
    ASSUME IndInv, NEW o \in Ops, Refused(o)
    PROVE  IndInv'
<1> USE ProcessAssumption, BoundAssumption
    DEF Refused, IndInv, session, task, At
<1>1. Moves(o, op[o].stage, "fail")
  BY GoMoves DEF Pcs
<1>2. TypeOK'
  BY <1>1 DEF TypeOK, Stages, Moves, Keeps, OpType, EntryType, Pcs
<1>3. Shape'
  BY <1>1 DEF Shape, Moves, Keeps
<1>4. Verified'
  BY <1>1 DEF Shape, Verified, Busy, Current, Sessions, Moves, Keeps
<1>5. Sessions'
  BY <1>1 DEF TypeOK, Sessions, Moves, Keeps
<1>6. RegisteredIsKnown'
  BY <1>1 DEF TypeOK, RegisteredIsKnown, Live, Mine, Moves, Keeps
<1> QED
  BY <1>2, <1>3, <1>4, <1>5, <1>6

\* The record is accepted.
LEMMA AcceptInv ==
    ASSUME IndInv, NEW o \in Ops, Accept(o)
    PROVE  IndInv'
<1> USE ProcessAssumption, BoundAssumption
    DEF Accept, IndInv, session, task, At
<1>1. Moves(o, "operation", "check")
  BY EnterMoves DEF Stages
<1>2. Keeps
  BY DroppedKeeps
<1>3. TypeOK'
  BY <1>1, <1>2 DEF TypeOK, Stages, Moves, Keeps, OpType, EntryType, Pcs
<1>4. Shape'
  BY <1>1, <1>2 DEF TypeOK, Shape, Moves, Keeps
<1>5. Verified'
  BY <1>1, <1>2 DEF Shape, Verified, Busy, Current, Sessions, Moves, Keeps
<1>6. Sessions'
  BY <1>1, <1>2 DEF TypeOK, Sessions, Moves, Keeps
<1>7. RegisteredIsKnown'
  BY <1>1, <1>2 DEF TypeOK, RegisteredIsKnown, Live, Mine, Moves, Keeps
<1> QED
  BY <1>3, <1>4, <1>5, <1>6, <1>7

\* The child is spawned.
LEMMA SpawnInv ==
    ASSUME IndInv, NEW o \in Ops, Spawn(o)
    PROVE  IndInv'
<1> USE ProcessAssumption, BoundAssumption
    DEF Spawn, IndInv, session, task, At
<1>1. Moves(o, "request", "check")
  BY EnterMoves DEF Stages
<1>2. TypeOK'
  BY <1>1 DEF TypeOK, Stages, Moves, Keeps, OpType, EntryType, Pcs
<1>3. Shape'
  BY <1>1 DEF Shape, Moves, Keeps
<1>4. Verified'
  BY <1>1 DEF Shape, Verified, Busy, Current, Sessions, Moves, Keeps
<1>5. Sessions'
  BY <1>1 DEF TypeOK, Sessions, Moves, Keeps
<1>6. RegisteredIsKnown'
  BY <1>1 DEF TypeOK, RegisteredIsKnown, Live, Mine, Moves, Keeps
<1> QED
  BY <1>2, <1>3, <1>4, <1>5, <1>6

\* A request is sent to the child.
LEMMA SendInv ==
    ASSUME IndInv, NEW o \in Ops, Send(o)
    PROVE  IndInv'
<1> USE ProcessAssumption, BoundAssumption
    DEF Send, IndInv, session, task, At
<1>1. Moves(o, op[o].stage, "wait")
  BY GoMoves DEF Pcs
<1>2. TypeOK'
  BY <1>1 DEF TypeOK, Stages, Moves, Keeps, OpType, EntryType, Pcs
<1>3. Shape'
  BY <1>1 DEF Shape, Moves, Keeps
<1>4. Verified'
  BY <1>1 DEF Shape, Verified, Busy, Current, Sessions, Moves, Keeps
<1>5. Sessions'
  BY <1>1 DEF TypeOK, Sessions, Moves, Keeps
<1>6. RegisteredIsKnown'
  BY <1>1 DEF TypeOK, RegisteredIsKnown, Live, Mine, Moves, Keeps
<1> QED
  BY <1>2, <1>3, <1>4, <1>5, <1>6

\* The runtime is registered.
LEMMA InsertInv ==
    ASSUME IndInv, NEW o \in Ops, Insert(o)
    PROVE  IndInv'
<1> USE ProcessAssumption, BoundAssumption
    DEF Insert, IndInv, session, task, At
<1>1. Moves(o, op[o].stage, "done")
  BY GoMoves DEF Pcs
<1>2. Keeps
  BY DroppedKeeps
<1>3. TypeOK'
  BY <1>1, <1>2 DEF TypeOK, Stages, Moves, Keeps, OpType, EntryType, Pcs
<1>4. Shape'
  BY <1>1, <1>2 DEF Shape, Moves, Keeps
<1>5. Verified'
  BY <1>1, <1>2 DEF Shape, Verified, Busy, Current, Sessions, Moves, Keeps
<1>6. Sessions'
  BY <1>1, <1>2 DEF TypeOK, Sessions, Moves, Keeps
<1>7. RegisteredIsKnown'
  BY <1>1, <1>2 DEF TypeOK, RegisteredIsKnown, Live, Mine, Moves, Keeps
<1> QED
  BY <1>3, <1>4, <1>5, <1>6, <1>7

\* An operation fails.
LEMMA FailInv ==
    ASSUME IndInv, NEW o \in Ops, Fail(o)
    PROVE  IndInv'
<1> USE ProcessAssumption, BoundAssumption
    DEF Fail, IndInv, session, task, At
<1>1. Moves(o, op[o].stage, "done")
  BY GoMoves DEF Pcs
<1>2. Keeps
  BY DroppedKeeps
<1>9. PICK status \in AfterFailure(o) : rec' = [rec EXCEPT ![o] = status]
  OBVIOUS
<1>10. /\ status \in {"none", "accepted", "running", "retryable_failed",
                      "reconciliation_required", "failed", "interrupted"}
       /\ status = "none" <=> rec[o] = "none"
       /\ \A x \in Ops : rec'[x] = "none" <=> rec[x] = "none"
  BY <1>9 DEF TypeOK, AfterFailure, Terminal, Shape
<1>3. TypeOK'
  BY <1>1, <1>2, <1>9, <1>10 DEF TypeOK, Stages, Moves, Keeps, OpType, EntryType, Pcs
<1>4. Shape'
  BY <1>1, <1>2, <1>9, <1>10 DEF Shape, Moves, Keeps
<1>5. Verified'
  BY <1>1, <1>2, <1>9, <1>10 DEF Shape, Verified, Busy, Current, Sessions, Moves, Keeps
<1>6. Sessions'
  BY <1>1, <1>2, <1>9, <1>10 DEF TypeOK, Sessions, Moves, Keeps
<1>7. RegisteredIsKnown'
  BY <1>1, <1>2, <1>9, <1>10 DEF TypeOK, RegisteredIsKnown, Live, Mine, Moves, Keeps
<1> QED
  BY <1>3, <1>4, <1>5, <1>6, <1>7

\* A child dies.
LEMMA ChildDiesInv ==
    ASSUME IndInv, NEW o \in Ops, ChildDies(o)
    PROVE  IndInv'
<1> USE ProcessAssumption, BoundAssumption
    DEF ChildDies, IndInv, session, task, At
<1>1. TypeOK'
  BY DEF TypeOK, Stages
<1>2. Shape'
  BY DEF Shape
<1>3. Verified'
  BY DEF Shape, Verified, Busy, Current, Sessions
<1>4. Sessions'
  BY DEF TypeOK, Sessions
<1>5. RegisteredIsKnown'
  BY DEF TypeOK, RegisteredIsKnown, Live, Mine
<1> QED
  BY <1>1, <1>2, <1>3, <1>4, <1>5

\* A stop is asked for.
LEMMA StopAskedInv ==
    ASSUME IndInv, StopAsked
    PROVE  IndInv'
<1> USE ProcessAssumption, BoundAssumption
    DEF StopAsked, IndInv, session, task, At
<1>1. Keeps
  BY BeginKeeps DEF TypeOK
<1>2. TypeOK'
  BY <1>1 DEF TypeOK, Stages, Moves, Keeps, OpType, EntryType, Pcs
<1>3. Shape'
  BY <1>1 DEF Shape, Moves, Keeps
<1>4. Verified'
  BY <1>1 DEF Shape, Verified, Busy, Current, Sessions, Moves, Keeps
<1>5. Sessions'
  BY <1>1 DEF TypeOK, Sessions, Moves, Keeps
<1>6. RegisteredIsKnown'
  BY <1>1 DEF TypeOK, RegisteredIsKnown, Live, Mine, Moves, Keeps
<1> QED
  BY <1>2, <1>3, <1>4, <1>5, <1>6

\* The runtime of the session ends.
LEMMA EndInv ==
    ASSUME IndInv, End
    PROVE  IndInv'
<1> USE ProcessAssumption, BoundAssumption
    DEF End, IndInv, session, task, At
<1>1. TypeOK'
  BY DEF TypeOK, Stages
<1>2. Shape'
  BY DEF Shape
<1>3. Verified'
  BY DEF Shape, Verified, Busy, Current, Sessions
<1>4. Sessions'
  BY DEF TypeOK, Sessions
<1>5. RegisteredIsKnown'
  BY DEF TypeOK, RegisteredIsKnown, Live, Mine
<1> QED
  BY <1>1, <1>2, <1>3, <1>4, <1>5

\* The join task fences the instance.
LEMMA FenceInv ==
    ASSUME IndInv, Fence
    PROVE  IndInv'
<1> USE ProcessAssumption, BoundAssumption
    DEF Fence, IndInv, session, task, At
<1>1. Keeps /\ entry'[Host][cur].here
  BY BeginKeeps DEF TypeOK
<1>2. TypeOK'
  BY <1>1 DEF TypeOK, Stages, Moves, Keeps, OpType, EntryType, Pcs
<1>3. Shape'
  BY <1>1 DEF Shape, Moves, Keeps
<1>4. Verified'
  BY <1>1 DEF Shape, Verified, Busy, Current, Sessions, Moves, Keeps
<1>5. Sessions'
  BY <1>1 DEF TypeOK, Sessions, Moves, Keeps
<1>6. RegisteredIsKnown'
  BY <1>1 DEF TypeOK, RegisteredIsKnown, Live, Mine, Moves, Keeps
<1> QED
  BY <1>2, <1>3, <1>4, <1>5, <1>6

\* The supervisor has waited for the permits.
LEMMA DrainInv ==
    ASSUME IndInv, Drain
    PROVE  IndInv'
<1> USE ProcessAssumption, BoundAssumption
    DEF Drain, IndInv, session, task, At
<1>1. TypeOK'
  BY DEF TypeOK, Stages
<1>2. Shape'
  BY DEF Shape
<1>3. Verified'
  BY DEF Shape, Verified, Busy, Current, Sessions
<1>4. Sessions'
  BY DEF TypeOK, Sessions
<1>5. RegisteredIsKnown'
  BY DEF TypeOK, RegisteredIsKnown, Live, Mine
<1> QED
  BY <1>1, <1>2, <1>3, <1>4, <1>5

\* The supervisor gives up.
LEMMA TimeOutInv ==
    ASSUME IndInv, TimeOut
    PROVE  IndInv'
<1> USE ProcessAssumption, BoundAssumption
    DEF TimeOut, IndInv, session, task, At
<1>1. TypeOK'
  BY DEF TypeOK, Stages
<1>2. Shape'
  BY DEF Shape
<1>3. Verified'
  BY DEF Shape, Verified, Busy, Current, Sessions
<1>4. Sessions'
  BY DEF TypeOK, Sessions
<1>5. RegisteredIsKnown'
  BY DEF TypeOK, RegisteredIsKnown, Live, Mine
<1> QED
  BY <1>1, <1>2, <1>3, <1>4, <1>5

\* A monitor sees the end of the instance.
LEMMA ObserveInv ==
    ASSUME IndInv, NEW o \in Ops, Observe(o)
    PROVE  IndInv'
<1> USE ProcessAssumption, BoundAssumption
    DEF Observe, IndInv, session, task, At
<1>1. Keeps
  BY BeginKeeps DEF TypeOK
<1>2. TypeOK'
  BY <1>1 DEF TypeOK, Stages, Moves, Keeps, OpType, EntryType, Pcs
<1>3. Shape'
  BY <1>1 DEF Shape, Moves, Keeps
<1>4. Verified'
  BY <1>1 DEF Shape, Verified, Busy, Current, Sessions, Moves, Keeps
<1>5. Sessions'
  BY <1>1 DEF TypeOK, Sessions, Moves, Keeps
<1>6. RegisteredIsKnown'
  BY <1>1 DEF TypeOK, RegisteredIsKnown, Live, Mine, Moves, Keeps
<1> QED
  BY <1>2, <1>3, <1>4, <1>5, <1>6

\* A monitor takes its runtime down.
LEMMA TakeInv ==
    ASSUME IndInv, NEW o \in Ops, Take(o)
    PROVE  IndInv'
<1> USE ProcessAssumption, BoundAssumption
    DEF Take, TakeDown, IndInv, session, task, At
<1>1. TypeOK'
  BY DEF TypeOK, Stages
<1>2. Shape'
  BY DEF TypeOK, Shape
<1>3. Verified'
  BY DEF TypeOK, Shape, Verified, Busy, Current, Sessions
<1>4. Sessions'
  BY DEF TypeOK, Sessions
<1>5. RegisteredIsKnown'
  BY DEF TypeOK, RegisteredIsKnown, Live, Mine
<1> QED
  BY <1>1, <1>2, <1>3, <1>4, <1>5

\* A child's lifetime is over.
LEMMA ExpireInv ==
    ASSUME IndInv, NEW o \in Ops, Expire(o)
    PROVE  IndInv'
<1> USE ProcessAssumption, BoundAssumption
    DEF Expire, TakeDown, IndInv, session, task, At
<1>1. TypeOK'
  BY DEF TypeOK, Stages
<1>2. Shape'
  BY DEF TypeOK, Shape
<1>3. Verified'
  BY DEF TypeOK, Shape, Verified, Busy, Current, Sessions
<1>4. Sessions'
  BY DEF TypeOK, Sessions
<1>5. RegisteredIsKnown'
  BY DEF TypeOK, RegisteredIsKnown, Live, Mine
<1> QED
  BY <1>1, <1>2, <1>3, <1>4, <1>5

\* A monitor has waited for the permits.
LEMMA MonitorDrainInv ==
    ASSUME IndInv, NEW o \in Ops, MonitorDrain(o)
    PROVE  IndInv'
<1> USE ProcessAssumption, BoundAssumption
    DEF MonitorDrain, IndInv, session, task, At
<1>1. TypeOK'
  BY DEF TypeOK, Stages
<1>2. Shape'
  BY DEF Shape
<1>3. Verified'
  BY DEF Shape, Verified, Busy, Current, Sessions
<1>4. Sessions'
  BY DEF TypeOK, Sessions
<1>5. RegisteredIsKnown'
  BY DEF TypeOK, RegisteredIsKnown, Live, Mine
<1> QED
  BY <1>1, <1>2, <1>3, <1>4, <1>5

\* An operation begins.
LEMMA StartInv ==
    ASSUME IndInv, NEW o \in Ops, NEW p \in Procs, Start(o, p)
    PROVE  IndInv'
<1> USE DEF IndInv
<1>0. /\ op[o].pc = "idle" /\ op' = [op EXCEPT ![o].pc = "check", ![o].n = cur, ![o].p = p]
      /\ UNCHANGED <<cur, alive, named, sup, entry, rec, child, regd, mon, cleaned, late>>
  BY DEF Start, At, session, task
<1>1. op \in OpType
  BY DEF TypeOK, OpType, Pcs
<1> DEFINE one == [op EXCEPT ![o].pc = "check"]
           two == [one EXCEPT ![o].n = cur]
<1>2. /\ one \in OpType /\ one[o].stage = op[o].stage /\ one[o].pc = "check"
      /\ \A x \in Ops : x # o => one[x] = op[x]
  BY <1>1 DEF OpType, Pcs
<1> HIDE DEF one
<1>3. /\ two \in OpType /\ two[o].stage = op[o].stage /\ two[o].pc = "check" /\ two[o].n = cur
      /\ \A x \in Ops : x # o => two[x] = op[x]
  <2>1. cur \in Inst
    BY DEF TypeOK
  <2> QED
    BY <1>2, <2>1 DEF OpType
<1>4. op' = [two EXCEPT ![o].p = p]
  BY <1>0 DEF one
<1> HIDE DEF two
<1>5. /\ op' \in OpType /\ op'[o].stage = "accept" /\ op'[o].pc = "check" /\ op'[o].n = cur
      /\ \A x \in Ops : x # o => op'[x] = op[x]
  <2>1. op[o].stage = "accept"
    BY <1>0 DEF Shape
  <2> QED
    BY <1>3, <1>4, <2>1 DEF OpType
<1>6. mon[o] = "none" /\ ~regd[o] /\ ~child[o]
  BY <1>0 DEF Shape
<1>7. TypeOK'
  BY <1>0, <1>5 DEF TypeOK, OpType, Pcs
<1>8. Shape'
  BY <1>0, <1>5, <1>6 DEF TypeOK, Shape, Inst
<1>9. Verified'
  <2>1. /\ ~(child'[o] \/ regd'[o]) /\ op'[o].stage \notin {"operation", "spawn", "request", "insert"}
        /\ UNCHANGED <<child, regd, cur, cleaned>>
    BY <1>0, <1>5, <1>6
  <2> SUFFICES ASSUME NEW x \in Ops, x # o PROVE Verified!(x)'
    BY <2>1 DEF Verified
  <2>2. op'[x] = op[x]
    BY <1>5
  <2> QED
    BY <2>1, <2>2 DEF Verified, Busy, Current
<1>10. Sessions'
  BY <1>0, <1>5, <1>6 DEF Sessions
<1>11. RegisteredIsKnown'
  BY <1>0, <1>5, <1>6 DEF RegisteredIsKnown
<1> QED
  BY <1>7, <1>8, <1>9, <1>10, <1>11

\* An operation gets its permit, or is refused.
LEMMA AdmitInv ==
    ASSUME IndInv, NEW o \in Ops, Admit(o)
    PROVE  IndInv'
<1> USE ProcessAssumption, BoundAssumption DEF Admit, IndInv, session, task, At
<1>1. CASE Mine(o).closing
  <2>1. Moves(o, op[o].stage, "fail")
    BY <1>1, GoMoves DEF Pcs
  <2>2. UNCHANGED entry
    BY <1>1
  <2>3. TypeOK'
    BY <2>1, <2>2 DEF TypeOK, Moves, OpType, Pcs
  <2>4. Shape' /\ Verified' /\ Sessions' /\ RegisteredIsKnown'
    BY <2>1, <2>2 DEF Shape, Verified, Busy, Current, Sessions, RegisteredIsKnown, Moves
  <2> QED
    BY <2>3, <2>4
<1>2. CASE ~Mine(o).closing
  <2>1. Keeps
    <3> DEFINE q == op[o].p
               m == op[o].n
               new == [Open EXCEPT !.permits = Mine(o).permits \cup {o}]
    <3>1. q \in Procs /\ m \in Inst
      BY DEF TypeOK
    <3>2. entry \in EntryType
      BY DEF TypeOK, EntryType
    <3>3. Mine(o).permits \in SUBSET Ops
      BY <3>1, <3>2 DEF Mine, EntryType
    <3>4. new \in [here : BOOLEAN, closing : BOOLEAN, permits : SUBSET Ops] /\ new.here
      BY <3>3 DEF Open
    <3>5. entry' = [entry EXCEPT ![q][m] = new]
      BY <1>2
    <3> HIDE DEF q, m, new
    <3> QED
      BY <3>1, <3>2, <3>4, <3>5 DEF Keeps, EntryType
  <2>2. CASE op[o].stage = "operation"
    <3>1. Moves(o, "spawn", "check")
      BY <1>2, <2>2, EnterMoves DEF Stages
    <3>2. TypeOK'
      BY <2>1, <3>1 DEF TypeOK, Moves, Keeps, OpType, EntryType, Pcs
    <3>3. Shape' /\ Verified'
      BY <2>2, <3>1 DEF Shape, Verified, Busy, Current, Moves
    <3>4. Sessions' /\ RegisteredIsKnown'
      BY <2>1, <3>1 DEF TypeOK, Sessions, RegisteredIsKnown, Moves, Keeps
    <3> QED
      BY <3>2, <3>3, <3>4
  <2>3. CASE op[o].stage # "operation"
    <3>1. Moves(o, op[o].stage, "act")
      BY <1>2, <2>3, GoMoves DEF Pcs
    <3>2. TypeOK'
      BY <2>1, <3>1 DEF TypeOK, Moves, Keeps, OpType, EntryType, Pcs
    <3>3. Shape' /\ Verified'
      BY <2>3, <3>1 DEF Shape, Verified, Busy, Current, Moves
    <3>4. Sessions' /\ RegisteredIsKnown'
      BY <2>1, <3>1 DEF TypeOK, Sessions, RegisteredIsKnown, Moves, Keeps
    <3> QED
      BY <3>2, <3>3, <3>4
  <2> QED
    BY <2>2, <2>3
<1> QED
  BY <1>1, <1>2

\* The child replies, or does not.
LEMMA ReplyInv ==
    ASSUME IndInv, NEW o \in Ops, Reply(o)
    PROVE  IndInv'
<1> USE ProcessAssumption, BoundAssumption DEF Reply, IndInv, session, task, At
<1>1. CASE Go(o, "fail") /\ UNCHANGED rec
  <2>1. Moves(o, op[o].stage, "fail")
    BY <1>1, GoMoves DEF Pcs
  <2>2. TypeOK'
    BY <1>1, <2>1 DEF TypeOK, Moves, OpType, Pcs
  <2>3. Shape' /\ Verified' /\ Sessions' /\ RegisteredIsKnown'
    BY <1>1, <2>1 DEF Shape, Verified, Busy, Current, Sessions, RegisteredIsKnown, Moves
  <2> QED
    BY <2>2, <2>3
<1>2. CASE /\ child[o] /\ Live(o)
           /\ rec' = [rec EXCEPT ![o] = IF Terminal(@) THEN @ ELSE "running"]
           /\ Enter(o, "insert")
  <2>1. Moves(o, "insert", "check")
    BY <1>2, EnterMoves DEF Stages
  <2>2. TypeOK'
    BY <1>2, <2>1 DEF TypeOK, Moves, OpType, Pcs
  <2>3. rec'[o] # "none" /\ \A x \in Ops : x # o => rec'[x] = rec[x]
    BY <1>2 DEF TypeOK, Terminal
  <2>4. Shape' /\ Verified' /\ Sessions' /\ RegisteredIsKnown'
    BY <1>2, <2>1, <2>3 DEF Shape, Verified, Busy, Current, Sessions, RegisteredIsKnown, Moves
  <2> QED
    BY <2>2, <2>4
<1> QED
  BY <1>1, <1>2

\* The registered runtimes of the instance are shut down.
LEMMA ShutInv ==
    ASSUME IndInv, Shut
    PROVE  IndInv'
<1> USE ProcessAssumption, BoundAssumption DEF Shut, IndInv, session, task
<1>1. Keeps /\ entry'[Host][cur].here
  BY BeginKeeps DEF TypeOK
<1>2. child' \in [Ops -> BOOLEAN] /\ regd' \in [Ops -> BOOLEAN]
  OBVIOUS
<1>3. \A o \in Ops : (child'[o] => child[o]) /\ (regd'[o] => regd[o])
  OBVIOUS
<1>4. TypeOK'
  BY <1>1, <1>2 DEF TypeOK, Keeps, EntryType
<1>5. Shape' /\ Verified'
  BY <1>3 DEF Shape, Verified, Busy, Current
<1>6. Sessions'
  BY <1>1 DEF TypeOK, Sessions, Keeps
<1>7. RegisteredIsKnown'
  BY <1>1, <1>3 DEF TypeOK, RegisteredIsKnown, Keeps
<1> QED
  BY <1>4, <1>5, <1>6, <1>7

-----------------------------------------------------------------------------
(* The end of a cleanup, by the supervisor or by a monitor. *)

\* Finalizing changes no record that has none, and keeps the others.
LEMMA FinalizedRecords ==
    ASSUME TypeOK, Shape, NEW n \in Inst, rec' = Finalized(n), UNCHANGED <<op, child, regd>>
    PROVE  /\ rec' \in [Ops -> {"none", "accepted", "running", "retryable_failed",
                                "reconciliation_required", "failed", "interrupted"}]
           /\ \A o \in Ops : rec[o] # "none" => rec'[o] # "none"
BY DEF TypeOK, Shape, Finalized, Owned

\* What is left when no lease of n is held: nothing that has or may get a child.
LEMMA NothingDeferred ==
    ASSUME TypeOK, Shape, NEW n \in Inst, ~Deferred(n), NEW o \in Ops, op[o].n = n
    PROVE  ~child[o] /\ ~regd[o] /\ (op[o].stage = "accept" \/ ~Busy(o))
BY DEF TypeOK, Shape, Deferred, Owned, LeaseHeld, Busy

\* Finishing the cleanup of an instance that does not run keeps the invariant.
LEMMA FinishInv ==
    ASSUME IndInv, NEW p \in Procs, NEW n \in Inst, ~Deferred(n), Finish(p, n), n <= cur,
           ~(n = cur /\ alive), rec' = Finalized(n),
           UNCHANGED <<cur, alive, named, op, child, regd, late>>,
           sup' \in {sup, "cleaned"}, sup' = "cleaned" => sup = "cleaned" \/ (p = Host /\ n = cur),
           \A o \in Ops : mon'[o] \in {mon[o], "over"}, mon' \in [Ops -> {"none", "watch", "take", "drain", "finalize", "over"}],
           \A o \in Ops : mon[o] = "none" => mon'[o] = "none"
    PROVE  IndInv'
<1> USE ProcessAssumption, BoundAssumption DEF IndInv, Finish
<1>1. Absent \in [here : BOOLEAN, closing : BOOLEAN, permits : SUBSET Ops]
  BY DEF Absent
<1>2. /\ entry' \in EntryType
      /\ \A q \in Procs, m \in Inst : q # p \/ m # n => entry'[q][m] = entry[q][m]
  BY <1>1 DEF TypeOK, EntryType
<1>3. cleaned \subseteq cleaned' /\ cleaned' \subseteq cleaned \cup {n} /\ (p = Host => n \in cleaned')
  OBVIOUS
<1>4. \A o \in Ops : op[o].n = n => ~child[o] /\ ~regd[o] /\ (op[o].stage = "accept" \/ ~Busy(o))
  BY NothingDeferred
<1>5. TypeOK'
  BY <1>2, <1>3, FinalizedRecords DEF TypeOK, EntryType
<1>6. \A o \in Ops : rec[o] # "none" => rec'[o] # "none"
  BY FinalizedRecords
<1>7. Shape'
  BY <1>6 DEF Shape
<1>8. Verified'
  BY <1>3, <1>4 DEF Verified, Busy, Current
<1>9. Sessions'
  BY <1>2, <1>3 DEF TypeOK, Sessions
<1>10. RegisteredIsKnown'
  BY <1>2, <1>4 DEF TypeOK, RegisteredIsKnown
<1> QED
  BY <1>5, <1>7, <1>8, <1>9, <1>10

\* The supervisor finalizes the records of the current instance.
LEMMA FinalizeInv ==
    ASSUME IndInv, Finalize
    PROVE  IndInv'
<1> USE ProcessAssumption, BoundAssumption DEF Finalize, IndInv
<1>1. cur \in Inst /\ ~alive /\ cur <= cur
  BY DEF TypeOK, Sessions, Inst
<1>2. CASE ~Deferred(cur) /\ Drained(Host, cur)
  <2>1. Finish(Host, cur) /\ sup' = "cleaned" /\ UNCHANGED mon
    BY <1>2
  <2>2. mon' \in [Ops -> {"none", "watch", "take", "drain", "finalize", "over"}]
    BY <2>1 DEF TypeOK
  <2> QED
    BY <1>1, <1>2, <2>1, <2>2, FinishInv
<1>3. CASE Deferred(cur) \/ ~Drained(Host, cur)
  <2>1. UNCHANGED <<entry, cleaned>> /\ sup' \in {"finalize", "failed"}
    BY <1>3
  <2>2. /\ rec' \in [Ops -> {"none", "accepted", "running", "retryable_failed",
                              "reconciliation_required", "failed", "interrupted"}]
        /\ \A o \in Ops : rec[o] # "none" => rec'[o] # "none"
    BY <1>1, FinalizedRecords
  <2>3. TypeOK'
    BY <2>1, <2>2 DEF TypeOK
  <2>4. Shape' /\ Verified' /\ RegisteredIsKnown'
    BY <2>1, <2>2 DEF Shape, Verified, Busy, Current, RegisteredIsKnown
  <2>5. Sessions'
    BY <1>1, <2>1 DEF Sessions
  <2> QED
    BY <2>3, <2>4, <2>5
<1> QED
  BY <1>2, <1>3

\* A monitor finalizes the records of its instance.
LEMMA MonitorFinalizeInv ==
    ASSUME IndInv, NEW o \in Ops, MonitorFinalize(o)
    PROVE  IndInv'
<1> USE ProcessAssumption, BoundAssumption DEF MonitorFinalize, IndInv, session
<1> DEFINE n == op[o].n
           p == op[o].p
<1>1. n \in Inst /\ p \in Procs /\ n <= cur /\ ~(n = cur /\ alive)
  BY DEF TypeOK, Shape, Sessions
<1>2. CASE ~Deferred(n) /\ Drained(p, n)
  <2>1. Finish(p, n) /\ mon' = [mon EXCEPT ![o] = "over"] /\ rec' = Finalized(n)
    BY <1>2
  <2>2. /\ mon' \in [Ops -> {"none", "watch", "take", "drain", "finalize", "over"}]
        /\ \A x \in Ops : mon'[x] \in {mon[x], "over"}
        /\ \A x \in Ops : mon[x] = "none" => mon'[x] = "none"
    BY <2>1 DEF TypeOK
  <2>3. UNCHANGED <<cur, alive, named, op, child, regd, late, sup>>
    OBVIOUS
  <2> HIDE DEF n, p
  <2> QED
    BY <1>1, <1>2, <2>1, <2>2, <2>3, FinishInv
<1>3. CASE Deferred(n) \/ ~Drained(p, n)
  <2>1. UNCHANGED <<entry, cleaned, sup, cur, alive, named, op, child, regd, late>>
    BY <1>3
  <2>2. /\ mon' \in [Ops -> {"none", "watch", "take", "drain", "finalize", "over"}]
        /\ mon'[o] \in {"drain", "finalize"} /\ \A x \in Ops : x # o => mon'[x] = mon[x]
    BY <1>3 DEF TypeOK
  <2>3. /\ rec' \in [Ops -> {"none", "accepted", "running", "retryable_failed",
                              "reconciliation_required", "failed", "interrupted"}]
        /\ \A x \in Ops : rec[x] # "none" => rec'[x] # "none"
    BY <1>1, <2>1, FinalizedRecords
  <2>4. TypeOK'
    BY <2>1, <2>2, <2>3 DEF TypeOK
  <2>5. Shape'
    BY <2>1, <2>2, <2>3 DEF Shape
  <2>6. Verified' /\ RegisteredIsKnown'
    BY <2>1 DEF Verified, Busy, Current, RegisteredIsKnown
  <2>7. Sessions'
    BY <1>1, <2>1, <2>2 DEF Sessions
  <2> QED
    BY <2>4, <2>5, <2>6, <2>7
<1> QED
  BY <1>2, <1>3

\* The next instance starts: the entry of the last one is gone, so its cleanup
\* was finished.
LEMMA ReplaceInv ==
    ASSUME IndInv, Replace
    PROVE  IndInv'
<1> USE ProcessAssumption, BoundAssumption DEF Replace, IndInv, task
<1>1. cur \in cleaned
  BY DEF ReplacementAllowed, TypeOK, Sessions
<1>2. cur \in Nat /\ cur' = cur + 1 /\ cur' \in Inst
  BY DEF TypeOK, Inst
<1>3. \A o \in Ops : op[o].n \in Nat /\ op[o].n <= cur
  BY DEF TypeOK, Shape, Inst
<1>4. \A n \in cleaned : n \in Nat /\ n <= cur
  BY DEF TypeOK, Sessions, Inst
<1>5. TypeOK'
  BY <1>2 DEF TypeOK
<1>6. Shape'
  BY <1>2, <1>3 DEF Shape
<1>7. Verified'
  BY <1>1, <1>2, <1>3 DEF Verified, Busy, Current
<1>8. Sessions'
  BY <1>2, <1>3, <1>4 DEF Sessions
<1>9. RegisteredIsKnown'
  BY DEF RegisteredIsKnown
<1> QED
  BY <1>5, <1>6, <1>7, <1>8, <1>9

-----------------------------------------------------------------------------
(* The theorems. *)

\* Every step preserves the invariant.
LEMMA NextInv == IndInv /\ [Next]_vars => IndInv'
<1> SUFFICES ASSUME IndInv, [Next]_vars PROVE IndInv'
  OBVIOUS
<1>1. ASSUME NEW o \in Ops, NEW p \in Procs, Start(o, p) PROVE IndInv'
  BY <1>1, StartInv
<1>2. ASSUME NEW o \in Ops, Step(o) PROVE IndInv'
  BY <1>2, CheckInv, MetaInv, ProbeInv, AdmitInv, RefusedInv, AcceptInv, SpawnInv, SendInv,
     ReplyInv, InsertInv, FailInv DEF Step
<1>3. ASSUME NEW o \in Ops, ChildDies(o) \/ Watch(o) \/ Expire(o) PROVE IndInv'
  BY <1>3, ChildDiesInv, ObserveInv, TakeInv, MonitorDrainInv, MonitorFinalizeInv, ExpireInv
  DEF Watch
<1>4. CASE StopAsked \/ End \/ Cleanup \/ TimeOut \/ Replace
  BY <1>4, StopAskedInv, EndInv, FenceInv, ShutInv, DrainInv, FinalizeInv, TimeOutInv, ReplaceInv
  DEF Cleanup
<1>5. CASE UNCHANGED vars
  BY <1>5 DEF vars, session, task, IndInv, TypeOK, Shape, Verified, Busy, Current, Sessions,
              RegisteredIsKnown
<1> QED
  BY <1>1, <1>2, <1>3, <1>4, <1>5 DEF Next

\* The invariant holds in every reachable state.
LEMMA Invariance == Spec => []IndInv
BY InitInv, NextInv, PTL DEF Spec

\* Every reachable state of the lifecycle registry, the operations and the
\* supervisor's cleanup is well typed.
THEOREM TypeCorrect == Spec => []TypeOK
<1>1. IndInv => TypeOK
  BY DEF IndInv
<1> QED
  BY <1>1, Invariance, PTL

\* For any number of operations in any number of processes: once the cleanup of
\* an instance is finished (finish_session_shutdown at the host) no Codex child
\* of it lives or will ever be spawned, and none lives when another instance has
\* started.
THEOREM CleanupCorrect == Spec => []CleanedIsQuiet
<1>1. IndInv => CleanedIsQuiet
  BY DEF IndInv, Verified, Current, CleanedIsQuiet
<1> QED
  BY <1>1, Invariance, PTL

\* The registry entry of an instance outlasts every runtime registered for it:
\* no cleanup and no monitor removes it while one is left.
THEOREM RegistryCorrect == Spec => []RegisteredIsKnown
<1>1. IndInv => RegisteredIsKnown
  BY DEF IndInv
<1> QED
  BY <1>1, Invariance, PTL
=============================================================================
