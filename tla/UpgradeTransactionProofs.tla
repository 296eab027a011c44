---------------------- MODULE UpgradeTransactionProofs ----------------------
(***************************************************************************)
(* Proofs that the safety properties of UpgradeTransaction hold for every  *)
(* set of calls, of targets and every record limit.                        *)
(***************************************************************************)
EXTENDS UpgradeTransaction, FiniteSetTheorems, TLAPS

-----------------------------------------------------------------------------
(* The inductive invariant. *)

Owning == {"owning", "ready", "commit", "abort", "committing", "aborting", "running", "exiting"}
Committing == {"commit", "committing", "running"}
Unborn == {"idle", "admitted", "scanning", "marking", "starting"}

\* Who is at a step where the code holds the admission lock does hold it.
AdmissionHeld ==
  /\ \A a \in Applies : apply[a] \in Admitting => admission = a
  /\ upgrade # "idle" => admission = Local

\* A call that has written nothing has no record, socket or coordinator; a
\* coordinator, or a call past its write, has a record.
RecordExists ==
  \A a \in Applies :
    /\ apply[a] \in Unborn => state[a] = "absent" /\ stream[a] = "none" /\ child[a] = "none"
    /\ apply[a] = "spawning" => stream[a] = "none" /\ child[a] = "none"
    /\ apply[a] \in {"spawning", "awaiting", "failing", "holding"} \/ child[a] # "none"
         => state[a] # "absent"

\* What each end of the commit socket knows of the other.
StreamAgrees ==
  \A a \in Applies :
    /\ apply[a] = "awaiting" => stream[a] \in {"open", "ready"}
    /\ apply[a] = "holding" => stream[a] = "ready"
    /\ apply[a] = "failing" => stream[a] = "closed"
    /\ stream[a] \in {"open", "ready"} => apply[a] \in {"awaiting", "holding"}
    /\ stream[a] = "commit" => apply[a] = "done"
    /\ child[a] \in {"started", "owning"} => stream[a] \in {"open", "closed"}
    /\ child[a] = "ready" => stream[a] # "open"
    /\ child[a] \in Committing => stream[a] = "commit"

\* A lock file is locked exactly while its coordinator is past the acquisition.
LockIsOwned == \A t \in Applies : t \in lock <=> child[t] \in Owning

\* A coordinator about to commit, or running, works on the record it last wrote.
CopyIsRecord ==
  \A t \in Applies :
    /\ child[t] = "committing" => state[t] = "prepared" /\ copy[t] = "prepared"
    /\ child[t] = "running" => state[t] = copy[t] /\ state[t] \notin Terminal

\* A call that scans examines records of calls that left the admission; the one
\* it is about to terminalize can never reach COMMIT any more.
NeverCommits(t) ==
  /\ apply[t] \in {"holding", "done"}
  /\ child[t] \notin Committing
  /\ child[t] \in {"none", "gone"} \/ stream[t] = "closed"

ScanIsSafe ==
  \A b \in Applies :
    /\ apply[b] \in {"scanning", "marking"} =>
         \A t \in stale[b] : apply[t] \in {"holding", "done"} /\ state[t] # "absent"
    /\ apply[b] = "marking" =>
         mark[b] \in Applies /\ state[mark[b]] # "absent" /\ NeverCommits(mark[b])

\* Whoever is about to start an upgrade starts it alone, with a fresh sequence
\* and room for its record.
StartsAlone ==
  /\ \A a \in Applies : apply[a] = "starting" => Active = {}
  /\ upgrade = "applying" => Active = {}

SequenceIsFresh ==
  \A a \in Applies : apply[a] = "starting" => \A u \in Present : sequence[u] < sequence[a]

RoomForRecord ==
  \A a \in Applies : apply[a] = "starting" => Cardinality(Present) <= MaxTransactions

IndInv ==
  /\ TypeOK
  /\ AdmissionHeld
  /\ RecordExists
  /\ StreamAgrees
  /\ LockIsOwned
  /\ CopyIsRecord
  /\ ScanIsSafe
  /\ StartsAlone
  /\ SequenceIsFresh
  /\ RoomForRecord
  /\ OneActive
  /\ CommitAuthorized
  /\ ActiveIsNewest
  /\ RecordsBounded
\* A step that leaves the set of records alone, or adds the one it writes.
RecordsGrow == Present' = Present \/ \E b \in Applies : WritePrepared(b) /\ Present' = Present \cup {b}

\* A step after which a call starts only if it did before, or has just been admitted.
StartsByAdmit == \A b \in Applies : apply'[b] = "starting" => apply[b] = "starting" \/ Admit(b)

-----------------------------------------------------------------------------
(* Every step preserves the invariant. *)

\* Types are kept by every step.
LEMMA TypeStep ==
  TypeOK /\ [Next]_vars => TypeOK'
<1> SUFFICES ASSUME TypeOK, [Next]_vars PROVE TypeOK'
  OBVIOUS
<1> USE NameAssumption DEF TypeOK, States, Forward, Terminal, ApplyPC, ChildPC
<1>0. CASE UNCHANGED vars
  BY <1>0 DEF vars, records
<1>1. ASSUME NEW a \in Applies, AcquireAdmission(a) PROVE TypeOK'
  BY <1>1 DEF AcquireAdmission, records
<1>2. ASSUME NEW a \in Applies, LoadSnapshot(a) PROVE TypeOK'
  BY <1>2 DEF LoadSnapshot, Present, records
<1>3. ASSUME NEW a \in Applies, NEW t \in Applies, ProbeOwner(a, t) PROVE TypeOK'
  BY <1>3 DEF ProbeOwner, records
<1>4. ASSUME NEW a \in Applies, TerminalizeStale(a) PROVE TypeOK'
  BY <1>4 DEF TerminalizeStale, records
<1>5. ASSUME NEW a \in Applies, Admit(a) PROVE TypeOK'
  BY <1>5 DEF Admit, records
<1>6. ASSUME NEW a \in Applies, Refuse(a) PROVE TypeOK'
  BY <1>6 DEF Refuse, Return, Released, records
<1>7. ASSUME NEW a \in Applies, WritePrepared(a) PROVE TypeOK'
  BY <1>7 DEF WritePrepared, records
<1>8. ASSUME NEW a \in Applies, SpawnCoordinator(a) PROVE TypeOK'
  BY <1>8 DEF SpawnCoordinator, records
<1>9. ASSUME NEW a \in Applies, SpawnFails(a) PROVE TypeOK'
  BY <1>9 DEF SpawnFails, records
<1>10. ASSUME NEW a \in Applies, FailPrepared(a) PROVE TypeOK'
  BY <1>10 DEF FailPrepared, Released, records
<1>11. ASSUME NEW a \in Applies, ReceiveReady(a) PROVE TypeOK'
  BY <1>11 DEF ReceiveReady, Released, records
<1>12. ASSUME NEW a \in Applies, Commit(a) PROVE TypeOK'
  BY <1>12 DEF Commit, Decide, records
<1>13. ASSUME NEW a \in Applies, Abort(a) PROVE TypeOK'
  BY <1>13 DEF Abort, Decide, records
<1>14. ASSUME NEW a \in Applies, ApplyDies(a) PROVE TypeOK'
  BY <1>14 DEF ApplyDies, Released, records
<1>15. ASSUME NEW a \in Applies, AcquireTransactionLock(a) PROVE TypeOK'
  BY <1>15 DEF AcquireTransactionLock, records
<1>16. ASSUME NEW a \in Applies, SendReady(a) PROVE TypeOK'
  BY <1>16 DEF SendReady, records
<1>17. ASSUME NEW a \in Applies, ReadDecision(a) PROVE TypeOK'
  BY <1>17 DEF ReadDecision, records
<1>18. ASSUME NEW a \in Applies, ReadPrepared(a) PROVE TypeOK'
  BY <1>18 DEF ReadPrepared, records
<1>19. ASSUME NEW a \in Applies, AbortPersisted(a) PROVE TypeOK'
  BY <1>19 DEF AbortPersisted, Persist, records
<1>20. ASSUME NEW a \in Applies, CommitPersisted(a) PROVE TypeOK'
  BY <1>20 DEF CommitPersisted, Persist, records
<1>21. ASSUME NEW a \in Applies, PhaseSucceeds(a) PROVE TypeOK'
  BY <1>21 DEF PhaseSucceeds, Persist, Phases, records
<1>22. ASSUME NEW a \in Applies, PhaseFails(a) PROVE TypeOK'
  BY <1>22 DEF PhaseFails, Persist, records
<1>23. ASSUME NEW a \in Applies, ChildExits(a) PROVE TypeOK'
  BY <1>23 DEF ChildExits, records
<1>24. ASSUME NEW a \in Applies, ChildDies(a) PROVE TypeOK'
  BY <1>24 DEF ChildDies, records
<1>25. CASE LocalAcquire
  BY <1>25 DEF LocalAcquire, Released, records
<1>26. CASE LocalApply
  BY <1>26 DEF LocalApply, Released, records
<1>27. CASE LocalEnds
  BY <1>27 DEF LocalEnds, Released, records
<1> QED
  BY <1>0, <1>1, <1>2, <1>3, <1>4, <1>5, <1>6, <1>7, <1>8, <1>9, <1>10, <1>11, <1>12, <1>13, <1>14, <1>15, <1>16, <1>17, <1>18, <1>19, <1>20, <1>21, <1>22, <1>23, <1>24, <1>25, <1>26, <1>27 DEF Next, ApplyStep, TransportStep, ChildStep, LocalStep

\* The admission lock stays with the one call that is being admitted.
LEMMA AdmissionStep ==
  IndInv /\ [Next]_vars => AdmissionHeld'
<1> SUFFICES ASSUME IndInv, [Next]_vars PROVE AdmissionHeld'
  OBVIOUS
<1> USE NameAssumption DEF IndInv, TypeOK, AdmissionHeld, Admitting
<1>0. CASE UNCHANGED vars
  BY <1>0 DEF vars, records
<1>1. ASSUME NEW a \in Applies, AcquireAdmission(a) PROVE AdmissionHeld'
  BY <1>1 DEF AcquireAdmission, records
<1>2. ASSUME NEW a \in Applies, LoadSnapshot(a) PROVE AdmissionHeld'
  BY <1>2 DEF LoadSnapshot, Present, records
<1>3. ASSUME NEW a \in Applies, NEW t \in Applies, ProbeOwner(a, t) PROVE AdmissionHeld'
  BY <1>3 DEF ProbeOwner, records
<1>4. ASSUME NEW a \in Applies, TerminalizeStale(a) PROVE AdmissionHeld'
  BY <1>4 DEF TerminalizeStale, records
<1>5. ASSUME NEW a \in Applies, Admit(a) PROVE AdmissionHeld'
  BY <1>5 DEF Admit, records
<1>6. ASSUME NEW a \in Applies, Refuse(a) PROVE AdmissionHeld'
  BY <1>6 DEF Refuse, Return, Released, records
<1>7. ASSUME NEW a \in Applies, WritePrepared(a) PROVE AdmissionHeld'
  BY <1>7 DEF WritePrepared, records
<1>8. ASSUME NEW a \in Applies, SpawnCoordinator(a) PROVE AdmissionHeld'
  BY <1>8 DEF SpawnCoordinator, records
<1>9. ASSUME NEW a \in Applies, SpawnFails(a) PROVE AdmissionHeld'
  BY <1>9 DEF SpawnFails, records
<1>10. ASSUME NEW a \in Applies, FailPrepared(a) PROVE AdmissionHeld'
  BY <1>10 DEF FailPrepared, Released, records
<1>11. ASSUME NEW a \in Applies, ReceiveReady(a) PROVE AdmissionHeld'
  BY <1>11 DEF ReceiveReady, Released, records
<1>12. ASSUME NEW a \in Applies, Commit(a) PROVE AdmissionHeld'
  BY <1>12 DEF Commit, Decide, records
<1>13. ASSUME NEW a \in Applies, Abort(a) PROVE AdmissionHeld'
  BY <1>13 DEF Abort, Decide, records
<1>14. ASSUME NEW a \in Applies, ApplyDies(a) PROVE AdmissionHeld'
  BY <1>14 DEF ApplyDies, Released, records
<1>15. ASSUME NEW a \in Applies, AcquireTransactionLock(a) PROVE AdmissionHeld'
  BY <1>15 DEF AcquireTransactionLock, records
<1>16. ASSUME NEW a \in Applies, SendReady(a) PROVE AdmissionHeld'
  BY <1>16 DEF SendReady, records
<1>17. ASSUME NEW a \in Applies, ReadDecision(a) PROVE AdmissionHeld'
  BY <1>17 DEF ReadDecision, records
<1>18. ASSUME NEW a \in Applies, ReadPrepared(a) PROVE AdmissionHeld'
  BY <1>18 DEF ReadPrepared, records
<1>19. ASSUME NEW a \in Applies, AbortPersisted(a) PROVE AdmissionHeld'
  BY <1>19 DEF AbortPersisted, Persist, records
<1>20. ASSUME NEW a \in Applies, CommitPersisted(a) PROVE AdmissionHeld'
  BY <1>20 DEF CommitPersisted, Persist, records
<1>21. ASSUME NEW a \in Applies, PhaseSucceeds(a) PROVE AdmissionHeld'
  BY <1>21 DEF PhaseSucceeds, Persist, Phases, Forward, records
<1>22. ASSUME NEW a \in Applies, PhaseFails(a) PROVE AdmissionHeld'
  BY <1>22 DEF PhaseFails, Persist, records
<1>23. ASSUME NEW a \in Applies, ChildExits(a) PROVE AdmissionHeld'
  BY <1>23 DEF ChildExits, records
<1>24. ASSUME NEW a \in Applies, ChildDies(a) PROVE AdmissionHeld'
  BY <1>24 DEF ChildDies, records
<1>25. CASE LocalAcquire
  BY <1>25 DEF LocalAcquire, Released, records
<1>26. CASE LocalApply
  BY <1>26 DEF LocalApply, Released, records
<1>27. CASE LocalEnds
  BY <1>27 DEF LocalEnds, Released, records
<1> QED
  BY <1>0, <1>1, <1>2, <1>3, <1>4, <1>5, <1>6, <1>7, <1>8, <1>9, <1>10, <1>11, <1>12, <1>13, <1>14, <1>15, <1>16, <1>17, <1>18, <1>19, <1>20, <1>21, <1>22, <1>23, <1>24, <1>25, <1>26, <1>27 DEF Next, ApplyStep, TransportStep, ChildStep, LocalStep

\* Records appear with WritePrepared and never disappear.
LEMMA RecordStep ==
  IndInv /\ [Next]_vars => RecordExists'
<1> SUFFICES ASSUME IndInv, [Next]_vars PROVE RecordExists'
  OBVIOUS
<1> USE NameAssumption DEF IndInv, TypeOK, AdmissionHeld, RecordExists, Unborn
<1>0. CASE UNCHANGED vars
  BY <1>0 DEF vars, records
<1>1. ASSUME NEW a \in Applies, AcquireAdmission(a) PROVE RecordExists'
  BY <1>1 DEF AcquireAdmission, records
<1>2. ASSUME NEW a \in Applies, LoadSnapshot(a) PROVE RecordExists'
  BY <1>2 DEF LoadSnapshot, Present, records
<1>3. ASSUME NEW a \in Applies, NEW t \in Applies, ProbeOwner(a, t) PROVE RecordExists'
  BY <1>3 DEF ProbeOwner, records, ScanIsSafe
<1>4. ASSUME NEW a \in Applies, TerminalizeStale(a) PROVE RecordExists'
  BY <1>4 DEF TerminalizeStale, records, ScanIsSafe, NeverCommits, Admitting
<1>5. ASSUME NEW a \in Applies, Admit(a) PROVE RecordExists'
  BY <1>5 DEF Admit, records
<1>6. ASSUME NEW a \in Applies, Refuse(a) PROVE RecordExists'
  BY <1>6 DEF Refuse, Return, Released, records
<1>7. ASSUME NEW a \in Applies, WritePrepared(a) PROVE RecordExists'
  BY <1>7 DEF WritePrepared, records
<1>8. ASSUME NEW a \in Applies, SpawnCoordinator(a) PROVE RecordExists'
  BY <1>8 DEF SpawnCoordinator, records
<1>9. ASSUME NEW a \in Applies, SpawnFails(a) PROVE RecordExists'
  BY <1>9 DEF SpawnFails, records
<1>10. ASSUME NEW a \in Applies, FailPrepared(a) PROVE RecordExists'
  BY <1>10 DEF FailPrepared, Released, records
<1>11. ASSUME NEW a \in Applies, ReceiveReady(a) PROVE RecordExists'
  BY <1>11 DEF ReceiveReady, Released, records
<1>12. ASSUME NEW a \in Applies, Commit(a) PROVE RecordExists'
  BY <1>12 DEF Commit, Decide, records
<1>13. ASSUME NEW a \in Applies, Abort(a) PROVE RecordExists'
  BY <1>13 DEF Abort, Decide, records
<1>14. ASSUME NEW a \in Applies, ApplyDies(a) PROVE RecordExists'
  BY <1>14 DEF ApplyDies, Released, records
<1>15. ASSUME NEW a \in Applies, AcquireTransactionLock(a) PROVE RecordExists'
  BY <1>15 DEF AcquireTransactionLock, records
<1>16. ASSUME NEW a \in Applies, SendReady(a) PROVE RecordExists'
  BY <1>16 DEF SendReady, records
<1>17. ASSUME NEW a \in Applies, ReadDecision(a) PROVE RecordExists'
  BY <1>17 DEF ReadDecision, records
<1>18. ASSUME NEW a \in Applies, ReadPrepared(a) PROVE RecordExists'
  BY <1>18 DEF ReadPrepared, records
<1>19. ASSUME NEW a \in Applies, AbortPersisted(a) PROVE RecordExists'
  BY <1>19 DEF AbortPersisted, Persist, records
<1>20. ASSUME NEW a \in Applies, CommitPersisted(a) PROVE RecordExists'
  BY <1>20 DEF CommitPersisted, Persist, records
<1>21. ASSUME NEW a \in Applies, PhaseSucceeds(a) PROVE RecordExists'
  BY <1>21 DEF PhaseSucceeds, Persist, Phases, Forward, records
<1>22. ASSUME NEW a \in Applies, PhaseFails(a) PROVE RecordExists'
  BY <1>22 DEF PhaseFails, Persist, records
<1>23. ASSUME NEW a \in Applies, ChildExits(a) PROVE RecordExists'
  BY <1>23 DEF ChildExits, records
<1>24. ASSUME NEW a \in Applies, ChildDies(a) PROVE RecordExists'
  BY <1>24 DEF ChildDies, records
<1>25. CASE LocalAcquire
  BY <1>25 DEF LocalAcquire, Released, records
<1>26. CASE LocalApply
  BY <1>26 DEF LocalApply, Released, records
<1>27. CASE LocalEnds
  BY <1>27 DEF LocalEnds, Released, records
<1> QED
  BY <1>0, <1>1, <1>2, <1>3, <1>4, <1>5, <1>6, <1>7, <1>8, <1>9, <1>10, <1>11, <1>12, <1>13, <1>14, <1>15, <1>16, <1>17, <1>18, <1>19, <1>20, <1>21, <1>22, <1>23, <1>24, <1>25, <1>26, <1>27 DEF Next, ApplyStep, TransportStep, ChildStep, LocalStep

\* The two ends of the commit socket stay in agreement.
LEMMA StreamStep ==
  IndInv /\ [Next]_vars => StreamAgrees'
<1> SUFFICES ASSUME IndInv, [Next]_vars PROVE StreamAgrees'
  OBVIOUS
<1> USE NameAssumption DEF IndInv, TypeOK, RecordExists, StreamAgrees, Committing, Unborn
<1>0. CASE UNCHANGED vars
  BY <1>0 DEF vars, records
<1>1. ASSUME NEW a \in Applies, AcquireAdmission(a) PROVE StreamAgrees'
  BY <1>1 DEF AcquireAdmission, records
<1>2. ASSUME NEW a \in Applies, LoadSnapshot(a) PROVE StreamAgrees'
  BY <1>2 DEF LoadSnapshot, Present, records
<1>3. ASSUME NEW a \in Applies, NEW t \in Applies, ProbeOwner(a, t) PROVE StreamAgrees'
  BY <1>3 DEF ProbeOwner, records
<1>4. ASSUME NEW a \in Applies, TerminalizeStale(a) PROVE StreamAgrees'
  BY <1>4 DEF TerminalizeStale, records
<1>5. ASSUME NEW a \in Applies, Admit(a) PROVE StreamAgrees'
  BY <1>5 DEF Admit, records
<1>6. ASSUME NEW a \in Applies, Refuse(a) PROVE StreamAgrees'
  BY <1>6 DEF Refuse, Return, Released, records
<1>7. ASSUME NEW a \in Applies, WritePrepared(a) PROVE StreamAgrees'
  BY <1>7 DEF WritePrepared, records
<1>8. ASSUME NEW a \in Applies, SpawnCoordinator(a) PROVE StreamAgrees'
  BY <1>8 DEF SpawnCoordinator, records
<1>9. ASSUME NEW a \in Applies, SpawnFails(a) PROVE StreamAgrees'
  BY <1>9 DEF SpawnFails, records
<1>10. ASSUME NEW a \in Applies, FailPrepared(a) PROVE StreamAgrees'
  BY <1>10 DEF FailPrepared, Released, records
<1>11. ASSUME NEW a \in Applies, ReceiveReady(a) PROVE StreamAgrees'
  BY <1>11 DEF ReceiveReady, Released, records
<1>12. ASSUME NEW a \in Applies, Commit(a) PROVE StreamAgrees'
  BY <1>12 DEF Commit, Decide, records
<1>13. ASSUME NEW a \in Applies, Abort(a) PROVE StreamAgrees'
  BY <1>13 DEF Abort, Decide, records
<1>14. ASSUME NEW a \in Applies, ApplyDies(a) PROVE StreamAgrees'
  BY <1>14 DEF ApplyDies, Released, records
<1>15. ASSUME NEW a \in Applies, AcquireTransactionLock(a) PROVE StreamAgrees'
  BY <1>15 DEF AcquireTransactionLock, records
<1>16. ASSUME NEW a \in Applies, SendReady(a) PROVE StreamAgrees'
  BY <1>16 DEF SendReady, records
<1>17. ASSUME NEW a \in Applies, ReadDecision(a) PROVE StreamAgrees'
  BY <1>17 DEF ReadDecision, records
<1>18. ASSUME NEW a \in Applies, ReadPrepared(a) PROVE StreamAgrees'
  BY <1>18 DEF ReadPrepared, records
<1>19. ASSUME NEW a \in Applies, AbortPersisted(a) PROVE StreamAgrees'
  BY <1>19 DEF AbortPersisted, Persist, records
<1>20. ASSUME NEW a \in Applies, CommitPersisted(a) PROVE StreamAgrees'
  BY <1>20 DEF CommitPersisted, Persist, records
<1>21. ASSUME NEW a \in Applies, PhaseSucceeds(a) PROVE StreamAgrees'
  BY <1>21 DEF PhaseSucceeds, Persist, Phases, Forward, records
<1>22. ASSUME NEW a \in Applies, PhaseFails(a) PROVE StreamAgrees'
  BY <1>22 DEF PhaseFails, Persist, records
<1>23. ASSUME NEW a \in Applies, ChildExits(a) PROVE StreamAgrees'
  BY <1>23 DEF ChildExits, records
<1>24. ASSUME NEW a \in Applies, ChildDies(a) PROVE StreamAgrees'
  BY <1>24 DEF ChildDies, records
<1>25. CASE LocalAcquire
  BY <1>25 DEF LocalAcquire, Released, records
<1>26. CASE LocalApply
  BY <1>26 DEF LocalApply, Released, records
<1>27. CASE LocalEnds
  BY <1>27 DEF LocalEnds, Released, records
<1> QED
  BY <1>0, <1>1, <1>2, <1>3, <1>4, <1>5, <1>6, <1>7, <1>8, <1>9, <1>10, <1>11, <1>12, <1>13, <1>14, <1>15, <1>16, <1>17, <1>18, <1>19, <1>20, <1>21, <1>22, <1>23, <1>24, <1>25, <1>26, <1>27 DEF Next, ApplyStep, TransportStep, ChildStep, LocalStep

\* The lock files follow their coordinators.
LEMMA LockStep ==
  IndInv /\ [Next]_vars => LockIsOwned'
<1> SUFFICES ASSUME IndInv, [Next]_vars PROVE LockIsOwned'
  OBVIOUS
<1> USE NameAssumption DEF IndInv, TypeOK, LockIsOwned, Owning
<1>0. CASE UNCHANGED vars
  BY <1>0 DEF vars, records
<1>1. ASSUME NEW a \in Applies, AcquireAdmission(a) PROVE LockIsOwned'
  BY <1>1 DEF AcquireAdmission, records
<1>2. ASSUME NEW a \in Applies, LoadSnapshot(a) PROVE LockIsOwned'
  BY <1>2 DEF LoadSnapshot, Present, records
<1>3. ASSUME NEW a \in Applies, NEW t \in Applies, ProbeOwner(a, t) PROVE LockIsOwned'
  BY <1>3 DEF ProbeOwner, records
<1>4. ASSUME NEW a \in Applies, TerminalizeStale(a) PROVE LockIsOwned'
  BY <1>4 DEF TerminalizeStale, records
<1>5. ASSUME NEW a \in Applies, Admit(a) PROVE LockIsOwned'
  BY <1>5 DEF Admit, records
<1>6. ASSUME NEW a \in Applies, Refuse(a) PROVE LockIsOwned'
  BY <1>6 DEF Refuse, Return, Released, records
<1>7. ASSUME NEW a \in Applies, WritePrepared(a) PROVE LockIsOwned'
  BY <1>7 DEF WritePrepared, records
<1>8. ASSUME NEW a \in Applies, SpawnCoordinator(a) PROVE LockIsOwned'
  BY <1>8 DEF SpawnCoordinator, records, RecordExists
<1>9. ASSUME NEW a \in Applies, SpawnFails(a) PROVE LockIsOwned'
  BY <1>9 DEF SpawnFails, records
<1>10. ASSUME NEW a \in Applies, FailPrepared(a) PROVE LockIsOwned'
  BY <1>10 DEF FailPrepared, Released, records
<1>11. ASSUME NEW a \in Applies, ReceiveReady(a) PROVE LockIsOwned'
  BY <1>11 DEF ReceiveReady, Released, records
<1>12. ASSUME NEW a \in Applies, Commit(a) PROVE LockIsOwned'
  BY <1>12 DEF Commit, Decide, records
<1>13. ASSUME NEW a \in Applies, Abort(a) PROVE LockIsOwned'
  BY <1>13 DEF Abort, Decide, records
<1>14. ASSUME NEW a \in Applies, ApplyDies(a) PROVE LockIsOwned'
  BY <1>14 DEF ApplyDies, Released, records
<1>15. ASSUME NEW a \in Applies, AcquireTransactionLock(a) PROVE LockIsOwned'
  BY <1>15 DEF AcquireTransactionLock, records
<1>16. ASSUME NEW a \in Applies, SendReady(a) PROVE LockIsOwned'
  BY <1>16 DEF SendReady, records
<1>17. ASSUME NEW a \in Applies, ReadDecision(a) PROVE LockIsOwned'
  BY <1>17 DEF ReadDecision, records
<1>18. ASSUME NEW a \in Applies, ReadPrepared(a) PROVE LockIsOwned'
  BY <1>18 DEF ReadPrepared, records
<1>19. ASSUME NEW a \in Applies, AbortPersisted(a) PROVE LockIsOwned'
  BY <1>19 DEF AbortPersisted, Persist, records
<1>20. ASSUME NEW a \in Applies, CommitPersisted(a) PROVE LockIsOwned'
  BY <1>20 DEF CommitPersisted, Persist, records
<1>21. ASSUME NEW a \in Applies, PhaseSucceeds(a) PROVE LockIsOwned'
  BY <1>21 DEF PhaseSucceeds, Persist, Phases, Forward, records
<1>22. ASSUME NEW a \in Applies, PhaseFails(a) PROVE LockIsOwned'
  BY <1>22 DEF PhaseFails, Persist, records
<1>23. ASSUME NEW a \in Applies, ChildExits(a) PROVE LockIsOwned'
  BY <1>23 DEF ChildExits, records
<1>24. ASSUME NEW a \in Applies, ChildDies(a) PROVE LockIsOwned'
  BY <1>24 DEF ChildDies, records
<1>25. CASE LocalAcquire
  BY <1>25 DEF LocalAcquire, Released, records
<1>26. CASE LocalApply
  BY <1>26 DEF LocalApply, Released, records
<1>27. CASE LocalEnds
  BY <1>27 DEF LocalEnds, Released, records
<1> QED
  BY <1>0, <1>1, <1>2, <1>3, <1>4, <1>5, <1>6, <1>7, <1>8, <1>9, <1>10, <1>11, <1>12, <1>13, <1>14, <1>15, <1>16, <1>17, <1>18, <1>19, <1>20, <1>21, <1>22, <1>23, <1>24, <1>25, <1>26, <1>27 DEF Next, ApplyStep, TransportStep, ChildStep, LocalStep

\* A record under terminalization never reaches COMMIT.
LEMMA ScanStep ==
  IndInv /\ [Next]_vars => ScanIsSafe'
<1> SUFFICES ASSUME IndInv, [Next]_vars PROVE ScanIsSafe'
  OBVIOUS
<1> USE NameAssumption DEF IndInv, TypeOK, AdmissionHeld, RecordExists, StreamAgrees, ScanIsSafe, NeverCommits, Admitting, Unborn, Committing
<1>0. CASE UNCHANGED vars
  BY <1>0 DEF vars, records
<1>1. ASSUME NEW a \in Applies, AcquireAdmission(a) PROVE ScanIsSafe'
  BY <1>1 DEF AcquireAdmission, records
<1>2. ASSUME NEW a \in Applies, LoadSnapshot(a) PROVE ScanIsSafe'
  BY <1>2 DEF LoadSnapshot, Present, records, ApplyPC
<1>3. ASSUME NEW a \in Applies, NEW t \in Applies, ProbeOwner(a, t) PROVE ScanIsSafe'
  BY <1>3 DEF ProbeOwner, records, LockIsOwned, Owning, ChildPC, ApplyPC
<1>4. ASSUME NEW a \in Applies, TerminalizeStale(a) PROVE ScanIsSafe'
  BY <1>4 DEF TerminalizeStale, records
<1>5. ASSUME NEW a \in Applies, Admit(a) PROVE ScanIsSafe'
  BY <1>5 DEF Admit, records
<1>6. ASSUME NEW a \in Applies, Refuse(a) PROVE ScanIsSafe'
  BY <1>6 DEF Refuse, Return, Released, records
<1>7. ASSUME NEW a \in Applies, WritePrepared(a) PROVE ScanIsSafe'
  BY <1>7 DEF WritePrepared, records
<1>8. ASSUME NEW a \in Applies, SpawnCoordinator(a) PROVE ScanIsSafe'
  BY <1>8 DEF SpawnCoordinator, records
<1>9. ASSUME NEW a \in Applies, SpawnFails(a) PROVE ScanIsSafe'
  BY <1>9 DEF SpawnFails, records
<1>10. ASSUME NEW a \in Applies, FailPrepared(a) PROVE ScanIsSafe'
  BY <1>10 DEF FailPrepared, Released, records
<1>11. ASSUME NEW a \in Applies, ReceiveReady(a) PROVE ScanIsSafe'
  BY <1>11 DEF ReceiveReady, Released, records
<1>12. ASSUME NEW a \in Applies, Commit(a) PROVE ScanIsSafe'
  BY <1>12 DEF Commit, Decide, records
<1>13. ASSUME NEW a \in Applies, Abort(a) PROVE ScanIsSafe'
  BY <1>13 DEF Abort, Decide, records
<1>14. ASSUME NEW a \in Applies, ApplyDies(a) PROVE ScanIsSafe'
  BY <1>14 DEF ApplyDies, Released, records
<1>15. ASSUME NEW a \in Applies, AcquireTransactionLock(a) PROVE ScanIsSafe'
  BY <1>15 DEF AcquireTransactionLock, records
<1>16. ASSUME NEW a \in Applies, SendReady(a) PROVE ScanIsSafe'
  BY <1>16 DEF SendReady, records
<1>17. ASSUME NEW a \in Applies, ReadDecision(a) PROVE ScanIsSafe'
  BY <1>17 DEF ReadDecision, records
<1>18. ASSUME NEW a \in Applies, ReadPrepared(a) PROVE ScanIsSafe'
  BY <1>18 DEF ReadPrepared, records
<1>19. ASSUME NEW a \in Applies, AbortPersisted(a) PROVE ScanIsSafe'
  BY <1>19 DEF AbortPersisted, Persist, records
<1>20. ASSUME NEW a \in Applies, CommitPersisted(a) PROVE ScanIsSafe'
  BY <1>20 DEF CommitPersisted, Persist, records
<1>21. ASSUME NEW a \in Applies, PhaseSucceeds(a) PROVE ScanIsSafe'
  BY <1>21 DEF PhaseSucceeds, Persist, Phases, Forward, records
<1>22. ASSUME NEW a \in Applies, PhaseFails(a) PROVE ScanIsSafe'
  BY <1>22 DEF PhaseFails, Persist, records
<1>23. ASSUME NEW a \in Applies, ChildExits(a) PROVE ScanIsSafe'
  BY <1>23 DEF ChildExits, records
<1>24. ASSUME NEW a \in Applies, ChildDies(a) PROVE ScanIsSafe'
  BY <1>24 DEF ChildDies, records
<1>25. CASE LocalAcquire
  BY <1>25 DEF LocalAcquire, Released, records
<1>26. CASE LocalApply
  BY <1>26 DEF LocalApply, Released, records
<1>27. CASE LocalEnds
  BY <1>27 DEF LocalEnds, Released, records
<1> QED
  BY <1>0, <1>1, <1>2, <1>3, <1>4, <1>5, <1>6, <1>7, <1>8, <1>9, <1>10, <1>11, <1>12, <1>13, <1>14, <1>15, <1>16, <1>17, <1>18, <1>19, <1>20, <1>21, <1>22, <1>23, <1>24, <1>25, <1>26, <1>27 DEF Next, ApplyStep, TransportStep, ChildStep, LocalStep

\* No other process writes the record of a coordinator that commits or runs.
LEMMA CopyStep ==
  IndInv /\ [Next]_vars => CopyIsRecord'
<1> SUFFICES ASSUME IndInv, [Next]_vars PROVE CopyIsRecord'
  OBVIOUS
<1> USE NameAssumption DEF IndInv, TypeOK, CopyIsRecord, Terminal
<1>0. CASE UNCHANGED vars
  BY <1>0 DEF vars, records
<1>1. ASSUME NEW a \in Applies, AcquireAdmission(a) PROVE CopyIsRecord'
  BY <1>1 DEF AcquireAdmission, records
<1>2. ASSUME NEW a \in Applies, LoadSnapshot(a) PROVE CopyIsRecord'
  BY <1>2 DEF LoadSnapshot, Present, records
<1>3. ASSUME NEW a \in Applies, NEW t \in Applies, ProbeOwner(a, t) PROVE CopyIsRecord'
  BY <1>3 DEF ProbeOwner, records
<1>4. ASSUME NEW a \in Applies, TerminalizeStale(a) PROVE CopyIsRecord'
  BY <1>4 DEF TerminalizeStale, records, ScanIsSafe, NeverCommits, Committing
<1>5. ASSUME NEW a \in Applies, Admit(a) PROVE CopyIsRecord'
  BY <1>5 DEF Admit, records
<1>6. ASSUME NEW a \in Applies, Refuse(a) PROVE CopyIsRecord'
  BY <1>6 DEF Refuse, Return, Released, records
<1>7. ASSUME NEW a \in Applies, WritePrepared(a) PROVE CopyIsRecord'
  BY <1>7 DEF WritePrepared, records, RecordExists, Unborn
<1>8. ASSUME NEW a \in Applies, SpawnCoordinator(a) PROVE CopyIsRecord'
  BY <1>8 DEF SpawnCoordinator, records
<1>9. ASSUME NEW a \in Applies, SpawnFails(a) PROVE CopyIsRecord'
  BY <1>9 DEF SpawnFails, records
<1>10. ASSUME NEW a \in Applies, FailPrepared(a) PROVE CopyIsRecord'
  BY <1>10 DEF FailPrepared, Released, records, StreamAgrees, Committing
<1>11. ASSUME NEW a \in Applies, ReceiveReady(a) PROVE CopyIsRecord'
  BY <1>11 DEF ReceiveReady, Released, records
<1>12. ASSUME NEW a \in Applies, Commit(a) PROVE CopyIsRecord'
  BY <1>12 DEF Commit, Decide, records
<1>13. ASSUME NEW a \in Applies, Abort(a) PROVE CopyIsRecord'
  BY <1>13 DEF Abort, Decide, records
<1>14. ASSUME NEW a \in Applies, ApplyDies(a) PROVE CopyIsRecord'
  BY <1>14 DEF ApplyDies, Released, records
<1>15. ASSUME NEW a \in Applies, AcquireTransactionLock(a) PROVE CopyIsRecord'
  BY <1>15 DEF AcquireTransactionLock, records
<1>16. ASSUME NEW a \in Applies, SendReady(a) PROVE CopyIsRecord'
  BY <1>16 DEF SendReady, records
<1>17. ASSUME NEW a \in Applies, ReadDecision(a) PROVE CopyIsRecord'
  BY <1>17 DEF ReadDecision, records
<1>18. ASSUME NEW a \in Applies, ReadPrepared(a) PROVE CopyIsRecord'
  BY <1>18 DEF ReadPrepared, records
<1>19. ASSUME NEW a \in Applies, AbortPersisted(a) PROVE CopyIsRecord'
  BY <1>19 DEF AbortPersisted, Persist, records
<1>20. ASSUME NEW a \in Applies, CommitPersisted(a) PROVE CopyIsRecord'
  BY <1>20 DEF CommitPersisted, Persist, records
<1>21. ASSUME NEW a \in Applies, PhaseSucceeds(a) PROVE CopyIsRecord'
  BY <1>21 DEF PhaseSucceeds, Persist, Phases, Forward, records
<1>22. ASSUME NEW a \in Applies, PhaseFails(a) PROVE CopyIsRecord'
  BY <1>22 DEF PhaseFails, Persist, records
<1>23. ASSUME NEW a \in Applies, ChildExits(a) PROVE CopyIsRecord'
  BY <1>23 DEF ChildExits, records
<1>24. ASSUME NEW a \in Applies, ChildDies(a) PROVE CopyIsRecord'
  BY <1>24 DEF ChildDies, records
<1>25. CASE LocalAcquire
  BY <1>25 DEF LocalAcquire, Released, records
<1>26. CASE LocalApply
  BY <1>26 DEF LocalApply, Released, records
<1>27. CASE LocalEnds
  BY <1>27 DEF LocalEnds, Released, records
<1> QED
  BY <1>0, <1>1, <1>2, <1>3, <1>4, <1>5, <1>6, <1>7, <1>8, <1>9, <1>10, <1>11, <1>12, <1>13, <1>14, <1>15, <1>16, <1>17, <1>18, <1>19, <1>20, <1>21, <1>22, <1>23, <1>24, <1>25, <1>26, <1>27 DEF Next, ApplyStep, TransportStep, ChildStep, LocalStep

\* COMMIT comes before any state beyond PREPARED, and is never taken back.
LEMMA AuthorizedStep ==
  IndInv /\ [Next]_vars => CommitAuthorized'
<1> SUFFICES ASSUME IndInv, [Next]_vars PROVE CommitAuthorized'
  OBVIOUS
<1> USE NameAssumption DEF IndInv, TypeOK, CommitAuthorized, StreamAgrees, Committing
<1>0. CASE UNCHANGED vars
  BY <1>0 DEF vars, records
<1>1. ASSUME NEW a \in Applies, AcquireAdmission(a) PROVE CommitAuthorized'
  BY <1>1 DEF AcquireAdmission, records
<1>2. ASSUME NEW a \in Applies, LoadSnapshot(a) PROVE CommitAuthorized'
  BY <1>2 DEF LoadSnapshot, Present, records
<1>3. ASSUME NEW a \in Applies, NEW t \in Applies, ProbeOwner(a, t) PROVE CommitAuthorized'
  BY <1>3 DEF ProbeOwner, records
<1>4. ASSUME NEW a \in Applies, TerminalizeStale(a) PROVE CommitAuthorized'
  BY <1>4 DEF TerminalizeStale, records
<1>5. ASSUME NEW a \in Applies, Admit(a) PROVE CommitAuthorized'
  BY <1>5 DEF Admit, records
<1>6. ASSUME NEW a \in Applies, Refuse(a) PROVE CommitAuthorized'
  BY <1>6 DEF Refuse, Return, Released, records
<1>7. ASSUME NEW a \in Applies, WritePrepared(a) PROVE CommitAuthorized'
  BY <1>7 DEF WritePrepared, records
<1>8. ASSUME NEW a \in Applies, SpawnCoordinator(a) PROVE CommitAuthorized'
  BY <1>8 DEF SpawnCoordinator, records, RecordExists, Unborn
<1>9. ASSUME NEW a \in Applies, SpawnFails(a) PROVE CommitAuthorized'
  BY <1>9 DEF SpawnFails, records, RecordExists, Unborn
<1>10. ASSUME NEW a \in Applies, FailPrepared(a) PROVE CommitAuthorized'
  BY <1>10 DEF FailPrepared, Released, records
<1>11. ASSUME NEW a \in Applies, ReceiveReady(a) PROVE CommitAuthorized'
  BY <1>11 DEF ReceiveReady, Released, records
<1>12. ASSUME NEW a \in Applies, Commit(a) PROVE CommitAuthorized'
  BY <1>12 DEF Commit, Decide, records
<1>13. ASSUME NEW a \in Applies, Abort(a) PROVE CommitAuthorized'
  BY <1>13 DEF Abort, Decide, records
<1>14. ASSUME NEW a \in Applies, ApplyDies(a) PROVE CommitAuthorized'
  BY <1>14 DEF ApplyDies, Released, records, RecordExists, Unborn
<1>15. ASSUME NEW a \in Applies, AcquireTransactionLock(a) PROVE CommitAuthorized'
  BY <1>15 DEF AcquireTransactionLock, records
<1>16. ASSUME NEW a \in Applies, SendReady(a) PROVE CommitAuthorized'
  BY <1>16 DEF SendReady, records
<1>17. ASSUME NEW a \in Applies, ReadDecision(a) PROVE CommitAuthorized'
  BY <1>17 DEF ReadDecision, records
<1>18. ASSUME NEW a \in Applies, ReadPrepared(a) PROVE CommitAuthorized'
  BY <1>18 DEF ReadPrepared, records
<1>19. ASSUME NEW a \in Applies, AbortPersisted(a) PROVE CommitAuthorized'
  BY <1>19 DEF AbortPersisted, Persist, records, Terminal
<1>20. ASSUME NEW a \in Applies, CommitPersisted(a) PROVE CommitAuthorized'
  BY <1>20 DEF CommitPersisted, Persist, records
<1>21. ASSUME NEW a \in Applies, PhaseSucceeds(a) PROVE CommitAuthorized'
  BY <1>21 DEF PhaseSucceeds, Persist, Phases, Forward, records
<1>22. ASSUME NEW a \in Applies, PhaseFails(a) PROVE CommitAuthorized'
  BY <1>22 DEF PhaseFails, Persist, records, Terminal
<1>23. ASSUME NEW a \in Applies, ChildExits(a) PROVE CommitAuthorized'
  BY <1>23 DEF ChildExits, records
<1>24. ASSUME NEW a \in Applies, ChildDies(a) PROVE CommitAuthorized'
  BY <1>24 DEF ChildDies, records
<1>25. CASE LocalAcquire
  BY <1>25 DEF LocalAcquire, Released, records
<1>26. CASE LocalApply
  BY <1>26 DEF LocalApply, Released, records
<1>27. CASE LocalEnds
  BY <1>27 DEF LocalEnds, Released, records
<1> QED
  BY <1>0, <1>1, <1>2, <1>3, <1>4, <1>5, <1>6, <1>7, <1>8, <1>9, <1>10, <1>11, <1>12, <1>13, <1>14, <1>15, <1>16, <1>17, <1>18, <1>19, <1>20, <1>21, <1>22, <1>23, <1>24, <1>25, <1>26, <1>27 DEF Next, ApplyStep, TransportStep, ChildStep, LocalStep

\* Only a call that found no active record writes a new one.
LEMMA ActiveStep ==
  IndInv /\ [Next]_vars => OneActive'
<1> SUFFICES ASSUME IndInv, [Next]_vars PROVE OneActive'
  OBVIOUS
<1> USE NameAssumption DEF IndInv, TypeOK, OneActive, Active, Present, Terminal
<1>0. CASE UNCHANGED vars
  BY <1>0 DEF vars, records
<1>1. ASSUME NEW a \in Applies, AcquireAdmission(a) PROVE OneActive'
  BY <1>1 DEF AcquireAdmission, records
<1>2. ASSUME NEW a \in Applies, LoadSnapshot(a) PROVE OneActive'
  BY <1>2 DEF LoadSnapshot, records
<1>3. ASSUME NEW a \in Applies, NEW t \in Applies, ProbeOwner(a, t) PROVE OneActive'
  BY <1>3 DEF ProbeOwner, records
<1>4. ASSUME NEW a \in Applies, TerminalizeStale(a) PROVE OneActive'
  BY <1>4 DEF TerminalizeStale, records
<1>5. ASSUME NEW a \in Applies, Admit(a) PROVE OneActive'
  BY <1>5 DEF Admit, records
<1>6. ASSUME NEW a \in Applies, Refuse(a) PROVE OneActive'
  BY <1>6 DEF Refuse, Return, Released, records
<1>7. ASSUME NEW a \in Applies, WritePrepared(a) PROVE OneActive'
  <2>1. Active = {}
    BY <1>7 DEF WritePrepared, StartsAlone
  <2>2. \A t \in Active' : t = a
    BY <1>7, <2>1 DEF WritePrepared
  <2> QED
    BY <2>2
<1>8. ASSUME NEW a \in Applies, SpawnCoordinator(a) PROVE OneActive'
  BY <1>8 DEF SpawnCoordinator, records
<1>9. ASSUME NEW a \in Applies, SpawnFails(a) PROVE OneActive'
  BY <1>9 DEF SpawnFails, records
<1>10. ASSUME NEW a \in Applies, FailPrepared(a) PROVE OneActive'
  BY <1>10 DEF FailPrepared, Released, records
<1>11. ASSUME NEW a \in Applies, ReceiveReady(a) PROVE OneActive'
  BY <1>11 DEF ReceiveReady, Released, records
<1>12. ASSUME NEW a \in Applies, Commit(a) PROVE OneActive'
  BY <1>12 DEF Commit, Decide, records
<1>13. ASSUME NEW a \in Applies, Abort(a) PROVE OneActive'
  BY <1>13 DEF Abort, Decide, records
<1>14. ASSUME NEW a \in Applies, ApplyDies(a) PROVE OneActive'
  BY <1>14 DEF ApplyDies, Released, records
<1>15. ASSUME NEW a \in Applies, AcquireTransactionLock(a) PROVE OneActive'
  BY <1>15 DEF AcquireTransactionLock, records
<1>16. ASSUME NEW a \in Applies, SendReady(a) PROVE OneActive'
  BY <1>16 DEF SendReady, records
<1>17. ASSUME NEW a \in Applies, ReadDecision(a) PROVE OneActive'
  BY <1>17 DEF ReadDecision, records
<1>18. ASSUME NEW a \in Applies, ReadPrepared(a) PROVE OneActive'
  BY <1>18 DEF ReadPrepared, records
<1>19. ASSUME NEW a \in Applies, AbortPersisted(a) PROVE OneActive'
  BY <1>19 DEF AbortPersisted, Persist, records
<1>20. ASSUME NEW a \in Applies, CommitPersisted(a) PROVE OneActive'
  BY <1>20 DEF CommitPersisted, Persist, records, CopyIsRecord
<1>21. ASSUME NEW a \in Applies, PhaseSucceeds(a) PROVE OneActive'
  BY <1>21 DEF PhaseSucceeds, Persist, Phases, Forward, records, CopyIsRecord, RecordExists
<1>22. ASSUME NEW a \in Applies, PhaseFails(a) PROVE OneActive'
  BY <1>22 DEF PhaseFails, Persist, records
<1>23. ASSUME NEW a \in Applies, ChildExits(a) PROVE OneActive'
  BY <1>23 DEF ChildExits, records
<1>24. ASSUME NEW a \in Applies, ChildDies(a) PROVE OneActive'
  BY <1>24 DEF ChildDies, records
<1>25. CASE LocalAcquire
  BY <1>25 DEF LocalAcquire, Released, records
<1>26. CASE LocalApply
  BY <1>26 DEF LocalApply, Released, records
<1>27. CASE LocalEnds
  BY <1>27 DEF LocalEnds, Released, records
<1> QED
  BY <1>0, <1>1, <1>2, <1>3, <1>4, <1>5, <1>6, <1>7, <1>8, <1>9, <1>10, <1>11, <1>12, <1>13, <1>14, <1>15, <1>16, <1>17, <1>18, <1>19, <1>20, <1>21, <1>22, <1>23, <1>24, <1>25, <1>26, <1>27 DEF Next, ApplyStep, TransportStep, ChildStep, LocalStep

\* Nothing becomes active while a call starts or the local command applies.
LEMMA AloneStep ==
  IndInv /\ [Next]_vars => StartsAlone'
<1> SUFFICES ASSUME IndInv, [Next]_vars PROVE StartsAlone'
  OBVIOUS
<1> USE NameAssumption DEF IndInv, TypeOK, AdmissionHeld, StartsAlone, Admitting, Active, Present, Terminal
<1>0. CASE UNCHANGED vars
  BY <1>0 DEF vars, records
<1>1. ASSUME NEW a \in Applies, AcquireAdmission(a) PROVE StartsAlone'
  BY <1>1 DEF AcquireAdmission, records
<1>2. ASSUME NEW a \in Applies, LoadSnapshot(a) PROVE StartsAlone'
  BY <1>2 DEF LoadSnapshot, records
<1>3. ASSUME NEW a \in Applies, NEW t \in Applies, ProbeOwner(a, t) PROVE StartsAlone'
  BY <1>3 DEF ProbeOwner, records
<1>4. ASSUME NEW a \in Applies, TerminalizeStale(a) PROVE StartsAlone'
  BY <1>4 DEF TerminalizeStale, records
<1>5. ASSUME NEW a \in Applies, Admit(a) PROVE StartsAlone'
  BY <1>5 DEF Admit, records, MayStart
<1>6. ASSUME NEW a \in Applies, Refuse(a) PROVE StartsAlone'
  BY <1>6 DEF Refuse, Return, Released, records
<1>7. ASSUME NEW a \in Applies, WritePrepared(a) PROVE StartsAlone'
  BY <1>7 DEF WritePrepared, records
<1>8. ASSUME NEW a \in Applies, SpawnCoordinator(a) PROVE StartsAlone'
  BY <1>8 DEF SpawnCoordinator, records
<1>9. ASSUME NEW a \in Applies, SpawnFails(a) PROVE StartsAlone'
  BY <1>9 DEF SpawnFails, records
<1>10. ASSUME NEW a \in Applies, FailPrepared(a) PROVE StartsAlone'
  BY <1>10 DEF FailPrepared, Released, records
<1>11. ASSUME NEW a \in Applies, ReceiveReady(a) PROVE StartsAlone'
  BY <1>11 DEF ReceiveReady, Released, records
<1>12. ASSUME NEW a \in Applies, Commit(a) PROVE StartsAlone'
  BY <1>12 DEF Commit, Decide, records
<1>13. ASSUME NEW a \in Applies, Abort(a) PROVE StartsAlone'
  BY <1>13 DEF Abort, Decide, records
<1>14. ASSUME NEW a \in Applies, ApplyDies(a) PROVE StartsAlone'
  BY <1>14 DEF ApplyDies, Released, records
<1>15. ASSUME NEW a \in Applies, AcquireTransactionLock(a) PROVE StartsAlone'
  BY <1>15 DEF AcquireTransactionLock, records
<1>16. ASSUME NEW a \in Applies, SendReady(a) PROVE StartsAlone'
  BY <1>16 DEF SendReady, records
<1>17. ASSUME NEW a \in Applies, ReadDecision(a) PROVE StartsAlone'
  BY <1>17 DEF ReadDecision, records
<1>18. ASSUME NEW a \in Applies, ReadPrepared(a) PROVE StartsAlone'
  BY <1>18 DEF ReadPrepared, records
<1>19. ASSUME NEW a \in Applies, AbortPersisted(a) PROVE StartsAlone'
  BY <1>19 DEF AbortPersisted, Persist, records
<1>20. ASSUME NEW a \in Applies, CommitPersisted(a) PROVE StartsAlone'
  BY <1>20 DEF CommitPersisted, Persist, records, CopyIsRecord
<1>21. ASSUME NEW a \in Applies, PhaseSucceeds(a) PROVE StartsAlone'
  BY <1>21 DEF PhaseSucceeds, Persist, Phases, Forward, records, CopyIsRecord, RecordExists
<1>22. ASSUME NEW a \in Applies, PhaseFails(a) PROVE StartsAlone'
  BY <1>22 DEF PhaseFails, Persist, records
<1>23. ASSUME NEW a \in Applies, ChildExits(a) PROVE StartsAlone'
  BY <1>23 DEF ChildExits, records
<1>24. ASSUME NEW a \in Applies, ChildDies(a) PROVE StartsAlone'
  BY <1>24 DEF ChildDies, records
<1>25. CASE LocalAcquire
  BY <1>25 DEF LocalAcquire, Released, records
<1>26. CASE LocalApply
  BY <1>26 DEF LocalApply, Released, records
<1>27. CASE LocalEnds
  BY <1>27 DEF LocalEnds, Released, records
<1> QED
  BY <1>0, <1>1, <1>2, <1>3, <1>4, <1>5, <1>6, <1>7, <1>8, <1>9, <1>10, <1>11, <1>12, <1>13, <1>14, <1>15, <1>16, <1>17, <1>18, <1>19, <1>20, <1>21, <1>22, <1>23, <1>24, <1>25, <1>26, <1>27 DEF Next, ApplyStep, TransportStep, ChildStep, LocalStep

\* The set of records is the same, or has the new one of a call that starts.
LEMMA PresentStep ==
  IndInv /\ [Next]_vars => RecordsGrow
<1> SUFFICES ASSUME IndInv, [Next]_vars PROVE RecordsGrow
  OBVIOUS
<1> USE NameAssumption DEF IndInv, TypeOK, Present, RecordExists, Unborn, RecordsGrow
<1>0. CASE UNCHANGED vars
  BY <1>0 DEF vars, records
<1>1. ASSUME NEW a \in Applies, AcquireAdmission(a) PROVE RecordsGrow
  BY <1>1 DEF AcquireAdmission, records
<1>2. ASSUME NEW a \in Applies, LoadSnapshot(a) PROVE RecordsGrow
  BY <1>2 DEF LoadSnapshot, records
<1>3. ASSUME NEW a \in Applies, NEW t \in Applies, ProbeOwner(a, t) PROVE RecordsGrow
  BY <1>3 DEF ProbeOwner, records
<1>4. ASSUME NEW a \in Applies, TerminalizeStale(a) PROVE RecordsGrow
  BY <1>4 DEF TerminalizeStale, records, ScanIsSafe, NeverCommits
<1>5. ASSUME NEW a \in Applies, Admit(a) PROVE RecordsGrow
  BY <1>5 DEF Admit, records
<1>6. ASSUME NEW a \in Applies, Refuse(a) PROVE RecordsGrow
  BY <1>6 DEF Refuse, Return, Released, records
<1>7. ASSUME NEW a \in Applies, WritePrepared(a) PROVE RecordsGrow
  <2>1. Present' = Present \cup {a}
    BY <1>7 DEF WritePrepared
  <2> QED
    BY <1>7, <2>1
<1>8. ASSUME NEW a \in Applies, SpawnCoordinator(a) PROVE RecordsGrow
  BY <1>8 DEF SpawnCoordinator, records
<1>9. ASSUME NEW a \in Applies, SpawnFails(a) PROVE RecordsGrow
  BY <1>9 DEF SpawnFails, records
<1>10. ASSUME NEW a \in Applies, FailPrepared(a) PROVE RecordsGrow
  BY <1>10 DEF FailPrepared, Released, records
<1>11. ASSUME NEW a \in Applies, ReceiveReady(a) PROVE RecordsGrow
  BY <1>11 DEF ReceiveReady, Released, records
<1>12. ASSUME NEW a \in Applies, Commit(a) PROVE RecordsGrow
  BY <1>12 DEF Commit, Decide, records
<1>13. ASSUME NEW a \in Applies, Abort(a) PROVE RecordsGrow
  BY <1>13 DEF Abort, Decide, records
<1>14. ASSUME NEW a \in Applies, ApplyDies(a) PROVE RecordsGrow
  BY <1>14 DEF ApplyDies, Released, records
<1>15. ASSUME NEW a \in Applies, AcquireTransactionLock(a) PROVE RecordsGrow
  BY <1>15 DEF AcquireTransactionLock, records
<1>16. ASSUME NEW a \in Applies, SendReady(a) PROVE RecordsGrow
  BY <1>16 DEF SendReady, records
<1>17. ASSUME NEW a \in Applies, ReadDecision(a) PROVE RecordsGrow
  BY <1>17 DEF ReadDecision, records
<1>18. ASSUME NEW a \in Applies, ReadPrepared(a) PROVE RecordsGrow
  BY <1>18 DEF ReadPrepared, records
<1>19. ASSUME NEW a \in Applies, AbortPersisted(a) PROVE RecordsGrow
  BY <1>19 DEF AbortPersisted, Persist, records, Terminal
<1>20. ASSUME NEW a \in Applies, CommitPersisted(a) PROVE RecordsGrow
  BY <1>20 DEF CommitPersisted, Persist, records
<1>21. ASSUME NEW a \in Applies, PhaseSucceeds(a) PROVE RecordsGrow
  BY <1>21 DEF PhaseSucceeds, Persist, Phases, Forward, records
<1>22. ASSUME NEW a \in Applies, PhaseFails(a) PROVE RecordsGrow
  BY <1>22 DEF PhaseFails, Persist, records
<1>23. ASSUME NEW a \in Applies, ChildExits(a) PROVE RecordsGrow
  BY <1>23 DEF ChildExits, records
<1>24. ASSUME NEW a \in Applies, ChildDies(a) PROVE RecordsGrow
  BY <1>24 DEF ChildDies, records
<1>25. CASE LocalAcquire
  BY <1>25 DEF LocalAcquire, Released, records
<1>26. CASE LocalApply
  BY <1>26 DEF LocalApply, Released, records
<1>27. CASE LocalEnds
  BY <1>27 DEF LocalEnds, Released, records
<1> QED
  BY <1>0, <1>1, <1>2, <1>3, <1>4, <1>5, <1>6, <1>7, <1>8, <1>9, <1>10, <1>11, <1>12, <1>13, <1>14, <1>15, <1>16, <1>17, <1>18, <1>19, <1>20, <1>21, <1>22, <1>23, <1>24, <1>25, <1>26, <1>27 DEF Next, ApplyStep, TransportStep, ChildStep, LocalStep

\* Only Admit makes a call start.
LEMMA StartStep ==
  TypeOK /\ [Next]_vars => StartsByAdmit
<1> SUFFICES ASSUME TypeOK, [Next]_vars PROVE StartsByAdmit
  OBVIOUS
<1> USE NameAssumption DEF TypeOK, StartsByAdmit
<1>0. CASE UNCHANGED vars
  BY <1>0 DEF vars, records
<1>1. ASSUME NEW a \in Applies, AcquireAdmission(a) PROVE StartsByAdmit
  BY <1>1 DEF AcquireAdmission, records
<1>2. ASSUME NEW a \in Applies, LoadSnapshot(a) PROVE StartsByAdmit
  BY <1>2 DEF LoadSnapshot, Present, records
<1>3. ASSUME NEW a \in Applies, NEW t \in Applies, ProbeOwner(a, t) PROVE StartsByAdmit
  BY <1>3 DEF ProbeOwner, records
<1>4. ASSUME NEW a \in Applies, TerminalizeStale(a) PROVE StartsByAdmit
  BY <1>4 DEF TerminalizeStale, records
<1>5. ASSUME NEW a \in Applies, Admit(a) PROVE StartsByAdmit
  BY <1>5 DEF Admit
<1>6. ASSUME NEW a \in Applies, Refuse(a) PROVE StartsByAdmit
  BY <1>6 DEF Refuse, Return, Released, records
<1>7. ASSUME NEW a \in Applies, WritePrepared(a) PROVE StartsByAdmit
  BY <1>7 DEF WritePrepared, records
<1>8. ASSUME NEW a \in Applies, SpawnCoordinator(a) PROVE StartsByAdmit
  BY <1>8 DEF SpawnCoordinator, records
<1>9. ASSUME NEW a \in Applies, SpawnFails(a) PROVE StartsByAdmit
  BY <1>9 DEF SpawnFails, records
<1>10. ASSUME NEW a \in Applies, FailPrepared(a) PROVE StartsByAdmit
  BY <1>10 DEF FailPrepared, Released, records
<1>11. ASSUME NEW a \in Applies, ReceiveReady(a) PROVE StartsByAdmit
  BY <1>11 DEF ReceiveReady, Released, records
<1>12. ASSUME NEW a \in Applies, Commit(a) PROVE StartsByAdmit
  BY <1>12 DEF Commit, Decide, records
<1>13. ASSUME NEW a \in Applies, Abort(a) PROVE StartsByAdmit
  BY <1>13 DEF Abort, Decide, records
<1>14. ASSUME NEW a \in Applies, ApplyDies(a) PROVE StartsByAdmit
  BY <1>14 DEF ApplyDies, Released, records
<1>15. ASSUME NEW a \in Applies, AcquireTransactionLock(a) PROVE StartsByAdmit
  BY <1>15 DEF AcquireTransactionLock, records
<1>16. ASSUME NEW a \in Applies, SendReady(a) PROVE StartsByAdmit
  BY <1>16 DEF SendReady, records
<1>17. ASSUME NEW a \in Applies, ReadDecision(a) PROVE StartsByAdmit
  BY <1>17 DEF ReadDecision, records
<1>18. ASSUME NEW a \in Applies, ReadPrepared(a) PROVE StartsByAdmit
  BY <1>18 DEF ReadPrepared, records
<1>19. ASSUME NEW a \in Applies, AbortPersisted(a) PROVE StartsByAdmit
  BY <1>19 DEF AbortPersisted, Persist, records
<1>20. ASSUME NEW a \in Applies, CommitPersisted(a) PROVE StartsByAdmit
  BY <1>20 DEF CommitPersisted, Persist, records
<1>21. ASSUME NEW a \in Applies, PhaseSucceeds(a) PROVE StartsByAdmit
  BY <1>21 DEF PhaseSucceeds, Persist, Phases, Forward, records
<1>22. ASSUME NEW a \in Applies, PhaseFails(a) PROVE StartsByAdmit
  BY <1>22 DEF PhaseFails, Persist, records
<1>23. ASSUME NEW a \in Applies, ChildExits(a) PROVE StartsByAdmit
  BY <1>23 DEF ChildExits, records
<1>24. ASSUME NEW a \in Applies, ChildDies(a) PROVE StartsByAdmit
  BY <1>24 DEF ChildDies, records
<1>25. CASE LocalAcquire
  BY <1>25 DEF LocalAcquire, Released, records
<1>26. CASE LocalApply
  BY <1>26 DEF LocalApply, Released, records
<1>27. CASE LocalEnds
  BY <1>27 DEF LocalEnds, Released, records
<1> QED
  BY <1>0, <1>1, <1>2, <1>3, <1>4, <1>5, <1>6, <1>7, <1>8, <1>9, <1>10, <1>11, <1>12, <1>13, <1>14, <1>15, <1>16, <1>17, <1>18, <1>19, <1>20, <1>21, <1>22, <1>23, <1>24, <1>25, <1>26, <1>27 DEF Next, ApplyStep, TransportStep, ChildStep, LocalStep

\* Room for the record of a call that starts was checked by its second load.
LEMMA RoomStep ==
  IndInv /\ [Next]_vars => RoomForRecord' /\ RecordsBounded'
<1> SUFFICES ASSUME IndInv, [Next]_vars PROVE RoomForRecord' /\ RecordsBounded'
  OBVIOUS
<1>1. RecordsGrow
  BY PresentStep
<1>2. StartsByAdmit
  BY StartStep DEF IndInv
<1>3. IsFiniteSet(Present) /\ Cardinality(Present) \in Nat
  BY LimitAssumption, FS_Subset, FS_CardinalityType DEF Present
<1>4. CASE Present' = Present
  <2>1. Cardinality(Present') = Cardinality(Present)
    BY <1>4
  <2>2. ASSUME NEW b \in Applies, apply'[b] = "starting" PROVE Cardinality(Present') <= MaxTransactions
    <3>1. CASE apply[b] = "starting"
      BY <3>1, <2>1 DEF IndInv, RoomForRecord
    <3>2. CASE Admit(b)
      BY <3>2, <2>1 DEF Admit, CanLoad
    <3> QED
      BY <2>2, <1>2, <3>1, <3>2 DEF StartsByAdmit
  <2> QED
    BY <2>1, <2>2 DEF IndInv, RecordsBounded, RoomForRecord
<1>5. ASSUME NEW b \in Applies, WritePrepared(b), Present' = Present \cup {b}
      PROVE RoomForRecord' /\ RecordsBounded'
  <2>1. Cardinality(Present) <= MaxTransactions
    BY <1>5 DEF WritePrepared, IndInv, RoomForRecord
  <2>2. Cardinality(Present \cup {b}) <= Cardinality(Present) + 1
    BY <1>3, FS_AddElement
  <2>3. Cardinality(Present \cup {b}) \in Nat
    BY <1>3, FS_AddElement
  <2>4. RecordsBounded'
    BY <1>3, <1>5, <2>1, <2>2, <2>3, LimitAssumption DEF RecordsBounded
  <2>5. \A c \in Applies : apply'[c] # "starting"
    BY <1>5 DEF WritePrepared, IndInv, TypeOK, AdmissionHeld, Admitting
  <2> QED
    BY <2>4, <2>5 DEF RoomForRecord
<1> QED
  BY <1>1, <1>4, <1>5 DEF RecordsGrow

\* A sequence computed under the admission lock stays the greatest.
LEMMA FreshStep ==
  IndInv /\ [Next]_vars => SequenceIsFresh'
<1> SUFFICES ASSUME IndInv, [Next]_vars PROVE SequenceIsFresh'
  OBVIOUS
<1> USE NameAssumption DEF IndInv, TypeOK, SequenceIsFresh, AdmissionHeld, Admitting, Present
<1>0. CASE UNCHANGED vars
  BY <1>0 DEF vars, records
<1>1. ASSUME NEW a \in Applies, AcquireAdmission(a) PROVE SequenceIsFresh'
  BY <1>1 DEF AcquireAdmission, records
<1>2. ASSUME NEW a \in Applies, LoadSnapshot(a) PROVE SequenceIsFresh'
  BY <1>2 DEF LoadSnapshot, records
<1>3. ASSUME NEW a \in Applies, NEW t \in Applies, ProbeOwner(a, t) PROVE SequenceIsFresh'
  BY <1>3 DEF ProbeOwner, records
<1>4. ASSUME NEW a \in Applies, TerminalizeStale(a) PROVE SequenceIsFresh'
  BY <1>4 DEF TerminalizeStale, records, ScanIsSafe
<1>5. ASSUME NEW a \in Applies, Admit(a) PROVE SequenceIsFresh'
  BY <1>5 DEF Admit, records, IsNextSequence, RecordExists, Unborn
<1>6. ASSUME NEW a \in Applies, Refuse(a) PROVE SequenceIsFresh'
  BY <1>6 DEF Refuse, Return, Released, records
<1>7. ASSUME NEW a \in Applies, WritePrepared(a) PROVE SequenceIsFresh'
  BY <1>7 DEF WritePrepared, records
<1>8. ASSUME NEW a \in Applies, SpawnCoordinator(a) PROVE SequenceIsFresh'
  BY <1>8 DEF SpawnCoordinator, records
<1>9. ASSUME NEW a \in Applies, SpawnFails(a) PROVE SequenceIsFresh'
  BY <1>9 DEF SpawnFails, records
<1>10. ASSUME NEW a \in Applies, FailPrepared(a) PROVE SequenceIsFresh'
  BY <1>10 DEF FailPrepared, Released, records, RecordExists
<1>11. ASSUME NEW a \in Applies, ReceiveReady(a) PROVE SequenceIsFresh'
  BY <1>11 DEF ReceiveReady, Released, records
<1>12. ASSUME NEW a \in Applies, Commit(a) PROVE SequenceIsFresh'
  BY <1>12 DEF Commit, Decide, records
<1>13. ASSUME NEW a \in Applies, Abort(a) PROVE SequenceIsFresh'
  BY <1>13 DEF Abort, Decide, records
<1>14. ASSUME NEW a \in Applies, ApplyDies(a) PROVE SequenceIsFresh'
  BY <1>14 DEF ApplyDies, Released, records
<1>15. ASSUME NEW a \in Applies, AcquireTransactionLock(a) PROVE SequenceIsFresh'
  BY <1>15 DEF AcquireTransactionLock, records
<1>16. ASSUME NEW a \in Applies, SendReady(a) PROVE SequenceIsFresh'
  BY <1>16 DEF SendReady, records
<1>17. ASSUME NEW a \in Applies, ReadDecision(a) PROVE SequenceIsFresh'
  BY <1>17 DEF ReadDecision, records
<1>18. ASSUME NEW a \in Applies, ReadPrepared(a) PROVE SequenceIsFresh'
  BY <1>18 DEF ReadPrepared, records
<1>19. ASSUME NEW a \in Applies, AbortPersisted(a) PROVE SequenceIsFresh'
  BY <1>19 DEF AbortPersisted, Persist, records, RecordExists
<1>20. ASSUME NEW a \in Applies, CommitPersisted(a) PROVE SequenceIsFresh'
  BY <1>20 DEF CommitPersisted, Persist, records, RecordExists
<1>21. ASSUME NEW a \in Applies, PhaseSucceeds(a) PROVE SequenceIsFresh'
  BY <1>21 DEF PhaseSucceeds, Persist, Phases, Forward, records, RecordExists
<1>22. ASSUME NEW a \in Applies, PhaseFails(a) PROVE SequenceIsFresh'
  BY <1>22 DEF PhaseFails, Persist, records, RecordExists
<1>23. ASSUME NEW a \in Applies, ChildExits(a) PROVE SequenceIsFresh'
  BY <1>23 DEF ChildExits, records
<1>24. ASSUME NEW a \in Applies, ChildDies(a) PROVE SequenceIsFresh'
  BY <1>24 DEF ChildDies, records
<1>25. CASE LocalAcquire
  BY <1>25 DEF LocalAcquire, Released, records
<1>26. CASE LocalApply
  BY <1>26 DEF LocalApply, Released, records
<1>27. CASE LocalEnds
  BY <1>27 DEF LocalEnds, Released, records
<1> QED
  BY <1>0, <1>1, <1>2, <1>3, <1>4, <1>5, <1>6, <1>7, <1>8, <1>9, <1>10, <1>11, <1>12, <1>13, <1>14, <1>15, <1>16, <1>17, <1>18, <1>19, <1>20, <1>21, <1>22, <1>23, <1>24, <1>25, <1>26, <1>27 DEF Next, ApplyStep, TransportStep, ChildStep, LocalStep

\* A new record gets a fresh sequence, and no old one becomes active again.
LEMMA NewestStep ==
  IndInv /\ [Next]_vars => ActiveIsNewest'
<1> SUFFICES ASSUME IndInv, [Next]_vars PROVE ActiveIsNewest'
  OBVIOUS
<1> USE NameAssumption DEF IndInv, TypeOK, ActiveIsNewest, Active, Present, Terminal
<1>0. CASE UNCHANGED vars
  BY <1>0 DEF vars, records
<1>1. ASSUME NEW a \in Applies, AcquireAdmission(a) PROVE ActiveIsNewest'
  BY <1>1 DEF AcquireAdmission, records
<1>2. ASSUME NEW a \in Applies, LoadSnapshot(a) PROVE ActiveIsNewest'
  BY <1>2 DEF LoadSnapshot, records
<1>3. ASSUME NEW a \in Applies, NEW t \in Applies, ProbeOwner(a, t) PROVE ActiveIsNewest'
  BY <1>3 DEF ProbeOwner, records
<1>4. ASSUME NEW a \in Applies, TerminalizeStale(a) PROVE ActiveIsNewest'
  BY <1>4 DEF TerminalizeStale, records, ScanIsSafe
<1>5. ASSUME NEW a \in Applies, Admit(a) PROVE ActiveIsNewest'
  BY <1>5 DEF Admit, records, RecordExists, Unborn
<1>6. ASSUME NEW a \in Applies, Refuse(a) PROVE ActiveIsNewest'
  BY <1>6 DEF Refuse, Return, Released, records
<1>7. ASSUME NEW a \in Applies, WritePrepared(a) PROVE ActiveIsNewest'
  BY <1>7 DEF WritePrepared, records, SequenceIsFresh, StartsAlone
<1>8. ASSUME NEW a \in Applies, SpawnCoordinator(a) PROVE ActiveIsNewest'
  BY <1>8 DEF SpawnCoordinator, records
<1>9. ASSUME NEW a \in Applies, SpawnFails(a) PROVE ActiveIsNewest'
  BY <1>9 DEF SpawnFails, records
<1>10. ASSUME NEW a \in Applies, FailPrepared(a) PROVE ActiveIsNewest'
  BY <1>10 DEF FailPrepared, Released, records, RecordExists
<1>11. ASSUME NEW a \in Applies, ReceiveReady(a) PROVE ActiveIsNewest'
  BY <1>11 DEF ReceiveReady, Released, records
<1>12. ASSUME NEW a \in Applies, Commit(a) PROVE ActiveIsNewest'
  BY <1>12 DEF Commit, Decide, records
<1>13. ASSUME NEW a \in Applies, Abort(a) PROVE ActiveIsNewest'
  BY <1>13 DEF Abort, Decide, records
<1>14. ASSUME NEW a \in Applies, ApplyDies(a) PROVE ActiveIsNewest'
  BY <1>14 DEF ApplyDies, Released, records
<1>15. ASSUME NEW a \in Applies, AcquireTransactionLock(a) PROVE ActiveIsNewest'
  BY <1>15 DEF AcquireTransactionLock, records
<1>16. ASSUME NEW a \in Applies, SendReady(a) PROVE ActiveIsNewest'
  BY <1>16 DEF SendReady, records
<1>17. ASSUME NEW a \in Applies, ReadDecision(a) PROVE ActiveIsNewest'
  BY <1>17 DEF ReadDecision, records
<1>18. ASSUME NEW a \in Applies, ReadPrepared(a) PROVE ActiveIsNewest'
  BY <1>18 DEF ReadPrepared, records
<1>19. ASSUME NEW a \in Applies, AbortPersisted(a) PROVE ActiveIsNewest'
  BY <1>19 DEF AbortPersisted, Persist, records, RecordExists
<1>20. ASSUME NEW a \in Applies, CommitPersisted(a) PROVE ActiveIsNewest'
  BY <1>20 DEF CommitPersisted, Persist, records, RecordExists, CopyIsRecord
<1>21. ASSUME NEW a \in Applies, PhaseSucceeds(a) PROVE ActiveIsNewest'
  BY <1>21 DEF PhaseSucceeds, Persist, Phases, Forward, records, RecordExists, CopyIsRecord
<1>22. ASSUME NEW a \in Applies, PhaseFails(a) PROVE ActiveIsNewest'
  BY <1>22 DEF PhaseFails, Persist, records, RecordExists
<1>23. ASSUME NEW a \in Applies, ChildExits(a) PROVE ActiveIsNewest'
  BY <1>23 DEF ChildExits, records
<1>24. ASSUME NEW a \in Applies, ChildDies(a) PROVE ActiveIsNewest'
  BY <1>24 DEF ChildDies, records
<1>25. CASE LocalAcquire
  BY <1>25 DEF LocalAcquire, Released, records
<1>26. CASE LocalApply
  BY <1>26 DEF LocalApply, Released, records
<1>27. CASE LocalEnds
  BY <1>27 DEF LocalEnds, Released, records
<1> QED
  BY <1>0, <1>1, <1>2, <1>3, <1>4, <1>5, <1>6, <1>7, <1>8, <1>9, <1>10, <1>11, <1>12, <1>13, <1>14, <1>15, <1>16, <1>17, <1>18, <1>19, <1>20, <1>21, <1>22, <1>23, <1>24, <1>25, <1>26, <1>27 DEF Next, ApplyStep, TransportStep, ChildStep, LocalStep

-----------------------------------------------------------------------------
(* The theorems. *)

\* Nothing is recorded, held or running at the start.
LEMMA InitInv == Init => IndInv
<1> SUFFICES ASSUME Init PROVE IndInv
  OBVIOUS
<1> USE NameAssumption, LimitAssumption
      DEF Init, TypeOK, States, ApplyPC, ChildPC, Present, Active
<1>1. TypeOK /\ AdmissionHeld /\ RecordExists /\ StreamAgrees /\ LockIsOwned
  BY DEF AdmissionHeld, Admitting, RecordExists, StreamAgrees, Committing, LockIsOwned, Owning
<1>2. CopyIsRecord /\ ScanIsSafe /\ CommitAuthorized
  BY DEF CopyIsRecord, ScanIsSafe, CommitAuthorized
<1>3. Present = {}
  OBVIOUS
<1>4. StartsAlone /\ SequenceIsFresh /\ RoomForRecord /\ OneActive /\ ActiveIsNewest
  BY <1>3 DEF StartsAlone, SequenceIsFresh, RoomForRecord, OneActive, ActiveIsNewest
<1>5. RecordsBounded
  BY <1>3, FS_EmptySet DEF RecordsBounded
<1> QED
  BY <1>1, <1>2, <1>4, <1>5 DEF IndInv

\* The control and data invariants of calls, coordinators, locks and records
\* hold in every reachable state, for every set of calls and every limit.
THEOREM Invariance == Spec => []IndInv
<1>1. IndInv /\ [Next]_vars => IndInv'
  BY TypeStep, AdmissionStep, RecordStep, StreamStep, LockStep, ScanStep, CopyStep,
     AuthorizedStep, ActiveStep, AloneStep, RoomStep, FreshStep, NewestStep DEF IndInv
<1> QED
  BY InitInv, <1>1, PTL DEF Spec

\* TypeOK: the variables keep their types.
THEOREM TypeCorrect == Spec => []TypeOK
<1>1. IndInv => TypeOK
  BY DEF IndInv
<1> QED
  BY Invariance, <1>1, PTL

\* OneActive: no two transactions are ever non-terminal together.
THEOREM OneActiveCorrect == Spec => []OneActive
<1>1. IndInv => OneActive
  BY DEF IndInv
<1> QED
  BY Invariance, <1>1, PTL

\* OneDestructive: neither two coordinators nor a coordinator and the local
\* command ever do their destructive work together.
THEOREM OneDestructiveCorrect == Spec => []OneDestructive
<1>1. ASSUME IndInv PROVE OneDestructive
  <2>1. \A t \in Applies : child[t] = "running" => t \in Active
    BY <1>1 DEF IndInv, CopyIsRecord, RecordExists, Active, Present
  <2> QED
    BY <1>1, <2>1 DEF IndInv, OneActive, StartsAlone, OneDestructive
<1> QED
  BY Invariance, <1>1, PTL

\* CommitAuthorized: nothing passes PREPARED without the transport's COMMIT.
THEOREM CommitCorrect == Spec => []CommitAuthorized
<1>1. IndInv => CommitAuthorized
  BY DEF IndInv
<1> QED
  BY Invariance, <1>1, PTL

\* RecordIsCopy: the record of a running coordinator is what it last wrote.
THEOREM RecordCorrect == Spec => []RecordIsCopy
<1>1. IndInv => RecordIsCopy
  BY DEF IndInv, CopyIsRecord, RecordIsCopy
<1> QED
  BY Invariance, <1>1, PTL

\* ActiveIsNewest: the active transaction has the greatest sequence.
THEOREM NewestCorrect == Spec => []ActiveIsNewest
<1>1. IndInv => ActiveIsNewest
  BY DEF IndInv
<1> QED
  BY Invariance, <1>1, PTL

\* RecordsBounded: the directory holds at most one record beyond the limit.
THEOREM BoundCorrect == Spec => []RecordsBounded
<1>1. IndInv => RecordsBounded
  BY DEF IndInv
<1> QED
  BY Invariance, <1>1, PTL

=============================================================================
