-------------------------- MODULE CodexTaskProofs --------------------------
(***************************************************************************)
(* Proofs about CodexTask, for any processes, callers, tasks, chains of    *)
(* continued tasks, controls and history length.                           *)
(*                                                                         *)
(* OneDriver rests on two arguments.  A child is a registered runtime or   *)
(* belongs to a call that holds the lease, so a task has one (OneLease).   *)
(* Of the tasks of a conversation all but one are continued (OneLeaf), and *)
(* a continued task has at most a runtime that is being shut down while    *)
(* the start of its successor, childless, waits (ContinuedIsQuiet).        *)
(* AtMostOnce needs to know that an operation that went out is remembered, *)
(* by its status, a receipt or a tombstone, and that no call is on its way *)
(* to send it once more (Once).                                            *)
(***************************************************************************)
EXTENDS CodexTask, TLAPS

\* The operations a record remembers, by receipt or by tombstone.
Remembered(r) == {r.ops[i].op : i \in DOMAIN r.ops} \cup r.tombs

Steers == {"steer", "interrupt", "resume"}

\* Where a start is before it has bound its thread, and after.
Unbound == {"retire", "admit", "refused", "thread", "bind"}
Bound == {"wait", "insert"}

-----------------------------------------------------------------------------
(* What a call holds at each place. *)

StartShape(k) ==
  /\ k.op = k.task
  /\ k.pc \in Unbound \cup Bound
  /\ k.lease = (k.pc # "refused")
  /\ k.client = IF k.pc \in {"thread", "bind", "wait", "insert"} THEN "own" ELSE "none"
  /\ k.pc = "retire" => Source[k.task] # None
  /\ k.pc \in Unbound => /\ rec[k.task].thread = None
                         /\ rec[k.task].status \in {"accepted", "reconcile"}
  /\ k.pc \in Bound => rec[k.task].thread # None

RequestShape(k) ==
  /\ IF k.kind = "get" THEN k.op = k.task
     ELSE /\ k.op \in Controls /\ k.kind = Action[k.op] /\ k.task = Target[k.op]
          /\ k.op \in Remembered(rec[k.task])
  /\ k.pc \in {"orphan", "ensure", "attach", "send", "wait", "apply", "fail"}
  /\ k.pc = "orphan" => k.kind = "get"
  /\ k.pc = "wait" => k.kind \in {"steer", "interrupt"}
  /\ k.pc = "apply" => k.kind \in {"resume", "get"}
                       /\ k.status \in TurnStatuses \cup {"reconcile", "unknown"}
  /\ k.client = "own" <=> k.pc = "attach"
  /\ k.pc = "attach" => k.lease
  /\ k.lease => k.pc \in {"orphan", "ensure", "attach"}
  /\ k.pc # "orphan" => rec[k.task].thread # None

Shape(c) ==
  /\ call[c].kind = "none" => call[c] = Idle
  /\ call[c].kind # "none" => call[c].task \in Tasks /\ Exists(call[c].task)
  /\ call[c].kind = "start" => StartShape(call[c])
  /\ call[c].kind \in Steers \cup {"get"} => RequestShape(call[c])

CallShape == \A c \in Callers : Shape(c)

\* A start, and a control, is under way once.
OneStart ==
  \A c, d \in Callers :
    call[c].kind = "start" /\ call[d].kind = "start" /\ call[c].task = call[d].task => c = d
OneControl ==
  \A c, d \in Callers :
    call[c].kind \in Steers /\ call[d].kind \in Steers /\ call[c].op = call[d].op => c = d

\* Runtimes and approval requests belong to a task that has its thread.
Threaded ==
  \A t \in Tasks : /\ \A p \in Procs : reg[p][t] # "none" => rec[t].thread # None
                   /\ ask[t].stage # "none" => rec[t].thread # None /\ ask[t].turn # None

-----------------------------------------------------------------------------
(* The lease. *)

Leased(c, t) == call[c].task = t /\ call[c].lease

OneLease ==
  \A t \in Tasks :
    /\ \A p, q \in Procs : reg[p][t] # "none" /\ reg[q][t] # "none" => p = q
    /\ \A c, d \in Callers : Leased(c, t) /\ Leased(d, t) => c = d
    /\ \A p \in Procs, c \in Callers : reg[p][t] # "none" => ~Leased(c, t)

-----------------------------------------------------------------------------
(* Conversations. *)

Continued(t) == rec[t].claim # None /\ Exists(rec[t].claim)

Threads ==
  \A t \in Tasks :
    /\ rec[t].thread # None => /\ Exists(t) /\ rec[t].thread = Conversation(t)
                               /\ Exists(rec[t].thread) /\ Source[rec[t].thread] = None
    /\ rec[t].claim # None => /\ Source[rec[t].claim] = t
                              /\ Terminal(rec[t].status) /\ rec[t].thread # None
    /\ Exists(t) /\ Source[t] # None => rec[Source[t]].claim = t

\* A conversation has one task that nobody continues yet.
OneLeaf ==
  \A t, u \in Tasks :
    Exists(t) /\ Exists(u) /\ Conversation(t) = Conversation(u) /\ t # u
      => Continued(t) \/ Continued(u)

\* What is left of a continued task is a runtime that shuts down while the
\* start of its successor waits for that.
ContinuedIsQuiet ==
  \A s \in Tasks : Continued(s) =>
    /\ \A c \in Callers : call[c].task = s => call[c].client # "own"
    /\ \A p \in Procs : reg[p][s] # "none" =>
         /\ reg[p][s] = "dying"
         /\ \E c \in Callers : /\ Home(c) = p /\ At(c, "start", "retire")
                               /\ call[c].task = rec[s].claim

-----------------------------------------------------------------------------
(* Operations that reached the app-server. *)

\* No start of t is, or may come to be, at one of these places.
NoStart(t, places) ==
  /\ rec[t].status \notin {"missing", "retryable"}
  /\ \A c \in Callers : call[c].kind = "start" /\ call[c].task = t => call[c].pc \notin places

Reached(o) == served[o] # 0 \/ wire[o].state # "none"

Once ==
  /\ \A t \in Tasks : /\ begun[t] <= 1
                      /\ begun[t] # 0 => NoStart(t, {"retire", "admit", "refused", "thread"})
                      /\ Reached(t) => NoStart(t, Unbound)
                      /\ ~Exists(t) => Remembered(rec[t]) = {}
  /\ \A o \in Ops : /\ served[o] <= 1
                    /\ wire[o].state = "sent" => served[o] = 0
  /\ \A o \in Controls : Reached(o) =>
       /\ o \in Remembered(rec[Target[o]])
       /\ \A c \in Callers : call[c].kind \in Steers /\ call[c].op = o
                               => call[c].pc \notin {"ensure", "attach", "send"}

Base == TypeOK /\ CallShape /\ OneStart /\ OneControl /\ Threaded
IndInv == Base /\ OneLease /\ Threads /\ OneLeaf /\ ContinuedIsQuiet /\ Once

-----------------------------------------------------------------------------
(* The operators on records. *)

\* A task's name is an operation, and every operation is for a task.
LEMMA Names ==
  /\ None \notin Ops /\ None \notin Tasks /\ Tasks \subseteq Ops /\ Controls \subseteq Ops
  /\ \A o \in Ops : TaskOf(o) \in Tasks
  /\ \A t \in Tasks : TaskOf(t) = t /\ t \notin Controls
  /\ \A o \in Controls : TaskOf(o) = Target[o] /\ Action[o] \in Steers /\ Target[o] \in Tasks
  BY OperationAssumption DEF Ops, TaskOf, Steers

\* A sequence is a function on an initial segment, and back.
LEMMA SeqFun ==
  ASSUME NEW T, NEW q \in Seq(T)
  PROVE  /\ Len(q) \in Nat /\ DOMAIN q = 1..Len(q) /\ q \in [1..Len(q) -> T]
         /\ \A s \in [1..Len(q) -> T] : s \in Seq(T)
  OBVIOUS

\* The oldest entry, and the others.
LEMMA TailSeq ==
  ASSUME NEW T, NEW q \in Seq(T), Len(q) > 0
  PROVE  /\ Tail(q) \in Seq(T) /\ Len(Tail(q)) = Len(q) - 1
         /\ Head(q) \in T /\ Head(q) = q[1]
         /\ \A i \in 1..(Len(q) - 1) : Tail(q)[i] = q[i + 1]
  OBVIOUS

\* update_operation_receipt changes the phase of a receipt and nothing else.
LEMMA SetPhaseFields ==
  ASSUME NEW r \in Record, NEW o \in Ops, NEW phase \in Phases
  PROVE  /\ SetPhase(r, o, phase) \in Record
         /\ SetPhase(r, o, phase).status = r.status
         /\ SetPhase(r, o, phase).thread = r.thread
         /\ SetPhase(r, o, phase).turn = r.turn
         /\ SetPhase(r, o, phase).prev = r.prev
         /\ SetPhase(r, o, phase).claim = r.claim
         /\ Remembered(SetPhase(r, o, phase)) = Remembered(r)
<1> DEFINE s == [i \in DOMAIN r.ops |->
                   IF r.ops[i].op = o THEN [op |-> o, phase |-> phase] ELSE r.ops[i]]
           q == SetPhase(r, o, phase)
<1>1. q = [r EXCEPT !.ops = s]
  BY DEF SetPhase
<1>2. r.ops \in Seq([op : Ops, phase : Phases])
  BY DEF Record
<1>3. s \in Seq([op : Ops, phase : Phases]) /\ DOMAIN s = DOMAIN r.ops
  <2>1. /\ r.ops \in [1..Len(r.ops) -> [op : Ops, phase : Phases]]
        /\ DOMAIN r.ops = 1..Len(r.ops)
    BY <1>2, SeqFun
  <2>2. s \in [1..Len(r.ops) -> [op : Ops, phase : Phases]]
    BY <2>1
  <2> HIDE DEF s
  <2> QED
    BY <1>2, <2>1, <2>2, SeqFun
<1>4. \A i \in DOMAIN r.ops : s[i].op = r.ops[i].op
  OBVIOUS
<1> HIDE DEF s
<1>5. q \in Record /\ q.ops = s /\ q.tombs = r.tombs
  BY <1>1, <1>3 DEF Record
<1>6. /\ q.status = r.status /\ q.thread = r.thread /\ q.turn = r.turn
      /\ q.prev = r.prev /\ q.claim = r.claim
  BY <1>1 DEF Record
<1>7. Remembered(q) = Remembered(r)
  <2>1. {q.ops[i].op : i \in DOMAIN q.ops} = {r.ops[i].op : i \in DOMAIN r.ops}
    BY <1>3, <1>4, <1>5
  <2> QED
    BY <1>5, <2>1 DEF Remembered
<1> QED
  BY <1>5, <1>6, <1>7

\* A new receipt is unsettled, and no operation is forgotten for it.
LEMMA PushFields ==
  ASSUME NEW r \in Record, NEW o \in Ops
  PROVE  /\ Push(r, o) \in Record
         /\ Push(r, o).status = r.status
         /\ Push(r, o).thread = r.thread
         /\ Push(r, o).turn = r.turn
         /\ Push(r, o).prev = r.prev
         /\ Push(r, o).claim = r.claim
         /\ Remembered(r) \cup {o} \subseteq Remembered(Push(r, o))
         /\ Unsettled(Push(r, o))
<1> DEFINE T == [op : Ops, phase : Phases]
           e == [op |-> o, phase |-> "accepted"]
           full == Len(r.ops) >= MaxHistory
           q == Push(r, o)
<1>1. r.ops \in Seq(T) /\ r.tombs \subseteq Ops /\ e \in T /\ Len(r.ops) \in Nat
  BY DEF Record, Phases
<1>2. /\ q.status = r.status /\ q.thread = r.thread /\ q.turn = r.turn
      /\ q.prev = r.prev /\ q.claim = r.claim
      /\ q = [r EXCEPT !.ops = q.ops, !.tombs = q.tombs]
  BY DEF Push, Record
<1>3. CASE full
  <2> DEFINE rest == Tail(r.ops)
             gone == Head(r.ops)
  <2>1. /\ q.ops = Append(rest, e)
        /\ q.tombs = r.tombs \cup {gone.op}
    BY <1>3 DEF Push, Record
  <2>2. Len(r.ops) > 0
    BY <1>1, <1>3, HistoryAssumption
  <2>3. /\ rest \in Seq(T) /\ gone \in T /\ Len(rest) = Len(r.ops) - 1
        /\ gone = r.ops[1]
        /\ \A i \in 1..(Len(r.ops) - 1) : rest[i] = r.ops[i + 1]
    BY <1>1, <2>2, TailSeq
  <2> HIDE DEF rest, gone
  <2>4. /\ q.ops \in Seq(T) /\ Len(q.ops) = Len(r.ops)
        /\ q.ops[Len(r.ops)] = e
        /\ \A i \in 1..(Len(r.ops) - 1) : q.ops[i] = r.ops[i + 1]
    BY <1>1, <2>1, <2>2, <2>3
  <2>5. q \in Record
    BY <1>1, <1>2, <2>1, <2>3, <2>4 DEF Record
  <2>6. \A i \in DOMAIN r.ops : r.ops[i].op \in Remembered(q)
    <3> SUFFICES ASSUME NEW i \in DOMAIN r.ops PROVE r.ops[i].op \in Remembered(q)
      OBVIOUS
    <3>1. i \in 1..Len(r.ops)
      BY <1>1
    <3>2. CASE i = 1
      BY <2>1, <2>3, <3>2 DEF Remembered
    <3>3. CASE i # 1
      <4>1. i - 1 \in 1..(Len(r.ops) - 1)
        BY <1>1, <3>1, <3>3
      <4>2. q.ops[i - 1] = r.ops[i] /\ i - 1 \in DOMAIN q.ops
        BY <1>1, <2>4, <3>1, <4>1
      <4> QED
        BY <4>2 DEF Remembered
    <3> QED
      BY <3>2, <3>3
  <2>7. r.tombs \subseteq Remembered(q)
    BY <2>1 DEF Remembered
  <2>8. Len(r.ops) \in DOMAIN q.ops
    BY <1>1, <2>2, <2>4
  <2>9. o \in Remembered(q) /\ Unsettled(q)
    BY <2>4, <2>8 DEF Remembered, Unsettled
  <2> QED
    BY <1>2, <2>5, <2>6, <2>7, <2>9 DEF Remembered
<1>4. CASE ~full
  <2>1. q.ops = Append(r.ops, e) /\ q.tombs = r.tombs
    BY <1>4 DEF Push, Record
  <2>2. /\ q.ops \in Seq(T) /\ Len(q.ops) = Len(r.ops) + 1
        /\ q.ops[Len(r.ops) + 1] = e
        /\ \A i \in 1..Len(r.ops) : q.ops[i] = r.ops[i]
    BY <1>1, <2>1
  <2>3. q \in Record
    BY <1>1, <1>2, <2>1, <2>2 DEF Record
  <2>4. \A i \in DOMAIN r.ops : r.ops[i].op \in Remembered(q)
    <3> SUFFICES ASSUME NEW i \in DOMAIN r.ops PROVE r.ops[i].op \in Remembered(q)
      OBVIOUS
    <3>1. i \in DOMAIN q.ops /\ q.ops[i] = r.ops[i]
      BY <1>1, <2>2
    <3> QED
      BY <3>1 DEF Remembered
  <2>5. r.tombs \subseteq Remembered(q)
    BY <2>1 DEF Remembered
  <2>6. Len(r.ops) + 1 \in DOMAIN q.ops
    BY <1>1, <2>2
  <2>7. o \in Remembered(q) /\ Unsettled(q)
    BY <2>2, <2>6 DEF Remembered, Unsettled
  <2> QED
    BY <1>2, <2>3, <2>4, <2>5, <2>7 DEF Remembered
<1> QED
  BY <1>3, <1>4

-----------------------------------------------------------------------------
(* What steps leave alone.  Every action is one of these frames, or one    *)
(* with an exception that its own lemma deals with.                        *)

\* The call is as it was, or lost its shared client.
Kept(k, l) == l = k \/ (k.client = "shared" /\ l = [k EXCEPT !.client = "dead"])

\* A record may only learn.
KeepsRecord(t) ==
  /\ Exists(t) => Exists(t)'
  /\ rec[t].thread # None => rec'[t].thread = rec[t].thread
  /\ Remembered(rec[t]) \subseteq Remembered(rec'[t])

\* A start that has not bound its thread owns this record.
Open(t) == rec[t].thread = None /\ rec[t].status \in {"accepted", "reconcile"}
Starting(c) == call[c].kind = "start" /\ call[c].pc \in Unbound

\* A call that was there before, as the same operation.
Holds(c) == /\ call'[c].kind = call[c].kind
            /\ call'[c].op = call[c].op /\ call'[c].task = call[c].task

\* The shape of a call that does not move.
LEMMA FrameShape ==
  ASSUME Base, NEW c \in Callers, Kept(call[c], call'[c]),
         \A t \in Tasks : KeepsRecord(t),
         Starting(c) => Open(call[c].task)'
  PROVE  Shape(c)'
<1> DEFINE k == call[c]
           l == call'[c]
<1>1. k \in Call
  BY DEF Base, TypeOK
<1>2. /\ l.pc = k.pc /\ l.kind = k.kind /\ l.op = k.op /\ l.task = k.task
      /\ l.lease = k.lease /\ l.status = k.status
      /\ l = k \/ (k.client = "shared" /\ l.client = "dead")
  BY <1>1 DEF Kept, Call
<1>3. Shape(c)
  BY DEF Base, CallShape
<1>4. CASE k.kind = "none"
  <2>1. k = Idle /\ l = k
    BY <1>2, <1>3, <1>4 DEF Shape, Idle
  <2> QED
    BY <1>4, <2>1 DEF Shape, Steers
<1>5. CASE k.kind # "none"
  <2>1. /\ k.task \in Tasks /\ Exists(k.task)' /\ KeepsRecord(k.task)
    BY <1>2, <1>3, <1>5 DEF Shape, KeepsRecord
  <2>2. ASSUME k.kind = "start"
        PROVE  StartShape(call[c])'
    <3>1. StartShape(k)
      BY <1>3, <2>2 DEF Shape
    <3>2. k.pc \in Unbound => Open(call[c].task)'
      BY <2>2 DEF Starting
    <3>3. k.pc \in Bound => rec'[k.task].thread # None
      BY <2>1, <3>1 DEF KeepsRecord, StartShape
    <3>4. l.client = k.client
      BY <1>2, <3>1 DEF StartShape
    <3> QED
      BY <1>2, <3>1, <3>2, <3>3, <3>4 DEF StartShape, Open
  <2>3. ASSUME k.kind \in Steers \cup {"get"}
        PROVE  RequestShape(call[c])'
    <3>1. RequestShape(k)
      BY <1>3, <2>3 DEF Shape
    <3>2. k.pc # "orphan" => rec'[k.task].thread # None
      BY <2>1, <3>1 DEF KeepsRecord, RequestShape
    <3>3. k.op \in Remembered(rec[k.task]) => k.op \in Remembered(rec'[k.task])
      BY <2>1 DEF KeepsRecord
    <3>4. (l.client = "own") <=> (k.client = "own")
      BY <1>2
    <3> QED
      BY <1>2, <3>1, <3>2, <3>3, <3>4 DEF RequestShape
  <2> QED
    BY <1>2, <1>5, <2>1, <2>2, <2>3 DEF Shape
<1> QED
  BY <1>4, <1>5

\* A start or control that nobody else has under way.
Alone(c) ==
  \A d \in Callers \ {c} :
    /\ ~(call'[c].kind = "start" /\ call'[d].kind = "start" /\ call'[c].task = call'[d].task)
    /\ ~(call'[c].kind \in Steers /\ call'[d].kind \in Steers /\ call'[c].op = call'[d].op)

\* Whatever begins is alone.
LEMMA FrameOne ==
  ASSUME Base, \A c \in Callers : call'[c].kind # "none" => Holds(c) \/ Alone(c)
  PROVE  OneStart' /\ OneControl'
<1>1. OneStart'
  BY DEF Base, OneStart, Holds, Alone
<1>2. OneControl'
  BY DEF Base, OneControl, Holds, Alone, Steers
<1> QED
  BY <1>1, <1>2

\* Nobody comes to hold a lease.
LEMMA FrameLease ==
  ASSUME OneLease,
         \A p \in Procs, t \in Tasks : reg'[p][t] # "none" => reg[p][t] # "none",
         \A c \in Callers : call'[c].lease => call[c].lease /\ call'[c].task = call[c].task
  PROVE  OneLease'
  BY DEF OneLease, Leased

\* Who continues whom does not change.
SameLinks(t) == /\ rec'[t].thread = rec[t].thread
                /\ rec'[t].claim = rec[t].claim
                /\ Exists(t)' <=> Exists(t)

LEMMA FrameThreads ==
  ASSUME TypeOK, Threads, OneLeaf, \A t \in Tasks : SameLinks(t),
         \A t \in Tasks : rec[t].claim # None => Terminal(rec'[t].status)
  PROVE  Threads' /\ OneLeaf'
<1>1. \A t \in Tasks : Source[t] \in Tasks \cup {None}
  BY OperationAssumption
<1>2. \A t \in Tasks : /\ rec[t].thread \in Tasks \cup {None}
                       /\ rec[t].claim \in Tasks \cup {None}
  BY DEF TypeOK, Record
<1>3. \A t \in Tasks : Conversation(t)' = Conversation(t)
  BY <1>1 DEF Conversation, SameLinks
<1>4. \A t \in Tasks : Continued(t) => Continued(t)'
  BY <1>2 DEF Continued, SameLinks
<1>5. Threads'
  BY <1>1, <1>2, <1>3 DEF Threads, SameLinks
<1>6. OneLeaf'
  BY <1>3, <1>4 DEF OneLeaf, SameLinks
<1> QED
  BY <1>5, <1>6

\* No child comes to work on a continued task, and the start that waits for
\* the end of one goes on waiting.
KeepsQuiet(s) ==
  /\ \A c \in Callers : call'[c].task = s /\ call'[c].client = "own"
                          => call[c].task = s /\ call[c].client = "own"
  /\ \A p \in Procs : reg'[p][s] # "none" =>
       /\ reg[p][s] # "none" /\ (reg[p][s] = "dying" => reg'[p][s] = "dying")
       /\ \A c \in Callers :
            Home(c) = p /\ At(c, "start", "retire") /\ call[c].task = rec[s].claim
              => At(c, "start", "retire")' /\ call'[c].task = rec[s].claim

LEMMA FrameQuiet ==
  ASSUME TypeOK, ContinuedIsQuiet,
         \A t \in Tasks : rec'[t].claim = rec[t].claim /\ (Exists(t)' <=> Exists(t)),
         \A s \in Tasks : Continued(s) => KeepsQuiet(s)
  PROVE  ContinuedIsQuiet'
<1> SUFFICES ASSUME NEW s \in Tasks, Continued(s)'
             PROVE  /\ \A c \in Callers : call'[c].task = s => call'[c].client # "own"
                    /\ \A p \in Procs : reg'[p][s] # "none" =>
                         /\ reg'[p][s] = "dying"
                         /\ \E c \in Callers :
                              /\ Home(c) = p /\ At(c, "start", "retire")'
                              /\ call'[c].task = rec'[s].claim
  BY DEF ContinuedIsQuiet
<1>1. rec'[s].claim = rec[s].claim /\ rec[s].claim \in Tasks \cup {None}
  BY DEF TypeOK, Record
<1>2. Continued(s)
  BY <1>1 DEF Continued
<1> QED
  BY <1>1, <1>2 DEF ContinuedIsQuiet, KeepsQuiet

\* A call whose operation has not reached the app-server.
Fresh(c) ==
  /\ call'[c].kind = "start" => begun'[call'[c].task] = 0 /\ ~Reached(call[c].task)'
  /\ call'[c].kind \in Steers => ~Reached(call[c].op)'

\* Nothing new goes out, and no start or control falls back.
LEMMA FrameOnce ==
  ASSUME TypeOK, Once, \A t \in Tasks : KeepsRecord(t),
         \A t \in Tasks : rec'[t].status = "retryable" =>
            rec[t].status = "retryable" \/ (begun'[t] = 0 /\ ~Reached(t)'),
         \A t \in Tasks : ~Exists(t)' => ~Exists(t) /\ Remembered(rec'[t]) = Remembered(rec[t]),
         \A c \in Callers : call'[c].kind # "none" => Holds(c) \/ Fresh(c),
         \A c \in Callers : call[c].kind = "start" =>
            \A S \in {{"retire", "admit", "refused", "thread"}, Unbound} :
               call'[c].pc \in S => call[c].pc \in S,
         \A c \in Callers : call[c].kind \in Steers =>
            LET S == {"ensure", "attach", "send"}
            IN  call'[c].pc \in S => call[c].pc \in S,
         \A o \in Ops : /\ wire'[o].state # "none" => wire[o].state # "none"
                        /\ wire'[o].state = "sent" => wire[o].state = "sent",
         UNCHANGED <<begun, served>>
  PROVE  Once'
<1>1. \A o \in Ops : Reached(o)' => Reached(o)
  BY DEF Reached
<1>2. \A t \in Tasks, S \in {{"retire", "admit", "refused", "thread"}, Unbound} :
         /\ NoStart(t, S) /\ rec'[t].status # "retryable"
         /\ \A c \in Callers : call'[c].kind = "start" /\ call'[c].task = t => Holds(c)
         => NoStart(t, S)'
  BY DEF NoStart, Holds, KeepsRecord, Exists
<1>3. ASSUME NEW t \in Tasks
      PROVE  /\ begun'[t] <= 1
             /\ begun'[t] # 0 => NoStart(t, {"retire", "admit", "refused", "thread"})'
             /\ Reached(t)' => NoStart(t, Unbound)'
             /\ ~Exists(t)' => Remembered(rec'[t]) = {}
  <2>1. t \in Ops
    BY DEF Ops
  <2>2. begun'[t] # 0 => NoStart(t, {"retire", "admit", "refused", "thread"})'
    <3>1. ASSUME begun'[t] # 0
          PROVE  /\ NoStart(t, {"retire", "admit", "refused", "thread"})
                 /\ rec'[t].status # "retryable"
                 /\ \A c \in Callers : call'[c].kind = "start" /\ call'[c].task = t => Holds(c)
      BY <3>1 DEF Once, NoStart, Fresh
    <3> QED
      BY <1>2, <3>1
  <2>3. Reached(t)' => NoStart(t, Unbound)'
    <3>1. ASSUME Reached(t)'
          PROVE  /\ NoStart(t, Unbound) /\ rec'[t].status # "retryable"
                 /\ \A c \in Callers : call'[c].kind = "start" /\ call'[c].task = t => Holds(c)
      <4>1. NoStart(t, Unbound) /\ rec'[t].status # "retryable"
        BY <1>1, <2>1, <3>1 DEF Once, NoStart
      <4>2. \A c \in Callers : call'[c].kind = "start" /\ call'[c].task = t => Holds(c)
        BY <3>1 DEF Fresh, Reached
      <4> QED
        BY <4>1, <4>2
    <3> QED
      BY <1>2, <3>1
  <2>4. ~Exists(t)' => Remembered(rec'[t]) = {}
    BY DEF Once
  <2> QED
    BY <2>2, <2>3, <2>4 DEF Once
<1>4. \A o \in Ops : /\ served'[o] <= 1
                     /\ wire'[o].state = "sent" => served'[o] = 0
  BY DEF Once
<1>5. ASSUME NEW o \in Controls, Reached(o)'
      PROVE  /\ o \in Remembered(rec'[Target[o]])
             /\ \A c \in Callers : call'[c].kind \in Steers /\ call'[c].op = o
                                     => call'[c].pc \notin {"ensure", "attach", "send"}
  <2>1. Reached(o) /\ Target[o] \in Tasks
    BY <1>1, <1>5, Names
  <2>2. o \in Remembered(rec'[Target[o]])
    BY <2>1 DEF Once, KeepsRecord
  <2>3. ASSUME NEW c \in Callers, call'[c].kind \in Steers, call'[c].op = o
        PROVE  call'[c].pc \notin {"ensure", "attach", "send"}
    <3>1. call[c].kind \in Steers /\ call[c].op = o
      BY <1>5, <2>3 DEF Holds, Fresh, Reached, Steers
    <3>2. call[c].pc \notin {"ensure", "attach", "send"}
      BY <2>1, <3>1 DEF Once
    <3> QED
      BY <3>1, <3>2
  <2> QED
    BY <2>2, <2>3
<1> QED
  BY <1>3, <1>4, <1>5 DEF Once

-----------------------------------------------------------------------------
(* The frames together. *)

\* The links of a record stay; a terminal status does too, and a start only
\* becomes retryable when nothing of it went out.
MildRecord(t) ==
  /\ SameLinks(t)
  /\ Remembered(rec'[t]) = Remembered(rec[t])
  /\ Terminal(rec[t].status) => rec'[t].status = rec[t].status
  /\ rec'[t].status = "retryable" =>
       rec[t].status = "retryable" \/ (begun'[t] = 0 /\ ~Reached(t)')

\* Runtimes end or begin to.
RuntimesEnd ==
  \A p \in Procs, t \in Tasks : reg'[p][t] # "none" =>
    reg[p][t] # "none" /\ (reg[p][t] = "dying" => reg'[p][t] = "dying")

\* A start that stops waiting for its source has nothing to wait for.
Released(c) ==
  At(c, "start", "retire") => reg'[Home(c)][Source[call[c].task]] # "dying"

Advances(c) ==
  /\ Holds(c) /\ Released(c)
  /\ call'[c].client = "own" => call[c].client = "own" \/ ~Continued(call[c].task)
  /\ call[c].kind = "start" =>
       \A S \in {{"retire", "admit", "refused", "thread"}, Unbound} :
          call'[c].pc \in S => call[c].pc \in S
  /\ call[c].kind \in Steers =>
       LET S == {"ensure", "attach", "send"}
       IN  call'[c].pc \in S => call[c].pc \in S
Moved(c) == Advances(c) /\ (call'[c].lease => call[c].lease)

\* A call stays, returns, or moves on, with the lease it had or without it.
Proceeds(c) ==
  \/ Kept(call[c], call'[c]) /\ (Starting(c) => Open(call[c].task)')
  \/ call'[c] = Idle /\ Released(c)
  \/ Moved(c) /\ Shape(c)'

\* A call stays, returns, or moves on, perhaps with the lease it needs.
Goes(c) ==
  \/ Kept(call[c], call'[c]) /\ (Starting(c) => Open(call[c].task)')
  \/ call'[c] = Idle /\ Released(c)
  \/ Advances(c) /\ Shape(c)'

\* A call begins.
Begins(c) == call[c] = Idle /\ call'[c].client = "none" /\ Shape(c)'

\* Requests are answered or lost.
WireEnds ==
  \A o \in Ops : /\ wire'[o].state # "none" => wire[o].state # "none"
                 /\ wire'[o].state = "sent" => wire[o].state = "sent"

\* The fields of a call that stays.
LEMMA KeptFields ==
  ASSUME NEW k \in Call, NEW l, Kept(k, l)
  PROVE  /\ l.pc = k.pc /\ l.kind = k.kind /\ l.op = k.op /\ l.task = k.task
         /\ l.lease = k.lease /\ (l.client = "own" => k.client = "own")
  BY DEF Kept, Call

\* Idle has the type of a call.
LEMMA IdleFields ==
  /\ Idle \in Call /\ Idle.kind = "none" /\ ~Idle.lease /\ Idle.client = "none"
  /\ Idle.pc = "idle" /\ Idle.task = None /\ Idle.op = None
  BY DEF Idle, Call, Pcs, Kinds, Statuses

\* What a call keeps, seen from the other parts of the invariant.
LEMMA GoesFacts ==
  ASSUME TypeOK, NEW c \in Callers, Goes(c)
  PROVE  /\ call'[c].kind # "none" => Holds(c)
         /\ call'[c].client = "own" =>
              /\ call'[c].task = call[c].task
              /\ call[c].client = "own" \/ ~Continued(call[c].task)
         /\ call[c].kind = "start" =>
              \A S \in {{"retire", "admit", "refused", "thread"}, Unbound} :
                 call'[c].pc \in S => call[c].pc \in S
         /\ call[c].kind \in Steers =>
              LET S == {"ensure", "attach", "send"}
              IN  call'[c].pc \in S => call[c].pc \in S
         /\ \/ Holds(c) /\ call'[c].pc = call[c].pc
            \/ Released(c)
<1>1. call[c] \in Call
  BY DEF TypeOK
<1>2. CASE Kept(call[c], call'[c])
  BY <1>1, <1>2, KeptFields DEF Holds
<1>3. CASE call'[c] = Idle /\ Released(c)
  BY <1>3, IdleFields DEF Unbound
<1>4. CASE Advances(c)
  BY <1>4 DEF Advances, Holds
<1> QED
  BY <1>2, <1>3, <1>4 DEF Goes

LEMMA ProceedsFacts ==
  ASSUME TypeOK, NEW c \in Callers, Proceeds(c)
  PROVE  /\ Goes(c)
         /\ call'[c].lease => call[c].lease /\ call'[c].task = call[c].task
<1>1. call[c] \in Call
  BY DEF TypeOK
<1>2. Goes(c)
  BY DEF Proceeds, Goes, Moved
<1>3. CASE Kept(call[c], call'[c])
  BY <1>1, <1>2, <1>3, KeptFields
<1>4. CASE call'[c] = Idle
  BY <1>2, <1>4, IdleFields
<1>5. CASE Moved(c)
  BY <1>2, <1>5 DEF Moved, Advances, Holds
<1> QED
  BY <1>3, <1>4, <1>5 DEF Proceeds

\* A record keeps its links, and what continues it keeps it as it ended.
Linked(t) ==
  /\ SameLinks(t)
  /\ Remembered(rec[t]) \subseteq Remembered(rec'[t])
  /\ rec[t].claim # None => Terminal(rec'[t].status)

\* Runtimes end or begin to; one begins for a task that nobody continues.
RuntimesGo ==
  \A p \in Procs, t \in Tasks : reg'[p][t] # "none" =>
    \/ reg[p][t] # "none" /\ (reg[p][t] = "dying" => reg'[p][t] = "dying")
    \/ rec[t].thread # None /\ ~Continued(t)

\* The parts of the invariant that no new call, request or lease disturbs.
LEMMA QuietFrame ==
  ASSUME IndInv, TypeOK',
         \A t \in Tasks : Linked(t),
         \A c \in Callers : Goes(c) \/ Begins(c),
         RuntimesGo,
         \A t \in Tasks : ask'[t].stage # "none" => rec'[t].thread # None /\ ask'[t].turn # None
  PROVE  CallShape' /\ Threaded' /\ Threads' /\ OneLeaf' /\ ContinuedIsQuiet'
<1>0. TypeOK
  BY DEF IndInv, Base
<1>1. \A t \in Tasks : KeepsRecord(t) /\ SameLinks(t)
  BY DEF Linked, KeepsRecord, SameLinks
<1>2. CallShape'
  <2> SUFFICES ASSUME NEW c \in Callers PROVE Shape(c)'
    BY DEF CallShape
  <2>1. CASE call'[c] = Idle
    <3>1. call[c]'.kind = "none" /\ call[c]' = Idle
      BY <2>1, IdleFields
    <3> QED
      BY <3>1 DEF Shape, Steers
  <2>2. CASE Kept(call[c], call'[c]) /\ (Starting(c) => Open(call[c].task)')
    BY <1>1, <2>2, FrameShape DEF IndInv
  <2> QED
    BY <2>1, <2>2 DEF Goes, Begins
<1>4. Threaded'
  BY <1>1 DEF IndInv, Base, Threaded, RuntimesGo, SameLinks
<1>6. Threads' /\ OneLeaf'
  <2>1. \A t \in Tasks : rec[t].claim # None => Terminal(rec'[t].status)
    BY DEF Linked
  <2> QED
    BY <1>0, <1>1, <2>1, FrameThreads DEF IndInv
<1>7. ContinuedIsQuiet'
  <2>1. ASSUME NEW s \in Tasks, Continued(s)
        PROVE  KeepsQuiet(s)
    <3>1. \A c \in Callers : call'[c].task = s /\ call'[c].client = "own"
                               => call[c].task = s /\ call[c].client = "own"
      BY <1>0, <2>1, GoesFacts DEF Begins
    <3>2. ASSUME NEW p \in Procs, reg'[p][s] # "none"
          PROVE  /\ reg[p][s] # "none" /\ (reg[p][s] = "dying" => reg'[p][s] = "dying")
                 /\ \A c \in Callers :
                      Home(c) = p /\ At(c, "start", "retire") /\ call[c].task = rec[s].claim
                        => At(c, "start", "retire")' /\ call'[c].task = rec[s].claim
      <4>1. reg[p][s] = "dying" /\ reg'[p][s] = "dying"
        BY <2>1, <3>2 DEF RuntimesGo, IndInv, ContinuedIsQuiet
      <4>2. ASSUME NEW c \in Callers, Home(c) = p, At(c, "start", "retire"),
                   call[c].task = rec[s].claim
            PROVE  At(c, "start", "retire")' /\ call'[c].task = rec[s].claim
        <5>1. Source[call[c].task] = s
          BY <2>1, <4>2 DEF Continued, IndInv, Threads
        <5>2. ~Released(c) /\ ~Begins(c)
          BY <4>1, <4>2, <5>1, IdleFields DEF Released, Begins, At
        <5>3. Holds(c) /\ call'[c].pc = call[c].pc
          BY <1>0, <5>2, GoesFacts
        <5> QED
          BY <4>2, <5>3 DEF Holds, At
      <4> QED
        BY <4>1, <4>2
    <3> QED
      BY <3>1, <3>2 DEF KeepsQuiet
  <2> QED
    BY <1>0, <1>1, <2>1, FrameQuiet DEF IndInv, SameLinks
<1> QED
  BY <1>2, <1>4, <1>6, <1>7

LEMMA QuietStep ==
  ASSUME IndInv, TypeOK',
         \A t \in Tasks : MildRecord(t),
         \A c \in Callers : Proceeds(c),
         RuntimesEnd,
         \A t \in Tasks : ask'[t].stage # "none" => rec'[t].thread # None /\ ask'[t].turn # None,
         WireEnds, UNCHANGED <<begun, served>>
  PROVE  IndInv'
<1>0. TypeOK /\ \A c \in Callers : Goes(c)
  BY ProceedsFacts DEF IndInv, Base
<1>1. \A t \in Tasks : KeepsRecord(t)
  BY DEF MildRecord, KeepsRecord, SameLinks
<1>2. CallShape' /\ Threaded' /\ Threads' /\ OneLeaf' /\ ContinuedIsQuiet'
  <2>1. \A t \in Tasks : Linked(t)
    BY DEF MildRecord, Linked, IndInv, Threads
  <2>2. RuntimesGo
    BY DEF RuntimesEnd, RuntimesGo
  <2> QED
    BY <1>0, <2>1, <2>2, QuietFrame
<1>3. OneStart' /\ OneControl'
  BY <1>0, GoesFacts, FrameOne DEF IndInv
<1>4. OneLease'
  BY <1>0, ProceedsFacts, FrameLease DEF IndInv, RuntimesEnd
<1>5. Once'
  <2>1. \A t \in Tasks : rec'[t].status = "retryable" =>
          rec[t].status = "retryable" \/ (begun'[t] = 0 /\ ~Reached(t)')
    BY DEF MildRecord
  <2>2. \A o \in Ops : /\ wire'[o].state # "none" => wire[o].state # "none"
                       /\ wire'[o].state = "sent" => wire[o].state = "sent"
    BY DEF WireEnds
  <2>3. \A c \in Callers : call'[c].kind # "none" => Holds(c)
    BY <1>0, GoesFacts
  <2>4. \A c \in Callers : call[c].kind = "start" =>
          \A S \in {{"retire", "admit", "refused", "thread"}, Unbound} :
             call'[c].pc \in S => call[c].pc \in S
    BY <1>0, GoesFacts
  <2>5. \A c \in Callers : call[c].kind \in Steers =>
          LET S == {"ensure", "attach", "send"}
          IN  call'[c].pc \in S => call[c].pc \in S
    BY <1>0, GoesFacts
  <2>6. \A t \in Tasks : ~Exists(t)' => ~Exists(t) /\ Remembered(rec'[t]) = Remembered(rec[t])
    BY DEF MildRecord, SameLinks
  <2> QED
    BY <1>0, <1>1, <2>1, <2>2, <2>3, <2>4, <2>5, <2>6, FrameOnce DEF IndInv
<1> QED
  BY <1>2, <1>3, <1>4, <1>5 DEF IndInv, Base

-----------------------------------------------------------------------------
(* What the operations make of a record. *)

\* An update that keeps the links and the memory of a record, and leaves a
\* terminal one alone.
Settles(r, q) ==
  /\ q \in Record
  /\ q.thread = r.thread /\ q.claim = r.claim /\ Remembered(q) = Remembered(r)
  /\ \/ q.status = r.status
     \/ ~Terminal(r.status) /\ q.status \notin {"missing", "retryable"}

\* An update of the plain fields, with or without one of a receipt.
LEMMA PlainSettles ==
  ASSUME NEW r \in Record, NEW q \in Record,
         q.thread = r.thread, q.claim = r.claim, q.ops = r.ops, q.tombs = r.tombs,
         q.status = r.status \/ (~Terminal(r.status) /\ q.status \notin {"missing", "retryable"})
  PROVE  /\ Settles(r, q)
         /\ \A o \in Ops, phase \in Phases : Settles(r, SetPhase(q, o, phase))
<1>1. Remembered(q) = Remembered(r)
  BY DEF Remembered
<1> QED
  BY <1>1, SetPhaseFields DEF Settles

\* The verdict of a failed start or of an orphaned one.
LEMMA ReconcileSettles ==
  ASSUME NEW r \in Record, NEW o \in Ops
  PROVE  Settles(r, IF Terminal(r.status) THEN r
                    ELSE SetPhase([r EXCEPT !.status = "reconcile"], o, "accepted"))
<1> DEFINE q == [r EXCEPT !.status = "reconcile"]
<1>1. /\ q \in Record /\ q.thread = r.thread /\ q.claim = r.claim /\ q.ops = r.ops
      /\ q.tombs = r.tombs /\ q.status = "reconcile"
  BY DEF Record, Statuses
<1>2. "accepted" \in Phases
  BY DEF Phases
<1> HIDE DEF q
<1>3. ~Terminal(r.status) => Settles(r, SetPhase(q, o, "accepted"))
  BY <1>1, <1>2, PlainSettles
<1>4. Settles(r, r)
  BY PlainSettles
<1> QED
  BY <1>3, <1>4 DEF q

\* A status written over one that is not terminal.
LEMMA StatusSettles ==
  ASSUME NEW r \in Record, NEW x \in Statuses \ {"missing", "retryable"},
         NEW q, q = [r EXCEPT !.status = IF Terminal(@) THEN @ ELSE x]
  PROVE  Settles(r, q)
<1>1. /\ q \in Record /\ q.thread = r.thread /\ q.claim = r.claim /\ q.ops = r.ops
      /\ q.tombs = r.tombs /\ q.status = IF Terminal(r.status) THEN r.status ELSE x
  BY DEF Record
<1> QED
  BY <1>1, PlainSettles

\* apply_turn_start_response
LEMMA TurnStartedSettles ==
  ASSUME NEW r \in Record, NEW o \in Ops
  PROVE  Settles(r, TurnStarted(r, o))
<1> DEFINE q == [r EXCEPT !.turn = o,
                          !.status = IF @ \in {"accepted", "unknown", "reconcile"}
                                     THEN "running" ELSE @]
<1>1. /\ q \in Record /\ q.thread = r.thread /\ q.claim = r.claim /\ q.ops = r.ops
      /\ q.tombs = r.tombs /\ q.status \in {r.status, "running"}
  BY DEF Record, Statuses
<1>2. "applied" \in Phases
  BY DEF Phases
<1> HIDE DEF q
<1>3. ~Terminal(r.status) => Settles(r, SetPhase(q, o, "applied"))
  BY <1>1, <1>2, PlainSettles
<1>4. Settles(r, r)
  BY PlainSettles
<1> QED
  BY <1>3, <1>4 DEF q, TurnStarted

\* A successful control.
LEMMA ControlledSettles ==
  ASSUME NEW r \in Record, NEW k \in Call, k.op \in Ops, k.kind \in Steers,
         k.kind = "resume" => k.status \in TurnStatuses \cup {"reconcile", "unknown"}
  PROVE  Settles(r, Controlled(r, k))
<1> DEFINE q1 == [r EXCEPT !.status = k.status, !.turn = IF k.turn # None THEN k.turn ELSE @]
           q2 == [r EXCEPT !.turn = k.op, !.prev = None, !.status = "running"]
           q3 == [r EXCEPT !.status = IF k.kind = "interrupt" THEN "interrupted" ELSE "running"]
<1>1. ASSUME k.kind = "resume"
      PROVE  /\ q1 \in Record /\ q1.thread = r.thread /\ q1.claim = r.claim /\ q1.ops = r.ops
             /\ q1.tombs = r.tombs /\ q1.status \notin {"missing", "retryable"}
  BY <1>1 DEF Record, Statuses, TurnStatuses, Call
<1>2. /\ q2 \in Record /\ q2.thread = r.thread /\ q2.claim = r.claim /\ q2.ops = r.ops
      /\ q2.tombs = r.tombs /\ q2.status = "running"
  BY DEF Record, Statuses
<1>3. /\ q3 \in Record /\ q3.thread = r.thread /\ q3.claim = r.claim /\ q3.ops = r.ops
      /\ q3.tombs = r.tombs /\ q3.status \in {"interrupted", "running"}
  BY DEF Record, Statuses
<1>4. "applied" \in Phases
  BY DEF Phases
<1>5. \/ Controlled(r, k) = r
      \/ /\ ~Terminal(r.status)
         /\ \/ k.kind = "resume" /\ Controlled(r, k) = SetPhase(q1, k.op, "applied")
            \/ Controlled(r, k) = SetPhase(q2, k.op, "applied")
            \/ Controlled(r, k) = SetPhase(q3, k.op, "applied")
  BY DEF Controlled
<1> HIDE DEF q1, q2, q3
<1>6. Settles(r, r)
  BY PlainSettles
<1>7. ~Terminal(r.status) /\ k.kind = "resume" => Settles(r, SetPhase(q1, k.op, "applied"))
  BY <1>1, <1>4, PlainSettles
<1>8. ~Terminal(r.status) => /\ Settles(r, SetPhase(q2, k.op, "applied"))
                             /\ Settles(r, SetPhase(q3, k.op, "applied"))
  BY <1>2, <1>3, <1>4, PlainSettles
<1> QED
  BY <1>5, <1>6, <1>7, <1>8

\* What task_get read.
LEMMA ReconciledSettles ==
  ASSUME NEW r \in Record, NEW k \in Call, k.task \in Tasks,
         k.status \in TurnStatuses \cup {"reconcile", "unknown"}
  PROVE  Settles(r, Reconciled(r, k))
<1> DEFINE q == [r EXCEPT !.status = k.status, !.turn = IF k.turn # None THEN k.turn ELSE @]
<1>1. /\ q \in Record /\ q.thread = r.thread /\ q.claim = r.claim /\ q.ops = r.ops
      /\ q.tombs = r.tombs /\ q.status \notin {"missing", "retryable"}
  BY DEF Record, Statuses, TurnStatuses, Call
<1>2. "applied" \in Phases /\ k.task \in Ops
  BY Names DEF Phases
<1>3. \/ Reconciled(r, k) = r
      \/ /\ ~Terminal(r.status)
         /\ Reconciled(r, k) = q \/ Reconciled(r, k) = SetPhase(q, k.task, "applied")
  BY DEF Reconciled
<1> HIDE DEF q
<1> QED
  BY <1>1, <1>2, <1>3, PlainSettles

\* handle_notification
LEMMA NotifiedSettles ==
  ASSUME NEW r \in Record, NEW n \in [turn : Ops, status : TurnStatuses]
  PROVE  Settles(r, Notified(r, n))
<1> DEFINE q == [r EXCEPT !.status = n.status, !.turn = n.turn,
                          !.prev = IF r.turn = None THEN None ELSE @]
<1>1. /\ q \in Record /\ q.thread = r.thread /\ q.claim = r.claim /\ q.ops = r.ops
      /\ q.tombs = r.tombs /\ q.status \notin {"missing", "retryable"}
  BY DEF Record, Statuses, TurnStatuses
<1>2. Notified(r, n) = r \/ (~Terminal(r.status) /\ Notified(r, n) = q)
  BY DEF Notified
<1> HIDE DEF q
<1> QED
  BY <1>1, <1>2, PlainSettles

-----------------------------------------------------------------------------
(* The app-server's side keeps its types. *)

\* A sequence of turns in which some status changed.
LEMMA TurnsType ==
  ASSUME NEW s \in Seq([op : Ops, status : TurnStatuses]), NEW x \in TurnStatuses,
         NEW z, z = [i \in DOMAIN s |-> IF s[i].status = "running"
                                        THEN [s[i] EXCEPT !.status = x] ELSE s[i]]
  PROVE  z \in Seq([op : Ops, status : TurnStatuses])
<1>1. /\ s \in [1..Len(s) -> [op : Ops, status : TurnStatuses]]
      /\ DOMAIN s = 1..Len(s)
  BY SeqFun
<1>2. z \in [1..Len(s) -> [op : Ops, status : TurnStatuses]]
  BY <1>1
<1> QED
  BY <1>2, SeqFun

\* The end of children keeps types and loses no history.
LEMMA ChildrenEndTypes ==
  ASSUME TypeOK, NEW ended, ChildrenEnd(ended)
  PROVE  /\ turns' \in [Tasks -> Seq([op : Ops, status : TurnStatuses])]
         /\ news' \in [Tasks -> Seq([turn : Ops, status : TurnStatuses])]
         /\ UNCHANGED <<begun, served>>
<1>1. \A h \in Tasks : Stopped(turns[h]) \in Seq([op : Ops, status : TurnStatuses])
  <2> SUFFICES ASSUME NEW h \in Tasks
               PROVE  Stopped(turns[h]) \in Seq([op : Ops, status : TurnStatuses])
    OBVIOUS
  <2>1. turns[h] \in Seq([op : Ops, status : TurnStatuses])
    BY DEF TypeOK
  <2>2. "interrupted" \in TurnStatuses
    BY DEF TurnStatuses
  <2> QED
    BY <2>1, <2>2, TurnsType DEF Stopped
<1>2. <<>> \in Seq([turn : Ops, status : TurnStatuses])
  OBVIOUS
<1>3. turns' \in [Tasks -> Seq([op : Ops, status : TurnStatuses])]
  BY <1>1 DEF ChildrenEnd, TypeOK
<1>4. news' \in [Tasks -> Seq([turn : Ops, status : TurnStatuses])]
  BY <1>2 DEF ChildrenEnd, TypeOK
<1> QED
  BY <1>3, <1>4 DEF ChildrenEnd

\* Requests that are lost.
LEMMA LostTypes ==
  ASSUME TypeOK, \A o \in Ops : wire'[o] = wire[o] \/ wire'[o] = NoWire,
         wire' = [o \in Ops |-> wire'[o]]
  PROVE  wire' \in [Ops -> Wire] /\ WireEnds
<1>1. NoWire \in Wire /\ NoWire.state = "none"
  BY DEF NoWire, Wire
<1>2. \A o \in Ops : wire'[o] \in Wire
  BY <1>1 DEF TypeOK
<1> QED
  BY <1>1, <1>2 DEF WireEnds

-----------------------------------------------------------------------------
(* Steps of one call that neither begin it nor put anything on the wire. *)

\* A settled record is mild.
LEMMA SettledIsMild ==
  ASSUME NEW t \in Tasks, Exists(t), Settles(rec[t], rec'[t])
  PROVE  MildRecord(t)
  BY DEF Settles, MildRecord, SameLinks, Exists, Terminal

LEMMA SameIsMild ==
  ASSUME NEW t \in Tasks, rec'[t] = rec[t]
  PROVE  MildRecord(t)
  BY DEF MildRecord, SameLinks, Exists, Remembered

\* What a caller's step has to show.
LEMMA CallerStep ==
  ASSUME IndInv, NEW c \in Callers, NEW t \in Tasks,
         NEW l \in Call, call' = [call EXCEPT ![c] = l],
         (l = Idle /\ Released(c)) \/ (Moved(c) /\ Shape(c)'),
         rec' \in [Tasks -> Record], \A u \in Tasks \ {t} : rec'[u] = rec[u], MildRecord(t),
         \/ rec'[t] = rec[t] \/ rec[t].thread # None \/ Open(t)'
         \/ call[c].kind = "start" /\ call[c].task = t,
         UNCHANGED <<reg, ask, begun, served>>,
         wire' \in [Ops -> Wire], WireEnds,
         turns' \in [Tasks -> Seq([op : Ops, status : TurnStatuses])],
         news' \in [Tasks -> Seq([turn : Ops, status : TurnStatuses])]
  PROVE  IndInv'
<1>1. /\ call \in [Callers -> Call] /\ reg \in [Procs -> [Tasks -> {"none", "live", "dead", "dying"}]]
      /\ ask \in [Tasks -> Ask] /\ begun \in [Tasks -> Nat] /\ served \in [Ops -> Nat]
  BY DEF IndInv, Base, TypeOK
<1>2. /\ call' \in [Callers -> Call] /\ call'[c] = l
      /\ \A d \in Callers \ {c} : call'[d] = call[d]
  BY <1>1
<1>3. TypeOK'
  BY <1>1, <1>2 DEF TypeOK
<1>4. \A u \in Tasks : MildRecord(u)
  BY SameIsMild
<1>5. \A d \in Callers : Proceeds(d)
  <2> SUFFICES ASSUME NEW d \in Callers PROVE Proceeds(d)
    OBVIOUS
  <2>1. CASE d = c
    BY <1>2, <2>1 DEF Proceeds
  <2>2. CASE d # c
    <3>1. call'[d] = call[d]
      BY <1>2, <2>2
    <3>2. ASSUME Starting(d)
          PROVE  Open(call[d].task)'
      <4>1. call[d].task \in Tasks /\ Open(call[d].task)
        BY <3>2 DEF IndInv, Base, CallShape, Shape, StartShape, Starting, Open
      <4>2. CASE call[d].task # t
        <5>1. rec'[call[d].task] = rec[call[d].task]
          BY <4>1, <4>2
        <5> QED
          BY <3>1, <4>1, <5>1 DEF Open
      <4>3. CASE call[d].task = t
        <5>1. rec[t].thread = None
          BY <4>1, <4>3 DEF Open
        <5>2. ~(call[c].kind = "start" /\ call[c].task = t)
          BY <2>2, <3>2, <4>3 DEF IndInv, Base, OneStart, Starting
        <5>3. rec'[t] = rec[t] \/ Open(t)'
          BY <5>1, <5>2
        <5> QED
          BY <3>1, <4>1, <4>3, <5>3 DEF Open
      <4> QED
        BY <4>2, <4>3
    <3> QED
      BY <3>1, <3>2 DEF Proceeds, Kept
  <2> QED
    BY <2>1, <2>2
<1>6. RuntimesEnd
  BY DEF RuntimesEnd
<1>7. \A u \in Tasks : ask'[u].stage # "none" => rec'[u].thread # None /\ ask'[u].turn # None
  BY <1>4 DEF IndInv, Base, Threaded, MildRecord, SameLinks
<1> QED
  BY <1>3, <1>4, <1>5, <1>6, <1>7, QuietStep

\* A call that does not touch its record, the wire or the app-server.
LEMMA QuietMove ==
  ASSUME IndInv, NEW c \in Callers,
         NEW l \in Call, call' = [call EXCEPT ![c] = l],
         (l = Idle /\ Released(c)) \/ (Moved(c) /\ Shape(c)'),
         call[c].kind # "none",
         UNCHANGED <<rec, reg, wire, server, ask>>
  PROVE  IndInv'
<1>1. call[c].task \in Tasks
  BY DEF IndInv, Base, CallShape, Shape
<1>2. /\ rec \in [Tasks -> Record] /\ wire \in [Ops -> Wire]
      /\ turns \in [Tasks -> Seq([op : Ops, status : TurnStatuses])]
      /\ news \in [Tasks -> Seq([turn : Ops, status : TurnStatuses])]
  BY DEF IndInv, Base, TypeOK
<1>3. WireEnds
  BY DEF WireEnds
<1>4. MildRecord(call[c].task)
  BY <1>1, SameIsMild
<1> QED
  BY <1>1, <1>2, <1>3, <1>4, CallerStep DEF server

\* The parts of the invariant that say what a call under way is like.
LEMMA StartFacts ==
  ASSUME IndInv, NEW c \in Callers, call[c].kind = "start"
  PROVE  /\ call[c] \in Call /\ call[c].task \in Tasks /\ Exists(call[c].task)
         /\ rec[call[c].task] \in Record
         /\ call[c].op \in Ops /\ StartShape(call[c])
  BY Names DEF IndInv, Base, TypeOK, CallShape, Shape, StartShape

LEMMA RequestFacts ==
  ASSUME IndInv, NEW c \in Callers, call[c].kind # "start", call[c].pc # "idle"
  PROVE  /\ call[c] \in Call /\ call[c].task \in Tasks /\ Exists(call[c].task)
         /\ rec[call[c].task] \in Record
         /\ call[c].kind \in Steers \cup {"get"}
         /\ call[c].op \in Ops /\ RequestShape(call[c])
<1>1. call[c] \in Call /\ Shape(c)
  BY DEF IndInv, Base, TypeOK, CallShape
<1>2. call[c].kind \in Steers \cup {"get"}
  BY <1>1, IdleFields DEF Call, Kinds, Steers, Shape
<1>3. RequestShape(call[c]) /\ call[c].task \in Tasks /\ Exists(call[c].task)
  BY <1>1, <1>2 DEF Shape, Steers
<1>4. call[c].op \in Ops
  BY <1>3, Names DEF RequestShape
<1> QED
  BY <1>1, <1>2, <1>3, <1>4 DEF IndInv, Base, TypeOK

\* A call that writes its own record, then moves on or returns.
LEMMA WriteStep ==
  ASSUME IndInv, NEW c \in Callers, call[c].kind # "none",
         NEW t \in Tasks, t = call[c].task,
         NEW l \in Call, call' = [call EXCEPT ![c] = l],
         (l = Idle /\ Released(c)) \/ (Moved(c) /\ Shape(c)'),
         NEW q, rec' = [rec EXCEPT ![t] = q], Settles(rec[t], q),
         \/ q = rec[t] \/ rec[t].thread # None \/ q.status = "reconcile"
         \/ call[c].kind = "start",
         UNCHANGED <<reg, ask, begun, served>>,
         wire' \in [Ops -> Wire], WireEnds,
         turns' \in [Tasks -> Seq([op : Ops, status : TurnStatuses])],
         news' \in [Tasks -> Seq([turn : Ops, status : TurnStatuses])]
  PROVE  IndInv'
<1>1. rec \in [Tasks -> Record] /\ Exists(t)
  BY DEF IndInv, Base, TypeOK, CallShape, Shape
<1>2. q \in Record
  BY DEF Settles
<1>3. /\ rec' \in [Tasks -> Record] /\ rec'[t] = q
      /\ \A u \in Tasks \ {t} : rec'[u] = rec[u]
  BY <1>1, <1>2
<1>4. MildRecord(t)
  BY <1>1, <1>3, SettledIsMild
<1>5. \/ rec'[t] = rec[t] \/ rec[t].thread # None \/ Open(t)'
      \/ call[c].kind = "start" /\ call[c].task = t
  BY <1>3 DEF Open, Settles
<1> QED
  BY <1>3, <1>4, <1>5, CallerStep

\* The wire and the app-server stand still, or the wire loses one request.
LEMMA ServerSame ==
  ASSUME IndInv, UNCHANGED server
  PROVE  /\ UNCHANGED <<turns, news, begun, served>>
         /\ turns' \in [Tasks -> Seq([op : Ops, status : TurnStatuses])]
         /\ news' \in [Tasks -> Seq([turn : Ops, status : TurnStatuses])]
  BY DEF IndInv, Base, TypeOK, server

LEMMA WireSame ==
  ASSUME IndInv, UNCHANGED wire
  PROVE  wire' \in [Ops -> Wire] /\ WireEnds
  BY DEF IndInv, Base, TypeOK, WireEnds

LEMMA WireCleared ==
  ASSUME IndInv, NEW o \in Ops, wire' = [wire EXCEPT ![o] = NoWire]
  PROVE  wire' \in [Ops -> Wire] /\ WireEnds
<1>1. TypeOK /\ wire \in [Ops -> Wire]
  BY DEF IndInv, Base, TypeOK
<1>2. /\ \A x \in Ops : wire'[x] = wire[x] \/ wire'[x] = NoWire
      /\ wire' = [x \in Ops |-> wire'[x]]
  BY <1>1
<1> QED
  BY <1>1, <1>2, LostTypes

LEMMA OrphanSavedInv ==
  ASSUME IndInv, NEW c \in Callers, OrphanSaved(c)
  PROVE  IndInv'
<1> DEFINE t == call[c].task
           r == rec[t]
           q == IF Terminal(r.status) THEN r
                ELSE SetPhase([r EXCEPT !.status = "reconcile"], t, "accepted")
<1>1. At(c, "get", "orphan") /\ call[c].kind = "get" /\ call[c].pc = "orphan"
  BY DEF OrphanSaved, At
<1>2. t \in Tasks /\ r \in Record /\ t \in Ops
  BY <1>1, RequestFacts, Names
<1>3. rec' = [rec EXCEPT ![t] = q] /\ call' = [call EXCEPT ![c] = Idle]
  BY DEF OrphanSaved, Return
<1>4. UNCHANGED <<reg, wire, server, ask>>
  BY DEF OrphanSaved
<1>5. Settles(r, q)
  BY <1>2, ReconcileSettles
<1>6. Released(c)
  BY <1>1 DEF Released, At
<1>7. q = r \/ q.status = "reconcile"
  <2>1. [r EXCEPT !.status = "reconcile"] \in Record /\ [r EXCEPT !.status = "reconcile"].status = "reconcile"
    BY <1>2 DEF Record, Statuses
  <2>2. "accepted" \in Phases
    BY DEF Phases
  <2> QED
    BY <1>2, <2>1, <2>2, SetPhaseFields
<1> HIDE DEF q, t
<1> QED
  BY <1>1, <1>2, <1>3, <1>4, <1>5, <1>6, <1>7, IdleFields, WriteStep, ServerSame, WireSame DEF t

LEMMA FailureSavedInv ==
  ASSUME IndInv, NEW c \in Callers, FailureSaved(c)
  PROVE  IndInv'
<1> DEFINE t == call[c].task
           x == IF call[c].kind = "get" THEN "unknown" ELSE "reconcile"
           q == [rec[t] EXCEPT !.status = IF Terminal(@) THEN @ ELSE x]
<1>1. /\ call[c].pc = "fail" /\ call' = [call EXCEPT ![c] = Idle]
      /\ UNCHANGED <<reg, wire, server, ask>>
      /\ rec' = [rec EXCEPT ![t].status = IF Terminal(@) THEN @ ELSE x]
  BY DEF FailureSaved, Return
<1>2. call[c].kind # "start"
  BY <1>1, StartFacts DEF StartShape, Unbound, Bound
<1>3. /\ t \in Tasks /\ rec[t] \in Record /\ RequestShape(call[c])
      /\ call[c].kind \in Steers \cup {"get"}
  BY <1>1, <1>2, RequestFacts
<1>4. rec[t].thread # None /\ call[c].kind # "none" /\ Released(c)
  BY <1>1, <1>2, <1>3 DEF RequestShape, Released, At, Steers
<1>5. rec' = [rec EXCEPT ![t] = q]
  BY <1>1, <1>3
<1>6. x \in Statuses \ {"missing", "retryable"}
  BY DEF Statuses
<1> HIDE DEF x
<1>7. Settles(rec[t], q)
  BY <1>3, <1>6, StatusSettles
<1> HIDE DEF q, t
<1> QED
  BY <1>1, <1>3, <1>4, <1>5, <1>7, IdleFields, WriteStep, ServerSame, WireSame DEF t

LEMMA GetAppliedInv ==
  ASSUME IndInv, NEW c \in Callers, GetApplied(c)
  PROVE  IndInv'
<1> DEFINE t == call[c].task
           q == Reconciled(rec[t], call[c])
<1>1. /\ call[c].pc = "apply" /\ call[c].kind = "get" /\ call' = [call EXCEPT ![c] = Idle]
      /\ UNCHANGED <<reg, wire, server, ask>>
      /\ rec' = [rec EXCEPT ![t] = q]
  BY DEF GetApplied, Return, At
<1>2. t \in Tasks /\ rec[t] \in Record /\ RequestShape(call[c]) /\ call[c] \in Call
  BY <1>1, RequestFacts
<1>3. /\ rec[t].thread # None /\ Released(c)
      /\ call[c].status \in TurnStatuses \cup {"reconcile", "unknown"}
  BY <1>1, <1>2 DEF RequestShape, Released, At
<1>4. Settles(rec[t], q)
  BY <1>2, <1>3, ReconciledSettles
<1> HIDE DEF q, t
<1> QED
  BY <1>1, <1>2, <1>3, <1>4, IdleFields, WriteStep, ServerSame, WireSame DEF t

LEMMA ControlAppliedInv ==
  ASSUME IndInv, NEW c \in Callers, ControlApplied(c)
  PROVE  IndInv'
<1> DEFINE t == call[c].task
           q == Controlled(rec[t], call[c])
<1>1. /\ call[c].kind \in Steers /\ call' = [call EXCEPT ![c] = Idle]
      /\ call[c].pc \in {"wait", "apply"}
      /\ UNCHANGED <<reg, server, ask>> /\ wire' = [wire EXCEPT ![call[c].op] = NoWire]
      /\ rec' = [rec EXCEPT ![t] = q]
  BY DEF ControlApplied, Return, Steers
<1>2. call[c].kind # "start" /\ call[c].pc # "idle"
  BY <1>1 DEF Steers
<1>3. /\ t \in Tasks /\ rec[t] \in Record /\ RequestShape(call[c]) /\ call[c] \in Call
      /\ call[c].op \in Ops
  BY <1>2, RequestFacts
<1>4. /\ rec[t].thread # None /\ Released(c)
      /\ call[c].kind = "resume" => call[c].status \in TurnStatuses \cup {"reconcile", "unknown"}
  BY <1>1, <1>2, <1>3 DEF RequestShape, Released, At
<1>5. Settles(rec[t], q)
  BY <1>1, <1>3, <1>4, ControlledSettles
<1>6. wire' \in [Ops -> Wire] /\ WireEnds
  BY <1>1, <1>3, WireCleared
<1>7. call[c].kind # "none"
  BY <1>1 DEF Steers
<1> HIDE DEF q, t
<1> QED
  BY <1>1, <1>3, <1>4, <1>5, <1>6, <1>7, IdleFields, WriteStep, ServerSame DEF t

LEMMA StartFailsInv ==
  ASSUME IndInv, NEW c \in Callers, StartFails(c)
  PROVE  IndInv'
<1> DEFINE t == call[c].task
           r == rec[t]
           q == IF Terminal(r.status) THEN r
                ELSE SetPhase([r EXCEPT !.status = "reconcile"], t, "accepted")
<1>1. /\ call[c].kind = "start" /\ call[c].pc \in {"thread", "bind", "wait"}
      /\ call' = [call EXCEPT ![c] = Idle]
      /\ ChildrenEnd({t}) /\ wire' = [wire EXCEPT ![t] = NoWire]
      /\ rec' = [rec EXCEPT ![t] = q] /\ UNCHANGED <<reg, ask>>
  BY DEF StartFails, Return
<1>2. t \in Tasks /\ r \in Record /\ t \in Ops
  BY <1>1, StartFacts, Names
<1>3. Settles(r, q)
  BY <1>2, ReconcileSettles
<1>4. Released(c)
  BY <1>1 DEF Released, At
<1>5. wire' \in [Ops -> Wire] /\ WireEnds
  BY <1>1, <1>2, WireCleared
<1>6. /\ turns' \in [Tasks -> Seq([op : Ops, status : TurnStatuses])]
      /\ news' \in [Tasks -> Seq([turn : Ops, status : TurnStatuses])]
      /\ UNCHANGED <<begun, served>>
  <2>1. TypeOK
    BY DEF IndInv, Base
  <2> QED
    BY <1>1, <2>1, ChildrenEndTypes
<1> HIDE DEF q, t
<1> QED
  BY <1>1, <1>2, <1>3, <1>4, <1>5, <1>6, IdleFields, WriteStep DEF t

\* The verdict on a start that has not bound its thread.
LEMMA VerdictSettles ==
  ASSUME NEW r \in Record, NEW x \in Statuses \ {"missing", "retryable"},
         NEW o \in Ops, NEW phase \in Phases, ~Terminal(r.status)
  PROVE  Settles(r, SetPhase([r EXCEPT !.status = x], o, phase))
<1> DEFINE q == [r EXCEPT !.status = x]
<1>1. /\ q \in Record /\ q.thread = r.thread /\ q.claim = r.claim /\ q.ops = r.ops
      /\ q.tombs = r.tombs /\ q.status = x
  BY DEF Record, Statuses
<1> HIDE DEF q
<1> QED
  BY <1>1, PlainSettles DEF q

LEMMA StartRejected ==
  ASSUME IndInv, NEW c \in Callers, call[c].kind = "start", call[c].pc \in Unbound,
         Released(c),
         rec' = [rec EXCEPT ![call[c].task] =
                   SetPhase([@ EXCEPT !.status = "failed"], call[c].op, "applied")],
         call' = [call EXCEPT ![c] = Idle], UNCHANGED <<reg, wire, server, ask>>
  PROVE  IndInv'
<1> DEFINE t == call[c].task
           q == SetPhase([rec[t] EXCEPT !.status = "failed"], call[c].op, "applied")
<1>1. /\ t \in Tasks /\ rec[t] \in Record /\ call[c].op \in Ops
      /\ ~Terminal(rec[t].status)
  BY StartFacts DEF StartShape, Terminal
<1>2. "applied" \in Phases /\ "failed" \in Statuses \ {"missing", "retryable"}
  BY DEF Phases, Statuses
<1>3. Settles(rec[t], q)
  BY <1>1, <1>2, VerdictSettles
<1>4. rec' = [rec EXCEPT ![t] = q]
  OBVIOUS
<1> HIDE DEF q, t
<1> QED
  BY <1>1, <1>3, <1>4, IdleFields, WriteStep, ServerSame, WireSame DEF t

LEMMA RefusalSavedInv ==
  ASSUME IndInv, NEW c \in Callers, RefusalSaved(c)
  PROVE  IndInv'
<1>1. call[c].kind = "start" /\ call[c].pc = "refused" /\ Released(c)
  BY DEF RefusalSaved, At, Released
<1> QED
  BY <1>1, StartRejected DEF RefusalSaved, Return, Unbound

LEMMA SpawnFailsInv ==
  ASSUME IndInv, NEW c \in Callers, SpawnFails(c)
  PROVE  IndInv'
<1>1. /\ call[c].kind = "start" /\ call[c].pc = "admit" /\ Released(c)
      /\ call' = [call EXCEPT ![c] = Idle] /\ UNCHANGED <<reg, wire, server, ask>>
  BY DEF SpawnFails, At, Released, Return
<1>0. PICK t \in Tasks : t = call[c].task
  BY <1>1, StartFacts
<1> DEFINE r == rec[t]
<1>2. /\ t \in Tasks /\ r \in Record /\ call[c].op \in Ops /\ Exists(t)
      /\ ~Terminal(r.status) /\ r.thread = None
  BY <1>0, <1>1, StartFacts DEF StartShape, Terminal, Unbound
<1>3. CASE rec' = [rec EXCEPT ![t] = IF Terminal(@.status) THEN @
                     ELSE SetPhase([@ EXCEPT !.status = "failed"], call[c].op, "applied")]
  <2>1. rec' = [rec EXCEPT ![t] = SetPhase([@ EXCEPT !.status = "failed"], call[c].op, "applied")]
    BY <1>0, <1>2, <1>3
  <2> QED
    BY <1>0, <1>1, <2>1, StartRejected DEF Unbound
<1>4. CASE rec' = [rec EXCEPT ![t] = IF Terminal(@.status) THEN @
                     ELSE SetPhase([@ EXCEPT !.status = "retryable"], call[c].op, "retryable")]
  <2> DEFINE q0 == [r EXCEPT !.status = "retryable"]
             q == SetPhase(q0, call[c].op, "retryable")
  <2>1. /\ q0 \in Record /\ q0.thread = r.thread /\ q0.claim = r.claim /\ q0.ops = r.ops
        /\ q0.tombs = r.tombs /\ q0.status = "retryable"
    BY <1>2 DEF Record, Statuses
  <2>2. rec' = [rec EXCEPT ![t] = q]
    BY <1>2, <1>4
  <2>3. "retryable" \in Phases
    BY DEF Phases
  <2> HIDE DEF q0
  <2>4. Remembered(q0) = Remembered(r)
    BY <2>1 DEF Remembered
  <2>5. /\ q \in Record /\ q.status = "retryable" /\ q.thread = r.thread
        /\ q.claim = r.claim /\ Remembered(q) = Remembered(r)
    BY <1>2, <2>1, <2>3, <2>4, SetPhaseFields
  <2> HIDE DEF q
  <2>6. /\ rec' \in [Tasks -> Record] /\ rec'[t] = q
        /\ \A u \in Tasks \ {t} : rec'[u] = rec[u]
    BY <1>2, <2>2, <2>5 DEF IndInv, Base, TypeOK
  <2>7. begun'[t] = 0 /\ ~Reached(t)'
    <3>1. ~NoStart(t, {"retire", "admit", "refused", "thread"}) /\ ~NoStart(t, Unbound)
      BY <1>0, <1>1 DEF NoStart, Unbound
    <3>2. begun[t] = 0 /\ ~Reached(t)
      BY <1>2, <3>1 DEF IndInv, Once
    <3> QED
      BY <1>1, <3>2 DEF server, Reached
  <2>8. MildRecord(t)
    BY <1>2, <2>5, <2>6, <2>7 DEF MildRecord, SameLinks, Exists
  <2> QED
    BY <1>0, <1>1, <1>2, <2>6, <2>8, IdleFields, CallerStep, ServerSame, WireSame
<1>5. PICK v \in {<<"retryable", "retryable">>, <<"failed", "applied">>} :
        rec' = [rec EXCEPT ![t] = IF Terminal(@.status) THEN @
                  ELSE SetPhase([@ EXCEPT !.status = v[1]], call[c].op, v[2])]
  BY <1>0 DEF SpawnFails
<1>6. v = <<"retryable", "retryable">> \/ v = <<"failed", "applied">>
  BY <1>5
<1>7. (v[1] = "retryable" /\ v[2] = "retryable") \/ (v[1] = "failed" /\ v[2] = "applied")
  BY <1>6
<1> QED
  BY <1>3, <1>4, <1>5, <1>7

-----------------------------------------------------------------------------
(* Steps of one call that move it on. *)

\* A start moves on.
LEMMA StartMoves ==
  ASSUME IndInv, NEW c \in Callers, call[c].kind = "start",
         NEW l \in Call, call' = [call EXCEPT ![c] = l],
         l.kind = "start", l.op = call[c].op, l.task = call[c].task,
         \/ l.pc \in {"admit", "refused", "thread"} /\ call[c].pc \in {"retire", "admit"}
            /\ rec'[l.task] = rec[l.task]
         \/ l.pc = "insert" /\ call[c].pc = "wait"
            /\ Exists(l.task)' /\ rec'[l.task].thread # None,
         l.lease = (l.pc # "refused"),
         l.client = IF l.pc \in {"thread", "insert"} THEN "own" ELSE "none",
         Released(c)
  PROVE  Moved(c) /\ Shape(c)'
<1>1. /\ StartShape(call[c]) /\ call[c].task \in Tasks /\ Exists(call[c].task)
      /\ call'[c] = l
  BY StartFacts DEF IndInv, Base, TypeOK
<1>2. Holds(c)
  BY <1>1 DEF Holds
<1>3. l.lease => call[c].lease
  BY <1>1 DEF StartShape
<1>4. l.client = "own" => call[c].client = "own" \/ ~Continued(call[c].task)
  <2>1. CASE call[c].pc = "wait"
    BY <1>1, <2>1 DEF StartShape
  <2>2. CASE call[c].pc \in {"retire", "admit"}
    <3>1. rec[call[c].task].status \in {"accepted", "reconcile"}
      BY <1>1, <2>2 DEF StartShape, Unbound
    <3>2. ~Continued(call[c].task)
      BY <1>1, <3>1 DEF IndInv, Threads, Continued, Terminal
    <3> QED
      BY <3>2
  <2> QED
    BY <2>1, <2>2
<1>5. \A S \in {{"retire", "admit", "refused", "thread"}, Unbound} : l.pc \in S => call[c].pc \in S
  BY DEF Unbound
<1>6. Moved(c)
  BY <1>1, <1>2, <1>3, <1>4, <1>5 DEF Moved, Advances, Steers
<1>7. Exists(l.task)'
  <2>1. Exists(l.task)
    BY <1>1
  <2> QED
    BY <2>1 DEF Exists
<1>8. StartShape(l)'
  <2>1. CASE l.pc \in {"admit", "refused", "thread"}
    <3>1. /\ rec'[l.task].thread = None /\ rec'[l.task].status \in {"accepted", "reconcile"}
      BY <1>1, <2>1 DEF StartShape, Unbound
    <3> QED
      BY <1>1, <2>1, <3>1 DEF StartShape, Unbound, Bound
  <2>2. CASE l.pc = "insert"
    BY <1>1, <2>2 DEF StartShape, Unbound, Bound
  <2> QED
    BY <2>1, <2>2
<1>9. Shape(c)'
  BY <1>1, <1>7, <1>8 DEF Shape, Steers, Exists, StartShape
<1> QED
  BY <1>6, <1>9

\* A request moves on.
LEMMA RequestMoves ==
  ASSUME IndInv, NEW c \in Callers, call[c].kind # "start",
         call[c].pc \in {"ensure", "attach", "send", "wait"},
         NEW l \in Call, call' = [call EXCEPT ![c] = l],
         l.kind = call[c].kind, l.op = call[c].op, l.task = call[c].task,
         \/ l.pc = "send" /\ call[c].pc = "ensure"
         \/ l.pc = "apply" /\ l.kind \in {"resume", "get"}
            /\ l.status \in TurnStatuses \cup {"reconcile", "unknown"}
         \/ l.pc = "fail",
         ~l.lease, l.client # "own", UNCHANGED rec
  PROVE  Moved(c) /\ Shape(c)'
<1>1. /\ RequestShape(call[c]) /\ call[c].task \in Tasks /\ Exists(call[c].task)
      /\ call[c].kind \in Steers \cup {"get"} /\ call'[c] = l
  BY RequestFacts DEF IndInv, Base, TypeOK
<1>2. Holds(c) /\ Released(c)
  BY <1>1 DEF Holds, Released, At
<1>3. Moved(c)
  BY <1>1, <1>2 DEF Moved, Advances
<1>4. RequestShape(l)'
  BY <1>1 DEF RequestShape
<1>5. l.kind # "none"
  BY <1>1 DEF Steers
<1>6. Exists(l.task)'
  BY <1>1 DEF Exists
<1>7. Shape(c)'
  BY <1>1, <1>4, <1>5, <1>6 DEF Shape, RequestShape, Exists
<1> QED
  BY <1>3, <1>7

LEMMA RetireInv ==
  ASSUME IndInv, NEW c \in Callers, Retire(c)
  PROVE  IndInv'
<1>1. /\ call[c].kind = "start" /\ call[c].pc = "retire"
      /\ UNCHANGED <<reg, wire, server, ask>>
      /\ reg[Home(c)][Source[call[c].task]] # "dying"
  BY DEF Retire, At
<1>2. Released(c)
  BY <1>1 DEF Released
<1>3. CASE Goto(c, "admit") /\ UNCHANGED rec
  <2> DEFINE l == [call[c] EXCEPT !.pc = "admit"]
  <2>1. call' = [call EXCEPT ![c] = l]
    BY <1>3 DEF Goto
  <2>2. call[c] \in Call /\ StartShape(call[c])
    BY <1>1, StartFacts
  <2>3. /\ l \in Call /\ l.pc = "admit" /\ l.kind = "start" /\ l.op = call[c].op
        /\ l.task = call[c].task /\ l.lease = call[c].lease /\ l.client = call[c].client
    BY <1>1, <2>2 DEF Call, Pcs
  <2> HIDE DEF l
  <2>4. l.lease = (l.pc # "refused") /\ l.client = "none"
    BY <1>1, <2>2, <2>3 DEF StartShape
  <2>5. Moved(c) /\ Shape(c)'
    BY <1>1, <1>2, <1>3, <2>1, <2>3, <2>4, StartMoves
  <2> QED
    BY <1>1, <1>3, <2>1, <2>3, <2>5, QuietMove
<1>4. CASE /\ rec' = [rec EXCEPT ![call[c].task] =
                        SetPhase([@ EXCEPT !.status = "failed"], call[c].op, "applied")]
           /\ Return(c)
  BY <1>1, <1>2, <1>4, StartRejected DEF Return, Unbound
<1> QED
  BY <1>3, <1>4 DEF Retire

LEMMA AdmissionFailsInv ==
  ASSUME IndInv, NEW c \in Callers, AdmissionFails(c)
  PROVE  IndInv'
<1> DEFINE l == [call[c] EXCEPT !.pc = "refused", !.lease = FALSE]
<1>1. /\ call[c].kind = "start" /\ call[c].pc = "admit"
      /\ UNCHANGED <<rec, reg, wire, server, ask>>
  BY DEF AdmissionFails, At
<1>2. call[c] \in Call /\ StartShape(call[c])
  BY <1>1, StartFacts
<1>3. call' = [call EXCEPT ![c] = l]
  BY DEF AdmissionFails, IndInv, Base, TypeOK
<1>4. /\ l \in Call /\ l.pc = "refused" /\ l.kind = "start" /\ l.op = call[c].op
      /\ l.task = call[c].task /\ l.lease = FALSE /\ l.client = call[c].client
  BY <1>1, <1>2 DEF Call, Pcs
<1> HIDE DEF l
<1>5. l.client = "none" /\ Released(c)
  BY <1>1, <1>2, <1>4 DEF StartShape, Released, At
<1>6. Moved(c) /\ Shape(c)'
  BY <1>1, <1>3, <1>4, <1>5, StartMoves
<1> QED
  BY <1>1, <1>3, <1>4, <1>6, QuietMove

LEMMA SpawnInv ==
  ASSUME IndInv, NEW c \in Callers, Spawn(c)
  PROVE  IndInv'
<1> DEFINE l == [call[c] EXCEPT !.pc = "thread", !.client = "own"]
<1>1. /\ call[c].kind = "start" /\ call[c].pc = "admit"
      /\ UNCHANGED <<rec, reg, wire, server, ask>>
  BY DEF Spawn, At
<1>2. call[c] \in Call /\ StartShape(call[c])
  BY <1>1, StartFacts
<1>3. call' = [call EXCEPT ![c] = l]
  BY DEF Spawn, IndInv, Base, TypeOK
<1>4. /\ l \in Call /\ l.pc = "thread" /\ l.kind = "start" /\ l.op = call[c].op
      /\ l.task = call[c].task /\ l.lease = call[c].lease /\ l.client = "own"
  BY <1>1, <1>2 DEF Call, Pcs
<1> HIDE DEF l
<1>5. l.lease /\ Released(c)
  BY <1>1, <1>2, <1>4 DEF StartShape, Released, At
<1>6. Moved(c) /\ Shape(c)'
  BY <1>1, <1>3, <1>4, <1>5, StartMoves
<1> QED
  BY <1>1, <1>3, <1>4, <1>6, QuietMove

LEMMA StartRepliedInv ==
  ASSUME IndInv, NEW c \in Callers, StartReplied(c)
  PROVE  IndInv'
<1> DEFINE l == [call[c] EXCEPT !.pc = "insert"]
<1>1. /\ call[c].kind = "start" /\ call[c].pc = "wait"
      /\ UNCHANGED <<reg, server, ask>>
  BY DEF StartReplied, At
<1>2. PICK t \in Tasks : t = call[c].task
  BY <1>1, StartFacts
<1>3. call[c] \in Call /\ StartShape(call[c]) /\ rec[t] \in Record /\ t \in Ops /\ Exists(t)
  BY <1>1, <1>2, StartFacts, Names
<1> DEFINE q == TurnStarted(rec[t], t)
<1>4. /\ call' = [call EXCEPT ![c] = l] /\ rec' = [rec EXCEPT ![t] = q]
      /\ wire' = [wire EXCEPT ![t] = NoWire]
  BY <1>2 DEF StartReplied, Goto
<1>5. /\ l \in Call /\ l.pc = "insert" /\ l.kind = "start" /\ l.op = call[c].op
      /\ l.task = t /\ l.lease = call[c].lease /\ l.client = call[c].client
  BY <1>1, <1>2, <1>3 DEF Call, Pcs
<1>6. Settles(rec[t], q)
  BY <1>3, TurnStartedSettles
<1> HIDE DEF l, q
<1>7. rec'[t] = q /\ rec[t].thread # None
  BY <1>1, <1>2, <1>3, <1>4 DEF StartShape, Bound, IndInv, Base, TypeOK
<1>8. Exists(t)' /\ rec'[t].thread # None
  BY <1>3, <1>6, <1>7 DEF Settles, Exists
<1>9. l.lease /\ l.client = "own" /\ Released(c)
  BY <1>1, <1>3, <1>5 DEF StartShape, Released, At
<1>10. Moved(c) /\ Shape(c)'
  BY <1>1, <1>2, <1>4, <1>5, <1>8, <1>9, StartMoves DEF Exists
<1>11. wire' \in [Ops -> Wire] /\ WireEnds
  BY <1>3, <1>4, WireCleared
<1> QED
  BY <1>1, <1>2, <1>4, <1>5, <1>6, <1>7, <1>10, <1>11, WriteStep, ServerSame

\* A call that is looking for its runtime, or has one, is a request.
LEMMA IsRequest ==
  ASSUME IndInv, NEW c \in Callers, call[c].pc \in {"ensure", "attach", "send", "apply", "fail"}
  PROVE  /\ call[c].kind # "start" /\ call[c].kind # "none" /\ call[c] \in Call
         /\ call[c].task \in Tasks /\ Exists(call[c].task) /\ rec[call[c].task] \in Record
         /\ call[c].kind \in Steers \cup {"get"} /\ call[c].op \in Ops
         /\ RequestShape(call[c]) /\ rec[call[c].task].thread # None
<1>1. call[c].kind # "start"
  BY StartFacts DEF StartShape, Unbound, Bound
<1> QED
  BY <1>1, RequestFacts DEF RequestShape, Steers

LEMMA UseRuntimeInv ==
  ASSUME IndInv, NEW c \in Callers, UseRuntime(c)
  PROVE  IndInv'
<1> DEFINE x == IF reg[Home(c)][call[c].task] = "live" THEN "shared" ELSE "dead"
           l == [call[c] EXCEPT !.pc = "send", !.lease = FALSE, !.client = x]
<1>1. /\ call[c].pc = "ensure" /\ UNCHANGED <<rec, reg, wire, server, ask>>
  BY DEF UseRuntime
<1>2. call[c] \in Call /\ call[c].kind # "start" /\ call[c].kind # "none"
  BY <1>1, IsRequest
<1>3. call' = [call EXCEPT ![c] = l]
  BY DEF UseRuntime, IndInv, Base, TypeOK
<1>4. x \in {"shared", "dead"}
  OBVIOUS
<1> HIDE DEF x
<1>5. /\ l \in Call /\ l.pc = "send" /\ l.kind = call[c].kind /\ l.op = call[c].op
      /\ l.task = call[c].task /\ l.lease = FALSE /\ l.client # "own"
  BY <1>2, <1>4 DEF Call, Pcs
<1> HIDE DEF l
<1>6. Moved(c) /\ Shape(c)'
  BY <1>1, <1>2, <1>3, <1>5, RequestMoves
<1> QED
  BY <1>1, <1>2, <1>3, <1>5, <1>6, QuietMove

\* A request gives up.
LEMMA GivesUp ==
  ASSUME IndInv, NEW c \in Callers, call[c].kind # "start",
         call[c].pc \in {"ensure", "send", "wait"}, ~call[c].lease, Goto(c, "fail"), UNCHANGED rec
  PROVE  \E l \in Call : call' = [call EXCEPT ![c] = l] /\ Moved(c) /\ Shape(c)'
<1> DEFINE l == [call[c] EXCEPT !.pc = "fail"]
<1>1. call[c] \in Call /\ RequestShape(call[c])
  BY RequestFacts
<1>2. call' = [call EXCEPT ![c] = l]
  BY DEF Goto
<1>3. /\ l \in Call /\ l.pc = "fail" /\ l.kind = call[c].kind /\ l.op = call[c].op
      /\ l.task = call[c].task /\ l.lease = call[c].lease /\ l.client = call[c].client
  BY <1>1 DEF Call, Pcs
<1>4. l.client # "own"
  BY <1>1, <1>3 DEF RequestShape
<1> HIDE DEF l
<1>5. Moved(c) /\ Shape(c)'
  BY <1>2, <1>3, <1>4, RequestMoves
<1> QED
  BY <1>2, <1>3, <1>5

LEMMA OwnedElsewhereInv ==
  ASSUME IndInv, NEW c \in Callers, OwnedElsewhere(c)
  PROVE  IndInv'
<1>1. /\ call[c].pc = "ensure" /\ ~call[c].lease /\ UNCHANGED <<rec, reg, wire, server, ask>>
      /\ Return(c) \/ Goto(c, "fail")
  BY DEF OwnedElsewhere
<1>2. call[c].kind # "start" /\ call[c].kind # "none" /\ Released(c)
  BY <1>1, IsRequest DEF Released, At
<1>3. CASE Return(c)
  BY <1>1, <1>2, <1>3, IdleFields, QuietMove DEF Return
<1>4. CASE Goto(c, "fail")
  BY <1>1, <1>2, <1>4, GivesUp, QuietMove
<1> QED
  BY <1>1, <1>3, <1>4

LEMMA RequestFailsInv ==
  ASSUME IndInv, NEW c \in Callers, RequestFails(c)
  PROVE  IndInv'
<1>1. /\ call[c].pc \in {"send", "wait"} /\ call[c].kind # "start"
      /\ Goto(c, "fail") /\ UNCHANGED <<rec, reg, server, ask>>
      /\ wire' = [o \in Ops |-> IF Awaits(c, o) /\ wire[o].state # "sent" THEN NoWire ELSE wire[o]]
  BY DEF RequestFails
<1>2. call[c].task \in Tasks /\ RequestShape(call[c]) /\ call[c].kind \in Steers \cup {"get"}
  BY <1>1, RequestFacts
<1>3. ~call[c].lease /\ call[c].kind # "none"
  BY <1>1, <1>2 DEF RequestShape, Steers
<1>4. PICK l \in Call : call' = [call EXCEPT ![c] = l] /\ Moved(c) /\ Shape(c)'
  BY <1>1, <1>3, GivesUp
<1>5. TypeOK
  BY DEF IndInv, Base
<1>6. /\ \A o \in Ops : wire'[o] = wire[o] \/ wire'[o] = NoWire
      /\ wire' = [o \in Ops |-> wire'[o]]
  BY <1>1
<1>7. wire' \in [Ops -> Wire] /\ WireEnds
  BY <1>5, <1>6, LostTypes
<1>8. MildRecord(call[c].task) /\ rec' \in [Tasks -> Record]
  BY <1>1, <1>2, <1>5, SameIsMild DEF TypeOK
<1> QED
  BY <1>1, <1>2, <1>4, <1>7, <1>8, CallerStep, ServerSame

LEMMA AttachFailsInv ==
  ASSUME IndInv, NEW c \in Callers, AttachFails(c)
  PROVE  IndInv'
<1> DEFINE l == [call[c] EXCEPT !.pc = "fail", !.lease = FALSE, !.client = "none"]
<1>1. /\ call[c].pc = "attach" /\ UNCHANGED <<rec, reg, ask>>
      /\ ChildrenEnd({call[c].task}) /\ Lost({call[c].task})
  BY DEF AttachFails
<1>2. call[c] \in Call /\ call[c].kind # "start" /\ call[c].kind # "none" /\ call[c].task \in Tasks
  BY <1>1, IsRequest
<1>3. call' = [call EXCEPT ![c] = l]
  BY DEF AttachFails, IndInv, Base, TypeOK
<1>4. /\ l \in Call /\ l.pc = "fail" /\ l.kind = call[c].kind /\ l.op = call[c].op
      /\ l.task = call[c].task /\ l.lease = FALSE /\ l.client # "own"
  BY <1>2 DEF Call, Pcs
<1> HIDE DEF l
<1>5. Moved(c) /\ Shape(c)'
  BY <1>1, <1>2, <1>3, <1>4, RequestMoves
<1>6. TypeOK
  BY DEF IndInv, Base
<1>7. /\ \A o \in Ops : wire'[o] = wire[o] \/ wire'[o] = NoWire
      /\ wire' = [o \in Ops |-> wire'[o]]
  BY <1>1 DEF Lost
<1>8. wire' \in [Ops -> Wire] /\ WireEnds
  BY <1>6, <1>7, LostTypes
<1>9. MildRecord(call[c].task) /\ rec' \in [Tasks -> Record]
  BY <1>1, <1>2, <1>6, SameIsMild DEF TypeOK
<1> QED
  BY <1>1, <1>2, <1>3, <1>4, <1>5, <1>6, <1>8, <1>9, CallerStep, ChildrenEndTypes

\* derive_thread_state_after yields a turn of the thread, or none, and a status.
LEMMA DerivedTypes ==
  ASSUME NEW s \in Seq([op : Ops, status : TurnStatuses]), NEW x, NEW y,
         NEW d \in Derived(s, x, y)
  PROVE  d.turn \in Ops \cup {None} /\ d.status \in TurnStatuses \cup {"reconcile", "unknown"}
<1> DEFINE at(o) == {i \in DOMAIN s : s[i].op = o}
           picked == CASE at(x) # {} -> at(x)
                       [] at(x) = {} /\ y # None -> {i + 1 : i \in at(y)} \cap DOMAIN s
                       [] OTHER -> {Len(s)} \cap DOMAIN s
           active == \E i \in DOMAIN s : s[i].status = "running"
<1>1. picked \subseteq DOMAIN s
  OBVIOUS
<1>2. d \in IF picked # {} THEN {[turn |-> s[i].op, status |-> s[i].status] : i \in picked}
            ELSE {[turn |-> None, status |-> status] : status \in
                   IF active THEN {"running"}
                   ELSE {IF y # None THEN "reconcile" ELSE "unknown", "failed"}}
  BY DEF Derived
<1> HIDE DEF picked, active
<1>3. \A i \in DOMAIN s : s[i] \in [op : Ops, status : TurnStatuses]
  <2>1. DOMAIN s = 1..Len(s) /\ s \in [1..Len(s) -> [op : Ops, status : TurnStatuses]]
    BY SeqFun
  <2> QED
    BY <2>1
<1>4. CASE picked # {}
  BY <1>1, <1>2, <1>3, <1>4
<1>5. CASE picked = {}
  BY <1>2, <1>5 DEF TurnStatuses
<1> QED
  BY <1>4, <1>5

LEMMA ReadInv ==
  ASSUME IndInv, NEW c \in Callers, Read(c)
  PROVE  IndInv'
<1>1. /\ call[c].pc = "send" /\ call[c].kind \in {"resume", "get"} /\ call[c].client = "shared"
      /\ UNCHANGED <<rec, reg, wire, server, ask>>
  BY DEF Read
<1>2. /\ call[c] \in Call /\ call[c].kind # "start" /\ call[c].kind # "none"
      /\ call[c].task \in Tasks /\ rec[call[c].task] \in Record
      /\ rec[call[c].task].thread # None /\ RequestShape(call[c])
  BY <1>1, IsRequest
<1>3. ~call[c].lease /\ Released(c)
  BY <1>1, <1>2 DEF RequestShape, Released, At
<1>4. turns[rec[call[c].task].thread] \in Seq([op : Ops, status : TurnStatuses])
  <2>1. rec[call[c].task].thread \in Tasks
    BY <1>2 DEF Record
  <2> QED
    BY <2>1 DEF IndInv, Base, TypeOK
<1>5. PICK d \in Derived(turns[rec[call[c].task].thread], call[c].turn,
                         IF call[c].kind = "get" THEN call[c].prev ELSE None) :
        \/ call' = [call EXCEPT ![c].pc = "apply", ![c].turn = d.turn, ![c].status = d.status]
        \/ Return(c)
  BY DEF Read
<1>6. d.turn \in Ops \cup {None} /\ d.status \in TurnStatuses \cup {"reconcile", "unknown"}
  BY <1>4, <1>5, DerivedTypes
<1>7. CASE call' = [call EXCEPT ![c].pc = "apply", ![c].turn = d.turn, ![c].status = d.status]
  <2> DEFINE l == [call[c] EXCEPT !.pc = "apply", !.turn = d.turn, !.status = d.status]
  <2>1. call' = [call EXCEPT ![c] = l]
    BY <1>7 DEF IndInv, Base, TypeOK
  <2>2. d.status \in Statuses
    BY <1>6 DEF Statuses, TurnStatuses
  <2>3. /\ l \in Call /\ l.pc = "apply" /\ l.kind = call[c].kind /\ l.op = call[c].op
        /\ l.task = call[c].task /\ l.lease = call[c].lease /\ l.client = call[c].client
        /\ l.status = d.status
    BY <1>2, <1>6, <2>2 DEF Call, Pcs
  <2> HIDE DEF l
  <2>4. Moved(c) /\ Shape(c)'
    BY <1>1, <1>2, <1>3, <1>6, <2>1, <2>3, RequestMoves
  <2> QED
    BY <1>1, <1>2, <2>1, <2>3, <2>4, QuietMove
<1>8. CASE Return(c)
  BY <1>1, <1>2, <1>3, <1>8, IdleFields, QuietMove DEF Return
<1> QED
  BY <1>5, <1>7, <1>8

-----------------------------------------------------------------------------
(* Ends of runtimes and processes. *)

LEMMA RegUpdate ==
  ASSUME IndInv, NEW p \in Procs, NEW t \in Tasks,
         NEW x \in {"none", "live", "dead", "dying"}, reg' = [reg EXCEPT ![p][t] = x]
  PROVE  /\ reg' \in [Procs -> [Tasks -> {"none", "live", "dead", "dying"}]]
         /\ reg'[p][t] = x
         /\ \A q \in Procs, u \in Tasks : q # p \/ u # t => reg'[q][u] = reg[q][u]
<1>1. reg \in [Procs -> [Tasks -> {"none", "live", "dead", "dying"}]]
  BY DEF IndInv, Base, TypeOK
<1> QED
  BY <1>1

\* Calls that stay where they are.
LEMMA KeptProceeds ==
  ASSUME IndInv, \A t \in Tasks : rec'[t] = rec[t] \/ (rec[t].thread # None /\ MildRecord(t)),
         NEW c \in Callers, Kept(call[c], call'[c])
  PROVE  Proceeds(c)
<1>1. ASSUME Starting(c)
      PROVE  Open(call[c].task)'
  <2>1. call[c].task \in Tasks /\ Open(call[c].task) /\ call[c] \in Call
    BY <1>1, StartFacts DEF StartShape, Starting, Open
  <2>2. call'[c].task = call[c].task
    BY <2>1, KeptFields
  <2>3. rec'[call[c].task] = rec[call[c].task]
    BY <2>1 DEF Open
  <2> QED
    BY <2>1, <2>2, <2>3 DEF Open
<1> QED
  BY <1>1 DEF Proceeds

LEMMA DisconnectedKept ==
  ASSUME IndInv, NEW p \in Procs, NEW t \in Tasks, call' = Disconnected(p, t)
  PROVE  call' \in [Callers -> Call] /\ \A c \in Callers : Kept(call[c], call'[c])
<1>1. call \in [Callers -> Call]
  BY DEF IndInv, Base, TypeOK
<1>2. \A c \in Callers : Kept(call[c], call'[c])
  BY DEF Kept, Disconnected
<1>3. \A c \in Callers : call'[c] \in Call
  <2> SUFFICES ASSUME NEW c \in Callers PROVE call'[c] \in Call
    OBVIOUS
  <2>1. call[c] \in Call
    BY <1>1
  <2>2. [call[c] EXCEPT !.client = "dead"] \in Call
    BY <2>1 DEF Call
  <2> QED
    BY <1>2, <2>1, <2>2 DEF Kept
<1>4. call' = [c \in Callers |-> call'[c]]
  BY DEF Disconnected
<1> QED
  BY <1>2, <1>3, <1>4

\* A runtime comes closer to its end.
LEMMA RuntimeStepInv ==
  ASSUME IndInv, NEW p \in Procs, NEW t \in Tasks,
         NEW x \in {"none", "dead", "dying"}, reg' = [reg EXCEPT ![p][t] = x],
         reg[p][t] # "none", reg[p][t] = "dying" => x = "none",
         call' \in [Callers -> Call], \A c \in Callers : Kept(call[c], call'[c]),
         UNCHANGED <<rec, ask, begun, served>>,
         wire' \in [Ops -> Wire], WireEnds,
         turns' \in [Tasks -> Seq([op : Ops, status : TurnStatuses])],
         news' \in [Tasks -> Seq([turn : Ops, status : TurnStatuses])]
  PROVE  IndInv'
<1>1. /\ reg' \in [Procs -> [Tasks -> {"none", "live", "dead", "dying"}]]
      /\ reg'[p][t] = x
      /\ \A q \in Procs, u \in Tasks : q # p \/ u # t => reg'[q][u] = reg[q][u]
  BY RegUpdate
<1>2. TypeOK'
  BY <1>1 DEF IndInv, Base, TypeOK
<1>3. RuntimesEnd
  BY <1>1 DEF RuntimesEnd
<1>4. \A u \in Tasks : MildRecord(u)
  BY SameIsMild
<1>5. \A c \in Callers : Proceeds(c)
  BY KeptProceeds
<1>6. \A u \in Tasks : ask'[u].stage # "none" => rec'[u].thread # None /\ ask'[u].turn # None
  BY DEF IndInv, Base, Threaded
<1> QED
  BY <1>2, <1>3, <1>4, <1>5, <1>6, QuietStep

LEMMA EndTypes ==
  ASSUME IndInv, NEW ended, ChildrenEnd(ended), Lost(ended)
  PROVE  /\ turns' \in [Tasks -> Seq([op : Ops, status : TurnStatuses])]
         /\ news' \in [Tasks -> Seq([turn : Ops, status : TurnStatuses])]
         /\ UNCHANGED <<begun, served>>
         /\ wire' \in [Ops -> Wire] /\ WireEnds
<1>1. TypeOK
  BY DEF IndInv, Base
<1>2. /\ \A o \in Ops : wire'[o] = wire[o] \/ wire'[o] = NoWire
      /\ wire' = [o \in Ops |-> wire'[o]]
  BY DEF Lost
<1> QED
  BY <1>1, <1>2, ChildrenEndTypes, LostTypes

LEMMA RuntimeDiesInv ==
  ASSUME IndInv, NEW p \in Procs, NEW t \in Tasks, RuntimeDies(p, t)
  PROVE  IndInv'
<1>1. /\ reg[p][t] = "live" /\ reg' = [reg EXCEPT ![p][t] = "dead"]
      /\ call' = Disconnected(p, t) /\ ChildrenEnd({t}) /\ Lost({t})
      /\ UNCHANGED <<rec, ask>>
  BY DEF RuntimeDies
<1> QED
  BY <1>1, EndTypes, DisconnectedKept, RuntimeStepInv

LEMMA LifetimeOverInv ==
  ASSUME IndInv, NEW p \in Procs, NEW t \in Tasks, LifetimeOver(p, t)
  PROVE  IndInv'
<1> DEFINE x == IF reg[p][t] = "live" THEN "dying" ELSE "none"
<1>1. /\ reg[p][t] \in {"live", "dead"} /\ reg' = [reg EXCEPT ![p][t] = x]
      /\ call' = Disconnected(p, t) /\ UNCHANGED <<rec, wire, server, ask>>
  BY DEF LifetimeOver, Registered
<1>2. x \in {"none", "dying"}
  OBVIOUS
<1> HIDE DEF x
<1> QED
  BY <1>1, <1>2, DisconnectedKept, ServerSame, WireSame, RuntimeStepInv

LEMMA ActorEndsInv ==
  ASSUME IndInv, NEW p \in Procs, NEW t \in Tasks, ActorEnds(p, t)
  PROVE  IndInv'
<1>1. /\ reg[p][t] = "dying" /\ reg' = [reg EXCEPT ![p][t] = "none"]
      /\ ChildrenEnd({t}) /\ Lost({t}) /\ UNCHANGED <<rec, call, ask>>
  BY DEF ActorEnds
<1>2. call' \in [Callers -> Call] /\ \A c \in Callers : Kept(call[c], call'[c])
  BY <1>1 DEF IndInv, Base, TypeOK, Kept
<1> QED
  BY <1>1, <1>2, EndTypes, RuntimeStepInv

LEMMA CrashInv ==
  ASSUME IndInv, NEW p \in Procs, Crash(p)
  PROVE  IndInv'
<1>1. /\ call' = [c \in Callers |-> IF Home(c) = p THEN Idle ELSE call[c]]
      /\ reg' = [reg EXCEPT ![p] = [t \in Tasks |-> "none"]]
      /\ ask' = [t \in Tasks |-> IF ask[t].proc = p THEN NoAsk ELSE ask[t]]
      /\ ChildrenEnd(Children(p)) /\ UNCHANGED rec
  BY DEF Crash
<1>2. TypeOK
  BY DEF IndInv, Base
<1>3. /\ \A o \in Ops : wire'[o] = wire[o] \/ wire'[o] = NoWire
      /\ wire' = [o \in Ops |-> wire'[o]]
  BY DEF Crash
<1>4. wire' \in [Ops -> Wire] /\ WireEnds
  BY <1>2, <1>3, LostTypes
<1>5. /\ turns' \in [Tasks -> Seq([op : Ops, status : TurnStatuses])]
      /\ news' \in [Tasks -> Seq([turn : Ops, status : TurnStatuses])]
      /\ UNCHANGED <<begun, served>>
  BY <1>1, <1>2, ChildrenEndTypes
<1>6. /\ reg' \in [Procs -> [Tasks -> {"none", "live", "dead", "dying"}]]
      /\ \A t \in Tasks : reg'[p][t] = "none"
      /\ \A q \in Procs \ {p}, t \in Tasks : reg'[q][t] = reg[q][t]
  BY <1>1, <1>2 DEF TypeOK
<1>7. call' \in [Callers -> Call]
  BY <1>1, <1>2, IdleFields DEF TypeOK
<1>8. NoAsk \in Ask /\ NoAsk.stage = "none"
  BY DEF NoAsk, Ask
<1>9. ask' \in [Tasks -> Ask] /\ \A t \in Tasks : ask'[t].stage # "none" => ask'[t] = ask[t]
  BY <1>1, <1>2, <1>8 DEF TypeOK
<1>10. TypeOK'
  BY <1>1, <1>2, <1>4, <1>5, <1>6, <1>7, <1>9 DEF TypeOK
<1>11. RuntimesEnd
  BY <1>6 DEF RuntimesEnd
<1>12. \A t \in Tasks : ask'[t].stage # "none" => rec'[t].thread # None /\ ask'[t].turn # None
  BY <1>1, <1>9 DEF IndInv, Base, Threaded
<1>13. \A c \in Callers : Proceeds(c)
  <2> SUFFICES ASSUME NEW c \in Callers PROVE Proceeds(c)
    OBVIOUS
  <2>1. CASE Home(c) = p
    <3>1. call'[c] = Idle
      BY <1>1, <2>1
    <3>2. ASSUME At(c, "start", "retire")
          PROVE  reg'[Home(c)][Source[call[c].task]] # "dying"
      <4>1. Source[call[c].task] \in Tasks
        BY <3>2, StartFacts, OperationAssumption DEF At, StartShape
      <4> QED
        BY <1>6, <2>1, <4>1
    <3> QED
      BY <3>1, <3>2 DEF Proceeds, Released
  <2>2. CASE Home(c) # p
    BY <1>1, <2>2, KeptProceeds DEF Kept
  <2> QED
    BY <2>1, <2>2
<1>14. \A t \in Tasks : MildRecord(t)
  BY <1>1, SameIsMild
<1> QED
  BY <1>4, <1>5, <1>10, <1>11, <1>12, <1>13, <1>14, QuietStep

-----------------------------------------------------------------------------
(* Notifications, approvals and the ends of turns. *)

\* An entry of a sequence, a longer and a shorter one.
LEMMA SeqParts ==
  ASSUME NEW T, NEW q \in Seq(T)
  PROVE  /\ \A i \in DOMAIN q : q[i] \in T
         /\ \A x \in T : Append(q, x) \in Seq(T)
         /\ q # <<>> => Head(q) \in T /\ Tail(q) \in Seq(T)
  OBVIOUS

\* A step that settles the record of a task that has its thread.
LEMMA AppStep ==
  ASSUME IndInv, NEW t \in Tasks, rec[t].thread # None,
         NEW q, rec' = [rec EXCEPT ![t] = q], Settles(rec[t], q),
         UNCHANGED <<reg, call, wire, begun, served>>,
         turns' \in [Tasks -> Seq([op : Ops, status : TurnStatuses])],
         news' \in [Tasks -> Seq([turn : Ops, status : TurnStatuses])],
         NEW a \in Ask, ask' = [ask EXCEPT ![t] = a],
         a.stage # "none" => a.turn # None
  PROVE  IndInv'
<1>1. /\ rec \in [Tasks -> Record] /\ ask \in [Tasks -> Ask] /\ q \in Record /\ Exists(t)
      /\ TypeOK
  BY DEF IndInv, Base, TypeOK, Settles, Threads
<1>2. /\ rec' \in [Tasks -> Record] /\ rec'[t] = q
      /\ \A u \in Tasks \ {t} : rec'[u] = rec[u]
  BY <1>1
<1>3. /\ ask' \in [Tasks -> Ask] /\ ask'[t] = a
      /\ \A u \in Tasks \ {t} : ask'[u] = ask[u]
  BY <1>1
<1>4. TypeOK'
  BY <1>1, <1>2, <1>3 DEF TypeOK
<1>5. MildRecord(t)
  BY <1>1, <1>2, SettledIsMild
<1>6. \A u \in Tasks : MildRecord(u)
  BY <1>2, <1>5, SameIsMild
<1>7. \A c \in Callers : Proceeds(c)
  <2>1. \A c \in Callers : Kept(call[c], call'[c])
    BY DEF Kept
  <2>2. \A u \in Tasks : rec'[u] = rec[u] \/ (rec[u].thread # None /\ MildRecord(u))
    BY <1>2, <1>6
  <2> QED
    BY <2>1, <2>2, KeptProceeds
<1>8. RuntimesEnd /\ WireEnds
  BY DEF RuntimesEnd, WireEnds
<1>9. \A u \in Tasks : ask'[u].stage # "none" => rec'[u].thread # None /\ ask'[u].turn # None
  BY <1>2, <1>3 DEF IndInv, Base, Threaded, Settles
<1> QED
  BY <1>4, <1>6, <1>7, <1>8, <1>9, QuietStep

\* Nothing of the record or of the approval changes.
LEMMA SameSettles ==
  ASSUME IndInv, NEW t \in Tasks, UNCHANGED rec
  PROVE  rec' = [rec EXCEPT ![t] = rec[t]] /\ Settles(rec[t], rec[t]) /\ rec[t] \in Record
<1>1. rec \in [Tasks -> Record]
  BY DEF IndInv, Base, TypeOK
<1> QED
  BY <1>1, PlainSettles

LEMMA SameAsk ==
  ASSUME IndInv, NEW t \in Tasks, UNCHANGED ask
  PROVE  /\ ask' = [ask EXCEPT ![t] = ask[t]] /\ ask[t] \in Ask
         /\ ask[t].stage # "none" => ask[t].turn # None
  BY DEF IndInv, Base, TypeOK, Threaded

LEMMA TurnEndsInv ==
  ASSUME IndInv, NEW t \in Tasks, TurnEnds(t)
  PROVE  IndInv'
<1> DEFINE h == rec[t].thread
<1>1. /\ h # None /\ UNCHANGED <<rec, reg, call, wire, ask, begun, served>>
  BY DEF TurnEnds
<1>2. PICK i \in DOMAIN turns[h], x \in Outcomes :
        EndTurn(h, x) /\ Announce(h, turns[h][i].op, x)
  BY DEF TurnEnds
<1>3. h \in Tasks
  BY <1>1 DEF IndInv, Base, TypeOK, Record
<1>4. /\ turns \in [Tasks -> Seq([op : Ops, status : TurnStatuses])]
      /\ news \in [Tasks -> Seq([turn : Ops, status : TurnStatuses])]
  BY DEF IndInv, Base, TypeOK
<1>5. x \in TurnStatuses
  BY OutcomeAssumption DEF TurnStatuses
<1> HIDE DEF h
<1>6. turns' \in [Tasks -> Seq([op : Ops, status : TurnStatuses])]
  <2> DEFINE s == turns[h]
             z == [j \in DOMAIN s |-> IF s[j].status = "running"
                                      THEN [s[j] EXCEPT !.status = x] ELSE s[j]]
  <2>1. turns' = [turns EXCEPT ![h] = z]
    BY <1>2 DEF EndTurn
  <2>2. s \in Seq([op : Ops, status : TurnStatuses])
    BY <1>3, <1>4
  <2>3. z \in Seq([op : Ops, status : TurnStatuses])
    <3> HIDE DEF s
    <3> QED
      BY <1>5, <2>2, TurnsType
  <2> HIDE DEF z
  <2> QED
    BY <1>3, <1>4, <2>1, <2>3
<1>7. news' \in [Tasks -> Seq([turn : Ops, status : TurnStatuses])]
  <2>1. turns[h][i].op \in Ops
    <3>1. turns[h] \in Seq([op : Ops, status : TurnStatuses])
      BY <1>3, <1>4
    <3>2. turns[h][i] \in [op : Ops, status : TurnStatuses]
      BY <1>2, <3>1, SeqParts
    <3> QED
      BY <3>2
  <2>2. [turn |-> turns[h][i].op, status |-> x] \in [turn : Ops, status : TurnStatuses]
    BY <1>5, <2>1
  <2>3. news' = [news EXCEPT ![h] = Append(@, [turn |-> turns[h][i].op, status |-> x])]
    BY <1>2 DEF Announce
  <2>4. Append(news[h], [turn |-> turns[h][i].op, status |-> x])
          \in Seq([turn : Ops, status : TurnStatuses])
    <3>1. news[h] \in Seq([turn : Ops, status : TurnStatuses])
      BY <1>3, <1>4
    <3> QED
      BY <2>2, <3>1, SeqParts
  <2> QED
    BY <1>3, <1>4, <2>3, <2>4
<1> QED
  BY <1>1, <1>6, <1>7, SameSettles, SameAsk, AppStep DEF h

LEMMA NotificationInv ==
  ASSUME IndInv, NEW t \in Tasks, Notification(t)
  PROVE  IndInv'
<1> DEFINE h == rec[t].thread
           q == Notified(rec[t], Head(news[h]))
<1>1. /\ h # None /\ news[h] # <<>> /\ rec' = [rec EXCEPT ![t] = q]
      /\ news' = [news EXCEPT ![h] = Tail(@)]
      /\ UNCHANGED <<reg, call, wire, turns, ask, begun, served>>
  BY DEF Notification
<1>2. /\ h \in Tasks /\ rec[t] \in Record
      /\ turns \in [Tasks -> Seq([op : Ops, status : TurnStatuses])]
      /\ news \in [Tasks -> Seq([turn : Ops, status : TurnStatuses])]
  BY <1>1 DEF IndInv, Base, TypeOK, Record
<1> HIDE DEF h
<1>3. /\ Head(news[h]) \in [turn : Ops, status : TurnStatuses]
      /\ Tail(news[h]) \in Seq([turn : Ops, status : TurnStatuses])
  <2>1. news[h] \in Seq([turn : Ops, status : TurnStatuses])
    BY <1>2
  <2> QED
    BY <1>1, <2>1, SeqParts
<1>4. Settles(rec[t], q)
  BY <1>2, <1>3, NotifiedSettles
<1>5. news' \in [Tasks -> Seq([turn : Ops, status : TurnStatuses])]
  BY <1>1, <1>2, <1>3
<1> HIDE DEF q
<1> QED
  BY <1>1, <1>2, <1>4, <1>5, SameAsk, AppStep DEF h

LEMMA AsksInv ==
  ASSUME IndInv, NEW p \in Procs, NEW t \in Tasks, Asks(p, t)
  PROVE  IndInv'
<1> DEFINE h == rec[t].thread
<1>1. /\ h # None /\ UNCHANGED <<rec, reg, call, wire, server>>
  BY DEF Asks
<1>2. PICK i \in DOMAIN turns[h] :
        ask' = [ask EXCEPT ![t] = [stage |-> "asked", turn |-> turns[h][i].op, proc |-> p]]
  BY DEF Asks
<1>3. turns[h][i].op \in Ops
  <2>1. h \in Tasks
    BY <1>1 DEF IndInv, Base, TypeOK, Record
  <2>2. turns[h] \in Seq([op : Ops, status : TurnStatuses])
    BY <2>1 DEF IndInv, Base, TypeOK
  <2>3. turns[h][i] \in [op : Ops, status : TurnStatuses]
    BY <1>2, <2>2, SeqParts
  <2> QED
    BY <2>3
<1> DEFINE a == [stage |-> "asked", turn |-> turns[h][i].op, proc |-> p]
<1>4. a \in Ask /\ a.turn # None
  BY <1>3, Names DEF Ask
<1> HIDE DEF a
<1> QED
  BY <1>1, <1>2, <1>4, SameSettles, ServerSame, AppStep DEF a

LEMMA AskBoundInv ==
  ASSUME IndInv, NEW t \in Tasks, AskBound(t)
  PROVE  IndInv'
<1>1. /\ ask[t].stage = "asked" /\ UNCHANGED <<reg, call, wire, server>>
  BY DEF AskBound
<1>2. /\ rec[t].thread # None /\ ask[t].turn # None /\ ask[t] \in Ask /\ rec[t] \in Record
      /\ rec \in [Tasks -> Record] /\ ask \in [Tasks -> Ask]
  BY <1>1 DEF IndInv, Base, Threaded, TypeOK
<1>3. CASE /\ ~Terminal(rec[t].status)
           /\ rec' = [rec EXCEPT ![t].turn = ask[t].turn]
           /\ ask' = [ask EXCEPT ![t].stage = "bound"]
  <2> DEFINE q == [rec[t] EXCEPT !.turn = ask[t].turn]
             a == [ask[t] EXCEPT !.stage = "bound"]
  <2>1. rec' = [rec EXCEPT ![t] = q] /\ ask' = [ask EXCEPT ![t] = a]
    BY <1>3
  <2>2. a \in Ask /\ a.turn # None
    BY <1>2 DEF Ask
  <2>3. /\ q \in Record /\ q.thread = rec[t].thread /\ q.claim = rec[t].claim
        /\ q.ops = rec[t].ops /\ q.tombs = rec[t].tombs /\ q.status = rec[t].status
    BY <1>2 DEF Record, Ask
  <2> HIDE DEF q, a
  <2>4. Settles(rec[t], q)
    BY <1>2, <2>3, PlainSettles
  <2> QED
    BY <1>1, <1>2, <2>1, <2>2, <2>4, ServerSame, AppStep
<1>4. CASE ask' = [ask EXCEPT ![t] = NoAsk] /\ UNCHANGED rec
  <2>1. NoAsk \in Ask /\ NoAsk.stage = "none"
    BY DEF NoAsk, Ask
  <2> QED
    BY <1>1, <1>2, <1>4, <2>1, SameSettles, ServerSame, AppStep
<1> QED
  BY <1>3, <1>4 DEF AskBound

LEMMA AskWaitsInv ==
  ASSUME IndInv, NEW t \in Tasks, AskWaits(t)
  PROVE  IndInv'
<1> DEFINE q == [rec[t] EXCEPT !.status = IF Terminal(@) THEN @ ELSE "waiting"]
           a == [ask[t] EXCEPT !.stage = "waiting"]
<1>1. /\ ask[t].stage = "bound" /\ UNCHANGED <<reg, call, wire, server>>
  BY DEF AskWaits
<1>2. /\ rec[t].thread # None /\ ask[t].turn # None /\ ask[t] \in Ask /\ rec[t] \in Record
  BY <1>1 DEF IndInv, Base, Threaded, TypeOK
<1>3. rec' = [rec EXCEPT ![t] = q] /\ ask' = [ask EXCEPT ![t] = a]
  BY DEF AskWaits
<1>4. a \in Ask /\ a.turn # None
  BY <1>2 DEF Ask
<1>5. "waiting" \in Statuses \ {"missing", "retryable"}
  BY DEF Statuses
<1>6. Settles(rec[t], q)
  BY <1>2, <1>5, StatusSettles
<1> HIDE DEF q, a
<1> QED
  BY <1>1, <1>2, <1>3, <1>4, <1>6, ServerSame, AppStep

LEMMA AskDecidedInv ==
  ASSUME IndInv, NEW t \in Tasks, AskDecided(t)
  PROVE  IndInv'
<1> DEFINE q == [rec[t] EXCEPT !.status = IF @ = "waiting" THEN "running" ELSE @]
<1>1. /\ ask[t].stage = "waiting" /\ UNCHANGED <<reg, call, wire, server>>
      /\ ask' = [ask EXCEPT ![t] = NoAsk]
  BY DEF AskDecided
<1>2. /\ rec[t].thread # None /\ rec[t] \in Record
  BY <1>1 DEF IndInv, Base, Threaded, TypeOK
<1>3. rec' = [rec EXCEPT ![t] = q]
  BY DEF AskDecided
<1>4. NoAsk \in Ask /\ NoAsk.stage = "none"
  BY DEF NoAsk, Ask
<1>5. /\ q \in Record /\ q.thread = rec[t].thread /\ q.claim = rec[t].claim
      /\ q.ops = rec[t].ops /\ q.tombs = rec[t].tombs
      /\ q.status = IF rec[t].status = "waiting" THEN "running" ELSE rec[t].status
  BY <1>2 DEF Record, Statuses
<1> HIDE DEF q
<1>6. Settles(rec[t], q)
  BY <1>2, <1>5, PlainSettles DEF Terminal
<1> QED
  BY <1>1, <1>2, <1>3, <1>4, <1>6, ServerSame, AppStep

-----------------------------------------------------------------------------
(* Steps that put something on the wire, gain a lease or begin a call. *)

\* The other calls stay, and so does what their starts own.
LEMMA OneCallFrame ==
  ASSUME IndInv, TypeOK', NEW c \in Callers, Goes(c) \/ Begins(c),
         \A d \in Callers \ {c} : call'[d] = call[d],
         \A t \in Tasks : Linked(t) /\ (rec'[t] = rec[t] \/ ~Open(t)),
         RuntimesGo, UNCHANGED ask
  PROVE  CallShape' /\ Threaded' /\ Threads' /\ OneLeaf' /\ ContinuedIsQuiet'
<1>1. \A d \in Callers : Goes(d) \/ Begins(d)
  <2> SUFFICES ASSUME NEW d \in Callers \ {c} PROVE Goes(d)
    OBVIOUS
  <2>1. call'[d] = call[d]
    OBVIOUS
  <2>2. ASSUME Starting(d)
        PROVE  Open(call[d].task)'
    <3>1. call[d].task \in Tasks /\ Open(call[d].task)
      BY <2>2, StartFacts DEF StartShape, Starting, Open
    <3>2. rec'[call[d].task] = rec[call[d].task]
      BY <3>1
    <3> QED
      BY <2>1, <3>1, <3>2 DEF Open
  <2> QED
    BY <2>1, <2>2 DEF Goes, Kept
<1>2. \A t \in Tasks : ask'[t].stage # "none" => rec'[t].thread # None /\ ask'[t].turn # None
  BY DEF IndInv, Base, Threaded, Linked, SameLinks
<1> QED
  BY <1>1, <1>2, QuietFrame

LEMMA RecordsSame ==
  ASSUME IndInv, UNCHANGED rec
  PROVE  \A t \in Tasks : /\ Linked(t) /\ rec'[t] = rec[t] /\ KeepsRecord(t) /\ Open(t)' = Open(t)
                          /\ Exists(t)' = Exists(t) /\ Remembered(rec'[t]) = Remembered(rec[t])
  BY DEF IndInv, Threads, Linked, SameLinks, KeepsRecord, Exists, Open

\* The calls but one are the same.
LEMMA OneCall ==
  ASSUME IndInv, NEW c \in Callers, NEW l \in Call, call' = [call EXCEPT ![c] = l]
  PROVE  /\ call' \in [Callers -> Call] /\ call'[c] = l
         /\ \A d \in Callers \ {c} : call'[d] = call[d]
  BY DEF IndInv, Base, TypeOK

LEMMA ThreadServedInv ==
  ASSUME IndInv, NEW c \in Callers, ThreadServed(c)
  PROVE  IndInv'
<1> DEFINE l == [call[c] EXCEPT !.pc = "bind"]
<1>1. /\ call[c].kind = "start" /\ call[c].pc = "thread"
      /\ UNCHANGED <<rec, reg, wire, turns, news, ask, served>>
      /\ call' = [call EXCEPT ![c] = l]
  BY DEF ThreadServed, At, Goto
<1>2. PICK t \in Tasks : t = call[c].task
  BY <1>1, StartFacts
<1>3. /\ call[c] \in Call /\ StartShape(call[c]) /\ Exists(t)
      /\ begun \in [Tasks -> Nat] /\ TypeOK
  BY <1>1, <1>2, StartFacts DEF IndInv, Base, TypeOK
<1>4. /\ l \in Call /\ l.pc = "bind" /\ l.kind = "start" /\ l.op = call[c].op
      /\ l.task = t /\ l.lease = call[c].lease /\ l.client = call[c].client
  BY <1>1, <1>2, <1>3 DEF Call, Pcs
<1> HIDE DEF l
<1>5. /\ call' \in [Callers -> Call] /\ call'[c] = l
      /\ \A d \in Callers \ {c} : call'[d] = call[d]
  BY <1>1, <1>4, OneCall
<1>6. /\ begun' \in [Tasks -> Nat] /\ begun'[t] \in {begun[t], begun[t] + 1}
      /\ \A u \in Tasks \ {t} : begun'[u] = begun[u]
  BY <1>2, <1>3 DEF ThreadServed
<1>7. TypeOK'
  BY <1>1, <1>3, <1>5, <1>6 DEF TypeOK
<1>8. /\ rec[t].thread = None /\ rec[t].status \in {"accepted", "reconcile"} /\ call[c].lease
      /\ call[c].client = "own" /\ call[c].op = t
  BY <1>1, <1>2, <1>3 DEF StartShape, Unbound
<1>9. Advances(c)
  BY <1>1, <1>2, <1>4, <1>5, <1>8 DEF Advances, Holds, Released, At, Unbound, Steers
<1>10. StartShape(call[c])'
  BY <1>1, <1>4, <1>5, <1>8 DEF StartShape, Unbound, Bound
<1>11. Shape(c)'
  BY <1>1, <1>3, <1>4, <1>5, <1>10 DEF Shape, Steers, Exists
<1>12. RuntimesGo
  BY <1>1 DEF RuntimesGo
<1>13. CallShape' /\ Threaded' /\ Threads' /\ OneLeaf' /\ ContinuedIsQuiet'
  BY <1>1, <1>5, <1>7, <1>9, <1>11, <1>12, RecordsSame, OneCallFrame DEF Goes
<1>14. \A d \in Callers : call'[d].kind # "none" => Holds(d)
  BY <1>5, <1>9 DEF Advances, Holds
<1>15. OneStart' /\ OneControl'
  BY <1>14, FrameOne DEF IndInv
<1>16. OneLease'
  <2>1. \A d \in Callers : call'[d].lease => call[d].lease /\ call'[d].task = call[d].task
    BY <1>2, <1>4, <1>5
  <2> QED
    BY <1>1, <2>1, FrameLease DEF IndInv
<1>17. Once'
  <2>1. ~NoStart(t, {"retire", "admit", "refused", "thread"}) /\ ~NoStart(t, Unbound)
    BY <1>1, <1>2 DEF NoStart, Unbound
  <2>2. begun[t] = 0 /\ ~Reached(t)
    BY <2>1 DEF IndInv, Once
  <2>3. begun'[t] <= 1 /\ ~Reached(t)'
    BY <1>1, <1>3, <1>6, <2>2 DEF Reached
  <2>4. NoStart(t, {"retire", "admit", "refused", "thread"})'
    <3>1. \A d \in Callers : call'[d].kind = "start" /\ call'[d].task = t => d = c
      BY <1>4, <1>5, <1>15 DEF OneStart
    <3> QED
      BY <1>1, <1>4, <1>5, <1>8, <3>1 DEF NoStart
  <2>5. ASSUME NEW u \in Tasks \ {t}
        PROVE  /\ begun'[u] <= 1
               /\ begun'[u] # 0 => NoStart(u, {"retire", "admit", "refused", "thread"})'
               /\ Reached(u)' => NoStart(u, Unbound)'
    <3>1. \A S : NoStart(u, S) => NoStart(u, S)'
      BY <1>1, <1>4, <1>5, <2>5 DEF NoStart
    <3>2. /\ begun[u] <= 1
          /\ begun[u] # 0 => NoStart(u, {"retire", "admit", "refused", "thread"})
          /\ Reached(u) => NoStart(u, Unbound)
      BY <2>5 DEF IndInv, Once
    <3> QED
      BY <1>1, <1>6, <3>1, <3>2 DEF Reached
  <2>6. \A u \in Tasks : ~Exists(u)' => Remembered(rec'[u]) = {}
    BY <1>1 DEF IndInv, Once, Exists
  <2>7. \A o \in Ops : served'[o] <= 1 /\ (wire'[o].state = "sent" => served'[o] = 0)
    BY <1>1 DEF IndInv, Once
  <2>8. ASSUME NEW o \in Controls, Reached(o)'
        PROVE  /\ o \in Remembered(rec'[Target[o]])
               /\ \A d \in Callers : call'[d].kind \in Steers /\ call'[d].op = o
                                       => call'[d].pc \notin {"ensure", "attach", "send"}
    <3>1. Reached(o)
      BY <1>1, <2>8 DEF Reached
    <3> QED
      BY <1>1, <1>4, <1>5, <3>1 DEF IndInv, Once, Steers
  <2> QED
    BY <2>3, <2>4, <2>5, <2>6, <2>7, <2>8 DEF Once
<1> QED
  BY <1>7, <1>13, <1>15, <1>16, <1>17 DEF IndInv, Base

\* The parts of Once that speak of thread/start and of starts.
LEMMA StartsOnce ==
  ASSUME IndInv, UNCHANGED <<rec, begun>>,
         \A c \in Callers : call'[c].kind = "start" => call'[c] = call[c],
         \A t \in Tasks : Reached(t)' => Reached(t)
  PROVE  \A t \in Tasks : /\ begun'[t] <= 1
                          /\ begun'[t] # 0 => NoStart(t, {"retire", "admit", "refused", "thread"})'
                          /\ Reached(t)' => NoStart(t, Unbound)'
                          /\ ~Exists(t)' => Remembered(rec'[t]) = {}
<1>1. \A t \in Tasks, S \in {{"retire", "admit", "refused", "thread"}, Unbound} :
         NoStart(t, S) => NoStart(t, S)'
  BY DEF NoStart
<1> QED
  BY <1>1 DEF IndInv, Once, Exists

LEMMA SendInv ==
  ASSUME IndInv, NEW c \in Callers, Send(c)
  PROVE  IndInv'
<1> DEFINE l == [call[c] EXCEPT !.pc = "wait"]
           w == [state |-> "sent", turn |-> call[c].turn]
<1>1. /\ call[c].pc = "send" /\ call[c].kind \in {"steer", "interrupt"} /\ call[c].client = "shared"
      /\ UNCHANGED <<rec, reg, server, ask>>
      /\ call' = [call EXCEPT ![c] = l] /\ wire' = [wire EXCEPT ![call[c].op] = w]
  BY DEF Send, Goto
<1>2. /\ call[c] \in Call /\ call[c].task \in Tasks /\ Exists(call[c].task) /\ call[c].op \in Ops
      /\ call[c].kind \in Steers /\ RequestShape(call[c]) /\ rec[call[c].task].thread # None /\ TypeOK
  BY <1>1, IsRequest DEF IndInv, Base, Steers
<1>3. /\ l \in Call /\ l.pc = "wait" /\ l.kind = call[c].kind /\ l.op = call[c].op
      /\ l.task = call[c].task /\ l.lease = call[c].lease /\ l.client = call[c].client
  BY <1>2 DEF Call, Pcs
<1>4. w \in Wire /\ w.state = "sent"
  BY <1>2 DEF Wire, Call
<1> HIDE DEF l, w
<1>5. /\ call' \in [Callers -> Call] /\ call'[c] = l
      /\ \A d \in Callers \ {c} : call'[d] = call[d]
  BY <1>1, <1>3, OneCall
<1>6. /\ wire' \in [Ops -> Wire] /\ wire'[call[c].op] = w
      /\ \A o \in Ops \ {call[c].op} : wire'[o] = wire[o]
  BY <1>1, <1>2, <1>4 DEF TypeOK
<1>7. TypeOK'
  BY <1>1, <1>2, <1>5, <1>6 DEF TypeOK, server
<1>8. call[c].op \in Controls /\ call[c].task = Target[call[c].op]
      /\ call[c].op \in Remembered(rec[call[c].task]) /\ call[c].kind = Action[call[c].op]
      /\ ~call[c].lease
  BY <1>1, <1>2 DEF RequestShape
<1>9. Advances(c)
  BY <1>1, <1>2, <1>3, <1>5 DEF Advances, Holds, Released, At, Steers
<1>10. RequestShape(call[c])'
  BY <1>1, <1>2, <1>3, <1>5, <1>8 DEF RequestShape
<1>11. Shape(c)'
  BY <1>1, <1>2, <1>3, <1>5, <1>10 DEF Shape, Steers, Exists
<1>12. RuntimesGo
  BY <1>1 DEF RuntimesGo
<1>13. CallShape' /\ Threaded' /\ Threads' /\ OneLeaf' /\ ContinuedIsQuiet'
  BY <1>1, <1>5, <1>7, <1>9, <1>11, <1>12, RecordsSame, OneCallFrame DEF Goes
<1>14. \A d \in Callers : call'[d].kind # "none" => Holds(d)
  BY <1>5, <1>9 DEF Advances, Holds
<1>15. OneStart' /\ OneControl'
  BY <1>14, FrameOne DEF IndInv
<1>16. OneLease'
  <2>1. \A d \in Callers : call'[d].lease => call[d].lease /\ call'[d].task = call[d].task
    BY <1>3, <1>5
  <2> QED
    BY <1>1, <2>1, FrameLease DEF IndInv
<1>17. Once'
  <2>1. ~Reached(call[c].op)
    BY <1>1, <1>2, <1>8 DEF IndInv, Once
  <2>2. \A o \in Ops \ {call[c].op} : Reached(o)' => Reached(o)
    BY <1>1, <1>6 DEF Reached, server
  <2>3. \A t \in Tasks : t \in Ops \ {call[c].op}
    BY <1>8, Names
  <2>4. \A d \in Callers : call'[d].kind = "start" => call'[d] = call[d]
    BY <1>1, <1>3, <1>5
  <2>5. \A t \in Tasks : /\ begun'[t] <= 1
                         /\ begun'[t] # 0 => NoStart(t, {"retire", "admit", "refused", "thread"})'
                         /\ Reached(t)' => NoStart(t, Unbound)'
                         /\ ~Exists(t)' => Remembered(rec'[t]) = {}
    BY <1>1, <2>2, <2>3, <2>4, StartsOnce DEF server
  <2>6. \A o \in Ops : served'[o] <= 1 /\ (wire'[o].state = "sent" => served'[o] = 0)
    BY <1>1, <1>6, <2>1 DEF IndInv, Once, Reached, server
  <2>7. ASSUME NEW o \in Controls, Reached(o)'
        PROVE  /\ o \in Remembered(rec'[Target[o]])
               /\ \A d \in Callers : call'[d].kind \in Steers /\ call'[d].op = o
                                       => call'[d].pc \notin {"ensure", "attach", "send"}
    <3>1. CASE o = call[c].op
      <4>1. \A d \in Callers : call'[d].kind \in Steers /\ call'[d].op = o => d = c
        BY <1>2, <1>3, <1>5, <1>15, <3>1 DEF OneControl
      <4> QED
        BY <1>1, <1>3, <1>5, <1>8, <3>1, <4>1
    <3>2. CASE o # call[c].op
      <4>1. Reached(o)
        BY <2>2, <2>7, <3>2, Names
      <4> QED
        BY <1>1, <1>3, <1>5, <3>2, <4>1 DEF IndInv, Once
    <3> QED
      BY <3>1, <3>2
  <2> QED
    BY <2>5, <2>6, <2>7 DEF Once
<1> QED
  BY <1>7, <1>13, <1>15, <1>16, <1>17 DEF IndInv, Base

\* What the app-server's answer makes of the wire.
LEMMA AnswerFacts ==
  ASSUME IndInv, NEW o \in Ops, NEW x \in {"ok", "err"}, wire[o].state = "sent", Answer(o, x)
  PROVE  /\ wire' \in [Ops -> Wire] /\ wire'[o].state # "sent"
         /\ \A u \in Ops \ {o} : wire'[u] = wire[u]
<1> DEFINE w == IF \E c \in Callers : Awaits(c, o) THEN [wire[o] EXCEPT !.state = x] ELSE NoWire
<1>1. wire \in [Ops -> Wire]
  BY DEF IndInv, Base, TypeOK
<1>2. wire' = [wire EXCEPT ![o] = w]
  BY DEF Answer
<1>3. w \in Wire /\ w.state # "sent"
  BY <1>1 DEF NoWire, Wire
<1> HIDE DEF w
<1> QED
  BY <1>1, <1>2, <1>3

LEMMA ServeInv ==
  ASSUME IndInv, NEW o \in Ops, Serve(o)
  PROVE  IndInv'
<1> DEFINE h == rec[TaskOf(o)].thread
           x == wire[o].turn
<1>1. /\ wire[o].state = "sent" /\ h # None /\ UNCHANGED <<rec, reg, call, ask, begun>>
      /\ served' = [served EXCEPT ![o] = @ + 1]
  BY DEF Serve
<1>2. /\ TypeOK /\ h \in Tasks /\ x \in Ops \cup {None}
      /\ turns \in [Tasks -> Seq([op : Ops, status : TurnStatuses])]
      /\ news \in [Tasks -> Seq([turn : Ops, status : TurnStatuses])]
      /\ served \in [Ops -> Nat]
  <2>1. TypeOK /\ TaskOf(o) \in Tasks
    BY Names DEF IndInv, Base
  <2>2. rec[TaskOf(o)] \in Record /\ wire[o] \in Wire
    BY <2>1 DEF TypeOK
  <2>3. h \in Tasks
    BY <1>1, <2>2 DEF Record
  <2>4. x \in Ops \cup {None}
    BY <2>2 DEF Wire
  <2> HIDE DEF h, x
  <2> QED
    BY <2>1, <2>3, <2>4 DEF TypeOK
<1> HIDE DEF h, x
<1>3. turns[h] \in Seq([op : Ops, status : TurnStatuses])
      /\ news[h] \in Seq([turn : Ops, status : TurnStatuses])
  BY <1>2
<1>4. \/ /\ turns' = [turns EXCEPT ![h] = Append(@, [op |-> o, status |-> "running"])]
         /\ Announce(h, o, "running") /\ Answer(o, "ok")
      \/ x # None /\ EndTurn(h, "interrupted") /\ Announce(h, x, "interrupted") /\ Answer(o, "ok")
      \/ (Answer(o, "ok") \/ Answer(o, "err")) /\ UNCHANGED <<turns, news>>
  BY DEF Serve, h, x
<1>5. /\ wire' \in [Ops -> Wire] /\ wire'[o].state # "sent"
      /\ \A u \in Ops \ {o} : wire'[u] = wire[u]
  BY <1>1, <1>4, AnswerFacts
<1>6. \A n \in Ops, s \in TurnStatuses : Announce(h, n, s) =>
        news' \in [Tasks -> Seq([turn : Ops, status : TurnStatuses])]
  <2> SUFFICES ASSUME NEW n \in Ops, NEW s \in TurnStatuses, Announce(h, n, s)
               PROVE  news' \in [Tasks -> Seq([turn : Ops, status : TurnStatuses])]
    OBVIOUS
  <2>1. [turn |-> n, status |-> s] \in [turn : Ops, status : TurnStatuses]
    OBVIOUS
  <2>2. Append(news[h], [turn |-> n, status |-> s]) \in Seq([turn : Ops, status : TurnStatuses])
    BY <1>3, <2>1, SeqParts
  <2> QED
    BY <1>2, <2>2 DEF Announce
<1>7. {"running", "interrupted"} \subseteq TurnStatuses
  BY DEF TurnStatuses
<1>8. news' \in [Tasks -> Seq([turn : Ops, status : TurnStatuses])]
  BY <1>2, <1>4, <1>6, <1>7
<1>9. turns' \in [Tasks -> Seq([op : Ops, status : TurnStatuses])]
  <2>1. CASE turns' = [turns EXCEPT ![h] = Append(@, [op |-> o, status |-> "running"])]
    <3>1. [op |-> o, status |-> "running"] \in [op : Ops, status : TurnStatuses]
      BY <1>7
    <3>2. Append(turns[h], [op |-> o, status |-> "running"])
            \in Seq([op : Ops, status : TurnStatuses])
      BY <1>3, <3>1, SeqParts
    <3> QED
      BY <1>2, <2>1, <3>2
  <2>2. CASE EndTurn(h, "interrupted")
    <3> DEFINE s == turns[h]
               z == [j \in DOMAIN s |-> IF s[j].status = "running"
                                        THEN [s[j] EXCEPT !.status = "interrupted"] ELSE s[j]]
    <3>1. turns' = [turns EXCEPT ![h] = z]
      BY <2>2 DEF EndTurn
    <3>2. z \in Seq([op : Ops, status : TurnStatuses])
      <4>1. s \in Seq([op : Ops, status : TurnStatuses]) /\ "interrupted" \in TurnStatuses
        BY <1>3, <1>7
      <4> HIDE DEF s
      <4> QED
        BY <4>1, TurnsType
    <3> HIDE DEF z
    <3> QED
      BY <1>2, <3>1, <3>2
  <2> QED
    BY <1>2, <1>4, <2>1, <2>2
<1>10. /\ served' \in [Ops -> Nat] /\ served'[o] = served[o] + 1
       /\ \A u \in Ops \ {o} : served'[u] = served[u]
  BY <1>1, <1>2
<1>11. TypeOK'
  BY <1>1, <1>2, <1>5, <1>8, <1>9, <1>10 DEF TypeOK
<1>12. CallShape' /\ Threaded' /\ Threads' /\ OneLeaf' /\ ContinuedIsQuiet'
  <2>1. \A c \in Callers : Goes(c)
    BY <1>1, <1>2, KeptProceeds, ProceedsFacts DEF Kept
  <2>2. RuntimesGo
    BY <1>1 DEF RuntimesGo
  <2>3. \A t \in Tasks : ask'[t].stage # "none" => rec'[t].thread # None /\ ask'[t].turn # None
    BY <1>1 DEF IndInv, Base, Threaded
  <2> QED
    BY <1>1, <1>11, <2>1, <2>2, <2>3, RecordsSame, QuietFrame
<1>13. OneStart' /\ OneControl' /\ OneLease'
  BY <1>1 DEF IndInv, Base, OneStart, OneControl, OneLease, Leased
<1>14. Once'
  <2>1. Reached(o)
    BY <1>1 DEF Reached
  <2>2. \A u \in Ops : Reached(u)' => Reached(u)
    BY <1>5, <1>10, <2>1 DEF Reached
  <2>3. \A t \in Tasks : /\ begun'[t] <= 1
                         /\ begun'[t] # 0 => NoStart(t, {"retire", "admit", "refused", "thread"})'
                         /\ Reached(t)' => NoStart(t, Unbound)'
                         /\ ~Exists(t)' => Remembered(rec'[t]) = {}
    BY <1>1, <2>2, Names, StartsOnce
  <2>4. served[o] = 0
    BY <1>1 DEF IndInv, Once
  <2>5. \A u \in Ops : served'[u] <= 1 /\ (wire'[u].state = "sent" => served'[u] = 0)
    BY <1>5, <1>10, <2>4 DEF IndInv, Once
  <2>6. ASSUME NEW u \in Controls, Reached(u)'
        PROVE  /\ u \in Remembered(rec'[Target[u]])
               /\ \A d \in Callers : call'[d].kind \in Steers /\ call'[d].op = u
                                       => call'[d].pc \notin {"ensure", "attach", "send"}
    <3>1. Reached(u)
      BY <2>2, <2>6, Names
    <3> QED
      BY <1>1, <3>1 DEF IndInv, Once
  <2> QED
    BY <2>3, <2>5, <2>6 DEF Once
<1> QED
  BY <1>11, <1>12, <1>13, <1>14 DEF IndInv, Base

\* A step of one call, with or without its runtime, that is about a lease.
LEMMA LeaseStep ==
  ASSUME IndInv, NEW c \in Callers, NEW l \in Call, call' = [call EXCEPT ![c] = l],
         \/ Advances(c) /\ Shape(c)'
         \/ l = Idle /\ Released(c)
         \/ Begins(c) /\ l.kind = "get",
         reg' \in [Procs -> [Tasks -> {"none", "live", "dead", "dying"}]], RuntimesGo,
         UNCHANGED <<rec, wire, server, ask>>, OneLease'
  PROVE  IndInv'
<1>1. /\ call' \in [Callers -> Call] /\ call'[c] = l
      /\ \A d \in Callers \ {c} : call'[d] = call[d]
  BY OneCall
<1>2. TypeOK
  BY DEF IndInv, Base
<1>3. TypeOK'
  BY <1>1, <1>2 DEF TypeOK, server
<1>4. Goes(c) \/ Begins(c)
  BY <1>1 DEF Goes
<1>5. CallShape' /\ Threaded' /\ Threads' /\ OneLeaf' /\ ContinuedIsQuiet'
  BY <1>1, <1>3, <1>4, RecordsSame, OneCallFrame
<1>6. \A d \in Callers : call'[d].kind # "none" => Holds(d) \/ (d = c /\ Begins(c) /\ l.kind = "get")
  <2> SUFFICES ASSUME NEW d \in Callers, call'[d].kind # "none"
               PROVE  Holds(d) \/ (d = c /\ Begins(c) /\ l.kind = "get")
    OBVIOUS
  <2>1. CASE d # c
    BY <1>1, <2>1 DEF Holds
  <2>2. CASE d = c
    BY <1>1, <2>2, IdleFields DEF Advances
  <2> QED
    BY <2>1, <2>2
<1>7. OneStart' /\ OneControl'
  <2>1. Begins(c) /\ l.kind = "get" => Alone(c)
    BY <1>1 DEF Alone, Steers
  <2> QED
    BY <1>6, <2>1, FrameOne DEF IndInv
<1>8. Once'
  <2>1. Begins(c) /\ l.kind = "get" => Fresh(c)
    BY <1>1 DEF Fresh, Steers
  <2>2. \A d \in Callers : call'[d].kind # "none" => Holds(d) \/ Fresh(d)
    BY <1>6, <2>1
  <2>3. ASSUME NEW d \in Callers
        PROVE  /\ call[d].kind = "start" =>
                   \A S \in {{"retire", "admit", "refused", "thread"}, Unbound} :
                      call'[d].pc \in S => call[d].pc \in S
               /\ call[d].kind \in Steers =>
                   LET S == {"ensure", "attach", "send"}
                   IN  call'[d].pc \in S => call[d].pc \in S
    <3>1. CASE Goes(d)
      BY <1>2, <3>1, GoesFacts
    <3>2. CASE Begins(d)
      BY <3>2, IdleFields DEF Begins, Steers
    <3>3. CASE d # c
      BY <1>1, <3>3
    <3> QED
      BY <1>4, <3>1, <3>2, <3>3
  <2>4. \A t \in Tasks : rec'[t].status = "retryable" =>
          rec[t].status = "retryable" \/ (begun'[t] = 0 /\ ~Reached(t)')
    OBVIOUS
  <2>5. /\ \A t \in Tasks : KeepsRecord(t)
        /\ \A t \in Tasks : ~Exists(t)' => ~Exists(t) /\ Remembered(rec'[t]) = Remembered(rec[t])
    BY RecordsSame
  <2>6. \A o \in Ops : /\ wire'[o].state # "none" => wire[o].state # "none"
                       /\ wire'[o].state = "sent" => wire[o].state = "sent"
    OBVIOUS
  <2>7. UNCHANGED <<begun, served>>
    BY DEF server
  <2> QED
    BY <1>2, <2>2, <2>3, <2>4, <2>5, <2>6, <2>7, FrameOnce DEF IndInv
<1> QED
  BY <1>3, <1>5, <1>7, <1>8 DEF IndInv, Base

\* A call takes a lease that it has, or that is free.
LEMMA TakesLease ==
  ASSUME IndInv, NEW c \in Callers, NEW l \in Call, call' = [call EXCEPT ![c] = l],
         NEW t \in Tasks, l.lease => l.task = t /\ (Leased(c, t) \/ ~LeaseHeld(t)), UNCHANGED reg
  PROVE  OneLease'
<1>1. /\ call'[c] = l /\ \A d \in Callers \ {c} : call'[d] = call[d]
  BY OneCall
<1>2. OneLease
  BY DEF IndInv
<1>3. \A u \in Tasks, d \in Callers : Leased(d, u)' => Leased(d, u) \/ (d = c /\ u = t /\ l.lease)
  BY <1>1 DEF Leased
<1>4. l.lease => /\ \A d \in Callers : Leased(d, t) => d = c
                 /\ \A p \in Procs : reg[p][t] = "none"
  BY <1>2 DEF OneLease, LeaseHeld, Leased
<1> QED
  BY <1>2, <1>3, <1>4 DEF OneLease

\* A call hands its lease to the runtime it registers.
LEMMA GivesLease ==
  ASSUME IndInv, NEW c \in Callers, NEW l \in Call, call' = [call EXCEPT ![c] = l], ~l.lease,
         NEW t \in Tasks, Leased(c, t), call[c].client = "own", rec[t].thread # None,
         reg' = [reg EXCEPT ![Home(c)][t] = "live"]
  PROVE  /\ OneLease' /\ RuntimesGo
         /\ reg' \in [Procs -> [Tasks -> {"none", "live", "dead", "dying"}]]
<1>0. Home(c) \in Procs
  BY DEF Home, Callers
<1>1. /\ call'[c] = l /\ \A d \in Callers \ {c} : call'[d] = call[d]
  BY OneCall
<1>2. OneLease /\ ~Continued(t)
  BY DEF IndInv, ContinuedIsQuiet, Leased
<1>3. /\ reg' \in [Procs -> [Tasks -> {"none", "live", "dead", "dying"}]]
      /\ reg'[Home(c)][t] = "live"
      /\ \A q \in Procs, u \in Tasks : q # Home(c) \/ u # t => reg'[q][u] = reg[q][u]
  BY <1>0, RegUpdate
<1>4. /\ \A p \in Procs : reg[p][t] = "none"
      /\ \A d \in Callers : Leased(d, t) => d = c
  BY <1>2 DEF OneLease
<1>5. \A u \in Tasks, d \in Callers : Leased(d, u)' => Leased(d, u) /\ d # c
  BY <1>1 DEF Leased
<1>6. OneLease'
  BY <1>2, <1>3, <1>4, <1>5 DEF OneLease
<1>7. RuntimesGo
  BY <1>2, <1>3 DEF RuntimesGo
<1> QED
  BY <1>3, <1>6, <1>7

LEMMA InsertRuntimeInv ==
  ASSUME IndInv, NEW c \in Callers, InsertRuntime(c)
  PROVE  IndInv'
<1>1. /\ call[c].kind = "start" /\ call[c].pc = "insert" /\ call' = [call EXCEPT ![c] = Idle]
      /\ reg' = [reg EXCEPT ![Home(c)][call[c].task] = "live"]
      /\ UNCHANGED <<rec, wire, server, ask>>
  BY DEF InsertRuntime, At, Return
<1>2. call[c].task \in Tasks /\ StartShape(call[c])
  BY <1>1, StartFacts
<1>3. /\ Leased(c, call[c].task) /\ call[c].client = "own" /\ Released(c)
      /\ rec[call[c].task].thread # None
  BY <1>1, <1>2 DEF StartShape, Leased, Released, At, Bound
<1>4. /\ OneLease' /\ RuntimesGo
      /\ reg' \in [Procs -> [Tasks -> {"none", "live", "dead", "dying"}]]
  BY <1>1, <1>2, <1>3, IdleFields, GivesLease
<1> QED
  BY <1>1, <1>3, <1>4, IdleFields, LeaseStep

LEMMA AttachedInv ==
  ASSUME IndInv, NEW c \in Callers, Attached(c)
  PROVE  IndInv'
<1> DEFINE l == [call[c] EXCEPT !.pc = "send", !.lease = FALSE, !.client = "shared"]
<1>1. /\ call[c].pc = "attach"
      /\ reg' = [reg EXCEPT ![Home(c)][call[c].task] = "live"]
      /\ UNCHANGED <<rec, wire, server, ask>>
  BY DEF Attached
<1>2. /\ call[c] \in Call /\ call[c].task \in Tasks /\ Exists(call[c].task)
      /\ RequestShape(call[c]) /\ call[c].kind # "start" /\ call[c].kind \in Steers \cup {"get"}
      /\ call[c].kind # "none" /\ rec[call[c].task].thread # None
  BY <1>1, IsRequest
<1>3. call' = [call EXCEPT ![c] = l]
  BY DEF Attached, IndInv, Base, TypeOK
<1>4. /\ l \in Call /\ l.pc = "send" /\ l.kind = call[c].kind /\ l.op = call[c].op
      /\ l.task = call[c].task /\ l.lease = FALSE /\ l.client = "shared"
  BY <1>2 DEF Call, Pcs
<1> HIDE DEF l
<1>5. Leased(c, call[c].task) /\ call[c].client = "own"
  BY <1>1, <1>2 DEF RequestShape, Leased
<1>6. /\ OneLease' /\ RuntimesGo
      /\ reg' \in [Procs -> [Tasks -> {"none", "live", "dead", "dying"}]]
  BY <1>1, <1>2, <1>3, <1>4, <1>5, GivesLease
<1>7. call'[c] = l
  BY <1>3, <1>4, OneCall
<1>8. Advances(c)
  BY <1>1, <1>2, <1>4, <1>7 DEF Advances, Holds, Released, At
<1>9. RequestShape(call[c])'
  BY <1>1, <1>2, <1>4, <1>7 DEF RequestShape
<1>10. Shape(c)'
  BY <1>1, <1>2, <1>4, <1>7, <1>9 DEF Shape, Exists
<1> QED
  BY <1>1, <1>3, <1>4, <1>6, <1>8, <1>10, LeaseStep

LEMMA AttachInv ==
  ASSUME IndInv, NEW c \in Callers, Attach(c)
  PROVE  IndInv'
<1>1. /\ call[c].pc = "ensure" /\ UNCHANGED <<rec, reg, wire, server, ask>>
      /\ call[c].lease \/ ~LeaseHeld(call[c].task)
  BY DEF Attach
<1>2. /\ call[c] \in Call /\ call[c].task \in Tasks /\ Exists(call[c].task)
      /\ RequestShape(call[c]) /\ call[c].kind # "start" /\ call[c].kind \in Steers \cup {"get"}
      /\ call[c].kind # "none" /\ rec[call[c].task].thread # None
  BY <1>1, IsRequest
<1>3. CASE /\ rec[call[c].task].claim = None
           /\ call' = [call EXCEPT ![c].pc = "attach", ![c].lease = TRUE, ![c].client = "own"]
  <2> DEFINE l == [call[c] EXCEPT !.pc = "attach", !.lease = TRUE, !.client = "own"]
  <2>1. call' = [call EXCEPT ![c] = l]
    BY <1>3 DEF IndInv, Base, TypeOK
  <2>2. /\ l \in Call /\ l.pc = "attach" /\ l.kind = call[c].kind /\ l.op = call[c].op
        /\ l.task = call[c].task /\ l.lease = TRUE /\ l.client = "own"
    BY <1>2 DEF Call, Pcs
  <2> HIDE DEF l
  <2>3. call'[c] = l
    BY <2>1, <2>2, OneCall
  <2>4. OneLease'
    BY <1>1, <1>2, <2>1, <2>2, TakesLease DEF Leased
  <2>5. Advances(c)
    BY <1>1, <1>2, <1>3, <2>2, <2>3 DEF Advances, Holds, Released, At, Continued
  <2>6. RequestShape(call[c])'
    BY <1>1, <1>2, <2>2, <2>3 DEF RequestShape
  <2>7. Shape(c)'
    BY <1>1, <1>2, <2>2, <2>3, <2>6 DEF Shape, Exists
  <2>8. /\ RuntimesGo
        /\ reg' \in [Procs -> [Tasks -> {"none", "live", "dead", "dying"}]]
    BY <1>1 DEF RuntimesGo, IndInv, Base, TypeOK
  <2> QED
    BY <1>1, <2>1, <2>2, <2>4, <2>5, <2>7, <2>8, LeaseStep
<1>4. CASE call' = [call EXCEPT ![c].pc = "fail", ![c].lease = FALSE]
  <2> DEFINE l == [call[c] EXCEPT !.pc = "fail", !.lease = FALSE]
  <2>1. call' = [call EXCEPT ![c] = l]
    BY <1>4 DEF IndInv, Base, TypeOK
  <2>2. /\ l \in Call /\ l.pc = "fail" /\ l.kind = call[c].kind /\ l.op = call[c].op
        /\ l.task = call[c].task /\ l.lease = FALSE /\ l.client = call[c].client
    BY <1>2 DEF Call, Pcs
  <2> HIDE DEF l
  <2>3. l.client # "own"
    BY <1>1, <1>2, <2>2 DEF RequestShape
  <2>4. Moved(c) /\ Shape(c)'
    BY <1>1, <1>2, <2>1, <2>2, <2>3, RequestMoves
  <2> QED
    BY <1>1, <1>2, <2>1, <2>2, <2>4, QuietMove
<1> QED
  BY <1>3, <1>4 DEF Attach

LEMMA GetAcceptInv ==
  ASSUME IndInv, NEW c \in Callers, NEW t \in Tasks, GetAccept(c, t)
  PROVE  IndInv'
<1> DEFINE x == IF rec[t].thread = None THEN "orphan" ELSE "ensure"
           f == ~Registered(Home(c), t)
           l == [Idle EXCEPT !.pc = x, !.kind = "get", !.op = t, !.task = t, !.lease = f,
                             !.turn = rec[t].turn, !.prev = rec[t].prev, !.status = rec[t].status]
<1>1. /\ call[c] = Idle /\ Exists(t) /\ call' = [call EXCEPT ![c] = l]
      /\ UNCHANGED <<rec, reg, wire, server, ask>>
      /\ f => ~LeaseHeld(t)
  BY DEF GetAccept
<1>2. x \in {"orphan", "ensure"} /\ f \in BOOLEAN /\ (x # "orphan" => rec[t].thread # None)
  OBVIOUS
<1> HIDE DEF x, f
<1>3. rec[t] \in Record /\ t \in Ops
  BY Names DEF IndInv, Base, TypeOK
<1>4. /\ l \in Call /\ l.pc = x /\ l.kind = "get" /\ l.op = t /\ l.task = t /\ l.lease = f
      /\ l.client = "none"
  BY <1>2, <1>3 DEF Idle, Call, Pcs, Kinds, Record
<1> HIDE DEF l
<1>5. call'[c] = l
  BY <1>1, <1>4, OneCall
<1>6. OneLease'
  BY <1>1, <1>4, TakesLease
<1>7. RequestShape(call[c])'
  BY <1>1, <1>2, <1>4, <1>5 DEF RequestShape
<1>8. Shape(c)'
  BY <1>1, <1>4, <1>5, <1>7 DEF Shape, Exists, Steers
<1>9. Begins(c)
  BY <1>1, <1>4, <1>5, <1>8 DEF Begins
<1>10. /\ RuntimesGo
       /\ reg' \in [Procs -> [Tasks -> {"none", "live", "dead", "dying"}]]
  BY <1>1 DEF RuntimesGo, IndInv, Base, TypeOK
<1> QED
  BY <1>1, <1>4, <1>6, <1>9, <1>10, LeaseStep

\* A start or control begins on a record that is there.
LEMMA BeginStep ==
  ASSUME IndInv, NEW c \in Callers, NEW t \in Tasks,
         NEW l \in Call, call' = [call EXCEPT ![c] = l], l.task = t,
         Begins(c), Alone(c), Fresh(c), l.lease => ~LeaseHeld(t),
         NEW q \in Record, rec' = [rec EXCEPT ![t] = q],
         Exists(t), ~Open(t), q.thread = rec[t].thread, rec[t].claim = None, q.claim = None,
         q.status \notin {"missing", "retryable"}, Remembered(rec[t]) \subseteq Remembered(q),
         UNCHANGED <<reg, wire, server, ask>>
  PROVE  IndInv'
<1>1. /\ call' \in [Callers -> Call] /\ call'[c] = l
      /\ \A d \in Callers \ {c} : call'[d] = call[d]
  BY OneCall
<1>2. TypeOK /\ rec \in [Tasks -> Record]
  BY DEF IndInv, Base, TypeOK
<1>3. /\ rec' \in [Tasks -> Record] /\ rec'[t] = q
      /\ \A u \in Tasks \ {t} : rec'[u] = rec[u]
  BY <1>2
<1>4. TypeOK'
  BY <1>1, <1>2, <1>3 DEF TypeOK, server
<1>5. ASSUME NEW u \in Tasks
      PROVE  /\ Linked(u) /\ (rec'[u] = rec[u] \/ ~Open(u)) /\ KeepsRecord(u)
             /\ ~Exists(u)' => ~Exists(u) /\ Remembered(rec'[u]) = Remembered(rec[u])
             /\ rec'[u].status = "retryable" => rec[u].status = "retryable"
  <2>1. CASE u = t
    BY <1>3, <2>1 DEF Linked, SameLinks, KeepsRecord, Exists
  <2>2. CASE u # t
    <3>1. rec'[u] = rec[u]
      BY <1>3, <2>2
    <3> QED
      BY <3>1 DEF IndInv, Threads, Linked, SameLinks, KeepsRecord, Exists
  <2> QED
    BY <2>1, <2>2
<1>6. RuntimesGo
  BY DEF RuntimesGo
<1>7. CallShape' /\ Threaded' /\ Threads' /\ OneLeaf' /\ ContinuedIsQuiet'
  BY <1>1, <1>4, <1>5, <1>6, OneCallFrame
<1>8. OneStart' /\ OneControl'
  <2>1. \A d \in Callers : Holds(d) \/ Alone(d)
    BY <1>1 DEF Holds
  <2> QED
    BY <2>1, FrameOne DEF IndInv
<1>9. OneLease'
  BY TakesLease
<1>10. Once'
  <2>1. \A d \in Callers : Holds(d) \/ Fresh(d)
    BY <1>1 DEF Holds
  <2>2. ASSUME NEW d \in Callers
        PROVE  /\ call[d].kind = "start" =>
                   \A S \in {{"retire", "admit", "refused", "thread"}, Unbound} :
                      call'[d].pc \in S => call[d].pc \in S
               /\ call[d].kind \in Steers =>
                   LET S == {"ensure", "attach", "send"}
                   IN  call'[d].pc \in S => call[d].pc \in S
    <3>1. d # c => call'[d] = call[d]
      BY <1>1
    <3>2. call[c].kind = "none"
      BY IdleFields DEF Begins
    <3> QED
      BY <3>1, <3>2 DEF Steers
  <2>3. \A o \in Ops : /\ wire'[o].state # "none" => wire[o].state # "none"
                       /\ wire'[o].state = "sent" => wire[o].state = "sent"
    OBVIOUS
  <2>4. UNCHANGED <<begun, served>>
    BY DEF server
  <2> QED
    BY <1>2, <1>5, <2>1, <2>2, <2>3, <2>4, FrameOnce DEF IndInv
<1> QED
  BY <1>4, <1>7, <1>8, <1>9, <1>10 DEF IndInv, Base

\* The call that an accepted start or control begins as.
LEMMA BeginFields ==
  ASSUME IndInv, NEW c \in Callers, NEW kind \in Kinds, NEW o \in Ops, NEW pc \in Pcs,
         NEW lease \in BOOLEAN, NEW t \in Tasks, t = TaskOf(o),
         rec'[t] \in Record, Begin(c, kind, o, pc, lease)
  PROVE  \E l \in Call : /\ call' = [call EXCEPT ![c] = l] /\ call'[c] = l
                         /\ \A d \in Callers \ {c} : call'[d] = call[d]
                         /\ l.pc = pc /\ l.kind = kind /\ l.op = o /\ l.task = t
                         /\ l.lease = lease /\ l.client = "none"
<1> DEFINE l == [Idle EXCEPT !.pc = pc, !.kind = kind, !.op = o, !.lease = lease,
                             !.task = TaskOf(o), !.turn = rec'[TaskOf(o)].turn]
<1>1. call' = [call EXCEPT ![c] = l]
  BY DEF Begin
<1>2. rec'[TaskOf(o)].turn \in Ops \cup {None}
  BY DEF Record
<1>3. /\ l \in Call /\ l.pc = pc /\ l.kind = kind /\ l.op = o /\ l.task = t
      /\ l.lease = lease /\ l.client = "none"
  BY <1>2 DEF Idle, Call, Statuses
<1> HIDE DEF l
<1> QED
  BY <1>1, <1>3, OneCall

\* A start begins with the lease.
StartBegun(c, t, pc) == Begin(c, "start", t, pc, TRUE)

LEMMA StartBegins ==
  ASSUME IndInv, NEW c \in Callers, NEW t \in Tasks, NEW pc \in {"admit", "retire"},
         rec'[t] \in Record, StartBegun(c, t, pc)
  PROVE  \E l \in Call : /\ call' = [call EXCEPT ![c] = l] /\ call'[c] = l
                         /\ \A d \in Callers \ {c} : call'[d] = call[d]
                         /\ l.pc = pc /\ l.kind = "start" /\ l.op = t /\ l.task = t
                         /\ l.lease = (l.pc # "refused") /\ l.client = "none"
<1> DEFINE f == pc # "refused"
<1>1. f = TRUE
  OBVIOUS
<1>2. f \in BOOLEAN
  OBVIOUS
<1> HIDE DEF f
<1>3. "start" \in Kinds /\ pc \in Pcs
  BY DEF Kinds, Pcs
<1>4. t \in Ops /\ t = TaskOf(t)
  BY Names
<1>5. Begin(c, "start", t, pc, f)
  BY <1>1 DEF StartBegun
<1>6. PICK l \in Call : /\ call' = [call EXCEPT ![c] = l] /\ call'[c] = l
                        /\ \A d \in Callers \ {c} : call'[d] = call[d]
                        /\ l.pc = pc /\ l.kind = "start" /\ l.op = t /\ l.task = t
                        /\ l.lease = f /\ l.client = "none"
  BY <1>2, <1>3, <1>4, <1>5, BeginFields
<1>7. l.lease = (l.pc # "refused")
  BY <1>6 DEF f
<1> QED
  BY <1>6, <1>7

LEMMA RetryStartInv ==
  ASSUME IndInv, NEW c \in Callers, NEW t \in Tasks, RetryStart(c, t)
  PROVE  IndInv'
<1> DEFINE q0 == [rec[t] EXCEPT !.status = "accepted"]
           q == SetPhase(q0, t, "accepted")
<1>1. /\ call[c] = Idle /\ rec[t].status = "retryable" /\ rec[t].thread = None /\ ~LeaseHeld(t)
      /\ rec' = [rec EXCEPT ![t] = q] /\ Begin(c, "start", t, "admit", TRUE)
      /\ UNCHANGED <<reg, wire, server, ask>>
  BY DEF RetryStart, Retryable
<1>2. rec[t] \in Record /\ rec \in [Tasks -> Record] /\ t \in Ops /\ TaskOf(t) = t
  BY Names DEF IndInv, Base, TypeOK
<1>3. /\ q0 \in Record /\ q0.thread = rec[t].thread /\ q0.claim = rec[t].claim
      /\ q0.status = "accepted" /\ q0.ops = rec[t].ops /\ q0.tombs = rec[t].tombs
  BY <1>2 DEF Record, Statuses
<1>4. "accepted" \in Phases
  BY DEF Phases
<1> HIDE DEF q0
<1>5. Remembered(q0) = Remembered(rec[t])
  BY <1>3 DEF Remembered
<1>6. /\ q \in Record /\ q.status = "accepted" /\ q.thread = rec[t].thread
      /\ q.claim = rec[t].claim /\ Remembered(q) = Remembered(rec[t])
  BY <1>2, <1>3, <1>4, <1>5, SetPhaseFields
<1> HIDE DEF q
<1>7. rec'[t] = q
  BY <1>1, <1>2
<1>8. rec[t].claim = None /\ Exists(t) /\ ~Open(t)
  BY <1>1 DEF IndInv, Threads, Terminal, Exists, Open
<1>9. PICK l \in Call : /\ call' = [call EXCEPT ![c] = l] /\ call'[c] = l
                        /\ \A d \in Callers \ {c} : call'[d] = call[d]
                        /\ l.pc = "admit" /\ l.kind = "start" /\ l.op = t /\ l.task = t
                        /\ l.lease = (l.pc # "refused") /\ l.client = "none"
  <2>1. rec'[t] \in Record /\ "admit" \in {"admit", "retire"}
    BY <1>6, <1>7
  <2>2. StartBegun(c, t, "admit")
    BY <1>1 DEF StartBegun
  <2> QED
    BY <2>1, <2>2, StartBegins
<1>10. StartShape(call[c])'
  <2>1. rec'[t].thread = None /\ rec'[t].status = "accepted"
    BY <1>1, <1>6, <1>7
  <2> QED
    BY <1>9, <2>1 DEF StartShape, Unbound, Bound
<1>11. Shape(c)'
  BY <1>6, <1>7, <1>9, <1>10 DEF Shape, Exists, Steers
<1>12. Begins(c)
  BY <1>1, <1>9, <1>11 DEF Begins
<1>13. Alone(c)
  <2>1. ASSUME NEW d \in Callers, call[d].kind = "start", call[d].task = t
        PROVE  FALSE
    <3>1. StartShape(call[d])
      BY <2>1, StartFacts
    <3>2. ~call[d].lease
      BY <1>1, <2>1 DEF LeaseHeld
    <3>3. call[d].pc = "refused"
      BY <3>1, <3>2 DEF StartShape
    <3> QED
      BY <1>1, <2>1, <3>1, <3>3 DEF StartShape, Unbound
  <2> QED
    BY <1>9, <2>1 DEF Alone, Steers
<1>14. Fresh(c)
  <2>1. \A S : ~NoStart(t, S)
    BY <1>1 DEF NoStart
  <2>2. begun[t] = 0 /\ ~Reached(t)
    BY <2>1 DEF IndInv, Once
  <2>3. begun'[t] = 0 /\ ~Reached(t)'
    BY <1>1, <2>2 DEF Reached, server
  <2> QED
    BY <1>9, <2>3 DEF Fresh, Reached, Steers
<1> QED
  BY <1>1, <1>6, <1>8, <1>9, <1>12, <1>13, <1>14, BeginStep

LEMMA ControlAcceptInv ==
  ASSUME IndInv, NEW c \in Callers, NEW o \in Controls, ControlAccept(c, o)
  PROVE  IndInv'
<1>1. PICK t \in Tasks : t = Target[o] /\ t = TaskOf(o)
  BY Names
<1> DEFINE r == rec[t]
           q0 == IF Reopens(o)
                 THEN [r EXCEPT !.prev = r.turn, !.turn = None, !.status = "reconcile"] ELSE r
           q == Push(q0, o)
           f == ~Registered(Home(c), t)
<1>2. /\ call[c] = Idle /\ Controllable(o) /\ (f => ~LeaseHeld(t))
      /\ rec' = [rec EXCEPT ![t] = q] /\ Begin(c, Action[o], o, "ensure", f)
      /\ UNCHANGED <<reg, wire, server, ask>>
  BY <1>1 DEF ControlAccept
<1>3. /\ r \in Record /\ rec \in [Tasks -> Record] /\ o \in Ops /\ Action[o] \in Steers
  BY Names DEF IndInv, Base, TypeOK
<1>4. /\ r.status # "missing" /\ r.claim = None /\ r.thread # None
      /\ r.status \in {"unknown", "reconcile", "running", "waiting"} \/ Reopens(o)
  BY <1>1, <1>2 DEF Controllable
<1>5. o \notin Remembered(r)
  BY <1>1, <1>2 DEF Controllable, Remembered, Receipt
<1>6. /\ q0 \in Record /\ q0.thread = r.thread /\ q0.claim = r.claim
      /\ q0.status \notin {"missing", "retryable"} /\ q0.ops = r.ops /\ q0.tombs = r.tombs
  BY <1>3, <1>4 DEF Record, Statuses
<1> HIDE DEF q0
<1>7. Remembered(q0) = Remembered(r)
  BY <1>6 DEF Remembered
<1>8. /\ q \in Record /\ q.status \notin {"missing", "retryable"} /\ q.thread = r.thread
      /\ q.claim = None /\ Remembered(r) \subseteq Remembered(q) /\ o \in Remembered(q)
  BY <1>3, <1>4, <1>6, <1>7, PushFields
<1> HIDE DEF q
<1>9. rec'[t] = q
  BY <1>2, <1>3
<1>10. Exists(t) /\ ~Open(t)
  BY <1>4 DEF Exists, Open
<1>11. Action[o] \in Kinds /\ "ensure" \in Pcs /\ f \in BOOLEAN
  BY <1>3 DEF Kinds, Pcs, Steers
<1> HIDE DEF f
<1>12. PICK l \in Call : /\ call' = [call EXCEPT ![c] = l] /\ call'[c] = l
                         /\ \A d \in Callers \ {c} : call'[d] = call[d]
                         /\ l.pc = "ensure" /\ l.kind = Action[o] /\ l.op = o /\ l.task = t
                         /\ l.lease = f /\ l.client = "none"
  BY <1>1, <1>2, <1>3, <1>8, <1>9, <1>11, BeginFields
<1>13. RequestShape(call[c])'
  BY <1>1, <1>3, <1>4, <1>8, <1>9, <1>12 DEF RequestShape, Steers
<1>14. Shape(c)'
  <2>1. call'[c].kind \in Steers /\ call'[c].task = t /\ Exists(t)'
    BY <1>3, <1>8, <1>9, <1>12 DEF Exists
  <2> QED
    BY <1>13, <2>1 DEF Shape, Exists, Steers
<1>15. Begins(c)
  BY <1>2, <1>12, <1>14 DEF Begins
<1>16. ASSUME NEW d \in Callers, call[d].kind \in Steers, call[d].op = o
       PROVE  FALSE
  <2>1. call[d].kind # "start" /\ call[d].pc # "idle" /\ call[d].kind # "get"
    BY <1>16, IdleFields DEF Steers, IndInv, Base, CallShape, Shape, RequestShape
  <2>2. RequestShape(call[d])
    BY <2>1, RequestFacts
  <2> QED
    BY <1>1, <1>5, <1>16, <2>1, <2>2 DEF RequestShape
<1>17. Alone(c)
  <2>1. call'[c].kind # "start"
    BY <1>3, <1>12 DEF Steers
  <2> QED
    BY <1>12, <1>16, <2>1 DEF Alone
<1>18. Fresh(c)
  <2>1. ~Reached(o)
    BY <1>1, <1>5 DEF IndInv, Once
  <2>2. ~Reached(o)'
    BY <1>2, <2>1 DEF Reached, server
  <2>3. call'[c].kind # "start"
    BY <1>3, <1>12 DEF Steers
  <2> QED
    BY <1>12, <2>2, <2>3 DEF Fresh, Reached
<1> QED
  BY <1>2, <1>4, <1>8, <1>10, <1>12, <1>15, <1>17, <1>18, BeginStep

-----------------------------------------------------------------------------
(* Steps that change who continues whom. *)

\* The record task_start builds.
LEMMA NewRecordFields ==
  ASSUME NEW t \in Tasks
  PROVE  /\ NewRecord(t) \in Record /\ NewRecord(t).status = "accepted"
         /\ NewRecord(t).thread = None /\ NewRecord(t).claim = None
<1> DEFINE s == <<[op |-> t, phase |-> "accepted"]>>
<1>1. [op |-> t, phase |-> "accepted"] \in [op : Ops, phase : Phases]
  BY Names DEF Phases
<1>2. s \in Seq([op : Ops, phase : Phases]) /\ <<>> \in Seq([op : Ops, phase : Phases])
  BY <1>1
<1> HIDE DEF s
<1>3. NewRecord(t) = [NoRecord EXCEPT !.status = "accepted", !.ops = s]
  BY DEF NewRecord, s
<1> QED
  BY <1>2, <1>3 DEF NoRecord, Record, Statuses

\* Before it is accepted, nothing has been done for a task.
LEMMA AbsentFacts ==
  ASSUME IndInv, NEW t \in Tasks, ~Exists(t)
  PROVE  /\ rec[t].thread = None /\ rec[t].claim = None /\ Remembered(rec[t]) = {}
         /\ begun[t] = 0 /\ ~Reached(t)
         /\ \A c \in Callers : call[c].task # t
         /\ \A p \in Procs : reg[p][t] = "none"
         /\ \A u \in Tasks : rec[u].thread # t
<1>1. rec[t].thread = None /\ rec[t].claim = None
  BY DEF IndInv, Threads, Exists, Terminal
<1>2. \A S : ~NoStart(t, S)
  BY DEF NoStart, Exists
<1>3. begun[t] = 0 /\ ~Reached(t) /\ Remembered(rec[t]) = {}
  BY <1>2 DEF IndInv, Once
<1>4. ASSUME NEW c \in Callers
      PROVE  call[c].task # t
  <2>1. Shape(c)
    BY DEF IndInv, Base, CallShape
  <2>2. CASE call[c].kind = "none"
    BY <2>1, <2>2, IdleFields, Names DEF Shape
  <2>3. CASE call[c].kind # "none"
    BY <2>1, <2>3 DEF Shape
  <2> QED
    BY <2>2, <2>3
<1>5. \A p \in Procs : reg[p][t] = "none"
  BY <1>1 DEF IndInv, Base, Threaded
<1>6. \A u \in Tasks : rec[u].thread # t
  BY Names DEF IndInv, Threads
<1> QED
  BY <1>1, <1>3, <1>4, <1>5, <1>6

\* A task is linked to its source, or to none, for the first time.
LEMMA StartLinks ==
  ASSUME IndInv, NEW t \in Tasks, ~Exists(t), Exists(t)', rec'[t].thread = None, rec'[t].claim = None,
         \A u \in Tasks \ {t, Source[t]} : rec'[u] = rec[u],
         Source[t] # None =>
           LET s == Source[t]
           IN  /\ rec[s].claim \in {None, t} /\ rec'[s].claim = t
               /\ rec[s].thread # None /\ rec'[s].thread = rec[s].thread
               /\ Terminal(rec[s].status) /\ rec'[s].status = rec[s].status
  PROVE  Threads' /\ OneLeaf'
<1>1. /\ \A u \in Tasks : Source[u] \in Tasks \cup {None} /\ Source[u] # u
      /\ None \notin Tasks
  BY Names, OperationAssumption
<1>2. /\ \A u \in Tasks : rec[u].thread \in Tasks \cup {None} /\ rec[u].claim \in Tasks \cup {None}
  BY DEF IndInv, Base, TypeOK, Record
<1>3. rec[t].thread = None /\ rec[t].claim = None /\ \A u \in Tasks : rec[u].thread # t
  BY AbsentFacts
<1>4. \A u \in Tasks : rec'[u].thread = rec[u].thread
  BY <1>1, <1>3
<1>5. \A u \in Tasks \ {t} : rec'[u].status = rec[u].status /\ (Exists(u)' <=> Exists(u))
  BY <1>1 DEF Exists
<1>6. \A u \in Tasks : Conversation(u)' = Conversation(u)
  BY <1>1, <1>4 DEF Conversation
<1>7. \A u \in Tasks : rec'[u].claim = rec[u].claim \/ (u = Source[t] /\ rec'[u].claim = t)
  BY <1>1, <1>3
<1>8. ASSUME NEW u \in Tasks
      PROVE  Continued(u) => Continued(u)' /\ u # Source[t]
  BY <1>1, <1>2, <1>3, <1>5, <1>7 DEF Continued
<1>9. Threads'
  <2> SUFFICES ASSUME NEW u \in Tasks
               PROVE  /\ rec'[u].thread # None =>
                           /\ Exists(u)' /\ rec'[u].thread = Conversation(u)'
                           /\ Exists(rec[u].thread)' /\ Source[rec'[u].thread] = None
                      /\ rec'[u].claim # None =>
                           /\ Source[rec'[u].claim] = u
                           /\ Terminal(rec'[u].status) /\ rec'[u].thread # None
                      /\ Exists(u)' /\ Source[u] # None => rec'[Source[u]].claim = u
    BY DEF Threads
  <2>1. rec'[u].thread # None => /\ Exists(u)' /\ rec'[u].thread = Conversation(u)'
                                 /\ Exists(rec[u].thread)' /\ Source[rec'[u].thread] = None
    BY <1>2, <1>3, <1>4, <1>5, <1>6 DEF IndInv, Threads
  <2>2. rec'[u].claim # None => /\ Source[rec'[u].claim] = u
                                /\ Terminal(rec'[u].status) /\ rec'[u].thread # None
    BY <1>1, <1>3, <1>4, <1>5, <1>7 DEF IndInv, Threads
  <2>3. Exists(u)' /\ Source[u] # None => rec'[Source[u]].claim = u
    <3>1. CASE u = t
      BY <3>1
    <3>2. CASE u # t
      <4>1. Exists(u)' /\ Source[u] # None => rec[Source[u]].claim = u
        BY <1>5, <3>2 DEF IndInv, Threads
      <4> QED
        BY <1>1, <1>7, <3>2, <4>1
    <3> QED
      BY <3>1, <3>2
  <2> QED
    BY <2>1, <2>2, <2>3
<1>10. ASSUME NEW u \in Tasks \ {t}, Exists(u), Conversation(u) = Conversation(t)
       PROVE  Continued(u)'
  <2>1. CASE Source[t] = None
    <3>1. Conversation(u) = t
      BY <1>10, <2>1 DEF Conversation
    <3> QED
      BY <1>1, <1>3, <1>10, <3>1 DEF Conversation
  <2>2. CASE Source[t] # None
    <3> DEFINE s == Source[t]
    <3>1. s \in Tasks /\ Exists(s) /\ Conversation(s) = rec[s].thread /\ Conversation(t) = rec[s].thread
      BY <1>1, <2>2 DEF IndInv, Threads, Conversation
    <3>2. CASE u = s
      BY <2>2, <3>1, <3>2, Names DEF Continued
    <3>3. CASE u # s
      <4>1. Continued(u) \/ Continued(s)
        BY <1>10, <3>1, <3>3 DEF IndInv, OneLeaf
      <4> QED
        BY <1>8, <3>1, <4>1
    <3> QED
      BY <3>2, <3>3
  <2> QED
    BY <2>1, <2>2
<1>11. OneLeaf'
  <2> SUFFICES ASSUME NEW u \in Tasks, NEW v \in Tasks, Exists(u)', Exists(v)',
                      Conversation(u)' = Conversation(v)', u # v
               PROVE  Continued(u)' \/ Continued(v)'
    BY DEF OneLeaf
  <2>1. Conversation(u) = Conversation(v)
    BY <1>6
  <2>2. CASE u # t /\ v # t
    <3>1. Continued(u) \/ Continued(v)
      BY <1>5, <2>1, <2>2 DEF IndInv, OneLeaf
    <3> QED
      BY <1>8, <3>1
  <2>3. CASE u = t
    BY <1>5, <1>10, <2>1, <2>3
  <2>4. CASE v = t
    BY <1>5, <1>10, <2>1, <2>4
  <2> QED
    BY <2>2, <2>3, <2>4
<1> QED
  BY <1>9, <1>11

\* What task_start does when it accepts, from its source's side and its own.
StartAccepted(c, t, pc) ==
  LET p == Home(c)
      s == Source[t]
  IN  /\ call[c] = Idle /\ ~Exists(t) /\ ~LeaseHeld(t) /\ StartBegun(c, t, pc)
      /\ rec' \in [Tasks -> Record] /\ rec'[t] = NewRecord(t)
      /\ \A u \in Tasks \ {t, s} : rec'[u] = rec[u]
      /\ reg' \in [Procs -> [Tasks -> {"none", "live", "dead", "dying"}]]
      /\ \A q \in Procs, u \in Tasks : q # p \/ u # s => reg'[q][u] = reg[q][u]
      /\ UNCHANGED <<wire, server, ask>>
      /\ s = None => pc = "admit"
      /\ s # None =>
           /\ s \in Tasks /\ s # t
           /\ rec'[s] = [rec[s] EXCEPT !.claim = t]
           /\ Terminal(rec[s].status) /\ rec[s].claim \in {None, t} /\ rec[s].thread # None
           /\ Registered(p, s) \/ ~LeaseHeld(s)
           /\ reg'[p][s] # "none" => /\ reg[p][s] = "live" /\ reg'[p][s] = "dying"
                                     /\ pc = "retire"

LEMMA StartAcceptFacts ==
  ASSUME IndInv, NEW c \in Callers, NEW t \in Tasks, StartAccept(c, t)
  PROVE  \E pc \in {"admit", "retire"} : StartAccepted(c, t, pc)
<1> DEFINE p == Home(c)
           s == Source[t]
<1>1. /\ call[c] = Idle /\ ~Exists(t) /\ ~LeaseHeld(t) /\ UNCHANGED <<wire, server, ask>>
  BY DEF StartAccept
<1>2. /\ rec \in [Tasks -> Record] /\ p \in Procs
      /\ reg \in [Procs -> [Tasks -> {"none", "live", "dead", "dying"}]]
      /\ NewRecord(t) \in Record
  BY NewRecordFields DEF IndInv, Base, TypeOK, Home, Callers
<1>3. CASE s = None
  <2>1. /\ rec' = [rec EXCEPT ![t] = NewRecord(t)] /\ UNCHANGED reg /\ StartBegun(c, t, "admit")
    BY <1>3 DEF StartAccept, StartBegun
  <2>2. /\ rec' \in [Tasks -> Record] /\ rec'[t] = NewRecord(t)
        /\ \A u \in Tasks \ {t, s} : rec'[u] = rec[u]
    BY <1>2, <2>1
  <2>3. StartAccepted(c, t, "admit")
    BY <1>1, <1>2, <1>3, <2>1, <2>2 DEF StartAccepted
  <2> QED
    BY <2>3
<1>4. CASE s # None
  <2>1. s \in Tasks /\ s # t
    BY <1>4, OperationAssumption
  <2> DEFINE pc == IF Registered(p, s) THEN "retire" ELSE "admit"
  <2>2. /\ Continuable(p, s, t)
        /\ rec' = [rec EXCEPT ![s].claim = t, ![t] = NewRecord(t)]
        /\ reg' = [reg EXCEPT ![p][s] = CASE @ = "live" -> "dying"
                                          [] @ = "dead" -> "none"
                                          [] OTHER -> @]
        /\ StartBegun(c, t, pc)
    BY <1>4 DEF StartAccept, StartBegun
  <2>3. [rec[s] EXCEPT !.claim = t] \in Record
    BY <1>2, <2>1 DEF Record
  <2>4. /\ rec' \in [Tasks -> Record] /\ rec'[t] = NewRecord(t)
        /\ rec'[s] = [rec[s] EXCEPT !.claim = t]
        /\ \A u \in Tasks \ {t, s} : rec'[u] = rec[u]
    BY <1>2, <2>1, <2>2, <2>3
  <2> DEFINE x == CASE reg[p][s] = "live" -> "dying"
                    [] reg[p][s] = "dead" -> "none"
                    [] OTHER -> reg[p][s]
  <2>5. reg' = [reg EXCEPT ![p][s] = x]
    BY <2>2
  <2>6. /\ x \in {"none", "live", "dead", "dying"} /\ (reg[p][s] = "live" => x = "dying")
        /\ x # "none" => reg[p][s] \in {"live", "dying"}
    BY <1>2, <2>1
  <2> HIDE DEF x
  <2>7. /\ reg' \in [Procs -> [Tasks -> {"none", "live", "dead", "dying"}]] /\ reg'[p][s] = x
        /\ \A q \in Procs, u \in Tasks : q # p \/ u # s => reg'[q][u] = reg[q][u]
    BY <1>2, <2>1, <2>5, <2>6, RegUpdate
  <2>8. /\ Terminal(rec[s].status) /\ rec[s].claim \in {None, t} /\ rec[s].thread # None
        /\ Registered(p, s) \/ ~LeaseHeld(s)
    BY <2>2 DEF Continuable
  <2>9. reg[p][s] # "dying"
    BY <1>2, <2>8 DEF Registered, LeaseHeld
  <2>10. reg'[p][s] # "none" => /\ reg[p][s] = "live" /\ reg'[p][s] = "dying" /\ pc = "retire"
    BY <2>6, <2>7, <2>9 DEF Registered
  <2>11. pc \in {"admit", "retire"}
    OBVIOUS
  <2> HIDE DEF pc
  <2>12. StartAccepted(c, t, pc)
    BY <1>1, <1>4, <2>1, <2>2, <2>4, <2>7, <2>8, <2>10 DEF StartAccepted
  <2> QED
    BY <2>11, <2>12
<1> QED
  BY <1>3, <1>4

LEMMA StartAcceptInv ==
  ASSUME IndInv, NEW c \in Callers, NEW t \in Tasks, StartAccept(c, t)
  PROVE  IndInv'
<1>1. PICK pc \in {"admit", "retire"} : StartAccepted(c, t, pc)
  BY StartAcceptFacts
<1> DEFINE p == Home(c)
           s == Source[t]
<1>2. /\ call[c] = Idle /\ ~Exists(t) /\ ~LeaseHeld(t) /\ StartBegun(c, t, pc)
      /\ rec' \in [Tasks -> Record] /\ rec'[t] = NewRecord(t)
      /\ reg' \in [Procs -> [Tasks -> {"none", "live", "dead", "dying"}]]
      /\ UNCHANGED <<wire, server, ask>> /\ p \in Procs /\ TypeOK
      /\ rec \in [Tasks -> Record]
  BY <1>1 DEF StartAccepted, IndInv, Base, TypeOK, Home, Callers
<1>3. /\ \A u \in Tasks \ {t, s} : rec'[u] = rec[u]
      /\ \A q \in Procs, u \in Tasks : q # p \/ u # s => reg'[q][u] = reg[q][u]
      /\ s = None => pc = "admit"
  BY <1>1 DEF StartAccepted
<1>4. ASSUME s # None
      PROVE  /\ s \in Tasks /\ s # t
             /\ rec'[s].claim = t /\ rec'[s].thread = rec[s].thread
             /\ rec'[s].status = rec[s].status /\ Remembered(rec'[s]) = Remembered(rec[s])
             /\ Terminal(rec[s].status) /\ rec[s].claim \in {None, t} /\ rec[s].thread # None
             /\ Registered(p, s) \/ ~LeaseHeld(s)
             /\ reg'[p][s] # "none" => /\ reg[p][s] = "live" /\ reg'[p][s] = "dying"
                                       /\ pc = "retire"
  <2>1. /\ s \in Tasks /\ s # t /\ rec'[s] = [rec[s] EXCEPT !.claim = t]
        /\ Terminal(rec[s].status) /\ rec[s].claim \in {None, t} /\ rec[s].thread # None
        /\ Registered(p, s) \/ ~LeaseHeld(s)
        /\ reg'[p][s] # "none" => /\ reg[p][s] = "live" /\ reg'[p][s] = "dying"
                                  /\ pc = "retire"
    BY <1>1, <1>4 DEF StartAccepted
  <2>2. rec[s] \in Record
    BY <1>2, <2>1
  <2>3. /\ rec'[s].claim = t /\ rec'[s].thread = rec[s].thread /\ rec'[s].status = rec[s].status
        /\ rec'[s].ops = rec[s].ops /\ rec'[s].tombs = rec[s].tombs
    BY <2>1, <2>2 DEF Record
  <2>4. Remembered(rec'[s]) = Remembered(rec[s])
    BY <2>3 DEF Remembered
  <2> QED
    BY <2>1, <2>3, <2>4
<1> HIDE DEF p, s
<1>5. /\ rec'[t].status = "accepted" /\ rec'[t].thread = None /\ rec'[t].claim = None
      /\ Exists(t)'
  BY <1>2, NewRecordFields DEF Exists
<1>6. /\ rec[t].thread = None /\ rec[t].claim = None /\ Remembered(rec[t]) = {}
      /\ begun[t] = 0 /\ ~Reached(t)
      /\ \A d \in Callers : call[d].task # t
      /\ \A q \in Procs : reg[q][t] = "none"
  BY <1>2, AbsentFacts
<1>7. PICK l \in Call : /\ call' = [call EXCEPT ![c] = l] /\ call'[c] = l
                        /\ \A d \in Callers \ {c} : call'[d] = call[d]
                        /\ l.pc = pc /\ l.kind = "start" /\ l.op = t /\ l.task = t
                        /\ l.lease = (l.pc # "refused") /\ l.client = "none"
  <2>1. rec'[t] \in Record
    BY <1>2
  <2> QED
    BY <1>2, <2>1, StartBegins
<1>8. TypeOK'
  <2>1. call' \in [Callers -> Call]
    BY <1>7, OneCall
  <2> QED
    BY <1>2, <2>1 DEF TypeOK, server
<1>9. ASSUME NEW u \in Tasks
      PROVE  /\ rec'[u].thread = rec[u].thread /\ KeepsRecord(u)
             /\ u # t => rec'[u].status = rec[u].status
             /\ ~Exists(u)' => ~Exists(u) /\ Remembered(rec'[u]) = Remembered(rec[u])
             /\ rec'[u].claim = rec[u].claim \/ (u = s /\ s # None /\ rec'[u].claim = t)
  <2>1. CASE u = t
    BY <1>5, <1>6, <2>1 DEF KeepsRecord
  <2>2. CASE u = s
    BY <1>4, <2>2, Names DEF KeepsRecord, Exists
  <2>3. CASE u # t /\ u # s
    <3>1. rec'[u] = rec[u]
      BY <1>3, <2>3
    <3> QED
      BY <3>1 DEF KeepsRecord, Exists
  <2> QED
    BY <2>1, <2>2, <2>3
<1>10. CallShape'
  <2> SUFFICES ASSUME NEW d \in Callers PROVE Shape(d)'
    BY DEF CallShape
  <2>1. CASE d = c
    <3>1. pc = "retire" => Source[t] # None
      BY <1>3 DEF s
    <3>2. StartShape(call[c])'
      BY <1>5, <1>7, <3>1 DEF StartShape, Unbound, Bound
    <3>3. /\ call'[c].kind = "start" /\ call'[c].task = t /\ Exists(t)'
      BY <1>5, <1>7
    <3> QED
      BY <2>1, <3>2, <3>3 DEF Shape, Exists, Steers
  <2>2. CASE d # c
    <3>1. call'[d] = call[d]
      BY <1>7, <2>2
    <3>2. ASSUME Starting(d)
          PROVE  Open(call[d].task)'
      <4>1. call[d].task \in Tasks /\ Open(call[d].task)
        BY <3>2, StartFacts DEF StartShape, Starting, Open
      <4>2. /\ rec'[call[d].task].thread = rec[call[d].task].thread
            /\ rec'[call[d].task].status = rec[call[d].task].status
        BY <1>6, <1>9, <4>1
      <4> QED
        BY <3>1, <4>1, <4>2 DEF Open
    <3> QED
      BY <1>9, <3>1, <3>2, FrameShape DEF Kept, IndInv
  <2> QED
    BY <2>1, <2>2
<1>11. OneStart' /\ OneControl'
  <2>1. Alone(c)
    BY <1>6, <1>7 DEF Alone, Steers
  <2>2. \A d \in Callers : Holds(d) \/ Alone(d)
    BY <1>7, <2>1 DEF Holds
  <2> QED
    BY <2>2, FrameOne DEF IndInv
<1>12. \A q \in Procs, u \in Tasks : reg'[q][u] # "none" => reg[q][u] # "none"
  BY <1>3, <1>4, Names
<1>13. Threaded'
  BY <1>2, <1>9, <1>12 DEF IndInv, Base, Threaded
<1>14. OneLease'
  <2>1. \A u \in Tasks, d \in Callers : Leased(d, u)' => Leased(d, u) \/ (d = c /\ u = t)
    BY <1>7 DEF Leased
  <2>2. \A q \in Procs : reg'[q][t] = "none"
    BY <1>6, <1>12
  <2>3. \A d \in Callers : ~Leased(d, t)
    BY <1>6 DEF Leased
  <2>4. OneLease
    BY DEF IndInv
  <2> QED
    BY <1>12, <2>1, <2>2, <2>3, <2>4 DEF OneLease
<1>15. Threads' /\ OneLeaf'
  BY <1>2, <1>3, <1>4, <1>5, StartLinks DEF s
<1>16. ContinuedIsQuiet'
  <2> SUFFICES ASSUME NEW u \in Tasks, Continued(u)'
               PROVE  /\ \A d \in Callers : call'[d].task = u => call'[d].client # "own"
                      /\ \A q \in Procs : reg'[q][u] # "none" =>
                           /\ reg'[q][u] = "dying"
                           /\ \E d \in Callers :
                                /\ Home(d) = q /\ At(d, "start", "retire")'
                                /\ call'[d].task = rec'[u].claim
    BY DEF ContinuedIsQuiet
  <2>1. CASE u = s /\ s # None
    <3>1. \A d \in Callers : Leased(d, s) => ~Registered(p, s) /\ LeaseHeld(s)
      BY <1>2, <1>4, <2>1 DEF IndInv, OneLease, Registered, LeaseHeld, Leased
    <3>2. \A d \in Callers : ~Leased(d, s)
      BY <1>4, <2>1, <3>1
    <3>3. ASSUME NEW d \in Callers, call'[d].task = s
          PROVE  call'[d].client # "own"
      <4>1. d # c /\ call[d].task = s /\ call'[d] = call[d] /\ ~call[d].lease
        BY <1>4, <1>7, <2>1, <3>2, <3>3 DEF Leased
      <4>2. CASE call[d].kind = "start"
        <5>1. StartShape(call[d])
          BY <4>2, StartFacts
        <5> QED
          BY <4>1, <5>1 DEF StartShape
      <4>3. CASE call[d].kind # "start" /\ call[d].pc # "idle"
        <5>1. RequestShape(call[d])
          BY <4>3, RequestFacts
        <5> QED
          BY <4>1, <5>1 DEF RequestShape
      <4>4. CASE call[d].kind = "none"
        BY <4>1, <4>4, IdleFields DEF IndInv, Base, CallShape, Shape
      <4>5. call[d].kind # "start" /\ call[d].kind # "none" => call[d].pc # "idle"
        BY <1>2 DEF IndInv, Base, TypeOK, CallShape, Shape, RequestShape, Call, Kinds, Steers
      <4> QED
        BY <4>2, <4>3, <4>4, <4>5
    <3>4. ASSUME NEW q \in Procs, reg'[q][s] # "none"
          PROVE  /\ reg'[q][s] = "dying"
                 /\ Home(c) = q /\ At(c, "start", "retire")' /\ call'[c].task = rec'[s].claim
      <4>1. reg[q][s] # "none"
        BY <1>4, <1>12, <2>1, <3>4
      <4>2. Registered(p, s)
        BY <1>4, <2>1, <4>1 DEF LeaseHeld
      <4>3. q = p
        BY <1>2, <1>4, <2>1, <4>1, <4>2 DEF IndInv, OneLease, Registered
      <4>4. reg'[q][s] = "dying" /\ pc = "retire"
        BY <1>4, <2>1, <3>4, <4>3
      <4> QED
        BY <1>4, <1>7, <2>1, <4>3, <4>4 DEF At, p
    <3> QED
      BY <2>1, <3>3, <3>4
  <2>2. CASE ~(u = s /\ s # None)
    <3>1. rec'[u].claim = rec[u].claim /\ rec[u].claim \in Tasks \cup {None}
      BY <1>2, <1>9, <2>2 DEF Record
    <3>2. Continued(u)
      <4>1. rec[u].claim # None /\ Exists(rec[u].claim)'
        BY <3>1 DEF Continued, Exists
      <4>2. rec[u].claim # t
        <5>1. Source[rec[u].claim] = u
          BY <4>1 DEF IndInv, Threads
        <5> QED
          BY <2>2, <5>1, Names DEF s
      <4> QED
        BY <1>9, <3>1, <4>1, <4>2 DEF Continued, Exists
    <3>3. \A d \in Callers : call'[d].task = u => call'[d].client # "own"
      BY <1>7, <3>2 DEF IndInv, ContinuedIsQuiet
    <3>4. ASSUME NEW q \in Procs, reg'[q][u] # "none"
          PROVE  /\ reg'[q][u] = "dying"
                 /\ \E d \in Callers : /\ Home(d) = q /\ At(d, "start", "retire")'
                                       /\ call'[d].task = rec'[u].claim
      <4>1. u # s
        BY <2>2, Names
      <4>2. reg'[q][u] = reg[q][u]
        BY <1>3, <4>1
      <4>3. PICK d \in Callers : Home(d) = q /\ At(d, "start", "retire") /\ call[d].task = rec[u].claim
        BY <3>2, <3>4, <4>2 DEF IndInv, ContinuedIsQuiet
      <4>4. d # c
        BY <1>2, <4>3, IdleFields DEF At
      <4>5. At(d, "start", "retire")' /\ call'[d].task = rec'[u].claim
        BY <1>7, <3>1, <4>3, <4>4 DEF At
      <4>6. reg'[q][u] = "dying"
        BY <3>2, <3>4, <4>2 DEF IndInv, ContinuedIsQuiet
      <4> QED
        BY <4>3, <4>5, <4>6
    <3> QED
      BY <3>3, <3>4
  <2> QED
    BY <2>1, <2>2
<1>17. Once'
  <2>1. Fresh(c)
    <3>1. begun'[t] = 0 /\ ~Reached(t)'
      BY <1>2, <1>6 DEF Reached, server
    <3> QED
      BY <1>7, <3>1 DEF Fresh, Reached, Steers
  <2>2. \A d \in Callers : Holds(d) \/ Fresh(d)
    BY <1>7, <2>1 DEF Holds
  <2>3. ASSUME NEW d \in Callers
        PROVE  /\ call[d].kind = "start" =>
                   \A S \in {{"retire", "admit", "refused", "thread"}, Unbound} :
                      call'[d].pc \in S => call[d].pc \in S
               /\ call[d].kind \in Steers =>
                   LET S == {"ensure", "attach", "send"}
                   IN  call'[d].pc \in S => call[d].pc \in S
    <3>1. d # c => call'[d] = call[d]
      BY <1>7
    <3>2. call[c].kind = "none"
      BY <1>2, IdleFields
    <3> QED
      BY <3>1, <3>2 DEF Steers
  <2>4. \A u \in Tasks : rec'[u].status = "retryable" => rec[u].status = "retryable"
    BY <1>5, <1>9
  <2>5. \A o \in Ops : /\ wire'[o].state # "none" => wire[o].state # "none"
                       /\ wire'[o].state = "sent" => wire[o].state = "sent"
    BY <1>2
  <2>6. UNCHANGED <<begun, served>>
    BY <1>2 DEF server
  <2> QED
    BY <1>2, <1>9, <2>2, <2>3, <2>4, <2>5, <2>6, FrameOnce DEF IndInv
<1> QED
  BY <1>8, <1>10, <1>11, <1>13, <1>14, <1>15, <1>16, <1>17 DEF IndInv, Base

LEMMA StartTornInv ==
  ASSUME IndInv, NEW c \in Callers, NEW t \in Tasks, StartTorn(c, t)
  PROVE  IndInv'
<1> DEFINE s == Source[t]
<1>1. /\ ~Exists(t) /\ s # None /\ UNCHANGED <<reg, call, wire, server, ask>>
      /\ rec' = [rec EXCEPT ![s].claim = t]
      /\ Terminal(rec[s].status) /\ rec[s].claim \in {None, t} /\ rec[s].thread # None
  BY DEF StartTorn, Continuable
<1>2. /\ s \in Tasks /\ s # t /\ TypeOK /\ rec \in [Tasks -> Record]
      /\ \A u \in Tasks : Source[u] \in Tasks \cup {None}
  BY <1>1, OperationAssumption DEF IndInv, Base, TypeOK
<1>3. Source[t] = s
  OBVIOUS
<1> HIDE DEF s
<1>4. /\ rec'[s] = [rec[s] EXCEPT !.claim = t] /\ rec[s] \in Record
      /\ \A u \in Tasks \ {s} : rec'[u] = rec[u]
  BY <1>1, <1>2
<1>5. /\ rec'[s] \in Record /\ rec'[s].claim = t /\ rec'[s].thread = rec[s].thread
      /\ rec'[s].status = rec[s].status /\ rec'[s].ops = rec[s].ops /\ rec'[s].tombs = rec[s].tombs
  BY <1>4 DEF Record
<1>6. Remembered(rec'[s]) = Remembered(rec[s])
  BY <1>5 DEF Remembered
<1>7. ASSUME NEW u \in Tasks
      PROVE  /\ rec'[u].thread = rec[u].thread /\ rec'[u].status = rec[u].status
             /\ Remembered(rec'[u]) = Remembered(rec[u]) /\ (Exists(u)' <=> Exists(u))
             /\ rec'[u].claim = IF u = s THEN t ELSE rec[u].claim
  <2>1. CASE u = s
    BY <1>5, <1>6, <2>1 DEF Exists
  <2>2. CASE u # s
    BY <1>4, <2>2 DEF Exists
  <2> QED
    BY <2>1, <2>2
<1>8. TypeOK'
  <2>1. rec' \in [Tasks -> Record]
    BY <1>1, <1>2, <1>4, <1>5
  <2> QED
    BY <1>1, <1>2, <2>1 DEF TypeOK, server
<1>9. \A u \in Tasks : KeepsRecord(u)
  BY <1>7 DEF KeepsRecord
<1>10. CallShape'
  <2> SUFFICES ASSUME NEW d \in Callers PROVE Shape(d)'
    BY DEF CallShape
  <2>1. ASSUME Starting(d)
        PROVE  Open(call[d].task)'
    <3>1. call[d].task \in Tasks /\ Open(call[d].task)
      BY <2>1, StartFacts DEF StartShape, Starting, Open
    <3> QED
      BY <1>1, <1>7, <3>1 DEF Open
  <2> QED
    BY <1>1, <1>9, <2>1, FrameShape DEF Kept, IndInv
<1>11. OneStart' /\ OneControl' /\ OneLease' /\ Threaded'
  BY <1>1, <1>7 DEF IndInv, Base, OneStart, OneControl, OneLease, Leased, Threaded
<1>12. \A u \in Tasks : rec[u].thread \in Tasks \cup {None} /\ rec[u].claim \in Tasks \cup {None}
  BY <1>2 DEF Record
<1>13. \A u \in Tasks : Conversation(u)' = Conversation(u)
  BY <1>2, <1>7 DEF Conversation
<1>14. \A u \in Tasks : Continued(u)' <=> Continued(u)
  <2> SUFFICES ASSUME NEW u \in Tasks PROVE Continued(u)' <=> Continued(u)
    OBVIOUS
  <2>1. CASE u = s
    BY <1>1, <1>7, <2>1, Names DEF Continued
  <2>2. CASE u # s
    BY <1>7, <1>12, <2>2 DEF Continued
  <2> QED
    BY <2>1, <2>2
<1>15. Threads'
  <2> SUFFICES ASSUME NEW u \in Tasks
               PROVE  /\ rec'[u].thread # None =>
                           /\ Exists(u)' /\ rec'[u].thread = Conversation(u)'
                           /\ Exists(rec[u].thread)' /\ Source[rec'[u].thread] = None
                      /\ rec'[u].claim # None =>
                           /\ Source[rec'[u].claim] = u
                           /\ Terminal(rec'[u].status) /\ rec'[u].thread # None
                      /\ Exists(u)' /\ Source[u] # None => rec'[Source[u]].claim = u
    BY DEF Threads
  <2>1. rec'[u].thread # None => /\ Exists(u)' /\ rec'[u].thread = Conversation(u)'
                                 /\ Exists(rec[u].thread)' /\ Source[rec'[u].thread] = None
    BY <1>7, <1>12, <1>13 DEF IndInv, Threads
  <2>2. rec'[u].claim # None => /\ Source[rec'[u].claim] = u
                                /\ Terminal(rec'[u].status) /\ rec'[u].thread # None
    BY <1>1, <1>3, <1>7 DEF IndInv, Threads
  <2>3. ASSUME Exists(u)', Source[u] # None
        PROVE  rec'[Source[u]].claim = u
    <3>1. Exists(u) /\ rec[Source[u]].claim = u /\ Source[u] \in Tasks
      BY <1>2, <1>7, <2>3 DEF IndInv, Threads
    <3>2. Source[u] # s
      BY <1>1, <3>1, Names
    <3> QED
      BY <1>7, <3>1, <3>2
  <2> QED
    BY <2>1, <2>2, <2>3
<1>16. OneLeaf'
  BY <1>7, <1>13, <1>14 DEF IndInv, OneLeaf
<1>17. ContinuedIsQuiet'
  <2>1. \A u \in Tasks : Continued(u)' => u # s
    BY <1>1, <1>7 DEF Continued
  <2> QED
    BY <1>1, <1>7, <1>14, <2>1 DEF IndInv, ContinuedIsQuiet, At
<1>18. Once'
  <2>1. \A o \in Ops : /\ wire'[o].state # "none" => wire[o].state # "none"
                       /\ wire'[o].state = "sent" => wire[o].state = "sent"
    BY <1>1
  <2>2. UNCHANGED <<begun, served>>
    BY <1>1 DEF server
  <2>3. \A d \in Callers : Holds(d) /\ call'[d] = call[d]
    BY <1>1 DEF Holds
  <2> QED
    BY <1>2, <1>7, <1>9, <2>1, <2>2, <2>3, FrameOnce DEF IndInv
<1> QED
  BY <1>8, <1>10, <1>11, <1>15, <1>16, <1>17, <1>18 DEF IndInv, Base

LEMMA BindThreadInv ==
  ASSUME IndInv, NEW c \in Callers, BindThread(c)
  PROVE  IndInv'
<1> DEFINE l == [call[c] EXCEPT !.pc = "wait"]
           w == [state |-> "sent", turn |-> None]
<1>1. /\ call[c].kind = "start" /\ call[c].pc = "bind" /\ call' = [call EXCEPT ![c] = l]
      /\ UNCHANGED <<reg, server, ask>>
  BY DEF BindThread, At, Goto
<1>2. PICK t \in Tasks : t = call[c].task
  BY <1>1, StartFacts
<1>3. /\ call[c] \in Call /\ StartShape(call[c]) /\ Exists(t) /\ t \in Ops /\ TypeOK
      /\ rec \in [Tasks -> Record] /\ wire \in [Ops -> Wire]
  BY <1>1, <1>2, StartFacts, Names DEF IndInv, Base, TypeOK
<1>4. /\ rec[t].thread = None /\ rec[t].status \in {"accepted", "reconcile"} /\ call[c].lease
      /\ call[c].client = "own" /\ call[c].op = t
  BY <1>1, <1>2, <1>3 DEF StartShape, Unbound
<1> DEFINE h == Conversation(t)
<1>5. /\ rec' = [rec EXCEPT ![t] = [@ EXCEPT !.thread = h]] /\ wire' = [wire EXCEPT ![t] = w]
  BY <1>2, <1>4 DEF BindThread, Terminal
<1>6. /\ \A u \in Tasks : Source[u] \in Tasks \cup {None} /\ Source[u] # u
      /\ \A u \in Tasks : rec[u].thread \in Tasks \cup {None} /\ rec[u].claim \in Tasks \cup {None}
  BY <1>3, OperationAssumption DEF Record
<1>7. h \in Tasks /\ h # None /\ Exists(h) /\ Source[h] = None
  <2>1. CASE Source[t] = None
    BY <1>3, <2>1, Names DEF Conversation
  <2>2. CASE Source[t] # None
    <3>1. rec[Source[t]].claim = t /\ Source[t] \in Tasks
      BY <1>3, <1>6, <2>2 DEF IndInv, Threads
    <3>2. rec[Source[t]].thread # None
      BY <3>1, Names DEF IndInv, Threads
    <3> QED
      BY <1>6, <2>2, <3>1, <3>2 DEF IndInv, Threads, Conversation
  <2> QED
    BY <2>1, <2>2
<1>8. /\ l \in Call /\ l.pc = "wait" /\ l.kind = "start" /\ l.op = call[c].op
      /\ l.task = t /\ l.lease = call[c].lease /\ l.client = call[c].client
  BY <1>1, <1>2, <1>3 DEF Call, Pcs
<1>9. w \in Wire /\ w.state = "sent"
  BY DEF Wire
<1> HIDE DEF l, w, h
<1>10. /\ call' \in [Callers -> Call] /\ call'[c] = l
       /\ \A d \in Callers \ {c} : call'[d] = call[d]
  BY <1>1, <1>8, OneCall
<1>11. /\ wire' \in [Ops -> Wire] /\ wire'[t] = w
       /\ \A o \in Ops \ {t} : wire'[o] = wire[o]
  BY <1>3, <1>5, <1>9
<1>12. /\ rec'[t] = [rec[t] EXCEPT !.thread = h] /\ rec[t] \in Record
       /\ \A u \in Tasks \ {t} : rec'[u] = rec[u]
  BY <1>3, <1>5
<1>13. /\ rec'[t] \in Record /\ rec'[t].thread = h /\ rec'[t].claim = rec[t].claim
       /\ rec'[t].status = rec[t].status /\ rec'[t].ops = rec[t].ops /\ rec'[t].tombs = rec[t].tombs
  BY <1>7, <1>12 DEF Record
<1>14. Remembered(rec'[t]) = Remembered(rec[t])
  BY <1>13 DEF Remembered
<1>15. ASSUME NEW u \in Tasks
       PROVE  /\ rec'[u].thread = IF u = t THEN h ELSE rec[u].thread
              /\ rec'[u].status = rec[u].status /\ rec'[u].claim = rec[u].claim
              /\ Remembered(rec'[u]) = Remembered(rec[u]) /\ (Exists(u)' <=> Exists(u))
  <2>1. CASE u = t
    BY <1>13, <1>14, <2>1 DEF Exists
  <2>2. CASE u # t
    BY <1>12, <2>2 DEF Exists
  <2> QED
    BY <2>1, <2>2
<1>16. TypeOK'
  <2>1. rec' \in [Tasks -> Record]
    BY <1>3, <1>5, <1>12, <1>13
  <2> QED
    BY <1>1, <1>3, <1>10, <1>11, <2>1 DEF TypeOK, server
<1>17. \A u \in Tasks : KeepsRecord(u)
  BY <1>4, <1>15 DEF KeepsRecord
<1>18. \A d \in Callers : call'[d].kind # "none" => Holds(d)
  BY <1>1, <1>2, <1>8, <1>10 DEF Holds
<1>19. OneStart' /\ OneControl'
  BY <1>18, FrameOne DEF IndInv
<1>20. CallShape'
  <2> SUFFICES ASSUME NEW d \in Callers PROVE Shape(d)'
    BY DEF CallShape
  <2>1. CASE d = c
    <3>1. rec'[t].thread # None /\ Exists(t)'
      BY <1>3, <1>7, <1>13, <1>15
    <3>2. StartShape(call[c])'
      BY <1>4, <1>8, <1>10, <3>1 DEF StartShape, Unbound, Bound
    <3> QED
      BY <1>8, <1>10, <2>1, <3>1, <3>2 DEF Shape, Exists, Steers
  <2>2. CASE d # c
    <3>1. call'[d] = call[d]
      BY <1>10, <2>2
    <3>2. ASSUME Starting(d)
          PROVE  Open(call[d].task)'
      <4>1. call[d].task \in Tasks /\ Open(call[d].task)
        BY <3>2, StartFacts DEF StartShape, Starting, Open
      <4>2. call[d].task # t
        BY <1>1, <1>2, <2>2, <3>2 DEF IndInv, Base, OneStart, Starting
      <4> QED
        BY <1>15, <3>1, <4>1, <4>2 DEF Open
    <3> QED
      BY <1>17, <3>1, <3>2, FrameShape DEF Kept, IndInv
  <2> QED
    BY <2>1, <2>2
<1>21. Threaded'
  BY <1>1, <1>7, <1>15 DEF IndInv, Base, Threaded
<1>22. OneLease'
  <2>1. \A d \in Callers : call'[d].lease => call[d].lease /\ call'[d].task = call[d].task
    BY <1>2, <1>8, <1>10
  <2> QED
    BY <1>1, <2>1, FrameLease DEF IndInv
<1>23. \A u \in Tasks : Exists(u) => Source[u] # t
  <2>1. rec[t].claim = None
    BY <1>4 DEF IndInv, Threads, Terminal
  <2> QED
    BY <2>1, Names DEF IndInv, Threads
<1>24. \A u \in Tasks : Exists(u) => Conversation(u)' = Conversation(u)
  BY <1>6, <1>15, <1>23 DEF Conversation
<1>25. \A u \in Tasks : Continued(u)' <=> Continued(u)
  BY <1>6, <1>15 DEF Continued
<1>26. Threads'
  <2> SUFFICES ASSUME NEW u \in Tasks
               PROVE  /\ rec'[u].thread # None =>
                           /\ Exists(u)' /\ rec'[u].thread = Conversation(u)'
                           /\ Exists(rec[u].thread)' /\ Source[rec'[u].thread] = None
                      /\ rec'[u].claim # None =>
                           /\ Source[rec'[u].claim] = u
                           /\ Terminal(rec'[u].status) /\ rec'[u].thread # None
                      /\ Exists(u)' /\ Source[u] # None => rec'[Source[u]].claim = u
    BY DEF Threads
  <2>1. rec'[u].thread # None => /\ Exists(u)' /\ rec'[u].thread = Conversation(u)'
                                 /\ Exists(rec[u].thread)' /\ Source[rec'[u].thread] = None
    <3>1. CASE u = t
      <4>1. Exists(u)' /\ rec'[u].thread = h
        BY <1>3, <1>15, <3>1
      <4>2. Conversation(u)' = h
        BY <1>3, <1>24, <3>1 DEF h
      <4>3. rec'[h].status # "missing"
        BY <1>7, <1>15 DEF Exists
      <4> QED
        BY <1>7, <4>1, <4>2, <4>3 DEF Exists
    <3>2. CASE u # t
      <4>1. rec'[u].thread = rec[u].thread
        BY <1>15, <3>2
      <4> QED
        BY <1>6, <1>15, <1>24, <4>1 DEF IndInv, Threads, Exists
    <3> QED
      BY <3>1, <3>2
  <2>2. rec'[u].claim # None => /\ Source[rec'[u].claim] = u
                                /\ Terminal(rec'[u].status) /\ rec'[u].thread # None
    BY <1>7, <1>15 DEF IndInv, Threads
  <2>3. Exists(u)' /\ Source[u] # None => rec'[Source[u]].claim = u
    BY <1>6, <1>15 DEF IndInv, Threads
  <2> QED
    BY <2>1, <2>2, <2>3
<1>27. OneLeaf'
  BY <1>15, <1>24, <1>25 DEF IndInv, OneLeaf
<1>28. ContinuedIsQuiet'
  <2>1. ASSUME NEW s \in Tasks
        PROVE  KeepsQuiet(s)
    <3>1. \A d \in Callers : At(d, "start", "retire") =>
            At(d, "start", "retire")' /\ call'[d].task = call[d].task
      BY <1>1, <1>10 DEF At
    <3>2. \A d \in Callers : call'[d].task = s /\ call'[d].client = "own"
                               => call[d].task = s /\ call[d].client = "own"
      BY <1>2, <1>8, <1>10
    <3> QED
      BY <1>1, <3>1, <3>2 DEF KeepsQuiet
  <2> QED
    BY <1>3, <1>15, <2>1, FrameQuiet DEF IndInv
<1>29. Once'
  <2>1. ~NoStart(t, Unbound)
    BY <1>1, <1>2 DEF NoStart, Unbound
  <2>2. ~Reached(t)
    BY <2>1 DEF IndInv, Once
  <2>3. \A d \in Callers : call'[d].kind = "start" /\ call'[d].task = t => d = c
    BY <1>8, <1>10, <1>19 DEF OneStart
  <2>4. \A S : "wait" \notin S => NoStart(t, S)'
    BY <1>4, <1>8, <1>10, <1>15, <2>3 DEF NoStart
  <2>5. \A o \in Ops \ {t} : Reached(o)' => Reached(o)
    BY <1>1, <1>11 DEF Reached, server
  <2>6. ASSUME NEW u \in Tasks
        PROVE  /\ begun'[u] <= 1
               /\ begun'[u] # 0 => NoStart(u, {"retire", "admit", "refused", "thread"})'
               /\ Reached(u)' => NoStart(u, Unbound)'
               /\ ~Exists(u)' => Remembered(rec'[u]) = {}
    <3>1. begun'[u] <= 1 /\ (~Exists(u)' => Remembered(rec'[u]) = {})
      BY <1>1, <1>15 DEF IndInv, Once, server
    <3>2. CASE u = t
      BY <2>4, <3>1, <3>2 DEF Unbound
    <3>3. CASE u # t
      <4>1. \A S : NoStart(u, S) => NoStart(u, S)'
        BY <1>2, <1>8, <1>10, <1>15, <3>3 DEF NoStart
      <4>2. /\ begun'[u] # 0 => NoStart(u, {"retire", "admit", "refused", "thread"})
            /\ Reached(u)' => NoStart(u, Unbound)
        BY <1>1, <2>5, <3>3, Names DEF IndInv, Once, server
      <4> QED
        BY <3>1, <4>1, <4>2
    <3> QED
      BY <3>2, <3>3
  <2>7. \A o \in Ops : served'[o] <= 1 /\ (wire'[o].state = "sent" => served'[o] = 0)
    BY <1>1, <1>11, <2>2 DEF IndInv, Once, Reached, server
  <2>8. ASSUME NEW o \in Controls, Reached(o)'
        PROVE  /\ o \in Remembered(rec'[Target[o]])
               /\ \A d \in Callers : call'[d].kind \in Steers /\ call'[d].op = o
                                       => call'[d].pc \notin {"ensure", "attach", "send"}
    <3>1. Reached(o) /\ Target[o] \in Tasks
      BY <2>5, <2>8, Names
    <3>2. \A d \in Callers : call'[d].kind \in Steers => call'[d] = call[d]
      BY <1>8, <1>10 DEF Steers
    <3> QED
      BY <1>15, <3>1, <3>2 DEF IndInv, Once
  <2> QED
    BY <2>6, <2>7, <2>8 DEF Once
<1> QED
  BY <1>16, <1>19, <1>20, <1>21, <1>22, <1>26, <1>27, <1>28, <1>29 DEF IndInv, Base

-----------------------------------------------------------------------------
(* The invariant holds. *)

LEMMA InitInv == Init => IndInv
<1> SUFFICES ASSUME Init PROVE IndInv
  OBVIOUS
<1>1. /\ NoRecord \in Record /\ NoRecord.status = "missing" /\ NoRecord.thread = None
      /\ NoRecord.claim = None /\ NoRecord.ops = <<>> /\ NoRecord.tombs = {}
  BY DEF NoRecord, Record, Statuses
<1>2. /\ NoWire \in Wire /\ NoWire.state = "none" /\ NoAsk \in Ask /\ NoAsk.stage = "none"
  BY DEF NoWire, Wire, NoAsk, Ask
<1>3. Remembered(NoRecord) = {}
  BY <1>1 DEF Remembered
<1>4. /\ \A t \in Tasks : rec[t] = NoRecord /\ ask[t] = NoAsk /\ begun[t] = 0
      /\ \A p \in Procs, t \in Tasks : reg[p][t] = "none"
      /\ \A c \in Callers : call[c] = Idle
      /\ \A o \in Ops : wire[o] = NoWire /\ served[o] = 0
  BY DEF Init
<1>5. TypeOK
  BY <1>1, <1>2, IdleFields DEF Init, TypeOK
<1>6. CallShape /\ OneStart /\ OneControl
  BY <1>4, IdleFields DEF CallShape, Shape, OneStart, OneControl, Steers
<1>7. Threaded /\ OneLease
  BY <1>2, <1>4, IdleFields DEF Threaded, OneLease, Leased
<1>8. \A t \in Tasks : ~Exists(t) /\ rec[t].thread = None /\ rec[t].claim = None
  BY <1>1, <1>4 DEF Exists
<1>9. Threads /\ OneLeaf /\ ContinuedIsQuiet
  BY <1>8 DEF Threads, OneLeaf, ContinuedIsQuiet, Continued
<1>10. Once
  <2>1. \A o \in Ops : ~Reached(o) /\ served[o] = 0 /\ wire[o].state = "none"
    BY <1>2, <1>4 DEF Reached
  <2> QED
    BY <1>3, <1>4, <2>1, Names DEF Once
<1> QED
  BY <1>5, <1>6, <1>7, <1>9, <1>10 DEF IndInv, Base

LEMMA StutterInv ==
  ASSUME IndInv, UNCHANGED vars
  PROVE  IndInv'
<1>1. /\ rec' = rec /\ reg' = reg /\ call' = call /\ wire' = wire /\ ask' = ask
      /\ turns' = turns /\ news' = news /\ begun' = begun /\ served' = served
  BY DEF vars, server
<1>2. TypeOK'
  BY <1>1 DEF IndInv, Base, TypeOK
<1>3. CallShape' /\ OneStart' /\ OneControl'
  BY <1>1 DEF IndInv, Base, CallShape, Shape, Exists, StartShape, RequestShape,
              OneStart, OneControl
<1>4. Threaded' /\ OneLease'
  BY <1>1 DEF IndInv, Base, Threaded, OneLease, Leased
<1>5. Threads' /\ OneLeaf'
  BY <1>1 DEF IndInv, Threads, OneLeaf, Conversation, Continued, Exists
<1>6. ContinuedIsQuiet'
  BY <1>1 DEF IndInv, ContinuedIsQuiet, Continued, Exists, At
<1>7. Once'
  BY <1>1 DEF IndInv, Once, NoStart, Reached, Exists
<1> QED
  BY <1>2, <1>3, <1>4, <1>5, <1>6, <1>7 DEF IndInv, Base

LEMMA NextInv == IndInv /\ [Next]_vars => IndInv'
<1> SUFFICES ASSUME IndInv, [Next]_vars PROVE IndInv'
  OBVIOUS
<1>1. ASSUME NEW c \in Callers, StartStep(c)
      PROVE  IndInv'
  BY <1>1, RetireInv, AdmissionFailsInv, RefusalSavedInv, SpawnInv, SpawnFailsInv,
     ThreadServedInv, BindThreadInv, StartRepliedInv, StartFailsInv, InsertRuntimeInv
     DEF StartStep
<1>2. ASSUME NEW c \in Callers, RuntimeStep(c)
      PROVE  IndInv'
  BY <1>2, UseRuntimeInv, OwnedElsewhereInv, AttachInv, AttachedInv, AttachFailsInv
     DEF RuntimeStep
<1>3. ASSUME NEW c \in Callers, RequestStep(c)
      PROVE  IndInv'
  BY <1>3, OrphanSavedInv, SendInv, ReadInv, RequestFailsInv, FailureSavedInv,
     ControlAppliedInv, GetAppliedInv DEF RequestStep
<1>4. ASSUME NEW c \in Callers, NEW t \in Tasks,
             StartAccept(c, t) \/ StartTorn(c, t) \/ RetryStart(c, t) \/ GetAccept(c, t)
      PROVE  IndInv'
  BY <1>4, StartAcceptInv, StartTornInv, RetryStartInv, GetAcceptInv
<1>5. ASSUME NEW c \in Callers, NEW o \in Controls, ControlAccept(c, o)
      PROVE  IndInv'
  BY <1>5, ControlAcceptInv
<1>6. ASSUME NEW p \in Procs, NEW t \in Tasks,
             RuntimeDies(p, t) \/ LifetimeOver(p, t) \/ ActorEnds(p, t) \/ Asks(p, t)
      PROVE  IndInv'
  BY <1>6, RuntimeDiesInv, LifetimeOverInv, ActorEndsInv, AsksInv
<1>7. ASSUME NEW p \in Procs, Crash(p)
      PROVE  IndInv'
  BY <1>7, CrashInv
<1>8. ASSUME NEW o \in Ops, Serve(o)
      PROVE  IndInv'
  BY <1>8, ServeInv
<1>9. ASSUME NEW t \in Tasks,
             TurnEnds(t) \/ Notification(t) \/ AskBound(t) \/ AskWaits(t) \/ AskDecided(t)
      PROVE  IndInv'
  BY <1>9, TurnEndsInv, NotificationInv, AskBoundInv, AskWaitsInv, AskDecidedInv
<1>10. CASE UNCHANGED vars
  BY <1>10, StutterInv
<1> QED
  BY <1>1, <1>2, <1>3, <1>4, <1>5, <1>6, <1>7, <1>8, <1>9, <1>10 DEF Next

LEMMA Invariance == Spec => []IndInv
  BY InitInv, NextInv, PTL DEF Spec

\* Every variable keeps its shape: no reply, notification, approval or crash,
\* in whatever order, leaves a record, call or request out of its type.
THEOREM TypeCorrect == Spec => []TypeOK
<1>1. IndInv => TypeOK
  BY DEF IndInv, Base
<1> QED
  BY <1>1, Invariance, PTL

\* However often a start or a control is repeated, to whichever process, and
\* whatever crashed, timed out, failed or was compacted in between, the
\* app-server gets one thread/start and one turn request for it.
THEOREM OnceCorrect == Spec => []AtMostOnce
<1>1. IndInv => AtMostOnce
  BY DEF IndInv, Once, AtMostOnce
<1> QED
  BY <1>1, Invariance, PTL

-----------------------------------------------------------------------------
(* One app-server at a conversation. *)

\* A child that is not a registered runtime's comes with the lease.
LEMMA OwnHoldsLease ==
  ASSUME IndInv, NEW c \in Callers, call[c].client = "own"
  PROVE  call[c].lease
<1>1. call[c] \in Call /\ Shape(c) /\ call[c] # Idle
  BY IdleFields DEF IndInv, Base, TypeOK, CallShape
<1>2. call[c].kind = "start" \/ call[c].kind \in Steers \cup {"get"}
  BY <1>1 DEF Shape, Call, Kinds, Steers
<1>3. CASE call[c].kind = "start"
  BY <1>1, <1>3 DEF Shape, StartShape
<1>4. CASE call[c].kind \in Steers \cup {"get"}
  BY <1>1, <1>4 DEF Shape, RequestShape
<1> QED
  BY <1>2, <1>3, <1>4

\* A task has at most one child.
LEMMA OneChild ==
  ASSUME IndInv, NEW t \in Tasks, NEW d \in Drivers(t), NEW e \in Drivers(t)
  PROVE  d = e
<1>1. \A x \in Drivers(t) : \/ \E p \in Procs : x = <<"runtime", p>> /\ reg[p][t] # "none"
                            \/ \E c \in Callers : x = <<"call", c>> /\ Leased(c, t)
  BY OwnHoldsLease DEF Drivers, Leased
<1>2. /\ \A p, q \in Procs : reg[p][t] # "none" /\ reg[q][t] # "none" => p = q
      /\ \A b, c \in Callers : Leased(b, t) /\ Leased(c, t) => b = c
      /\ \A p \in Procs, c \in Callers : reg[p][t] # "none" => ~Leased(c, t)
  BY DEF IndInv, OneLease
<1> QED
  BY <1>1, <1>2

\* A continued task that still has its child has a successor that waits for
\* the end of it, and has none of its own.
LEMMA SuccessorWaits ==
  ASSUME IndInv, NEW s \in Tasks, Continued(s), Drivers(s) # {}
  PROVE  \E v \in Tasks : /\ Exists(v) /\ Source[v] = s /\ ~Continued(v)
                          /\ Drivers(v) = {} /\ Conversation(v) = Conversation(s)
<1>1. PICK p \in Procs : reg[p][s] # "none"
  BY DEF Drivers, IndInv, ContinuedIsQuiet
<1>2. PICK c \in Callers : At(c, "start", "retire") /\ call[c].task = rec[s].claim
  BY <1>1 DEF IndInv, ContinuedIsQuiet
<1>3. PICK v \in Tasks : v = call[c].task
  BY <1>2, StartFacts DEF At
<1>4. /\ Exists(v) /\ call[c].lease /\ call[c].client = "none"
      /\ rec[v].status \in {"accepted", "reconcile"} /\ rec[v].thread = None
  BY <1>2, <1>3, StartFacts DEF At, StartShape, Unbound
<1>5. Source[v] = s /\ s # None
  BY <1>2, <1>3, Names DEF IndInv, Threads
<1>6. rec[s].thread # None /\ rec[s].thread = Conversation(s)
  BY <1>2, <1>3, Names DEF IndInv, Threads
<1>7. Conversation(v) = Conversation(s)
  BY <1>5, <1>6 DEF Conversation
<1>8. ~Continued(v)
  BY <1>4 DEF IndInv, Threads, Continued
<1>9. Leased(c, v)
  BY <1>3, <1>4 DEF Leased
<1>10. \A q \in Procs : reg[q][v] = "none"
  BY <1>9 DEF IndInv, OneLease
<1>11. \A d \in Callers : call[d].task = v => call[d].client # "own"
  <2> SUFFICES ASSUME NEW d \in Callers, call[d].task = v, call[d].client = "own" PROVE FALSE
    OBVIOUS
  <2>1. Leased(d, v)
    BY OwnHoldsLease DEF Leased
  <2>2. d = c
    BY <1>9, <2>1 DEF IndInv, OneLease
  <2> QED
    BY <1>4, <2>2
<1>12. Drivers(v) = {}
  BY <1>10, <1>11 DEF Drivers
<1> QED
  BY <1>4, <1>5, <1>7, <1>8, <1>12

\* A continued task that has its child is alone with its conversation.
LEMMA ContinuedIsAlone ==
  ASSUME IndInv, NEW t \in Tasks, NEW u \in Tasks, Exists(u), t # u,
         Conversation(t) = Conversation(u), Continued(t), Drivers(t) # {}, Drivers(u) # {}
  PROVE  FALSE
<1>1. PICK v \in Tasks : /\ Exists(v) /\ Source[v] = t /\ ~Continued(v)
                         /\ Drivers(v) = {} /\ Conversation(v) = Conversation(t)
  BY SuccessorWaits
<1>2. Continued(u)
  BY <1>1 DEF IndInv, OneLeaf
<1>3. PICK w \in Tasks : /\ Exists(w) /\ Source[w] = u /\ ~Continued(w)
                         /\ Drivers(w) = {} /\ Conversation(w) = Conversation(u)
  BY <1>2, SuccessorWaits
<1> QED
  BY <1>1, <1>3 DEF IndInv, OneLeaf

\* No conversation has two app-servers at it: the flock lease keeps a second
\* process away from a task, and the start of a successor waits until the
\* runtime of its source has shut down.
THEOREM DriverCorrect == Spec => []OneDriver
<1>1. IndInv => OneDriver
  <2> SUFFICES ASSUME IndInv, NEW t \in Tasks, NEW u \in Tasks, Exists(t), Exists(u),
                      Conversation(t) = Conversation(u),
                      NEW d \in Drivers(t), NEW e \in Drivers(u)
               PROVE  t = u /\ d = e
    BY DEF OneDriver
  <2>1. CASE t = u
    BY <2>1, OneChild
  <2>2. CASE t # u
    <3>1. Continued(t) \/ Continued(u)
      BY <2>2 DEF IndInv, OneLeaf
    <3>2. Drivers(t) # {} /\ Drivers(u) # {}
      OBVIOUS
    <3> QED
      BY <2>2, <3>1, <3>2, ContinuedIsAlone
  <2> QED
    BY <2>1, <2>2
<1> QED
  BY <1>1, Invariance, PTL

-----------------------------------------------------------------------------
(* Terminal statuses. *)

Steady == \A t \in Tasks : Terminal(rec[t].status) => rec'[t].status = rec[t].status

\* One record is written, and a terminal one keeps its status.
LEMMA SteadyWrite ==
  ASSUME IndInv, NEW t \in Tasks, NEW q, rec' = [rec EXCEPT ![t] = q],
         Terminal(rec[t].status) => q.status = rec[t].status
  PROVE  Steady
<1>1. rec \in [Tasks -> Record]
  BY DEF IndInv, Base, TypeOK
<1> QED
  BY <1>1 DEF Steady

\* A start that has not bound its thread is not terminal.
LEMMA UnboundIsOpen ==
  ASSUME IndInv, NEW c \in Callers, call[c].kind = "start", call[c].pc \in Unbound
  PROVE  call[c].task \in Tasks /\ ~Terminal(rec[call[c].task].status)
  BY StartFacts DEF StartShape, Terminal

LEMMA StartSteady ==
  ASSUME IndInv, NEW c \in Callers, StartStep(c)
  PROVE  Steady
<1>1. ASSUME Retire(c) \/ RefusalSaved(c)
      PROVE  Steady
  <2>1. call[c].task \in Tasks /\ ~Terminal(rec[call[c].task].status)
    BY <1>1, UnboundIsOpen DEF Retire, RefusalSaved, At, Unbound
  <2> QED
    BY <1>1, <2>1, SteadyWrite DEF Retire, RefusalSaved, Steady
<1>2. ASSUME SpawnFails(c)
      PROVE  Steady
  BY <1>2, StartFacts, SteadyWrite DEF SpawnFails, At
<1>3. ASSUME BindThread(c)
      PROVE  Steady
  <2>1. call[c].task \in Tasks /\ ~Terminal(rec[call[c].task].status)
    BY <1>3, UnboundIsOpen DEF BindThread, At, Unbound
  <2> QED
    BY <1>3, <2>1, SteadyWrite DEF BindThread
<1>4. ASSUME StartReplied(c)
      PROVE  Steady
  BY <1>4, StartFacts, SteadyWrite DEF StartReplied, At, TurnStarted
<1>5. ASSUME StartFails(c)
      PROVE  Steady
  BY <1>5, StartFacts, SteadyWrite DEF StartFails
<1>6. ASSUME AdmissionFails(c) \/ Spawn(c) \/ ThreadServed(c) \/ InsertRuntime(c)
      PROVE  Steady
  BY <1>6 DEF AdmissionFails, Spawn, ThreadServed, InsertRuntime, Steady
<1> QED
  BY <1>1, <1>2, <1>3, <1>4, <1>5, <1>6 DEF StartStep

LEMMA RequestSteady ==
  ASSUME IndInv, NEW c \in Callers, RuntimeStep(c) \/ RequestStep(c)
  PROVE  Steady
<1>1. ASSUME OrphanSaved(c)
      PROVE  Steady
  BY <1>1, RequestFacts, SteadyWrite DEF OrphanSaved, At
<1>2. ASSUME FailureSaved(c)
      PROVE  Steady
  <2> DEFINE t == call[c].task
             q == [rec[t] EXCEPT !.status = IF Terminal(@) THEN @
                                            ELSE IF call[c].kind = "get" THEN "unknown"
                                                 ELSE "reconcile"]
  <2>1. rec' = [rec EXCEPT ![t] = q] /\ call[c].kind # "start" /\ call[c].pc = "fail"
    BY <1>2, StartFacts DEF FailureSaved, StartShape, Unbound, Bound
  <2>2. t \in Tasks /\ rec[t] \in Record
    BY <2>1, RequestFacts
  <2>3. Terminal(rec[t].status) => q.status = rec[t].status
    BY <2>2 DEF Record
  <2> HIDE DEF q, t
  <2> QED
    BY <2>1, <2>2, <2>3, SteadyWrite
<1>3. ASSUME ControlApplied(c)
      PROVE  Steady
  <2>1. call[c].kind # "start" /\ call[c].pc # "idle"
    BY <1>3 DEF ControlApplied
  <2> QED
    BY <1>3, <2>1, RequestFacts, SteadyWrite DEF ControlApplied, Controlled
<1>4. ASSUME GetApplied(c)
      PROVE  Steady
  BY <1>4, RequestFacts, SteadyWrite DEF GetApplied, At, Reconciled
<1>5. CASE UNCHANGED rec
  BY <1>5 DEF Steady
<1>6. RuntimeStep(c) \/ Send(c) \/ Read(c) \/ RequestFails(c) => UNCHANGED rec
  BY DEF RuntimeStep, UseRuntime, OwnedElsewhere, Attach, Attached, AttachFails,
         Send, Read, RequestFails
<1> QED
  BY <1>1, <1>2, <1>3, <1>4, <1>5, <1>6 DEF RequestStep

LEMMA AcceptSteady ==
  ASSUME IndInv, NEW c \in Callers, NEW t \in Tasks,
         StartAccept(c, t) \/ StartTorn(c, t) \/ RetryStart(c, t) \/ GetAccept(c, t)
  PROVE  Steady
<1>1. rec \in [Tasks -> Record] /\ Source[t] \in Tasks \cup {None} /\ Source[t] # t
  BY OperationAssumption DEF IndInv, Base, TypeOK
<1>2. ASSUME NEW s \in Tasks
      PROVE  [rec[s] EXCEPT !.claim = t].status = rec[s].status
  BY <1>1 DEF Record
<1>3. CASE StartAccept(c, t)
  <2>1. ~Terminal(rec[t].status)
    BY <1>3 DEF StartAccept, Exists, Terminal
  <2>2. CASE Source[t] = None
    BY <1>3, <2>1, <2>2, SteadyWrite DEF StartAccept
  <2>3. CASE Source[t] # None
    <3>1. PICK s \in Tasks : s = Source[t] /\ s # t
      BY <1>1, <2>3
    <3>2. rec' = [rec EXCEPT ![s].claim = t, ![t] = NewRecord(t)]
      BY <1>3, <2>3, <3>1 DEF StartAccept
    <3>3. /\ rec'[s] = [rec[s] EXCEPT !.claim = t]
          /\ \A u \in Tasks \ {s, t} : rec'[u] = rec[u]
      BY <1>1, <3>1, <3>2
    <3> QED
      BY <1>2, <2>1, <3>3 DEF Steady
  <2> QED
    BY <2>2, <2>3
<1>4. CASE StartTorn(c, t)
  <2>1. PICK s \in Tasks : s = Source[t]
    BY <1>1, <1>4 DEF StartTorn
  <2> DEFINE q == [rec[s] EXCEPT !.claim = t]
  <2>2. rec' = [rec EXCEPT ![s] = q] /\ q.status = rec[s].status
    BY <1>2, <1>4, <2>1 DEF StartTorn
  <2> HIDE DEF q
  <2> QED
    BY <2>2, SteadyWrite
<1>5. CASE RetryStart(c, t)
  <2>1. ~Terminal(rec[t].status)
    BY <1>5 DEF RetryStart, Retryable, Terminal
  <2> QED
    BY <1>5, <2>1, SteadyWrite DEF RetryStart
<1>6. CASE GetAccept(c, t)
  BY <1>6 DEF GetAccept, Steady
<1> QED
  BY <1>3, <1>4, <1>5, <1>6

LEMMA AppSteady ==
  ASSUME IndInv, NEW t \in Tasks,
         TurnEnds(t) \/ Notification(t) \/ AskBound(t) \/ AskWaits(t) \/ AskDecided(t)
  PROVE  Steady
<1>1. rec[t] \in Record
  BY DEF IndInv, Base, TypeOK
<1>2. CASE Notification(t)
  BY <1>2, SteadyWrite DEF Notification, Notified
<1>3. CASE AskBound(t)
  <2>1. ~Terminal(rec[t].status) \/ UNCHANGED rec
    BY <1>3 DEF AskBound
  <2>2. CASE UNCHANGED rec
    BY <2>2 DEF Steady
  <2>3. CASE ~Terminal(rec[t].status) /\ rec' # rec
    BY <1>3, <2>3, SteadyWrite DEF AskBound
  <2> QED
    BY <2>1, <2>2, <2>3
<1>4. CASE AskWaits(t)
  <2> DEFINE q == [rec[t] EXCEPT !.status = IF Terminal(@) THEN @ ELSE "waiting"]
  <2>1. rec' = [rec EXCEPT ![t] = q] /\ (Terminal(rec[t].status) => q.status = rec[t].status)
    BY <1>1, <1>4 DEF AskWaits, Record
  <2> HIDE DEF q
  <2> QED
    BY <2>1, SteadyWrite
<1>5. CASE AskDecided(t)
  <2> DEFINE q == [rec[t] EXCEPT !.status = IF @ = "waiting" THEN "running" ELSE @]
  <2>1. rec' = [rec EXCEPT ![t] = q] /\ (Terminal(rec[t].status) => q.status = rec[t].status)
    BY <1>1, <1>5 DEF AskDecided, Record, Terminal
  <2> HIDE DEF q
  <2> QED
    BY <2>1, SteadyWrite
<1>6. CASE TurnEnds(t)
  BY <1>6 DEF TurnEnds, Steady
<1> QED
  BY <1>2, <1>3, <1>4, <1>5, <1>6

\* The one way out of a terminal status.
Reopened(t) ==
  /\ rec[t].status # "failed" /\ rec[t].claim = None
  /\ rec'[t].prev = rec[t].turn /\ rec'[t].turn = None
  /\ Unsettled(rec'[t])

LEMMA ControlReopens ==
  ASSUME IndInv, NEW c \in Callers, NEW o \in Controls, ControlAccept(c, o),
         NEW t \in Tasks, Terminal(rec[t].status), rec'[t].status # rec[t].status
  PROVE  Reopened(t)
<1> DEFINE q == [rec[t] EXCEPT !.prev = rec[t].turn, !.turn = None, !.status = "reconcile"]
<1>1. rec \in [Tasks -> Record] /\ rec[t] \in Record /\ o \in Ops /\ Target[o] \in Tasks
  BY Names DEF IndInv, Base, TypeOK
<1>2. t = Target[o] /\ Controllable(o)
  BY <1>1 DEF ControlAccept
<1>3. CASE Reopens(o)
  <2>1. rec'[t] = Push(q, o)
    BY <1>1, <1>2, <1>3 DEF ControlAccept
  <2>2. q \in Record /\ q.prev = rec[t].turn /\ q.turn = None
    BY <1>1 DEF Record, Statuses
  <2> HIDE DEF q
  <2>3. /\ rec'[t].prev = rec[t].turn /\ rec'[t].turn = None /\ Unsettled(rec'[t])
    BY <1>1, <2>1, <2>2, PushFields
  <2> QED
    BY <1>2, <1>3, <2>3 DEF Reopens, Controllable, Reopened
<1>4. CASE ~Reopens(o)
  BY <1>2, <1>4 DEF Controllable, Terminal
<1> QED
  BY <1>3, <1>4

\* A task that ended stays ended for every late reply, failure, notification,
\* approval and reconciling read: only a steer accepted for a completed or
\* interrupted task that nobody continues gives it another turn, and that
\* steer's receipt is unsettled and fences the turn before it.
THEOREM TerminalCorrect == Spec => TerminalStays
<1>1. ASSUME IndInv, [Next]_vars, NEW t \in Tasks,
             Terminal(rec[t].status), rec'[t].status # rec[t].status
      PROVE  Reopened(t)
  <2>1. ~Steady
    BY <1>1 DEF Steady
  <2>2. UNCHANGED rec => Steady
    BY DEF Steady
  <2>3. ASSUME NEW p \in Procs, Crash(p) PROVE UNCHANGED rec
    BY <2>3 DEF Crash
  <2>4. ASSUME NEW p \in Procs, NEW u \in Tasks,
               RuntimeDies(p, u) \/ LifetimeOver(p, u) \/ ActorEnds(p, u) \/ Asks(p, u)
        PROVE  UNCHANGED rec
    BY <2>4 DEF RuntimeDies, LifetimeOver, ActorEnds, Asks
  <2>5. ASSUME NEW o \in Ops, Serve(o) PROVE UNCHANGED rec
    BY <2>5 DEF Serve
  <2>6. UNCHANGED vars => UNCHANGED rec
    BY DEF vars
  <2>7. PICK c \in Callers, o \in Controls : ControlAccept(c, o)
    BY <1>1, <2>1, <2>2, <2>3, <2>4, <2>5, <2>6, StartSteady, RequestSteady, AcceptSteady,
       AppSteady DEF Next
  <2> QED
    BY <1>1, <2>7, ControlReopens
<1>2. IndInv /\ [Next]_vars =>
        [\A t \in Tasks : Terminal(rec[t].status) /\ rec'[t].status # rec[t].status =>
           /\ rec[t].status # "failed" /\ rec[t].claim = None
           /\ rec'[t].prev = rec[t].turn /\ rec'[t].turn = None
           /\ Unsettled(rec'[t])]_vars
  BY <1>1 DEF Reopened
<1> QED
  BY <1>2, Invariance, PTL DEF Spec, TerminalStays
=============================================================================
