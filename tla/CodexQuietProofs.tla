--------------------------- MODULE CodexQuietProofs ---------------------------
(***************************************************************************)
(* The proof of TerminalIsQuiet, for any processes, callers, tasks, chains *)
(* of continued tasks, controls and history length.                        *)
(*                                                                         *)
(* A steer that reopens a task gives it a second turn, and then the        *)
(* property is false; it is proved for the behaviours without one          *)
(* ([]Calm).  Everybody who is about to call a task terminal has seen its  *)
(* turn end, or knows that it never began: a notification of the end, the  *)
(* answer to an interrupt, what task_get or a resume has read, a start     *)
(* that gives up.  All of these are stale when they are used, and right    *)
(* nevertheless, because what they have seen is for good (Quiet).          *)
(***************************************************************************)
EXTENDS CodexTaskProofs

\* No steer under way opens a turn.
Calm == \A c \in Callers : call[c].kind = "steer" => call[c].turn # None

\* The start of t has bound its thread or has failed.
Over(t) == rec[t].thread # None \/ rec[t].status = "failed"

\* The turn of t has ended, or will never begin.
Quiet(t) == /\ Over(t) /\ wire[t].state # "sent"
            /\ \A h \in Tasks : ~RunningTurn(h, t)

\* A call that has read another task's turn, or a terminal status, may rely
\* on it; and the start of the task a request is for is not waiting.
Knows(k) ==
  /\ k.prev = None
  /\ k.kind \in {"steer", "interrupt"} => k.turn # None
  /\ Terminal(k.status) \/ k.turn \notin {None, k.task} =>
       \E t \in Tasks : k.task = t /\ Quiet(t)
  /\ k.kind \in Steers \cup {"get"} /\ k.pc # "orphan" =>
       \E t \in Tasks : k.task = t /\ rec[t].thread # None /\ wire[t].state # "sent"
Known == \A c \in Callers : Knows(call[c])

\* A turn/start has the start call that waits for its answer, and nothing
\* else opens a turn.
Sent ==
  /\ \A t \in Tasks : wire[t].state = "sent" =>
       \E c \in Callers : At(c, "start", "wait") /\ call[c].task = t
  /\ \A o \in Ops : wire[o].state # "none" /\ wire[o].turn = None => o \in Tasks

\* An interrupt that was answered has ended the turn.
Halted ==
  \A o \in Controls : Action[o] = "interrupt" /\ wire[o].state = "ok" => Quiet(Target[o])

\* A turn is in the thread of its task; it runs in the task's child, and only
\* continued tasks have turns behind theirs.
Turn(h, i) ==
  \E u \in Tasks :
    /\ turns[h][i].op = u /\ rec[u].thread = h /\ served[u] # 0
    /\ turns[h][i].status = "running" => Alive(u)
    /\ \A j \in DOMAIN turns[h] : i < j => Continued(u)
Thread(h) == \A i \in DOMAIN turns[h] : Turn(h, i)

\* A notification is for the task whose child is there to be read.
Item(h, i) ==
  \E u \in Tasks :
    /\ news[h][i].turn = u /\ rec[u].thread = h /\ Alive(u)
    /\ Terminal(news[h][i].status) => Quiet(u)
Unread(h) == \A i \in DOMAIN news[h] : Item(h, i)

Own(t) ==
  /\ rec[t].prev = None /\ ask[t].turn \in {None, t}
  /\ Terminal(rec[t].status) \/ rec[t].turn \notin {None, t} => Quiet(t)

QuietInv ==
  /\ Known /\ Sent /\ Halted
  /\ \A h \in Tasks : Thread(h) /\ Unread(h) /\ Own(h)

-----------------------------------------------------------------------------
(* What a step does. *)

\* A record is written by somebody who may.
Writes(t) ==
  /\ rec[t].thread # None => rec'[t].thread = rec[t].thread
  /\ rec[t].claim # None => rec'[t].claim = rec[t].claim
  /\ Exists(t) => Exists(t)'
  /\ rec[t].status = "failed" => rec'[t].status = "failed"
  /\ rec'[t].prev = None
  /\ Terminal(rec'[t].status) => Terminal(rec[t].status) \/ Quiet(t) \/ Quiet(t)'
  /\ rec'[t].turn \in {rec[t].turn, None, t} \/ Quiet(t)

\* The start that waits for the answer to turn/start goes on waiting.
Stands(c) ==
  At(c, "start", "wait") =>
    \/ At(c, "start", "wait")' /\ call'[c].task = call[c].task
    \/ \E t \in Tasks : call[c].task = t /\ wire'[t].state # "sent"

WireFalls == \A o \in Ops : wire'[o] = wire[o] \/ wire'[o].state = "none"

TurnsFall ==
  \A h \in Tasks :
    /\ DOMAIN turns'[h] = DOMAIN turns[h]
    /\ \A i \in DOMAIN turns[h] :
         /\ turns'[h][i].op = turns[h][i].op
         /\ turns'[h][i].status = "running" => turns[h][i].status = "running"

NewsFall == \A h \in Tasks : news'[h] = news[h] \/ news'[h] = <<>>

\* The child of a task lives on, or its thread is wound up.
WoundUp(h) == news'[h] = <<>> /\ \A i \in DOMAIN turns'[h] : turns'[h][i].status # "running"
Kids == \A u, h \in Tasks : rec[u].thread = h /\ Alive(u) => Alive(u)' \/ WoundUp(h)

\* No turn begins that was not asked for.
TurnsBegin == \A h, t \in Tasks : RunningTurn(h, t)' => RunningTurn(h, t) \/ wire[t].state = "sent"
\* No request goes out for a task that has bound its thread.
SendsFresh == \A t \in Tasks : Over(t) /\ wire'[t].state = "sent" => wire[t].state = "sent"

-----------------------------------------------------------------------------
(* What stays. *)

QuietLasts == \A t \in Tasks : Quiet(t) => Quiet(t)'
ContinuedLasts == \A t \in Tasks : Continued(t) => Continued(t)'

LEMMA QuietStays ==
  ASSUME \A t \in Tasks : Writes(t), SendsFresh, TurnsBegin
  PROVE  QuietLasts
<1>1. \A t \in Tasks : Over(t) => Over(t)'
  BY DEF Writes, Over
<1> QED
  BY <1>1 DEF Quiet, QuietLasts, SendsFresh, TurnsBegin

LEMMA ContinuedStays ==
  ASSUME IndInv, \A t \in Tasks : Writes(t)
  PROVE  ContinuedLasts
<1> SUFFICES ASSUME NEW t \in Tasks, Continued(t) PROVE Continued(t)'
  BY DEF ContinuedLasts
<1>1. PICK u \in Tasks : u = rec[t].claim
  BY DEF Continued, IndInv, Base, TypeOK, Record
<1>2. rec'[t].claim = u /\ Exists(u)' /\ u # None
  BY <1>1, Names DEF Writes, Continued
<1> QED
  BY <1>2 DEF Continued, Exists

LEMMA KnownStays ==
  ASSUME \A t \in Tasks : Writes(t), SendsFresh, QuietLasts, \A c \in Callers : Knows(call'[c])
  PROVE  Known'
<1> SUFFICES ASSUME NEW c \in Callers PROVE Knows(call[c])'
  BY DEF Known
<1> DEFINE k == call'[c]
<1>1. Knows(k)
  OBVIOUS
<1>2. ASSUME Terminal(k.status) \/ k.turn \notin {None, k.task}
      PROVE  \E t \in Tasks : k.task = t /\ Quiet(t)'
  BY <1>1, <1>2 DEF Knows, QuietLasts
<1>3. ASSUME k.kind \in Steers \cup {"get"} /\ k.pc # "orphan"
      PROVE  \E t \in Tasks : k.task = t /\ rec'[t].thread # None /\ wire'[t].state # "sent"
  BY <1>1, <1>3 DEF Knows, Writes, SendsFresh, Over
<1>4. k.prev = None /\ (k.kind \in {"steer", "interrupt"} => k.turn # None)
  BY <1>1 DEF Knows
<1> QED
  BY <1>2, <1>3, <1>4 DEF Knows

LEMMA OwnStays ==
  ASSUME QuietInv, \A t \in Tasks : Writes(t), QuietLasts,
         \A t \in Tasks : ask'[t].turn \in {None, t}
  PROVE  \A t \in Tasks : Own(t)'
<1> SUFFICES ASSUME NEW t \in Tasks PROVE Own(t)'
  OBVIOUS
<1>1. Own(t) /\ Writes(t)
  BY DEF QuietInv
<1>2. Quiet(t) => Quiet(t)'
  BY DEF QuietLasts
<1>3. Terminal(rec'[t].status) \/ rec'[t].turn \notin {None, t} => Quiet(t)'
  BY <1>1, <1>2 DEF Own, Writes
<1> QED
  BY <1>1, <1>3 DEF Own, Writes

LEMMA ThreadsFall ==
  ASSUME IndInv, QuietInv, \A t \in Tasks : Writes(t), TurnsFall, Kids, ContinuedLasts,
         \A o \in Ops : served[o] # 0 => served'[o] # 0
  PROVE  \A h \in Tasks : Thread(h)'
<1> SUFFICES ASSUME NEW h \in Tasks, NEW i \in DOMAIN turns'[h] PROVE Turn(h, i)'
  BY DEF Thread
<1>1. /\ i \in DOMAIN turns[h] /\ turns'[h][i].op = turns[h][i].op
      /\ turns'[h][i].status = "running" => turns[h][i].status = "running"
      /\ DOMAIN turns'[h] = DOMAIN turns[h]
  BY DEF TurnsFall
<1>2. PICK u \in Tasks :
        /\ turns[h][i].op = u /\ rec[u].thread = h /\ served[u] # 0
        /\ turns[h][i].status = "running" => Alive(u)
        /\ \A j \in DOMAIN turns[h] : i < j => Continued(u)
  BY <1>1 DEF QuietInv, Thread, Turn
<1>3. rec'[u].thread = h /\ served'[u] # 0
  BY <1>2, Names DEF Writes
<1>4. turns'[h][i].status = "running" => Alive(u)'
  BY <1>1, <1>2 DEF Kids, WoundUp
<1>5. \A j \in DOMAIN turns'[h] : i < j => Continued(u)'
  BY <1>1, <1>2 DEF ContinuedLasts
<1> QED
  BY <1>1, <1>2, <1>3, <1>4, <1>5 DEF Turn

LEMMA NewsFalls ==
  ASSUME QuietInv, \A t \in Tasks : Writes(t), NewsFall, Kids, QuietLasts
  PROVE  \A h \in Tasks : Unread(h)'
<1> SUFFICES ASSUME NEW h \in Tasks, NEW i \in DOMAIN news'[h] PROVE Item(h, i)'
  BY DEF Unread
<1>1. news'[h] = news[h] /\ news'[h] # <<>> /\ i \in DOMAIN news[h]
  BY DEF NewsFall
<1>2. PICK u \in Tasks :
        /\ news[h][i].turn = u /\ rec[u].thread = h /\ Alive(u)
        /\ Terminal(news[h][i].status) => Quiet(u)
  BY <1>1 DEF QuietInv, Unread, Item
<1>3. rec'[u].thread = h /\ Alive(u)'
  BY <1>1, <1>2, Names DEF Writes, Kids, WoundUp
<1>4. Terminal(news'[h][i].status) => Quiet(u)'
  BY <1>1, <1>2 DEF QuietLasts
<1> QED
  BY <1>1, <1>2, <1>3, <1>4 DEF Item

\* No turn comes to run.
LEMMA FallBegins ==
  ASSUME IndInv, TurnsFall
  PROVE  TurnsBegin
<1> SUFFICES ASSUME NEW h \in Tasks, NEW t \in Tasks, RunningTurn(h, t)'
             PROVE  RunningTurn(h, t)
  BY DEF TurnsBegin
<1>1. PICK i \in DOMAIN turns'[h] : turns'[h][i] = [op |-> t, status |-> "running"]
  BY DEF RunningTurn
<1>2. i \in DOMAIN turns[h] /\ turns[h][i].op = t /\ turns[h][i].status = "running"
  BY <1>1 DEF TurnsFall
<1>3. turns[h] \in Seq([op : Ops, status : TurnStatuses])
  BY DEF IndInv, Base, TypeOK
<1>4. turns[h][i] \in [op : Ops, status : TurnStatuses]
  BY <1>2, <1>3, SeqParts
<1> QED
  BY <1>2, <1>4 DEF RunningTurn

\* Nothing new goes out, begins or is announced.
LEMMA FallStep ==
  ASSUME IndInv, QuietInv,
         \A t \in Tasks : Writes(t), \A c \in Callers : Knows(call'[c]) /\ Stands(c),
         WireFalls, TurnsFall, NewsFall, Kids, UNCHANGED served,
         \A t \in Tasks : ask'[t].turn \in {None, t}
  PROVE  QuietInv'
<1>1. SendsFresh
  BY Names DEF WireFalls, SendsFresh
<1>2. QuietLasts
  BY <1>1, FallBegins, QuietStays
<1>3. ContinuedLasts
  BY ContinuedStays
<1>4. Known' /\ \A h \in Tasks : Thread(h)' /\ Unread(h)' /\ Own(h)'
  BY <1>1, <1>2, <1>3, KnownStays, ThreadsFall, NewsFalls, OwnStays
<1>5. Sent'
  <2>1. ASSUME NEW t \in Tasks, wire'[t].state = "sent"
        PROVE  \E c \in Callers : At(c, "start", "wait")' /\ call'[c].task = t
    <3>1. wire[t].state = "sent"
      BY <2>1, Names DEF WireFalls
    <3>2. PICK c \in Callers : At(c, "start", "wait") /\ call[c].task = t
      BY <3>1 DEF QuietInv, Sent
    <3> QED
      BY <2>1, <3>2 DEF Stands
  <2>2. ASSUME NEW o \in Ops, wire'[o].state # "none", wire'[o].turn = None
        PROVE  o \in Tasks
    BY <2>2 DEF WireFalls, QuietInv, Sent
  <2> QED
    BY <2>1, <2>2 DEF Sent
<1>6. Halted'
  <2> SUFFICES ASSUME NEW o \in Controls, Action[o] = "interrupt", wire'[o].state = "ok"
               PROVE  Quiet(Target[o])'
    BY DEF Halted
  <2>1. Quiet(Target[o]) /\ Target[o] \in Tasks
    BY Names DEF WireFalls, QuietInv, Halted
  <2> QED
    BY <1>2, <2>1 DEF QuietLasts
<1> QED
  BY <1>4, <1>5, <1>6 DEF QuietInv

-----------------------------------------------------------------------------
(* Calls, children and records, one at a time. *)

\* l is k at another place.
Follows(k, l) ==
  /\ l.kind = k.kind /\ l.task = k.task /\ l.turn = k.turn
  /\ l.prev = k.prev /\ l.status = k.status
  /\ l.pc # "orphan" => k.pc # "orphan"

LEMMA FollowsKnows ==
  ASSUME NEW k, NEW l, Knows(k), Follows(k, l)
  PROVE  Knows(l)
  BY DEF Follows, Knows

LEMMA IdleKnows == Knows(Idle)
<1>1. /\ Idle.prev = None /\ Idle.turn = None /\ Idle.status = "missing" /\ Idle.kind = "none"
  BY DEF Idle
<1> QED
  BY <1>1 DEF Knows, Terminal, Steers

\* A call loses its shared client at most.
LEMMA KeptFollows ==
  ASSUME NEW k \in Call, NEW l, Kept(k, l)
  PROVE  Follows(k, l)
  BY DEF Kept, Call, Follows

\* One call moves on or returns.
LEMMA OneFollows ==
  ASSUME IndInv, QuietInv, NEW c \in Callers, NEW l, call' = [call EXCEPT ![c] = l],
         Knows(l), Stands(c)
  PROVE  \A d \in Callers : Knows(call'[d]) /\ Stands(d)
<1>1. call \in [Callers -> Call]
  BY DEF IndInv, Base, TypeOK
<1>2. call'[c] = l /\ \A d \in Callers \ {c} : call'[d] = call[d]
  BY <1>1
<1>3. \A d \in Callers \ {c} : Knows(call'[d]) /\ Stands(d)
  BY <1>2 DEF QuietInv, Known, Stands, At
<1> QED
  BY <1>2, <1>3

\* Calls that stay.
LEMMA AllFollow ==
  ASSUME IndInv, QuietInv, \A c \in Callers : Kept(call[c], call'[c])
  PROVE  \A c \in Callers : Knows(call'[c]) /\ Stands(c)
<1> SUFFICES ASSUME NEW c \in Callers PROVE Knows(call'[c]) /\ Stands(c)
  OBVIOUS
<1>1. call[c] \in Call /\ Knows(call[c])
  BY DEF IndInv, Base, TypeOK, QuietInv, Known
<1>2. Knows(call'[c])
  BY <1>1, KeptFollows, FollowsKnows
<1>3. Stands(c)
  BY <1>1, KeptFields DEF Stands, At
<1> QED
  BY <1>2, <1>3

\* The children of a task, here and in the next state.
LEMMA AliveMeans ==
  ASSUME NEW t \in Tasks
  PROVE  /\ Alive(t) <=> \/ \E p \in Procs : reg[p][t] \in {"live", "dying"}
                         \/ \E c \in Callers : call[c].task = t /\ call[c].client = "own"
         /\ Alive(t)' <=> \/ \E p \in Procs : reg'[p][t] \in {"live", "dying"}
                          \/ \E c \in Callers : call'[c].task = t /\ call'[c].client = "own"
<1>1. \A c \in Callers : Home(c) \in Procs
  BY DEF Callers, Home
<1>2. Alive(t) <=> \/ \E p \in Procs : reg[p][t] \in {"live", "dying"}
                   \/ \E c \in Callers : call[c].task = t /\ call[c].client = "own"
  BY <1>1 DEF Alive, Children
<1>3. Alive(t)' <=> \/ \E p \in Procs : reg'[p][t] \in {"live", "dying"}
                    \/ \E c \in Callers : call'[c].task = t /\ call'[c].client = "own"
  BY <1>1 DEF Alive, Children
<1> QED
  BY <1>2, <1>3

\* No child ends.
LEMMA KidsStay ==
  ASSUME \A p \in Procs, t \in Tasks : reg[p][t] \in {"live", "dying"}
                                         => reg'[p][t] \in {"live", "dying"},
         \A c \in Callers : call[c].client = "own" =>
            \/ call'[c].client = "own" /\ call'[c].task = call[c].task
            \/ \E p \in Procs, t \in Tasks : call[c].task = t /\ reg'[p][t] = "live"
  PROVE  Kids
<1> SUFFICES ASSUME NEW u \in Tasks, Alive(u) PROVE Alive(u)'
  BY DEF Kids
<1> QED
  BY AliveMeans

LEMMA SameKids ==
  ASSUME UNCHANGED <<reg, call>>
  PROVE  Kids
  BY KidsStay

\* Only the call of c changes, and it has no child to lose.
LEMMA OtherKids ==
  ASSUME IndInv, UNCHANGED reg, NEW c \in Callers, NEW l, call' = [call EXCEPT ![c] = l],
         call[c].client = "own" => l.client = "own" /\ l.task = call[c].task
  PROVE  Kids
<1>1. call \in [Callers -> Call]
  BY DEF IndInv, Base, TypeOK
<1>2. call'[c] = l /\ \A d \in Callers \ {c} : call'[d] = call[d]
  BY <1>1
<1> QED
  BY <1>2, KidsStay

LEMMA ServerFalls ==
  ASSUME UNCHANGED <<turns, news>>
  PROVE  TurnsFall /\ NewsFall
  BY DEF TurnsFall, NewsFall

\* The end of children.
LEMMA EndFalls ==
  ASSUME IndInv, NEW ended, ChildrenEnd(ended)
  PROVE  /\ TurnsFall /\ NewsFall /\ UNCHANGED served
         /\ \A u \in ended, h \in Tasks : rec[u].thread = h => WoundUp(h)
<1> DEFINE threads == {rec[t].thread : t \in ended}
<1>1. /\ \A h \in Tasks : turns'[h] = IF h \in threads THEN Stopped(turns[h]) ELSE turns[h]
      /\ \A h \in Tasks : news'[h] = IF h \in threads THEN <<>> ELSE news[h]
      /\ UNCHANGED served
  BY DEF ChildrenEnd
<1>2. ASSUME NEW h \in Tasks
      PROVE  /\ DOMAIN Stopped(turns[h]) = DOMAIN turns[h]
             /\ \A i \in DOMAIN turns[h] :
                  /\ Stopped(turns[h])[i].op = turns[h][i].op
                  /\ Stopped(turns[h])[i].status # "running"
  <2>1. turns[h] \in Seq([op : Ops, status : TurnStatuses])
    BY DEF IndInv, Base, TypeOK
  <2>2. \A i \in DOMAIN turns[h] : turns[h][i] \in [op : Ops, status : TurnStatuses]
    BY <2>1, SeqParts
  <2> QED
    BY <2>2 DEF Stopped
<1>3. TurnsFall /\ NewsFall
  BY <1>1, <1>2 DEF TurnsFall, NewsFall
<1>4. \A u \in ended : rec[u].thread \in threads
  OBVIOUS
<1> HIDE DEF threads
<1>5. \A h \in Tasks : h \in threads => WoundUp(h)
  BY <1>1, <1>2 DEF WoundUp
<1> QED
  BY <1>1, <1>3, <1>4, <1>5

\* Requests that are lost.
LEMMA LostFalls ==
  ASSUME \A o \in Ops : wire'[o] = wire[o] \/ wire'[o] = NoWire
  PROVE  WireFalls
<1>1. NoWire.state = "none"
  BY DEF NoWire
<1> QED
  BY <1>1 DEF WireFalls

LEMMA ClearedFalls ==
  ASSUME IndInv, NEW o \in Ops, wire' = [wire EXCEPT ![o] = NoWire]
  PROVE  WireFalls /\ wire'[o].state = "none"
<1>1. wire \in [Ops -> Wire]
  BY DEF IndInv, Base, TypeOK
<1>2. NoWire.state = "none" /\ wire'[o] = NoWire /\ \A x \in Ops \ {o} : wire'[x] = wire[x]
  BY <1>1 DEF NoWire
<1> QED
  BY <1>2 DEF WireFalls

LEMMA SameWrites ==
  ASSUME QuietInv, NEW t \in Tasks, rec'[t] = rec[t]
  PROVE  Writes(t)
<1>1. rec[t].prev = None
  BY DEF QuietInv, Own
<1> QED
  BY <1>1 DEF Writes, Exists

LEMMA SameRecords ==
  ASSUME QuietInv, UNCHANGED rec
  PROVE  \A t \in Tasks : Writes(t)
  BY SameWrites

\* One record is settled.
LEMMA OneWrites ==
  ASSUME IndInv, QuietInv, NEW t \in Tasks, Exists(t),
         NEW q, rec' = [rec EXCEPT ![t] = q], Settles(rec[t], q),
         q.prev = rec[t].prev,
         Terminal(q.status) => Terminal(rec[t].status) \/ Quiet(t) \/ Quiet(t)',
         q.turn \in {rec[t].turn, None, t} \/ Quiet(t)
  PROVE  \A u \in Tasks : Writes(u)
<1>1. rec \in [Tasks -> Record]
  BY DEF IndInv, Base, TypeOK
<1>2. rec'[t] = q /\ \A u \in Tasks \ {t} : rec'[u] = rec[u]
  BY <1>1
<1>3. rec[t].prev = None
  BY DEF QuietInv, Own
<1>4. Writes(t)
  <2>1. /\ q.thread = rec[t].thread /\ q.claim = rec[t].claim
        /\ q.status = rec[t].status \/ (~Terminal(rec[t].status) /\ q.status # "missing")
    BY DEF Settles
  <2>2. Exists(t)' /\ (rec[t].status = "failed" => rec'[t].status = "failed")
    BY <1>2, <2>1 DEF Exists, Terminal
  <2> QED
    BY <1>2, <1>3, <2>1, <2>2 DEF Writes
<1> QED
  BY <1>2, <1>4, SameWrites

LEMMA SameAsks ==
  ASSUME QuietInv, UNCHANGED ask
  PROVE  \A t \in Tasks : ask'[t].turn \in {None, t}
  BY DEF QuietInv, Own

-----------------------------------------------------------------------------
(* Steps of a start. *)

\* One call moves on or returns.
LEMMA CallerFalls ==
  ASSUME IndInv, QuietInv, NEW c \in Callers, NEW l, call' = [call EXCEPT ![c] = l],
         Knows(l), Stands(c), \A t \in Tasks : Writes(t),
         WireFalls, TurnsFall, NewsFall, Kids, UNCHANGED <<ask, served>>
  PROVE  QuietInv'
<1>1. \A d \in Callers : Knows(call'[d]) /\ Stands(d)
  BY OneFollows
<1>2. \A t \in Tasks : ask'[t].turn \in {None, t}
  BY SameAsks
<1> QED
  BY <1>1, <1>2, FallStep

LEMMA SameWire ==
  ASSUME UNCHANGED wire
  PROVE  WireFalls
  BY DEF WireFalls

\* A call moves on or returns, and all else stands still.
LEMMA StillFalls ==
  ASSUME IndInv, QuietInv, NEW c \in Callers, NEW l, call' = [call EXCEPT ![c] = l],
         Knows(l), ~At(c, "start", "wait"), Kids, UNCHANGED <<rec, wire, turns, news, served, ask>>
  PROVE  QuietInv'
<1>1. Stands(c)
  BY DEF Stands
<1>2. \A t \in Tasks : Writes(t)
  BY SameRecords
<1>3. WireFalls /\ TurnsFall /\ NewsFall
  BY SameWire, ServerFalls
<1> QED
  BY <1>1, <1>2, <1>3, CallerFalls

LEMMA KnowsCall ==
  ASSUME QuietInv, NEW c \in Callers
  PROVE  Knows(call[c])
  BY DEF QuietInv, Known

LEMMA AdmissionFailsQuiet ==
  ASSUME IndInv, QuietInv, NEW c \in Callers, AdmissionFails(c)
  PROVE  QuietInv'
<1> DEFINE l == [call[c] EXCEPT !.pc = "refused", !.lease = FALSE]
<1>1. /\ call[c].kind = "start" /\ call[c].pc = "admit"
      /\ UNCHANGED <<rec, reg, wire, server, ask>>
  BY DEF AdmissionFails, At
<1>2. call[c] \in Call /\ call[c].client = "none"
  BY <1>1, StartFacts DEF StartShape
<1>3. call' = [call EXCEPT ![c] = l]
  BY DEF AdmissionFails, IndInv, Base, TypeOK
<1>4. Follows(call[c], l)
  BY <1>1, <1>2 DEF Call, Follows
<1> HIDE DEF l
<1>5. Knows(l)
  BY <1>4, KnowsCall, FollowsKnows
<1>6. Kids
  BY <1>1, <1>2, <1>3, OtherKids
<1> QED
  BY <1>1, <1>3, <1>5, <1>6, StillFalls DEF At, server

LEMMA SpawnQuiet ==
  ASSUME IndInv, QuietInv, NEW c \in Callers, Spawn(c)
  PROVE  QuietInv'
<1> DEFINE l == [call[c] EXCEPT !.pc = "thread", !.client = "own"]
<1>1. /\ call[c].kind = "start" /\ call[c].pc = "admit"
      /\ UNCHANGED <<rec, reg, wire, server, ask>>
  BY DEF Spawn, At
<1>2. call[c] \in Call /\ call[c].client = "none"
  BY <1>1, StartFacts DEF StartShape
<1>3. call' = [call EXCEPT ![c] = l]
  BY DEF Spawn, IndInv, Base, TypeOK
<1>4. Follows(call[c], l)
  BY <1>1, <1>2 DEF Call, Follows
<1> HIDE DEF l
<1>5. Knows(l)
  BY <1>4, KnowsCall, FollowsKnows
<1>6. Kids
  BY <1>1, <1>2, <1>3, OtherKids
<1> QED
  BY <1>1, <1>3, <1>5, <1>6, StillFalls DEF At, server

\* Goto
LEMMA GotoFollows ==
  ASSUME IndInv, NEW c \in Callers, NEW pc, Goto(c, pc), call[c].pc # "orphan"
  PROVE  \E l : /\ call' = [call EXCEPT ![c] = l] /\ Follows(call[c], l) /\ l.pc = pc
                /\ l.client = call[c].client /\ l.task = call[c].task
<1> DEFINE l == [call[c] EXCEPT !.pc = pc]
<1>1. call[c] \in Call
  BY DEF IndInv, Base, TypeOK
<1>2. call' = [call EXCEPT ![c] = l]
  BY DEF Goto
<1>3. /\ Follows(call[c], l) /\ l.pc = pc /\ l.client = call[c].client
      /\ l.task = call[c].task
  BY <1>1 DEF Call, Follows
<1> QED
  BY <1>2, <1>3

LEMMA ThreadServedQuiet ==
  ASSUME IndInv, QuietInv, NEW c \in Callers, ThreadServed(c)
  PROVE  QuietInv'
<1>1. /\ call[c].kind = "start" /\ call[c].pc = "thread" /\ Goto(c, "bind")
      /\ UNCHANGED <<rec, reg, wire, turns, news, ask, served>>
  BY DEF ThreadServed, At
<1>2. PICK l : /\ call' = [call EXCEPT ![c] = l] /\ Follows(call[c], l)
               /\ l.client = call[c].client /\ l.task = call[c].task
  BY <1>1, GotoFollows
<1>3. Knows(l)
  BY <1>2, KnowsCall, FollowsKnows
<1>4. Kids
  BY <1>1, <1>2, OtherKids
<1> QED
  BY <1>1, <1>2, <1>3, <1>4, StillFalls DEF At

\* A start that has not bound its thread has no turn, and nothing on the wire.
LEMMA UnboundHasNone ==
  ASSUME IndInv, QuietInv, NEW c \in Callers, call[c].kind = "start", call[c].pc \in Unbound,
         NEW t \in Tasks, t = call[c].task
  PROVE  wire[t].state = "none" /\ \A h \in Tasks : ~RunningTurn(h, t)
<1>1. ~NoStart(t, Unbound)
  BY DEF NoStart
<1>2. ~Reached(t)
  BY <1>1 DEF IndInv, Once
<1>3. served[t] = 0 /\ wire[t].state = "none"
  BY <1>2 DEF Reached
<1>4. ASSUME NEW h \in Tasks, RunningTurn(h, t) PROVE FALSE
  <2>1. PICK i \in DOMAIN turns[h] : turns[h][i].op = t
    BY <1>4 DEF RunningTurn
  <2>2. Turn(h, i)
    BY <2>1 DEF QuietInv, Thread
  <2> QED
    BY <1>3, <2>1, <2>2 DEF Turn
<1> QED
  BY <1>3, <1>4

\* The verdict on such a start.
LEMMA StartEnds ==
  ASSUME IndInv, QuietInv, NEW c \in Callers, call[c].kind = "start",
         call[c].pc \in Unbound \ {"thread", "bind"},
         NEW x \in {"failed", "retryable"}, NEW phase \in Phases,
         rec' = [rec EXCEPT ![call[c].task] =
                   SetPhase([@ EXCEPT !.status = x], call[c].op, phase)],
         call' = [call EXCEPT ![c] = Idle], UNCHANGED <<reg, wire, server, ask>>
  PROVE  QuietInv'
<1>1. PICK t \in Tasks : t = call[c].task
  BY StartFacts
<1> DEFINE q0 == [rec[t] EXCEPT !.status = x]
           q == SetPhase(q0, call[c].op, phase)
<1>2. /\ rec[t] \in Record /\ call[c].op \in Ops /\ ~Terminal(rec[t].status) /\ rec[t].status # "missing"
      /\ call[c].client = "none"
  BY <1>1, StartFacts DEF StartShape, Terminal, Unbound
<1>3. rec' = [rec EXCEPT ![t] = q]
  BY <1>1
<1>4. /\ q0 \in Record /\ q0.status = x /\ q0.thread = rec[t].thread /\ q0.claim = rec[t].claim
      /\ q0.prev = rec[t].prev /\ q0.turn = rec[t].turn
  BY <1>2 DEF Record, Statuses
<1> HIDE DEF q0
<1>5. /\ q.status = x /\ q.thread = rec[t].thread /\ q.claim = rec[t].claim
      /\ q.prev = rec[t].prev /\ q.turn = rec[t].turn
  BY <1>2, <1>4, SetPhaseFields
<1> HIDE DEF q
<1>6. rec'[t] = q /\ \A u \in Tasks \ {t} : rec'[u] = rec[u]
  BY <1>3 DEF IndInv, Base, TypeOK
<1>7. x = "failed" => Quiet(t)'
  <2>1. wire[t].state = "none" /\ \A h \in Tasks : ~RunningTurn(h, t)
    BY <1>1, UnboundHasNone
  <2>2. wire'[t].state = "none" /\ \A h \in Tasks : ~RunningTurn(h, t)'
    BY <2>1 DEF RunningTurn, server
  <2>3. x = "failed" => Over(t)'
    BY <1>5, <1>6 DEF Over
  <2> QED
    BY <2>2, <2>3 DEF Quiet
<1>8. rec[t].prev = None
  BY DEF QuietInv, Own
<1>9. Writes(t)
  <2>1. Exists(t)' /\ rec[t].status # "failed"
    BY <1>2, <1>5, <1>6 DEF Exists, Terminal
  <2>2. Terminal(rec'[t].status) => Quiet(t)'
    BY <1>5, <1>6, <1>7 DEF Terminal
  <2> QED
    BY <1>5, <1>6, <1>8, <2>1, <2>2 DEF Writes
<1>10. \A u \in Tasks : Writes(u)
  BY <1>6, <1>9, SameWrites
<1>11. Kids /\ Stands(c)
  BY <1>2, OtherKids DEF Stands, At, Unbound
<1>12. WireFalls /\ TurnsFall /\ NewsFall /\ UNCHANGED <<ask, served>>
  BY SameWire, ServerFalls DEF server
<1> QED
  BY <1>10, <1>11, <1>12, IdleKnows, CallerFalls

LEMMA RetireQuiet ==
  ASSUME IndInv, QuietInv, NEW c \in Callers, Retire(c)
  PROVE  QuietInv'
<1>1. /\ call[c].kind = "start" /\ call[c].pc = "retire"
      /\ UNCHANGED <<reg, wire, server, ask>>
  BY DEF Retire, At
<1>2. CASE Goto(c, "admit") /\ UNCHANGED rec
  <2>1. PICK l : /\ call' = [call EXCEPT ![c] = l] /\ Follows(call[c], l)
                 /\ l.client = call[c].client /\ l.task = call[c].task
    BY <1>1, <1>2, GotoFollows
  <2>2. Knows(l)
    BY <2>1, KnowsCall, FollowsKnows
  <2>3. Kids
    BY <1>1, <2>1, OtherKids
  <2> QED
    BY <1>1, <1>2, <2>1, <2>2, <2>3, StillFalls DEF At, server
<1>3. CASE /\ rec' = [rec EXCEPT ![call[c].task] =
                        SetPhase([@ EXCEPT !.status = "failed"], call[c].op, "applied")]
           /\ Return(c)
  BY <1>1, <1>3, StartEnds DEF Return, Unbound, Phases
<1> QED
  BY <1>2, <1>3 DEF Retire

LEMMA RefusalSavedQuiet ==
  ASSUME IndInv, QuietInv, NEW c \in Callers, RefusalSaved(c)
  PROVE  QuietInv'
<1>1. call[c].kind = "start" /\ call[c].pc = "refused"
  BY DEF RefusalSaved, At
<1> QED
  BY <1>1, StartEnds DEF RefusalSaved, Return, Unbound, Phases

LEMMA SpawnFailsQuiet ==
  ASSUME IndInv, QuietInv, NEW c \in Callers, SpawnFails(c)
  PROVE  QuietInv'
<1>1. /\ call[c].kind = "start" /\ call[c].pc = "admit"
      /\ call' = [call EXCEPT ![c] = Idle] /\ UNCHANGED <<reg, wire, server, ask>>
  BY DEF SpawnFails, At, Return
<1>2. PICK v \in {<<"retryable", "retryable">>, <<"failed", "applied">>} :
        rec' = [rec EXCEPT ![call[c].task] = IF Terminal(@.status) THEN @
                  ELSE SetPhase([@ EXCEPT !.status = v[1]], call[c].op, v[2])]
  BY DEF SpawnFails
<1>3. v[1] \in {"failed", "retryable"} /\ v[2] \in Phases
  <2>1. v = <<"retryable", "retryable">> \/ v = <<"failed", "applied">>
    BY <1>2
  <2> QED
    BY <2>1 DEF Phases
<1>4. ~Terminal(rec[call[c].task].status) /\ call[c].task \in Tasks
  BY <1>1, StartFacts DEF StartShape, Terminal, Unbound
<1>5. rec' = [rec EXCEPT ![call[c].task] =
                SetPhase([@ EXCEPT !.status = v[1]], call[c].op, v[2])]
  BY <1>2, <1>4
<1> QED
  BY <1>1, <1>3, <1>5, StartEnds DEF Unbound

LEMMA StartRepliedQuiet ==
  ASSUME IndInv, QuietInv, NEW c \in Callers, StartReplied(c)
  PROVE  QuietInv'
<1>1. /\ call[c].kind = "start" /\ call[c].pc = "wait" /\ Goto(c, "insert")
      /\ UNCHANGED <<reg, server, ask>>
  BY DEF StartReplied, At
<1>2. PICK t \in Tasks : t = call[c].task
  BY <1>1, StartFacts
<1>3. rec[t] \in Record /\ t \in Ops /\ Exists(t)
  BY <1>1, <1>2, StartFacts, Names
<1>4. PICK l : /\ call' = [call EXCEPT ![c] = l] /\ Follows(call[c], l)
               /\ l.client = call[c].client /\ l.task = call[c].task
  BY <1>1, GotoFollows
<1>5. Knows(l)
  BY <1>4, KnowsCall, FollowsKnows
<1> DEFINE q == TurnStarted(rec[t], t)
<1>6. rec' = [rec EXCEPT ![t] = q] /\ wire' = [wire EXCEPT ![t] = NoWire]
  BY <1>2 DEF StartReplied
<1>7. Settles(rec[t], q)
  BY <1>3, TurnStartedSettles
<1>8. /\ q.prev = rec[t].prev /\ q.turn \in {rec[t].turn, t}
      /\ Terminal(q.status) => Terminal(rec[t].status)
  <2> DEFINE z == [rec[t] EXCEPT !.turn = t,
                     !.status = IF @ \in {"accepted", "unknown", "reconcile"}
                                THEN "running" ELSE @]
  <2>1. /\ z \in Record /\ z.prev = rec[t].prev /\ z.turn = t
        /\ z.status \in {rec[t].status, "running"}
    BY <1>3 DEF Record, Statuses
  <2>2. "applied" \in Phases
    BY DEF Phases
  <2>3. q = rec[t] \/ q = SetPhase(z, t, "applied")
    BY DEF TurnStarted
  <2> HIDE DEF z, q
  <2> QED
    BY <1>3, <2>1, <2>2, <2>3, SetPhaseFields DEF Terminal
<1> HIDE DEF q
<1>9. \A u \in Tasks : Writes(u)
  BY <1>3, <1>6, <1>7, <1>8, OneWrites
<1>10. WireFalls /\ wire'[t].state # "sent"
  BY <1>3, <1>6, ClearedFalls
<1>11. Stands(c) /\ Kids
  BY <1>1, <1>2, <1>4, <1>10, OtherKids DEF Stands
<1>12. TurnsFall /\ NewsFall /\ UNCHANGED <<ask, served>>
  BY <1>1, ServerFalls DEF server
<1> QED
  BY <1>4, <1>5, <1>9, <1>10, <1>11, <1>12, CallerFalls

\* A status that is not terminal is written.
LEMMA MildWrites ==
  ASSUME IndInv, QuietInv, NEW t \in Tasks, Exists(t), NEW o \in Ops,
         NEW q, rec' = [rec EXCEPT ![t] = q],
         q = IF Terminal(rec[t].status) THEN rec[t]
             ELSE SetPhase([rec[t] EXCEPT !.status = "reconcile"], o, "accepted")
  PROVE  \A u \in Tasks : Writes(u)
<1> DEFINE z == [rec[t] EXCEPT !.status = "reconcile"]
<1>1. rec[t] \in Record
  BY DEF IndInv, Base, TypeOK
<1>2. Settles(rec[t], q)
  BY <1>1, ReconcileSettles
<1>3. z \in Record /\ z.prev = rec[t].prev /\ z.turn = rec[t].turn /\ z.status = "reconcile"
  BY <1>1 DEF Record, Statuses
<1>4. "accepted" \in Phases
  BY DEF Phases
<1>5. q = rec[t] \/ q = SetPhase(z, o, "accepted")
  OBVIOUS
<1> HIDE DEF z
<1>6. /\ q.prev = rec[t].prev /\ q.turn = rec[t].turn
      /\ Terminal(q.status) => Terminal(rec[t].status)
  BY <1>3, <1>4, <1>5, SetPhaseFields DEF Terminal
<1> QED
  BY <1>2, <1>6, OneWrites

\* The children of these tasks end, and no others.
LEMMA EndKids ==
  ASSUME IndInv, NEW ended, ChildrenEnd(ended), \A u \in Tasks \ ended : Alive(u) => Alive(u)'
  PROVE  Kids
  BY EndFalls DEF Kids

\* The call that ends takes the child of its task with it.
LEMMA CallEnds ==
  ASSUME IndInv, UNCHANGED reg, NEW c \in Callers, NEW l, call' = [call EXCEPT ![c] = l],
         NEW t \in Tasks, t = call[c].task, ChildrenEnd({t})
  PROVE  Kids
<1>1. call \in [Callers -> Call]
  BY DEF IndInv, Base, TypeOK
<1>2. call'[c] = l /\ \A d \in Callers \ {c} : call'[d] = call[d]
  BY <1>1
<1>3. \A u \in Tasks \ {t} : Alive(u) => Alive(u)'
  BY <1>2, AliveMeans
<1> QED
  BY <1>3, EndKids

LEMMA StartFailsQuiet ==
  ASSUME IndInv, QuietInv, NEW c \in Callers, StartFails(c)
  PROVE  QuietInv'
<1>1. /\ call[c].kind = "start" /\ call' = [call EXCEPT ![c] = Idle] /\ UNCHANGED <<reg, ask>>
  BY DEF StartFails, Return
<1>2. PICK t \in Tasks : t = call[c].task
  BY <1>1, StartFacts
<1>3. t \in Ops /\ Exists(t) /\ rec[t] \in Record
  BY <1>1, <1>2, StartFacts, Names
<1> DEFINE q == IF Terminal(rec[t].status) THEN rec[t]
                ELSE SetPhase([rec[t] EXCEPT !.status = "reconcile"], t, "accepted")
<1>4. /\ ChildrenEnd({t}) /\ wire' = [wire EXCEPT ![t] = NoWire]
      /\ rec' = [rec EXCEPT ![t] = q]
  BY <1>2 DEF StartFails
<1> HIDE DEF q
<1>5. \A u \in Tasks : Writes(u)
  BY <1>3, <1>4, MildWrites DEF q
<1>6. WireFalls /\ wire'[t].state # "sent"
  BY <1>3, <1>4, ClearedFalls
<1>7. Stands(c) /\ Kids
  BY <1>1, <1>2, <1>4, <1>6, CallEnds DEF Stands
<1>8. TurnsFall /\ NewsFall /\ UNCHANGED <<ask, served>>
  BY <1>1, <1>4, EndFalls
<1> QED
  BY <1>1, <1>5, <1>6, <1>7, <1>8, IdleKnows, CallerFalls

\* The child of a call becomes the one of the registered runtime.
LEMMA HandsOver ==
  ASSUME IndInv, NEW c \in Callers, NEW l, call' = [call EXCEPT ![c] = l],
         NEW t \in Tasks, t = call[c].task, reg' = [reg EXCEPT ![Home(c)][t] = "live"]
  PROVE  Kids
<1>1. call \in [Callers -> Call] /\ Home(c) \in Procs
  BY DEF IndInv, Base, TypeOK, Callers, Home
<1>2. call'[c] = l /\ \A d \in Callers \ {c} : call'[d] = call[d]
  BY <1>1
<1>3. /\ reg'[Home(c)][t] = "live"
      /\ \A q \in Procs, u \in Tasks : q # Home(c) \/ u # t => reg'[q][u] = reg[q][u]
  BY <1>1 DEF IndInv, Base, TypeOK
<1> QED
  BY <1>1, <1>2, <1>3, KidsStay

LEMMA InsertRuntimeQuiet ==
  ASSUME IndInv, QuietInv, NEW c \in Callers, InsertRuntime(c)
  PROVE  QuietInv'
<1>1. /\ call[c].kind = "start" /\ call[c].pc = "insert" /\ call' = [call EXCEPT ![c] = Idle]
      /\ UNCHANGED <<rec, wire, server, ask>>
      /\ reg' = [reg EXCEPT ![Home(c)][call[c].task] = "live"]
  BY DEF InsertRuntime, At, Return
<1>2. PICK t \in Tasks : t = call[c].task
  BY <1>1, StartFacts
<1>3. Kids
  BY <1>1, <1>2, HandsOver
<1> QED
  BY <1>1, <1>3, IdleKnows, StillFalls DEF At, server

-----------------------------------------------------------------------------
(* Steps of a request. *)

\* A request has a child of its own only while it attaches one.
LEMMA RequestClient ==
  ASSUME IndInv, NEW c \in Callers, call[c].kind # "start", call[c].pc \notin {"idle", "attach"}
  PROVE  call[c].client # "own" /\ ~At(c, "start", "wait")
  BY RequestFacts DEF RequestShape, At

LEMMA UseRuntimeQuiet ==
  ASSUME IndInv, QuietInv, NEW c \in Callers, UseRuntime(c)
  PROVE  QuietInv'
<1> DEFINE x == IF reg[Home(c)][call[c].task] = "live" THEN "shared" ELSE "dead"
           l == [call[c] EXCEPT !.pc = "send", !.lease = FALSE, !.client = x]
<1>1. /\ call[c].pc = "ensure" /\ UNCHANGED <<rec, reg, wire, server, ask>>
  BY DEF UseRuntime
<1>2. call[c] \in Call /\ call[c].kind # "start"
  BY <1>1, IsRequest
<1>3. call' = [call EXCEPT ![c] = l]
  BY DEF UseRuntime, IndInv, Base, TypeOK
<1> HIDE DEF x
<1>4. Follows(call[c], l)
  BY <1>1, <1>2 DEF Call, Follows
<1> HIDE DEF l
<1>5. Knows(l)
  BY <1>4, KnowsCall, FollowsKnows
<1>6. Kids /\ ~At(c, "start", "wait")
  BY <1>1, <1>2, <1>3, RequestClient, OtherKids
<1> QED
  BY <1>1, <1>3, <1>5, <1>6, StillFalls DEF server

LEMMA OwnedElsewhereQuiet ==
  ASSUME IndInv, QuietInv, NEW c \in Callers, OwnedElsewhere(c)
  PROVE  QuietInv'
<1>1. /\ call[c].pc = "ensure" /\ UNCHANGED <<rec, reg, wire, server, ask>>
      /\ Return(c) \/ Goto(c, "fail")
  BY DEF OwnedElsewhere
<1>2. call[c].kind # "start"
  BY <1>1, IsRequest
<1>3. call[c].client # "own" /\ ~At(c, "start", "wait")
  BY <1>1, <1>2, RequestClient
<1>4. \E l : call' = [call EXCEPT ![c] = l] /\ Knows(l)
  <2>1. CASE Return(c)
    BY <2>1, IdleKnows DEF Return
  <2>2. CASE Goto(c, "fail")
    BY <1>1, <2>2, GotoFollows, KnowsCall, FollowsKnows
  <2> QED
    BY <1>1, <2>1, <2>2
<1>5. PICK l : call' = [call EXCEPT ![c] = l] /\ Knows(l)
  BY <1>4
<1>6. Kids
  BY <1>1, <1>3, <1>5, OtherKids
<1> QED
  BY <1>1, <1>3, <1>5, <1>6, StillFalls DEF server

LEMMA AttachQuiet ==
  ASSUME IndInv, QuietInv, NEW c \in Callers, Attach(c)
  PROVE  QuietInv'
<1>1. /\ call[c].pc = "ensure" /\ UNCHANGED <<rec, reg, wire, server, ask>>
  BY DEF Attach
<1>2. call[c] \in Call /\ call[c].kind # "start"
  BY <1>1, IsRequest
<1>3. call[c].client # "own" /\ ~At(c, "start", "wait")
  BY <1>1, <1>2, RequestClient
<1>4. \E l : call' = [call EXCEPT ![c] = l] /\ Follows(call[c], l)
  <2>1. CASE call' = [call EXCEPT ![c].pc = "attach", ![c].lease = TRUE, ![c].client = "own"]
    <3> DEFINE l == [call[c] EXCEPT !.pc = "attach", !.lease = TRUE, !.client = "own"]
    <3>1. call' = [call EXCEPT ![c] = l]
      BY <2>1 DEF IndInv, Base, TypeOK
    <3>2. Follows(call[c], l)
      BY <1>1, <1>2 DEF Call, Follows
    <3> QED
      BY <3>1, <3>2
  <2>2. CASE call' = [call EXCEPT ![c].pc = "fail", ![c].lease = FALSE]
    <3> DEFINE l == [call[c] EXCEPT !.pc = "fail", !.lease = FALSE]
    <3>1. call' = [call EXCEPT ![c] = l]
      BY <2>2 DEF IndInv, Base, TypeOK
    <3>2. Follows(call[c], l)
      BY <1>1, <1>2 DEF Call, Follows
    <3> QED
      BY <3>1, <3>2
  <2> QED
    BY <2>1, <2>2 DEF Attach
<1>5. PICK l : call' = [call EXCEPT ![c] = l] /\ Follows(call[c], l)
  BY <1>4
<1>6. Knows(l)
  BY <1>5, KnowsCall, FollowsKnows
<1>7. Kids
  BY <1>1, <1>3, <1>5, OtherKids
<1> QED
  BY <1>1, <1>3, <1>5, <1>6, <1>7, StillFalls DEF server

LEMMA AttachedQuiet ==
  ASSUME IndInv, QuietInv, NEW c \in Callers, Attached(c)
  PROVE  QuietInv'
<1> DEFINE l == [call[c] EXCEPT !.pc = "send", !.lease = FALSE, !.client = "shared"]
<1>1. /\ call[c].pc = "attach" /\ UNCHANGED <<rec, wire, server, ask>>
      /\ reg' = [reg EXCEPT ![Home(c)][call[c].task] = "live"]
  BY DEF Attached
<1>2. call[c] \in Call /\ call[c].kind # "start"
  BY <1>1, IsRequest
<1>3. PICK t \in Tasks : t = call[c].task
  BY <1>1, IsRequest
<1>4. call' = [call EXCEPT ![c] = l]
  BY DEF Attached, IndInv, Base, TypeOK
<1>5. Follows(call[c], l)
  BY <1>1, <1>2 DEF Call, Follows
<1> HIDE DEF l
<1>6. Knows(l)
  BY <1>5, KnowsCall, FollowsKnows
<1>7. Kids /\ ~At(c, "start", "wait")
  BY <1>1, <1>2, <1>3, <1>4, HandsOver DEF At
<1> QED
  BY <1>1, <1>4, <1>6, <1>7, StillFalls DEF server

LEMMA AttachFailsQuiet ==
  ASSUME IndInv, QuietInv, NEW c \in Callers, AttachFails(c)
  PROVE  QuietInv'
<1> DEFINE l == [call[c] EXCEPT !.pc = "fail", !.lease = FALSE, !.client = "none"]
<1>1. call[c].pc = "attach" /\ UNCHANGED <<rec, reg, ask>>
  BY DEF AttachFails
<1>2. call[c] \in Call /\ call[c].kind # "start"
  BY <1>1, IsRequest
<1>3. PICK t \in Tasks : t = call[c].task
  BY <1>1, IsRequest
<1>4. call' = [call EXCEPT ![c] = l]
  BY DEF AttachFails, IndInv, Base, TypeOK
<1>5. Follows(call[c], l)
  BY <1>1, <1>2 DEF Call, Follows
<1> HIDE DEF l
<1>6. Knows(l)
  BY <1>5, KnowsCall, FollowsKnows
<1>7. ChildrenEnd({t}) /\ Lost({t})
  BY <1>3 DEF AttachFails
<1>8. WireFalls
  BY <1>7, LostFalls DEF Lost
<1>9. TurnsFall /\ NewsFall /\ UNCHANGED <<ask, served>>
  BY <1>1, <1>7, EndFalls
<1>10. Kids /\ Stands(c)
  BY <1>1, <1>2, <1>3, <1>4, <1>7, CallEnds DEF Stands, At
<1>11. \A u \in Tasks : Writes(u)
  BY <1>1, SameRecords
<1> QED
  BY <1>4, <1>6, <1>8, <1>9, <1>10, <1>11, CallerFalls

\* A request writes the record and returns.
LEMMA RequestReturns ==
  ASSUME IndInv, QuietInv, NEW c \in Callers, call[c].kind # "start",
         call[c].pc \notin {"idle", "attach"},
         call' = [call EXCEPT ![c] = Idle], \A t \in Tasks : Writes(t), WireFalls,
         UNCHANGED <<reg, server, ask>>
  PROVE  QuietInv'
<1>1. call[c].client # "own" /\ ~At(c, "start", "wait")
  BY RequestClient
<1>2. Kids /\ Stands(c)
  BY <1>1, OtherKids DEF Stands
<1>3. TurnsFall /\ NewsFall /\ UNCHANGED <<ask, served>>
  BY ServerFalls DEF server
<1> QED
  BY <1>2, <1>3, IdleKnows, CallerFalls

LEMMA OrphanSavedQuiet ==
  ASSUME IndInv, QuietInv, NEW c \in Callers, OrphanSaved(c)
  PROVE  QuietInv'
<1>1. /\ call[c].kind = "get" /\ call[c].pc = "orphan"
      /\ call' = [call EXCEPT ![c] = Idle] /\ UNCHANGED <<reg, wire, server, ask>>
  BY DEF OrphanSaved, At, Return
<1>2. PICK t \in Tasks : t = call[c].task
  BY <1>1, RequestFacts
<1>3. t \in Ops /\ Exists(t)
  BY <1>1, <1>2, RequestFacts, Names
<1> DEFINE q == IF Terminal(rec[t].status) THEN rec[t]
                ELSE SetPhase([rec[t] EXCEPT !.status = "reconcile"], t, "accepted")
<1>4. rec' = [rec EXCEPT ![t] = q]
  BY <1>2 DEF OrphanSaved
<1> HIDE DEF q
<1>5. \A u \in Tasks : Writes(u)
  BY <1>3, <1>4, MildWrites DEF q
<1> QED
  BY <1>1, <1>5, SameWire, RequestReturns

LEMMA FailureSavedQuiet ==
  ASSUME IndInv, QuietInv, NEW c \in Callers, FailureSaved(c)
  PROVE  QuietInv'
<1> DEFINE x == IF call[c].kind = "get" THEN "unknown" ELSE "reconcile"
<1>1. /\ call[c].pc = "fail" /\ call' = [call EXCEPT ![c] = Idle]
      /\ UNCHANGED <<reg, wire, server, ask>>
  BY DEF FailureSaved, Return
<1>2. PICK t \in Tasks : t = call[c].task
  BY <1>1, IsRequest
<1>3. call[c].kind # "start" /\ rec[t] \in Record /\ Exists(t)
  BY <1>1, <1>2, IsRequest
<1> DEFINE q == [rec[t] EXCEPT !.status = IF Terminal(@) THEN @ ELSE x]
<1>4. rec' = [rec EXCEPT ![t] = q]
  BY <1>2 DEF FailureSaved
<1>5. x \in Statuses \ {"missing", "retryable"} /\ ~Terminal(x)
  BY DEF Statuses, Terminal
<1> HIDE DEF x
<1>6. Settles(rec[t], q)
  BY <1>3, <1>5, StatusSettles
<1>7. /\ q.prev = rec[t].prev /\ q.turn = rec[t].turn
      /\ Terminal(q.status) => Terminal(rec[t].status)
  BY <1>3, <1>5 DEF Record
<1> HIDE DEF q
<1>8. \A u \in Tasks : Writes(u)
  BY <1>3, <1>4, <1>6, <1>7, OneWrites
<1> QED
  BY <1>1, <1>3, <1>8, SameWire, RequestReturns

LEMMA RequestFailsQuiet ==
  ASSUME IndInv, QuietInv, NEW c \in Callers, RequestFails(c)
  PROVE  QuietInv'
<1>1. /\ call[c].pc \in {"send", "wait"} /\ call[c].kind # "start"
      /\ Goto(c, "fail") /\ UNCHANGED <<rec, reg, server, ask>>
      /\ wire' = [o \in Ops |-> IF Awaits(c, o) /\ wire[o].state # "sent" THEN NoWire ELSE wire[o]]
  BY DEF RequestFails
<1>2. call[c].client # "own" /\ ~At(c, "start", "wait")
  BY <1>1, RequestClient
<1>3. PICK l : /\ call' = [call EXCEPT ![c] = l] /\ Follows(call[c], l)
               /\ l.client = call[c].client /\ l.task = call[c].task
  BY <1>1, GotoFollows
<1>4. Knows(l)
  BY <1>3, KnowsCall, FollowsKnows
<1>5. WireFalls
  BY <1>1, LostFalls
<1>6. Kids /\ Stands(c)
  BY <1>1, <1>2, <1>3, OtherKids DEF Stands
<1>7. TurnsFall /\ NewsFall /\ UNCHANGED <<ask, served>>
  BY <1>1, ServerFalls DEF server
<1>8. \A u \in Tasks : Writes(u)
  BY <1>1, SameRecords
<1> QED
  BY <1>3, <1>4, <1>5, <1>6, <1>7, <1>8, CallerFalls

\* A call that has read the thread writes what it knows.
LEMMA KnownWrites ==
  ASSUME IndInv, QuietInv, NEW c \in Callers, NEW t \in Tasks, t = call[c].task, Exists(t),
         NEW q, rec' = [rec EXCEPT ![t] = q], Settles(rec[t], q), q.prev = rec[t].prev,
         q.status \in {rec[t].status, call[c].status, "running"},
         q.turn \in {rec[t].turn, call[c].turn}
  PROVE  \A u \in Tasks : Writes(u)
<1>1. Knows(call[c])
  BY KnowsCall
<1>2. Terminal(q.status) => Terminal(rec[t].status) \/ Quiet(t)
  BY <1>1 DEF Knows, Terminal
<1>3. q.turn \in {rec[t].turn, None, t} \/ Quiet(t)
  BY <1>1 DEF Knows
<1> QED
  BY <1>2, <1>3, OneWrites

LEMMA GetAppliedQuiet ==
  ASSUME IndInv, QuietInv, NEW c \in Callers, GetApplied(c)
  PROVE  QuietInv'
<1>1. /\ call[c].pc = "apply" /\ call[c].kind = "get" /\ call' = [call EXCEPT ![c] = Idle]
      /\ UNCHANGED <<reg, wire, server, ask>>
  BY DEF GetApplied, Return, At
<1>2. PICK t \in Tasks : t = call[c].task
  BY <1>1, RequestFacts
<1>3. /\ t \in Ops /\ Exists(t) /\ rec[t] \in Record /\ call[c] \in Call
      /\ call[c].status \in TurnStatuses \cup {"reconcile", "unknown"}
  BY <1>1, <1>2, RequestFacts, Names DEF RequestShape
<1> DEFINE k == call[c]
           q == Reconciled(rec[t], k)
           z == [rec[t] EXCEPT !.status = k.status, !.turn = IF k.turn # None THEN k.turn ELSE @]
<1>4. rec' = [rec EXCEPT ![t] = q]
  BY <1>2 DEF GetApplied
<1>5. Settles(rec[t], q)
  BY <1>2, <1>3, ReconciledSettles
<1>6. /\ z \in Record /\ z.prev = rec[t].prev /\ z.status = k.status
      /\ z.turn \in {rec[t].turn, k.turn}
  BY <1>3 DEF Record, Call
<1>7. q = rec[t] \/ q = z \/ q = SetPhase(z, t, "applied")
  BY <1>2 DEF Reconciled
<1>8. "applied" \in Phases
  BY DEF Phases
<1> HIDE DEF q, z
<1>9. /\ q.prev = rec[t].prev /\ q.status \in {rec[t].status, k.status}
      /\ q.turn \in {rec[t].turn, k.turn}
  BY <1>3, <1>6, <1>7, <1>8, SetPhaseFields
<1>10. \A u \in Tasks : Writes(u)
  BY <1>2, <1>3, <1>4, <1>5, <1>9, KnownWrites
<1> QED
  BY <1>1, <1>10, SameWire, RequestReturns

LEMMA ControlAppliedQuiet ==
  ASSUME IndInv, QuietInv, NEW c \in Callers, ControlApplied(c)
  PROVE  QuietInv'
<1>1. /\ call[c].kind \in Steers /\ call' = [call EXCEPT ![c] = Idle]
      /\ \/ call[c].pc = "wait" /\ wire[call[c].op].state = "ok"
         \/ call[c].pc = "apply"
      /\ UNCHANGED <<reg, server, ask>> /\ wire' = [wire EXCEPT ![call[c].op] = NoWire]
  BY DEF ControlApplied, Return, Steers
<1>2. call[c].kind # "start" /\ call[c].pc \notin {"idle", "attach"}
  BY <1>1 DEF Steers
<1>3. PICK t \in Tasks : t = call[c].task
  BY <1>2, RequestFacts
<1>4. /\ Exists(t) /\ rec[t] \in Record /\ call[c] \in Call /\ RequestShape(call[c])
      /\ call[c].op \in Ops
      /\ call[c].kind = "resume" => call[c].status \in TurnStatuses \cup {"reconcile", "unknown"}
  BY <1>1, <1>2, <1>3, RequestFacts DEF RequestShape
<1> DEFINE k == call[c]
           q == Controlled(rec[t], k)
           z1 == [rec[t] EXCEPT !.status = k.status, !.turn = IF k.turn # None THEN k.turn ELSE @]
           z2 == [rec[t] EXCEPT !.status = IF k.kind = "interrupt" THEN "interrupted" ELSE "running"]
<1>5. rec' = [rec EXCEPT ![t] = q]
  BY <1>3 DEF ControlApplied
<1>6. Settles(rec[t], q)
  BY <1>1, <1>4, ControlledSettles
<1>7. WireFalls
  BY <1>1, <1>4, ClearedFalls
<1>8. k.kind \in {"steer", "interrupt"} => k.turn # None
  BY KnowsCall DEF Knows
<1>9. /\ z1.prev = rec[t].prev /\ z1.status = k.status /\ z1.turn \in {rec[t].turn, k.turn}
      /\ k.kind = "resume" => z1 \in Record
  BY <1>4 DEF Record, Call
<1>10. /\ z2 \in Record /\ z2.prev = rec[t].prev /\ z2.turn = rec[t].turn
       /\ z2.status = IF k.kind = "interrupt" THEN "interrupted" ELSE "running"
  BY <1>4 DEF Record, Statuses
<1>11. \/ q = rec[t] \/ (k.kind = "resume" /\ q = SetPhase(z1, k.op, "applied"))
       \/ k.kind # "resume" /\ q = SetPhase(z2, k.op, "applied")
  BY <1>1, <1>8 DEF Controlled, Steers
<1>12. "applied" \in Phases
  BY DEF Phases
<1> HIDE DEF q, z1, z2
<1>13. q.prev = rec[t].prev
  BY <1>4, <1>9, <1>10, <1>11, <1>12, SetPhaseFields
<1>14. \A u \in Tasks : Writes(u)
  <2>1. CASE k.kind = "interrupt" /\ q.status = "interrupted" /\ q.turn = rec[t].turn
    <3>1. /\ k.op \in Controls /\ Action[k.op] = "interrupt" /\ Target[k.op] = t
          /\ k.pc # "apply"
      BY <1>3, <1>4, <2>1 DEF RequestShape
    <3>2. Quiet(t)
      BY <1>1, <3>1 DEF QuietInv, Halted
    <3> QED
      BY <1>4, <1>5, <1>6, <1>13, <2>1, <3>2, OneWrites
  <2>2. CASE q.status \in {rec[t].status, k.status, "running"} /\ q.turn \in {rec[t].turn, k.turn}
    BY <1>3, <1>4, <1>5, <1>6, <1>13, <2>2, KnownWrites
  <2>3. \/ k.kind = "interrupt" /\ q.status = "interrupted" /\ q.turn = rec[t].turn
        \/ q.status \in {rec[t].status, k.status, "running"} /\ q.turn \in {rec[t].turn, k.turn}
    BY <1>4, <1>9, <1>10, <1>11, <1>12, SetPhaseFields
  <2> QED
    BY <2>1, <2>2, <2>3
<1> QED
  BY <1>1, <1>2, <1>7, <1>14, RequestReturns

-----------------------------------------------------------------------------
(* What thread/read shows. *)

\* What a continued task has done is over.
LEMMA ContinuedQuiet ==
  ASSUME IndInv, QuietInv, NEW t \in Tasks, Continued(t)
  PROVE  Quiet(t)
<1>1. Terminal(rec[t].status)
  BY DEF Continued, IndInv, Threads
<1> QED
  BY <1>1 DEF QuietInv, Own

\* A turn of the task that is not running, or somebody else's last turn.
LEMMA ThreadQuiet ==
  ASSUME IndInv, QuietInv, NEW t \in Tasks, NEW h \in Tasks, rec[t].thread = h,
         wire[t].state # "sent", NEW i \in DOMAIN turns[h],
         i = Len(turns[h]) \/ turns[h][i].op = t,
         turns[h][i].op # t \/ turns[h][i].status # "running"
  PROVE  Quiet(t)
<1>1. Over(t)
  BY Names DEF Over
<1>2. ASSUME NEW g \in Tasks, RunningTurn(g, t)
      PROVE  Continued(t)
  <2>1. PICK j \in DOMAIN turns[g] : turns[g][j].op = t /\ turns[g][j].status = "running"
    BY <1>2 DEF RunningTurn
  <2>2. Turn(g, j)
    BY <2>1 DEF QuietInv, Thread
  <2>3. g = h /\ j # i
    BY <2>1, <2>2 DEF Turn
  <2>4. turns[h] \in Seq([op : Ops, status : TurnStatuses])
    BY DEF IndInv, Base, TypeOK
  <2>5. i \in 1..Len(turns[h]) /\ j \in 1..Len(turns[h]) /\ Len(turns[h]) \in Nat
    BY <2>1, <2>3, <2>4, SeqFun
  <2>6. CASE j < i
    BY <2>1, <2>2, <2>3, <2>6 DEF Turn
  <2>7. CASE i < j
    <3>1. turns[h][i].op = t
      BY <2>5, <2>7
    <3>2. Turn(h, i)
      BY DEF QuietInv, Thread
    <3> QED
      BY <2>1, <2>3, <2>7, <3>1, <3>2 DEF Turn
  <2> QED
    BY <2>3, <2>5, <2>6, <2>7
<1> QED
  BY <1>1, <1>2, ContinuedQuiet DEF Quiet

\* derive_thread_state_after without a predecessor.
LEMMA DerivedMeans ==
  ASSUME NEW s \in Seq([op : Ops, status : TurnStatuses]), NEW x, NEW d \in Derived(s, x, None)
  PROVE  \/ DOMAIN s = {} /\ d.turn = None
         \/ \E i \in DOMAIN s : /\ d.turn = s[i].op /\ d.status = s[i].status
                                /\ s[i].op = x \/ i = Len(s)
<1> DEFINE at(o) == {i \in DOMAIN s : s[i].op = o}
           picked == CASE at(x) # {} -> at(x)
                       [] at(x) = {} /\ None # None -> {i + 1 : i \in at(None)} \cap DOMAIN s
                       [] OTHER -> {Len(s)} \cap DOMAIN s
           active == \E i \in DOMAIN s : s[i].status = "running"
<1>1. picked = IF at(x) # {} THEN at(x) ELSE {Len(s)} \cap DOMAIN s
  OBVIOUS
<1>2. d \in IF picked # {} THEN {[turn |-> s[i].op, status |-> s[i].status] : i \in picked}
            ELSE {[turn |-> None, status |-> status] : status \in
                   IF active THEN {"running"}
                   ELSE {IF None # None THEN "reconcile" ELSE "unknown", "failed"}}
  BY DEF Derived
<1> HIDE DEF picked, active
<1>3. DOMAIN s = 1..Len(s) /\ Len(s) \in Nat
  BY SeqFun
<1>4. CASE picked # {}
  BY <1>1, <1>2, <1>4
<1>5. CASE picked = {}
  <2>1. d.turn = None
    BY <1>2, <1>5
  <2>2. Len(s) \notin DOMAIN s
    BY <1>1, <1>5
  <2>3. DOMAIN s = {}
    BY <1>3, <2>2
  <2> QED
    BY <2>1, <2>3
<1> QED
  BY <1>4, <1>5

LEMMA ReadQuiet ==
  ASSUME IndInv, QuietInv, NEW c \in Callers, Read(c)
  PROVE  QuietInv'
<1>1. /\ call[c].pc = "send" /\ call[c].kind \in {"resume", "get"}
      /\ UNCHANGED <<rec, reg, wire, server, ask>>
  BY DEF Read
<1>2. call[c] \in Call /\ call[c].kind # "start" /\ Knows(call[c])
  BY <1>1, IsRequest, KnowsCall
<1>3. PICK t \in Tasks : t = call[c].task /\ rec[t].thread # None /\ wire[t].state # "sent"
  BY <1>1, <1>2 DEF Knows, Steers
<1>4. PICK h \in Tasks : h = rec[t].thread
  BY <1>3 DEF IndInv, Base, TypeOK, Record
<1>5. turns[h] \in Seq([op : Ops, status : TurnStatuses])
  BY DEF IndInv, Base, TypeOK
<1>6. (IF call[c].kind = "get" THEN call[c].prev ELSE None) = None
  BY <1>2 DEF Knows
<1>7. PICK d \in Derived(turns[h], call[c].turn, None) :
        \/ call' = [call EXCEPT ![c].pc = "apply", ![c].turn = d.turn, ![c].status = d.status]
        \/ Return(c)
  BY <1>3, <1>4, <1>6 DEF Read
<1>8. \/ DOMAIN turns[h] = {} /\ d.turn = None
      \/ \E i \in DOMAIN turns[h] : /\ d.turn = turns[h][i].op /\ d.status = turns[h][i].status
                                    /\ turns[h][i].op = call[c].turn \/ i = Len(turns[h])
  BY <1>5, <1>7, DerivedMeans
<1>9. ASSUME Terminal(d.status) \/ d.turn \notin {None, t}
      PROVE  Quiet(t)
  <2>1. CASE DOMAIN turns[h] = {}
    <3>1. ASSUME NEW g \in Tasks, RunningTurn(g, t) PROVE FALSE
      <4>1. PICK j \in DOMAIN turns[g] : turns[g][j].op = t
        BY <3>1 DEF RunningTurn
      <4>2. Turn(g, j)
        BY <4>1 DEF QuietInv, Thread
      <4> QED
        BY <1>4, <2>1, <4>1, <4>2 DEF Turn
    <3> QED
      BY <1>3, <3>1 DEF Quiet, Over
  <2>2. ASSUME NEW i \in DOMAIN turns[h], d.turn = turns[h][i].op, d.status = turns[h][i].status,
               turns[h][i].op = call[c].turn \/ i = Len(turns[h])
        PROVE  Quiet(t)
    <3>1. turns[h][i].op # None
      <4>1. turns[h][i] \in [op : Ops, status : TurnStatuses]
        BY <1>5, SeqParts
      <4> QED
        BY <4>1, Names
    <3>2. CASE turns[h][i].op = t
      BY <1>3, <1>4, <1>9, <2>2, <3>2, ThreadQuiet DEF Terminal
    <3>3. CASE turns[h][i].op # t /\ i = Len(turns[h])
      BY <1>3, <1>4, <3>3, ThreadQuiet
    <3>4. CASE turns[h][i].op # t /\ turns[h][i].op = call[c].turn
      BY <1>2, <1>3, <3>1, <3>4 DEF Knows
    <3> QED
      BY <2>2, <3>2, <3>3, <3>4
  <2> QED
    BY <1>8, <2>1, <2>2
<1>10. \E l : call' = [call EXCEPT ![c] = l] /\ Knows(l)
  <2>1. CASE Return(c)
    BY <2>1, IdleKnows DEF Return
  <2>2. CASE call' = [call EXCEPT ![c].pc = "apply", ![c].turn = d.turn, ![c].status = d.status]
    <3> DEFINE l == [call[c] EXCEPT !.pc = "apply", !.turn = d.turn, !.status = d.status]
    <3>1. call' = [call EXCEPT ![c] = l]
      BY <2>2 DEF IndInv, Base, TypeOK
    <3>2. /\ l.pc = "apply" /\ l.kind = call[c].kind /\ l.task = t /\ l.turn = d.turn
          /\ l.status = d.status /\ l.prev = call[c].prev
      BY <1>2, <1>3 DEF Call
    <3> HIDE DEF l
    <3>3. Knows(l)
      BY <1>1, <1>2, <1>3, <1>9, <3>2 DEF Knows
    <3> QED
      BY <3>1, <3>3
  <2> QED
    BY <1>7, <2>1, <2>2
<1>11. PICK l : call' = [call EXCEPT ![c] = l] /\ Knows(l)
  BY <1>10
<1>12. Kids /\ ~At(c, "start", "wait")
  BY <1>1, <1>2, <1>11, RequestClient, OtherKids
<1> QED
  BY <1>1, <1>11, <1>12, StillFalls DEF server

-----------------------------------------------------------------------------
(* Calls that begin. *)

\* While a start waits for its answer nobody else has the lease.
LEMMA NotSent ==
  ASSUME IndInv, QuietInv, NEW t \in Tasks, NEW p \in Procs, Registered(p, t) \/ ~LeaseHeld(t)
  PROVE  wire[t].state # "sent"
<1> SUFFICES ASSUME wire[t].state = "sent" PROVE FALSE
  OBVIOUS
<1>1. PICK c \in Callers : At(c, "start", "wait") /\ call[c].task = t
  BY DEF QuietInv, Sent
<1>2. Leased(c, t)
  BY <1>1, StartFacts DEF At, StartShape, Leased
<1> QED
  BY <1>1, <1>2 DEF IndInv, OneLease, Registered, LeaseHeld, Leased

\* A call that begins has no child to lose, and is not waiting.
LEMMA IdleBegins ==
  ASSUME IndInv, NEW c \in Callers, call[c] = Idle
  PROVE  call[c].client # "own" /\ ~At(c, "start", "wait")
  BY IdleFields DEF At

LEMMA GetAcceptQuiet ==
  ASSUME IndInv, QuietInv, NEW c \in Callers, NEW t \in Tasks, GetAccept(c, t)
  PROVE  QuietInv'
<1> DEFINE x == IF rec[t].thread = None THEN "orphan" ELSE "ensure"
           f == ~Registered(Home(c), t)
           l == [Idle EXCEPT !.pc = x, !.kind = "get", !.op = t, !.task = t, !.lease = f,
                             !.turn = rec[t].turn, !.prev = rec[t].prev, !.status = rec[t].status]
<1>1. /\ call[c] = Idle /\ call' = [call EXCEPT ![c] = l]
      /\ UNCHANGED <<rec, reg, wire, server, ask>>
      /\ Registered(Home(c), t) \/ ~LeaseHeld(t)
  BY DEF GetAccept
<1>2. x # "orphan" => rec[t].thread # None
  OBVIOUS
<1>3. /\ l.pc = x /\ l.kind = "get" /\ l.task = t /\ l.turn = rec[t].turn
      /\ l.prev = rec[t].prev /\ l.status = rec[t].status
  BY DEF Idle
<1> HIDE DEF l, x, f
<1>4. Home(c) \in Procs
  BY DEF Callers, Home
<1>5. wire[t].state # "sent"
  BY <1>1, <1>4, NotSent
<1>6. Own(t)
  BY DEF QuietInv
<1>7. Knows(l)
  BY <1>2, <1>3, <1>5, <1>6 DEF Knows, Own, Steers
<1>8. Kids /\ ~At(c, "start", "wait")
  BY <1>1, IdleBegins, OtherKids
<1> QED
  BY <1>1, <1>7, <1>8, StillFalls DEF server

\* The call an accepted start or control begins as.
LEMMA BeginKnown ==
  ASSUME NEW c \in Callers, NEW kind, NEW o \in Ops, NEW pc, NEW lease,
         NEW t \in Tasks, t = TaskOf(o), Begin(c, kind, o, pc, lease)
  PROVE  \E l : /\ call' = [call EXCEPT ![c] = l]
                /\ l.pc = pc /\ l.kind = kind /\ l.task = t /\ l.turn = rec'[t].turn
                /\ l.prev = None /\ l.status = "missing"
<1> DEFINE l == [Idle EXCEPT !.pc = pc, !.kind = kind, !.op = o, !.lease = lease,
                             !.task = TaskOf(o), !.turn = rec'[TaskOf(o)].turn]
<1>1. call' = [call EXCEPT ![c] = l]
  BY DEF Begin
<1>2. /\ l.pc = pc /\ l.kind = kind /\ l.task = t /\ l.turn = rec'[t].turn
      /\ l.prev = None /\ l.status = "missing"
  BY DEF Idle
<1> QED
  BY <1>1, <1>2

\* A start begins.
LEMMA StartKnown ==
  ASSUME QuietInv, NEW c \in Callers, NEW t \in Tasks, NEW pc, Begin(c, "start", t, pc, TRUE),
         rec'[t].turn \in {rec[t].turn, None}
  PROVE  \E l : call' = [call EXCEPT ![c] = l] /\ Knows(l)
<1> DEFINE l == [Idle EXCEPT !.pc = pc, !.kind = "start", !.op = t, !.lease = TRUE,
                             !.task = TaskOf(t), !.turn = rec'[TaskOf(t)].turn]
<1>1. call' = [call EXCEPT ![c] = l]
  BY DEF Begin
<1>2. /\ l.pc = pc /\ l.kind = "start" /\ l.task = t /\ l.turn = rec'[t].turn
      /\ l.prev = None /\ l.status = "missing"
  BY Names DEF Idle
<1> HIDE DEF l
<1>3. Own(t)
  BY DEF QuietInv
<1>4. Knows(l)
  BY <1>2, <1>3 DEF Knows, Own, Terminal, Steers
<1> QED
  BY <1>1, <1>4

LEMMA RetryStartQuiet ==
  ASSUME IndInv, QuietInv, NEW c \in Callers, NEW t \in Tasks, RetryStart(c, t)
  PROVE  QuietInv'
<1> DEFINE q0 == [rec[t] EXCEPT !.status = "accepted"]
           q == SetPhase(q0, t, "accepted")
<1>1. /\ call[c] = Idle /\ rec[t].status = "retryable"
      /\ rec' = [rec EXCEPT ![t] = q] /\ Begin(c, "start", t, "admit", TRUE)
      /\ UNCHANGED <<reg, wire, server, ask>>
  BY DEF RetryStart, Retryable
<1>2. rec[t] \in Record /\ rec \in [Tasks -> Record] /\ t \in Ops
  BY Names DEF IndInv, Base, TypeOK
<1>3. /\ q0 \in Record /\ q0.thread = rec[t].thread /\ q0.claim = rec[t].claim
      /\ q0.status = "accepted" /\ q0.turn = rec[t].turn /\ q0.prev = rec[t].prev
  BY <1>2 DEF Record, Statuses
<1>4. "accepted" \in Phases
  BY DEF Phases
<1> HIDE DEF q0
<1>5. /\ q.status = "accepted" /\ q.thread = rec[t].thread /\ q.claim = rec[t].claim
      /\ q.turn = rec[t].turn /\ q.prev = rec[t].prev
  BY <1>2, <1>3, <1>4, SetPhaseFields
<1> HIDE DEF q
<1>6. rec'[t] = q /\ \A u \in Tasks \ {t} : rec'[u] = rec[u]
  BY <1>1, <1>2
<1>7. PICK l : call' = [call EXCEPT ![c] = l] /\ Knows(l)
  BY <1>1, <1>5, <1>6, StartKnown
<1>8. rec[t].prev = None
  BY DEF QuietInv, Own
<1>9. Writes(t)
  BY <1>1, <1>5, <1>6, <1>8 DEF Writes, Exists, Terminal
<1>10. \A u \in Tasks : Writes(u)
  BY <1>6, <1>9, SameWrites
<1>11. Kids /\ Stands(c)
  BY <1>1, <1>7, IdleBegins, OtherKids DEF Stands
<1>12. WireFalls /\ TurnsFall /\ NewsFall /\ UNCHANGED <<ask, served>>
  BY <1>1, SameWire, ServerFalls DEF server
<1> QED
  BY <1>7, <1>10, <1>11, <1>12, CallerFalls

LEMMA ControlAcceptQuiet ==
  ASSUME IndInv, QuietInv, Calm', NEW c \in Callers, NEW o \in Controls, ControlAccept(c, o)
  PROVE  QuietInv'
<1>1. PICK t \in Tasks : t = Target[o] /\ t = TaskOf(o)
  BY Names
<1> DEFINE r == rec[t]
           q0 == IF Reopens(o)
                 THEN [r EXCEPT !.prev = r.turn, !.turn = None, !.status = "reconcile"] ELSE r
           q == Push(q0, o)
           f == ~Registered(Home(c), t)
<1>2. /\ call[c] = Idle /\ Controllable(o) /\ (Registered(Home(c), t) \/ ~LeaseHeld(t))
      /\ rec' = [rec EXCEPT ![t] = q] /\ Begin(c, Action[o], o, "ensure", f)
      /\ UNCHANGED <<reg, wire, server, ask>>
  BY <1>1 DEF ControlAccept
<1>3. /\ r \in Record /\ rec \in [Tasks -> Record] /\ o \in Ops /\ Action[o] \in Steers
      /\ Home(c) \in Procs
  BY Names DEF IndInv, Base, TypeOK, Callers, Home
<1>4. /\ r.status # "missing" /\ r.thread # None
      /\ Action[o] # "resume" => r.turn # None
  BY <1>1, <1>2 DEF Controllable
<1>5. q0 \in Record /\ (Reopens(o) => q0.turn = None) /\ (~Reopens(o) => q0 = r)
  BY <1>3 DEF Record, Statuses
<1> HIDE DEF q0, f
<1>6. /\ q.status = q0.status /\ q.thread = q0.thread /\ q.claim = q0.claim
      /\ q.turn = q0.turn /\ q.prev = q0.prev
  BY <1>3, <1>5, PushFields
<1> HIDE DEF q
<1>7. rec'[t] = q /\ \A u \in Tasks \ {t} : rec'[u] = rec[u]
  BY <1>2, <1>3
<1>8. PICK l : /\ call' = [call EXCEPT ![c] = l]
               /\ l.pc = "ensure" /\ l.kind = Action[o] /\ l.task = t /\ l.turn = rec'[t].turn
               /\ l.prev = None /\ l.status = "missing"
  BY <1>1, <1>2, <1>3, BeginKnown
<1>9. ~Reopens(o)
  <2>1. call'[c] = l
    BY <1>8 DEF IndInv, Base, TypeOK
  <2>2. l.kind = "steer" => l.turn # None
    BY <2>1 DEF Calm
  <2> QED
    BY <1>5, <1>6, <1>7, <1>8, <2>2 DEF Reopens
<1>10. wire[t].state # "sent" /\ Own(t)
  BY <1>2, <1>3, NotSent DEF QuietInv
<1>11. Knows(l)
  BY <1>4, <1>5, <1>6, <1>7, <1>8, <1>9, <1>10 DEF Knows, Own, Terminal
<1>12. Writes(t)
  BY <1>5, <1>6, <1>7, <1>9, <1>10 DEF Writes, Own, Exists
<1>13. \A u \in Tasks : Writes(u)
  BY <1>7, <1>12, SameWrites
<1>14. Kids /\ Stands(c)
  BY <1>2, <1>8, IdleBegins, OtherKids DEF Stands
<1>15. WireFalls /\ TurnsFall /\ NewsFall /\ UNCHANGED <<ask, served>>
  BY <1>2, SameWire, ServerFalls DEF server
<1> QED
  BY <1>8, <1>11, <1>13, <1>14, <1>15, CallerFalls

\* The source learns who continues it.
LEMMA ClaimWrites ==
  ASSUME IndInv, QuietInv, NEW s \in Tasks, NEW t \in Tasks, rec[s].claim \in {None, t},
         rec'[s] = [rec[s] EXCEPT !.claim = t]
  PROVE  Writes(s)
<1>1. rec[s] \in Record
  BY DEF IndInv, Base, TypeOK
<1>2. /\ rec'[s].claim = t /\ rec'[s].thread = rec[s].thread /\ rec'[s].status = rec[s].status
      /\ rec'[s].turn = rec[s].turn /\ rec'[s].prev = rec[s].prev
  BY <1>1 DEF Record
<1>3. rec[s].prev = None
  BY DEF QuietInv, Own
<1> QED
  BY <1>2, <1>3 DEF Writes, Exists

LEMMA StartTornQuiet ==
  ASSUME IndInv, QuietInv, NEW c \in Callers, NEW t \in Tasks, StartTorn(c, t)
  PROVE  QuietInv'
<1>1. /\ Source[t] # None /\ UNCHANGED <<reg, call, wire, server, ask>>
      /\ rec' = [rec EXCEPT ![Source[t]].claim = t] /\ rec[Source[t]].claim \in {None, t}
  BY DEF StartTorn, Continuable
<1>2. PICK s \in Tasks : s = Source[t]
  BY <1>1, OperationAssumption
<1>3. rec'[s] = [rec[s] EXCEPT !.claim = t] /\ \A u \in Tasks \ {s} : rec'[u] = rec[u]
  BY <1>1, <1>2 DEF IndInv, Base, TypeOK
<1>4. \A u \in Tasks : Writes(u)
  BY <1>1, <1>2, <1>3, ClaimWrites, SameWrites
<1>5. \A d \in Callers : Kept(call[d], call'[d])
  BY <1>1 DEF Kept
<1>6. \A d \in Callers : Knows(call'[d]) /\ Stands(d)
  BY <1>5, AllFollow
<1>7. /\ WireFalls /\ TurnsFall /\ NewsFall /\ Kids /\ UNCHANGED served
      /\ \A u \in Tasks : ask'[u].turn \in {None, u}
  BY <1>1, SameWire, ServerFalls, SameKids, SameAsks DEF server
<1> QED
  BY <1>4, <1>6, <1>7, FallStep

LEMMA StartAcceptQuiet ==
  ASSUME IndInv, QuietInv, NEW c \in Callers, NEW t \in Tasks, StartAccept(c, t)
  PROVE  QuietInv'
<1>1. PICK pc \in {"admit", "retire"} : StartAccepted(c, t, pc)
  BY StartAcceptFacts
<1> DEFINE p == Home(c)
           s == Source[t]
<1>2. /\ call[c] = Idle /\ ~Exists(t) /\ Begin(c, "start", t, pc, TRUE)
      /\ rec'[t] = NewRecord(t) /\ UNCHANGED <<wire, server, ask>>
      /\ \A u \in Tasks \ {t, s} : rec'[u] = rec[u]
      /\ \A q \in Procs, u \in Tasks : q # p \/ u # s => reg'[q][u] = reg[q][u]
  BY <1>1 DEF StartAccepted, StartBegun
<1>3. s # None => /\ s \in Tasks /\ rec'[s] = [rec[s] EXCEPT !.claim = t]
                  /\ rec[s].claim \in {None, t}
  BY <1>1 DEF StartAccepted
<1>4. s = None => s \notin Tasks
  BY Names
<1>5. reg[p][s] \in {"live", "dying"} /\ s \in Tasks => reg'[p][s] \in {"live", "dying"}
  <2>1. ASSUME s # None, s \in Tasks
        PROVE  reg' = [reg EXCEPT ![p][s] = CASE @ = "live" -> "dying"
                                              [] @ = "dead" -> "none"
                                              [] OTHER -> @]
    BY <2>1 DEF StartAccept
  <2>2. reg \in [Procs -> [Tasks -> {"none", "live", "dead", "dying"}]] /\ p \in Procs
    BY DEF IndInv, Base, TypeOK, Callers, Home
  <2> QED
    BY <1>4, <2>1, <2>2
<1>6. /\ NewRecord(t).status = "accepted" /\ NewRecord(t).prev = None /\ NewRecord(t).turn = None
  BY DEF NewRecord, NoRecord
<1>7. rec[t].thread = None /\ rec[t].claim = None
  BY <1>2, AbsentFacts
<1>8. Writes(t)
  BY <1>2, <1>6, <1>7 DEF Writes, Exists, Terminal
<1> HIDE DEF p, s
<1>9. \A u \in Tasks : Writes(u)
  BY <1>2, <1>3, <1>4, <1>8, ClaimWrites, SameWrites
<1>10. PICK l : call' = [call EXCEPT ![c] = l] /\ Knows(l)
  BY <1>2, <1>6, StartKnown
<1>11. Kids
  <2>1. call \in [Callers -> Call] /\ call[c].client # "own"
    BY <1>2, IdleBegins DEF IndInv, Base, TypeOK
  <2>2. \A d \in Callers \ {c} : call'[d] = call[d]
    BY <1>10, <2>1
  <2>3. \A q \in Procs, u \in Tasks : reg[q][u] \in {"live", "dying"}
                                        => reg'[q][u] \in {"live", "dying"}
    BY <1>2, <1>5
  <2> QED
    BY <2>1, <2>2, <2>3, KidsStay
<1>12. Stands(c) /\ WireFalls /\ TurnsFall /\ NewsFall /\ UNCHANGED <<ask, served>>
  BY <1>2, IdleBegins, SameWire, ServerFalls DEF server, Stands
<1> QED
  BY <1>9, <1>10, <1>11, <1>12, CallerFalls

-----------------------------------------------------------------------------
(* Ends of runtimes and processes. *)

\* Calls that stay have their own child still.
LEMMA KeptOwn ==
  ASSUME NEW c \in Callers, Kept(call[c], call'[c]), call[c] \in Call, call[c].client = "own"
  PROVE  call'[c].client = "own" /\ call'[c].task = call[c].task
  BY DEF Kept

\* The child of a runtime ends.
LEMMA RuntimeEnds ==
  ASSUME IndInv, QuietInv, NEW p \in Procs, NEW t \in Tasks,
         NEW x \in {"none", "dead"}, reg' = [reg EXCEPT ![p][t] = x],
         \A c \in Callers : Kept(call[c], call'[c]),
         ChildrenEnd({t}), Lost({t}), UNCHANGED <<rec, ask>>
  PROVE  QuietInv'
<1>1. \A q \in Procs, u \in Tasks : q # p \/ u # t => reg'[q][u] = reg[q][u]
  BY RegUpdate
<1>2. \A c \in Callers : call[c] \in Call
  BY DEF IndInv, Base, TypeOK
<1>3. \A u \in Tasks \ {t} : Alive(u) => Alive(u)'
  BY <1>1, <1>2, KeptOwn, AliveMeans
<1>4. Kids /\ TurnsFall /\ NewsFall /\ UNCHANGED served
  BY <1>3, EndKids, EndFalls
<1>5. WireFalls
  BY LostFalls DEF Lost
<1> QED
  BY <1>4, <1>5, AllFollow, SameRecords, SameAsks, FallStep

LEMMA RuntimeDiesQuiet ==
  ASSUME IndInv, QuietInv, NEW p \in Procs, NEW t \in Tasks, RuntimeDies(p, t)
  PROVE  QuietInv'
<1>1. /\ reg' = [reg EXCEPT ![p][t] = "dead"] /\ call' = Disconnected(p, t)
      /\ ChildrenEnd({t}) /\ Lost({t}) /\ UNCHANGED <<rec, ask>>
  BY DEF RuntimeDies
<1> QED
  BY <1>1, DisconnectedKept, RuntimeEnds

LEMMA ActorEndsQuiet ==
  ASSUME IndInv, QuietInv, NEW p \in Procs, NEW t \in Tasks, ActorEnds(p, t)
  PROVE  QuietInv'
<1>1. /\ reg' = [reg EXCEPT ![p][t] = "none"] /\ UNCHANGED call
      /\ ChildrenEnd({t}) /\ Lost({t}) /\ UNCHANGED <<rec, ask>>
  BY DEF ActorEnds
<1>2. \A c \in Callers : Kept(call[c], call'[c])
  BY <1>1 DEF Kept
<1> QED
  BY <1>1, <1>2, RuntimeEnds

LEMMA LifetimeOverQuiet ==
  ASSUME IndInv, QuietInv, NEW p \in Procs, NEW t \in Tasks, LifetimeOver(p, t)
  PROVE  QuietInv'
<1> DEFINE x == IF reg[p][t] = "live" THEN "dying" ELSE "none"
<1>1. /\ reg[p][t] \in {"live", "dead"} /\ reg' = [reg EXCEPT ![p][t] = x]
      /\ call' = Disconnected(p, t) /\ UNCHANGED <<rec, wire, server, ask>>
  BY DEF LifetimeOver, Registered
<1>2. x \in {"none", "live", "dead", "dying"} /\ (reg[p][t] = "live" => x = "dying")
  OBVIOUS
<1> HIDE DEF x
<1>3. /\ reg'[p][t] = x
      /\ \A q \in Procs, u \in Tasks : q # p \/ u # t => reg'[q][u] = reg[q][u]
  BY <1>1, <1>2, RegUpdate
<1>4. \A c \in Callers : Kept(call[c], call'[c])
  BY <1>1, DisconnectedKept
<1>5. \A c \in Callers : call[c] \in Call
  BY DEF IndInv, Base, TypeOK
<1>6. Kids
  <2>1. \A q \in Procs, u \in Tasks : reg[q][u] \in {"live", "dying"}
                                        => reg'[q][u] \in {"live", "dying"}
    BY <1>1, <1>2, <1>3
  <2> QED
    BY <1>4, <1>5, <2>1, KeptOwn, KidsStay
<1>7. \A c \in Callers : Knows(call'[c]) /\ Stands(c)
  BY <1>4, AllFollow
<1>8. /\ WireFalls /\ TurnsFall /\ NewsFall /\ UNCHANGED served
      /\ \A u \in Tasks : Writes(u) /\ ask'[u].turn \in {None, u}
  BY <1>1, SameWire, ServerFalls, SameRecords, SameAsks DEF server
<1> QED
  BY <1>6, <1>7, <1>8, FallStep

LEMMA CrashQuiet ==
  ASSUME IndInv, QuietInv, NEW p \in Procs, Crash(p)
  PROVE  QuietInv'
<1>1. /\ call' = [c \in Callers |-> IF Home(c) = p THEN Idle ELSE call[c]]
      /\ reg' = [reg EXCEPT ![p] = [t \in Tasks |-> "none"]]
      /\ ask' = [t \in Tasks |-> IF ask[t].proc = p THEN NoAsk ELSE ask[t]]
      /\ ChildrenEnd(Children(p)) /\ UNCHANGED rec
  BY DEF Crash
<1>2. /\ \A o \in Ops : wire'[o] = wire[o] \/ wire'[o] = NoWire
      /\ \A o \in Ops, c \in Callers : Home(c) = p /\ Awaits(c, o) => wire'[o] = NoWire
  BY DEF Crash
<1>3. \A q \in Procs \ {p}, t \in Tasks : reg'[q][t] = reg[q][t]
  BY <1>1 DEF IndInv, Base, TypeOK
<1>4. \A u \in Tasks \ Children(p) : Alive(u) => Alive(u)'
  <2> SUFFICES ASSUME NEW u \in Tasks, u \notin Children(p), Alive(u) PROVE Alive(u)'
    OBVIOUS
  <2>1. CASE \E q \in Procs : reg[q][u] \in {"live", "dying"}
    <3>1. PICK q \in Procs : reg[q][u] \in {"live", "dying"}
      BY <2>1
    <3>2. q # p
      BY <3>1 DEF Children
    <3> QED
      BY <1>3, <3>1, <3>2, AliveMeans
  <2>2. CASE \E c \in Callers : call[c].task = u /\ call[c].client = "own"
    <3>1. PICK c \in Callers : call[c].task = u /\ call[c].client = "own"
      BY <2>2
    <3>2. Home(c) # p
      BY <3>1 DEF Children
    <3>3. call'[c] = call[c]
      BY <1>1, <3>2
    <3> QED
      BY <3>1, <3>3, AliveMeans
  <2> QED
    BY <2>1, <2>2, AliveMeans
<1>5. Kids /\ TurnsFall /\ NewsFall /\ UNCHANGED served
  BY <1>1, <1>4, EndKids, EndFalls
<1>6. WireFalls /\ \A u \in Tasks : Writes(u)
  BY <1>1, <1>2, LostFalls, SameRecords
<1>7. ASSUME NEW c \in Callers
      PROVE  Knows(call'[c]) /\ Stands(c)
  <2>1. CASE Home(c) # p
    <3>1. call'[c] = call[c]
      BY <1>1, <2>1
    <3> QED
      BY <3>1, KnowsCall DEF Stands, At
  <2>2. CASE Home(c) = p
    <3>1. Knows(call'[c])
      BY <1>1, <2>2, IdleKnows
    <3>2. ASSUME At(c, "start", "wait")
          PROVE  \E t \in Tasks : call[c].task = t /\ wire'[t].state # "sent"
      <4>1. PICK t \in Tasks : t = call[c].task
        BY <3>2, StartFacts DEF At
      <4>2. Awaits(c, t) /\ t \in Ops
        BY <3>2, <4>1, StartFacts, Names DEF At, Awaits, StartShape
      <4>3. wire'[t].state = "none"
        BY <1>2, <2>2, <4>2 DEF NoWire
      <4> QED
        BY <4>1, <4>3
    <3> QED
      BY <3>1, <3>2 DEF Stands
  <2> QED
    BY <2>1, <2>2
<1>8. \A t \in Tasks : ask'[t].turn \in {None, t}
  BY <1>1 DEF NoAsk, QuietInv, Own
<1> QED
  BY <1>5, <1>6, <1>7, <1>8, FallStep

-----------------------------------------------------------------------------
(* Approvals. *)

\* Only a record and its approval change.
LEMMA AskFalls ==
  ASSUME IndInv, QuietInv, \A u \in Tasks : Writes(u), UNCHANGED <<reg, call, wire, server>>,
         NEW t \in Tasks, NEW a, ask' = [ask EXCEPT ![t] = a], a.turn \in {None, t}
  PROVE  QuietInv'
<1>1. \A d \in Callers : Kept(call[d], call'[d])
  BY DEF Kept
<1>2. \A d \in Callers : Knows(call'[d]) /\ Stands(d)
  BY <1>1, AllFollow
<1>3. ask'[t] = a /\ \A u \in Tasks \ {t} : ask'[u] = ask[u]
  BY DEF IndInv, Base, TypeOK
<1>4. \A u \in Tasks : ask'[u].turn \in {None, u}
  BY <1>3 DEF QuietInv, Own
<1>5. /\ WireFalls /\ TurnsFall /\ NewsFall /\ Kids /\ UNCHANGED served
  BY SameWire, ServerFalls, SameKids DEF server
<1> QED
  BY <1>2, <1>4, <1>5, FallStep

LEMMA AsksQuiet ==
  ASSUME IndInv, QuietInv, NEW p \in Procs, NEW t \in Tasks, Asks(p, t)
  PROVE  QuietInv'
<1>1. rec[t].thread # None /\ UNCHANGED <<rec, reg, call, wire, server>>
  BY DEF Asks
<1>2. PICK h \in Tasks : h = rec[t].thread
  BY <1>1 DEF IndInv, Base, TypeOK, Record
<1>3. PICK i \in DOMAIN turns[h] :
        /\ TaskOf(turns[h][i].op) = t
        /\ ask' = [ask EXCEPT ![t] = [stage |-> "asked", turn |-> turns[h][i].op, proc |-> p]]
  BY <1>2 DEF Asks
<1>4. Turn(h, i)
  BY <1>3 DEF QuietInv, Thread
<1>5. turns[h][i].op = t
  BY <1>3, <1>4, Names DEF Turn
<1> DEFINE a == [stage |-> "asked", turn |-> turns[h][i].op, proc |-> p]
<1>6. a.turn = t
  BY <1>5
<1> HIDE DEF a
<1> QED
  BY <1>1, <1>3, <1>6, SameRecords, AskFalls DEF a

LEMMA AskBoundQuiet ==
  ASSUME IndInv, QuietInv, NEW t \in Tasks, AskBound(t)
  PROVE  QuietInv'
<1>1. ask[t].stage = "asked" /\ UNCHANGED <<reg, call, wire, server>>
  BY DEF AskBound
<1>2. /\ Exists(t) /\ ask[t] \in Ask /\ rec[t] \in Record /\ ask[t].turn \in {None, t}
  BY <1>1 DEF IndInv, Base, Threaded, TypeOK, Threads, QuietInv, Own
<1>3. CASE /\ rec' = [rec EXCEPT ![t].turn = ask[t].turn]
           /\ ask' = [ask EXCEPT ![t].stage = "bound"]
  <2> DEFINE q == [rec[t] EXCEPT !.turn = ask[t].turn]
             a == [ask[t] EXCEPT !.stage = "bound"]
  <2>1. rec' = [rec EXCEPT ![t] = q] /\ ask' = [ask EXCEPT ![t] = a]
    BY <1>3
  <2>2. a.turn = ask[t].turn
    BY <1>2 DEF Ask
  <2>3. /\ q \in Record /\ q.thread = rec[t].thread /\ q.claim = rec[t].claim
        /\ q.ops = rec[t].ops /\ q.tombs = rec[t].tombs /\ q.status = rec[t].status
        /\ q.turn = ask[t].turn /\ q.prev = rec[t].prev
    BY <1>2 DEF Record, Ask
  <2> HIDE DEF q, a
  <2>4. Settles(rec[t], q)
    BY <1>2, <2>3, PlainSettles
  <2>5. \A u \in Tasks : Writes(u)
    BY <1>2, <2>1, <2>3, <2>4, OneWrites
  <2> QED
    BY <1>1, <1>2, <2>1, <2>2, <2>5, AskFalls
<1>4. CASE ask' = [ask EXCEPT ![t] = NoAsk] /\ UNCHANGED rec
  <2>1. NoAsk.turn = None
    BY DEF NoAsk
  <2> QED
    BY <1>1, <1>4, <2>1, SameRecords, AskFalls
<1> QED
  BY <1>3, <1>4 DEF AskBound

LEMMA AskWaitsQuiet ==
  ASSUME IndInv, QuietInv, NEW t \in Tasks, AskWaits(t)
  PROVE  QuietInv'
<1> DEFINE q == [rec[t] EXCEPT !.status = IF Terminal(@) THEN @ ELSE "waiting"]
           a == [ask[t] EXCEPT !.stage = "waiting"]
<1>1. ask[t].stage = "bound" /\ UNCHANGED <<reg, call, wire, server>>
  BY DEF AskWaits
<1>2. /\ Exists(t) /\ ask[t] \in Ask /\ rec[t] \in Record /\ ask[t].turn \in {None, t}
  BY <1>1 DEF IndInv, Base, Threaded, TypeOK, Threads, QuietInv, Own
<1>3. rec' = [rec EXCEPT ![t] = q] /\ ask' = [ask EXCEPT ![t] = a]
  BY DEF AskWaits
<1>4. a.turn = ask[t].turn
  BY <1>2 DEF Ask
<1>5. "waiting" \in Statuses \ {"missing", "retryable"} /\ ~Terminal("waiting")
  BY DEF Statuses, Terminal
<1>6. Settles(rec[t], q)
  BY <1>2, <1>5, StatusSettles
<1>7. /\ q.prev = rec[t].prev /\ q.turn = rec[t].turn
      /\ Terminal(q.status) => Terminal(rec[t].status)
  BY <1>2, <1>5 DEF Record
<1> HIDE DEF q, a
<1>8. \A u \in Tasks : Writes(u)
  BY <1>2, <1>3, <1>6, <1>7, OneWrites
<1> QED
  BY <1>1, <1>2, <1>3, <1>4, <1>8, AskFalls

LEMMA AskDecidedQuiet ==
  ASSUME IndInv, QuietInv, NEW t \in Tasks, AskDecided(t)
  PROVE  QuietInv'
<1> DEFINE q == [rec[t] EXCEPT !.status = IF @ = "waiting" THEN "running" ELSE @]
<1>1. /\ ask[t].stage = "waiting" /\ UNCHANGED <<reg, call, wire, server>>
      /\ ask' = [ask EXCEPT ![t] = NoAsk]
  BY DEF AskDecided
<1>2. Exists(t) /\ rec[t] \in Record
  BY <1>1 DEF IndInv, Base, Threaded, TypeOK, Threads
<1>3. rec' = [rec EXCEPT ![t] = q]
  BY DEF AskDecided
<1>4. NoAsk.turn = None
  BY DEF NoAsk
<1>5. /\ q \in Record /\ q.thread = rec[t].thread /\ q.claim = rec[t].claim
      /\ q.ops = rec[t].ops /\ q.tombs = rec[t].tombs
      /\ q.prev = rec[t].prev /\ q.turn = rec[t].turn
      /\ q.status = IF rec[t].status = "waiting" THEN "running" ELSE rec[t].status
  BY <1>2 DEF Record, Statuses
<1> HIDE DEF q
<1>6. Settles(rec[t], q) /\ (Terminal(q.status) => Terminal(rec[t].status))
  BY <1>2, <1>5, PlainSettles DEF Terminal
<1>7. \A u \in Tasks : Writes(u)
  BY <1>2, <1>3, <1>5, <1>6, OneWrites
<1> QED
  BY <1>1, <1>4, <1>7, AskFalls

-----------------------------------------------------------------------------
(* Requests that go out. *)

\* A request goes out, and its caller waits.
LEMMA SendStep ==
  ASSUME IndInv, QuietInv, NEW c \in Callers, NEW l, call' = [call EXCEPT ![c] = l],
         Knows(l), call[c].client = "own" => l.client = "own" /\ l.task = call[c].task,
         \A t \in Tasks : Writes(t), SendsFresh, Sent',
         \A o \in Controls : wire'[o] = wire[o] \/ wire'[o].state = "sent",
         UNCHANGED <<reg, turns, news, served, ask>>
  PROVE  QuietInv'
<1>1. TurnsFall /\ NewsFall /\ TurnsBegin /\ Kids
  BY ServerFalls, FallBegins, OtherKids
<1>2. QuietLasts /\ ContinuedLasts
  BY <1>1, QuietStays, ContinuedStays
<1>3. \A d \in Callers : Knows(call'[d])
  BY DEF QuietInv, Known, IndInv, Base, TypeOK
<1>4. Known' /\ \A h \in Tasks : Thread(h)' /\ Unread(h)' /\ Own(h)'
  <2>1. Known'
    BY <1>2, <1>3, KnownStays
  <2>2. \A h \in Tasks : Thread(h)' /\ Unread(h)'
    BY <1>1, <1>2, ThreadsFall, NewsFalls
  <2>3. \A h \in Tasks : Own(h)'
    BY <1>2, SameAsks, OwnStays
  <2> QED
    BY <2>1, <2>2, <2>3
<1>5. Halted'
  <2> SUFFICES ASSUME NEW o \in Controls, Action[o] = "interrupt", wire'[o].state = "ok"
               PROVE  Quiet(Target[o])'
    BY DEF Halted
  <2>1. Quiet(Target[o]) /\ Target[o] \in Tasks
    BY Names DEF QuietInv, Halted
  <2> QED
    BY <1>2, <2>1 DEF QuietLasts
<1> QED
  BY <1>4, <1>5 DEF QuietInv

LEMMA BindThreadQuiet ==
  ASSUME IndInv, QuietInv, NEW c \in Callers, BindThread(c)
  PROVE  QuietInv'
<1>1. /\ call[c].kind = "start" /\ call[c].pc = "bind" /\ Goto(c, "wait")
      /\ UNCHANGED <<reg, server, ask>>
  BY DEF BindThread, At
<1>2. PICK t \in Tasks : t = call[c].task
  BY <1>1, StartFacts
<1>3. /\ rec[t] \in Record /\ rec[t].thread = None /\ rec[t].status \in {"accepted", "reconcile"}
      /\ t \in Ops
  BY <1>1, <1>2, StartFacts, Names DEF StartShape, Unbound
<1> DEFINE q == [rec[t] EXCEPT !.thread = Conversation(t)]
           w == [state |-> "sent", turn |-> None]
<1>4. rec' = [rec EXCEPT ![t] = q] /\ wire' = [wire EXCEPT ![t] = w]
  BY <1>2, <1>3 DEF BindThread, Terminal
<1>5. /\ q.status = rec[t].status /\ q.claim = rec[t].claim /\ q.turn = rec[t].turn
      /\ q.prev = rec[t].prev
  BY <1>3 DEF Record
<1> HIDE DEF q
<1>6. /\ rec'[t] = q /\ \A u \in Tasks \ {t} : rec'[u] = rec[u]
  BY <1>4 DEF IndInv, Base, TypeOK
<1>7. wire'[t] = w /\ \A o \in Ops \ {t} : wire'[o] = wire[o]
  BY <1>3, <1>4 DEF IndInv, Base, TypeOK
<1>8. PICK l : /\ call' = [call EXCEPT ![c] = l] /\ Follows(call[c], l) /\ l.pc = "wait"
               /\ l.client = call[c].client /\ l.task = call[c].task
  BY <1>1, GotoFollows
<1>9. Knows(l)
  BY <1>8, KnowsCall, FollowsKnows
<1>10. rec[t].prev = None
  BY DEF QuietInv, Own
<1>11. Writes(t)
  BY <1>3, <1>5, <1>6, <1>10 DEF Writes, Exists
<1>12. \A u \in Tasks : Writes(u)
  BY <1>6, <1>11, SameWrites
<1>13. SendsFresh
  BY <1>3, <1>7, Names DEF SendsFresh, Over
<1>14. Sent'
  <2>1. call'[c] = l /\ \A d \in Callers \ {c} : call'[d] = call[d]
    BY <1>8 DEF IndInv, Base, TypeOK
  <2>2. ASSUME NEW u \in Tasks, wire'[u].state = "sent"
        PROVE  \E d \in Callers : At(d, "start", "wait")' /\ call'[d].task = u
    <3>1. CASE u = t
      BY <1>1, <1>2, <1>8, <2>1, <3>1 DEF At, Follows
    <3>2. CASE u # t
      <4>1. PICK d \in Callers : At(d, "start", "wait") /\ call[d].task = u
        BY <1>7, <2>2, <3>2, Names DEF QuietInv, Sent
      <4>2. d # c
        BY <1>1, <4>1 DEF At
      <4> QED
        BY <2>1, <4>1, <4>2 DEF At
    <3> QED
      BY <3>1, <3>2
  <2>3. \A o \in Ops : wire'[o].state # "none" /\ wire'[o].turn = None => o \in Tasks
    BY <1>7 DEF QuietInv, Sent
  <2> QED
    BY <2>2, <2>3 DEF Sent
<1>15. \A o \in Controls : wire'[o] = wire[o]
  BY <1>7, Names
<1> QED
  BY <1>1, <1>8, <1>9, <1>12, <1>13, <1>14, <1>15, SendStep DEF server

LEMMA SendQuiet ==
  ASSUME IndInv, QuietInv, NEW c \in Callers, Send(c)
  PROVE  QuietInv'
<1> DEFINE w == [state |-> "sent", turn |-> call[c].turn]
<1>1. /\ call[c].pc = "send" /\ call[c].kind \in {"steer", "interrupt"} /\ Goto(c, "wait")
      /\ UNCHANGED <<rec, reg, server, ask>> /\ wire' = [wire EXCEPT ![call[c].op] = w]
  BY DEF Send
<1>2. PICK o \in Controls : o = call[c].op
  BY <1>1, IsRequest DEF RequestShape
<1>3. wire'[o] = w /\ \A x \in Ops \ {o} : wire'[x] = wire[x]
  BY <1>1, <1>2, Names DEF IndInv, Base, TypeOK
<1>4. PICK l : /\ call' = [call EXCEPT ![c] = l] /\ Follows(call[c], l)
               /\ l.client = call[c].client /\ l.task = call[c].task
  BY <1>1, GotoFollows
<1>5. Knows(l)
  BY <1>4, KnowsCall, FollowsKnows
<1>6. w.turn # None /\ w.state = "sent"
  BY <1>1, KnowsCall DEF Knows
<1> HIDE DEF w
<1>7. \A t \in Tasks : wire'[t] = wire[t]
  BY <1>2, <1>3, Names
<1>8. SendsFresh
  BY <1>7 DEF SendsFresh
<1>9. Sent'
  <2>1. \A d \in Callers \ {c} : call'[d] = call[d]
    BY <1>4 DEF IndInv, Base, TypeOK
  <2>2. ASSUME NEW u \in Tasks, wire'[u].state = "sent"
        PROVE  \E d \in Callers : At(d, "start", "wait")' /\ call'[d].task = u
    <3>1. PICK d \in Callers : At(d, "start", "wait") /\ call[d].task = u
      BY <1>7, <2>2 DEF QuietInv, Sent
    <3>2. d # c
      BY <1>1, <3>1 DEF At
    <3> QED
      BY <2>1, <3>1, <3>2 DEF At
  <2>3. \A x \in Ops : wire'[x].state # "none" /\ wire'[x].turn = None => x \in Tasks
    BY <1>3, <1>6 DEF QuietInv, Sent
  <2> QED
    BY <2>2, <2>3 DEF Sent
<1>10. \A x \in Controls : wire'[x] = wire[x] \/ wire'[x].state = "sent"
  BY <1>3, <1>6, Names
<1> QED
  BY <1>1, <1>4, <1>5, <1>8, <1>9, <1>10, SameRecords, SendStep DEF server

-----------------------------------------------------------------------------
(* The app-server. *)

\* The app-server serves, ends a turn or has a notification read.
LEMMA ServerStep ==
  ASSUME IndInv, QuietInv, \A t \in Tasks : Writes(t), SendsFresh, QuietLasts,
         Sent', Halted', \A h \in Tasks : Thread(h)' /\ Unread(h)', UNCHANGED <<call, ask>>
  PROVE  QuietInv'
<1>1. \A d \in Callers : Knows(call'[d])
  BY DEF QuietInv, Known
<1>2. Known'
  BY <1>1, KnownStays
<1>3. \A h \in Tasks : Own(h)'
  BY SameAsks, OwnStays
<1> QED
  BY <1>2, <1>3 DEF QuietInv

\* A notification that is still there.
LEMMA ItemStays ==
  ASSUME NEW h \in Tasks, NEW i, NEW j, Item(h, i), news'[h][j] = news[h][i],
         \A t \in Tasks : Writes(t), UNCHANGED <<reg, call>>, QuietLasts
  PROVE  Item(h, j)'
<1>1. PICK u \in Tasks : /\ news[h][i].turn = u /\ rec[u].thread = h /\ Alive(u)
                         /\ Terminal(news[h][i].status) => Quiet(u)
  BY DEF Item
<1>2. rec'[u].thread = h
  BY <1>1, Names DEF Writes
<1>3. Alive(u)'
  BY <1>1, AliveMeans
<1>4. Terminal(news'[h][j].status) => Quiet(u)'
  BY <1>1 DEF QuietLasts
<1> QED
  BY <1>1, <1>2, <1>3, <1>4 DEF Item

\* A notification that is new.
LEMMA AnnounceFalls ==
  ASSUME IndInv, QuietInv, NEW h \in Tasks, NEW u \in Tasks, NEW x \in TurnStatuses,
         Announce(h, u, x), rec[u].thread = h, Alive(u), Terminal(x) => Quiet(u)',
         UNCHANGED <<rec, reg, call>>, QuietLasts
  PROVE  \A g \in Tasks : Unread(g)'
<1> DEFINE n == [turn |-> u, status |-> x]
<1>1. \A t \in Tasks : Writes(t)
  BY SameRecords
<1>2. news \in [Tasks -> Seq([turn : Ops, status : TurnStatuses])]
  BY DEF IndInv, Base, TypeOK
<1>3. news'[h] = Append(news[h], n) /\ \A g \in Tasks \ {h} : news'[g] = news[g]
  BY <1>2 DEF Announce
<1>4. n \in [turn : Ops, status : TurnStatuses] /\ n.turn = u /\ n.status = x
  BY Names
<1> HIDE DEF n
<1>5. news[h] \in Seq([turn : Ops, status : TurnStatuses])
  BY <1>2
<1>6. /\ Len(news[h]) \in Nat /\ DOMAIN news[h] = 1..Len(news[h])
      /\ DOMAIN news'[h] = 1..(Len(news[h]) + 1)
      /\ news'[h][Len(news[h]) + 1] = n
      /\ \A i \in 1..Len(news[h]) : news'[h][i] = news[h][i]
  BY <1>3, <1>4, <1>5
<1> SUFFICES ASSUME NEW g \in Tasks, NEW i \in DOMAIN news'[g] PROVE Item(g, i)'
  BY DEF Unread
<1>7. CASE g # h
  <2>1. news'[g] = news[g]
    BY <1>3, <1>7
  <2>2. Item(g, i) /\ news'[g][i] = news[g][i]
    BY <2>1 DEF QuietInv, Unread
  <2> QED
    BY <1>1, <2>2, ItemStays
<1>8. CASE g = h /\ i \in DOMAIN news[h]
  <2>1. Item(h, i) /\ news'[h][i] = news[h][i]
    BY <1>6, <1>8 DEF QuietInv, Unread
  <2>2. Item(h, i)'
    BY <1>1, <2>1, ItemStays
  <2> QED
    BY <1>8, <2>2
<1>9. CASE g = h /\ i \notin DOMAIN news[h]
  <2>1. i = Len(news[h]) + 1
    BY <1>6, <1>9
  <2>2. news'[h][i] = n
    BY <1>6, <2>1
  <2>3. Alive(u)'
    BY AliveMeans
  <2> QED
    BY <1>4, <1>9, <2>2, <2>3 DEF Item
<1> QED
  BY <1>7, <1>8, <1>9

\* The running turn of a thread ends.
LEMMA EndTurnFalls ==
  ASSUME IndInv, QuietInv, NEW h \in Tasks, NEW x, x # "running", EndTurn(h, x), UNCHANGED rec
  PROVE  /\ TurnsFall
         /\ \A u \in Tasks : rec[u].thread = h /\ wire'[u].state # "sent" => Quiet(u)'
<1>1. turns \in [Tasks -> Seq([op : Ops, status : TurnStatuses])]
  BY DEF IndInv, Base, TypeOK
<1> DEFINE s == turns[h]
           z == [i \in DOMAIN s |-> IF s[i].status = "running"
                                    THEN [s[i] EXCEPT !.status = x] ELSE s[i]]
<1>2. turns' = [turns EXCEPT ![h] = z]
  BY DEF EndTurn
<1>3. \A i \in DOMAIN s : s[i] \in [op : Ops, status : TurnStatuses]
  <2>1. s \in Seq([op : Ops, status : TurnStatuses])
    BY <1>1
  <2> HIDE DEF s
  <2> QED
    BY <2>1, SeqParts
<1>4. /\ DOMAIN z = DOMAIN s
      /\ \A i \in DOMAIN s : z[i].op = s[i].op /\ z[i].status # "running"
  BY <1>3
<1> HIDE DEF z
<1>5. turns'[h] = z /\ \A g \in Tasks \ {h} : turns'[g] = turns[g]
  BY <1>1, <1>2
<1>6. TurnsFall
  BY <1>4, <1>5 DEF TurnsFall
<1>7. ASSUME NEW u \in Tasks, rec[u].thread = h, wire'[u].state # "sent"
      PROVE  Quiet(u)'
  <2>1. Over(u)'
    BY <1>7, Names DEF Over
  <2>2. ASSUME NEW g \in Tasks, RunningTurn(g, u)'
        PROVE  FALSE
    <3>1. PICK i \in DOMAIN turns'[g] : turns'[g][i].op = u /\ turns'[g][i].status = "running"
      BY <2>2 DEF RunningTurn
    <3>2. i \in DOMAIN turns[g] /\ turns[g][i].op = u
      BY <1>6, <3>1 DEF TurnsFall
    <3>3. Turn(g, i)
      BY <3>2 DEF QuietInv, Thread
    <3>4. g = h
      BY <1>7, <3>2, <3>3 DEF Turn
    <3> QED
      BY <1>4, <1>5, <3>1, <3>2, <3>4
  <2> QED
    BY <1>7, <2>1, <2>2 DEF Quiet
<1> QED
  BY <1>6, <1>7

\* The turn that is running in a thread.
LEMMA RunningOne ==
  ASSUME IndInv, QuietInv, NEW h \in Tasks, NEW i \in DOMAIN turns[h],
         turns[h][i].status = "running"
  PROVE  \E u \in Tasks : /\ turns[h][i].op = u /\ rec[u].thread = h /\ Alive(u)
                          /\ wire[u].state # "sent"
<1>1. PICK u \in Tasks : /\ turns[h][i].op = u /\ rec[u].thread = h /\ served[u] # 0
                         /\ Alive(u)
  BY DEF QuietInv, Thread, Turn
<1>2. wire[u].state # "sent"
  BY <1>1, Names DEF IndInv, Once
<1> QED
  BY <1>1, <1>2

LEMMA TurnEndsQuiet ==
  ASSUME IndInv, QuietInv, NEW t \in Tasks, TurnEnds(t)
  PROVE  QuietInv'
<1>1. rec[t].thread # None /\ UNCHANGED <<rec, reg, call, wire, ask, begun, served>>
  BY DEF TurnEnds
<1>2. PICK h \in Tasks : h = rec[t].thread
  BY <1>1 DEF IndInv, Base, TypeOK, Record
<1>3. PICK i \in DOMAIN turns[h], x \in Outcomes :
        /\ turns[h][i].status = "running"
        /\ EndTurn(h, x) /\ Announce(h, turns[h][i].op, x)
  BY <1>2 DEF TurnEnds
<1>4. PICK u \in Tasks : /\ turns[h][i].op = u /\ rec[u].thread = h /\ Alive(u)
                         /\ wire[u].state # "sent"
  BY <1>3, RunningOne
<1>5. x \in TurnStatuses /\ x # "running"
  BY OutcomeAssumption DEF TurnStatuses
<1>6. TurnsFall /\ Quiet(u)'
  BY <1>1, <1>3, <1>4, <1>5, EndTurnFalls
<1>7. SendsFresh /\ TurnsBegin /\ \A v \in Tasks : Writes(v)
  BY <1>1, <1>6, FallBegins, SameRecords DEF SendsFresh
<1>8. QuietLasts /\ ContinuedLasts
  BY <1>7, QuietStays, ContinuedStays
<1>9. \A g \in Tasks : Unread(g)'
  BY <1>1, <1>3, <1>4, <1>5, <1>6, <1>8, AnnounceFalls
<1>10. Kids
  BY <1>1, SameKids
<1>11. \A g \in Tasks : Thread(g)'
  BY <1>1, <1>6, <1>7, <1>8, <1>10, ThreadsFall
<1>12. Sent'
  BY <1>1 DEF QuietInv, Sent, At
<1>13. Halted'
  <2>1. \A o \in Controls : Action[o] = "interrupt" /\ wire'[o].state = "ok" => Quiet(Target[o])
    BY <1>1 DEF QuietInv, Halted
  <2> QED
    BY <1>8, <2>1, Names DEF Halted, QuietLasts
<1> QED
  BY <1>1, <1>7, <1>8, <1>9, <1>11, <1>12, <1>13, ServerStep

LEMMA AliveIsDriven ==
  ASSUME NEW t \in Tasks, Alive(t)
  PROVE  Drivers(t) # {}
<1>1. CASE \E p \in Procs : reg[p][t] \in {"live", "dying"}
  <2>1. PICK p \in Procs : reg[p][t] \in {"live", "dying"}
    BY <1>1
  <2>2. <<"runtime", p>> \in Drivers(t)
    BY <2>1 DEF Drivers
  <2> QED
    BY <2>2
<1>2. CASE \E c \in Callers : call[c].task = t /\ call[c].client = "own"
  <2>1. PICK c \in Callers : call[c].task = t /\ call[c].client = "own"
    BY <1>2
  <2>2. <<"call", c>> \in Drivers(t)
    BY <2>1 DEF Drivers
  <2> QED
    BY <2>2
<1> QED
  BY <1>1, <1>2, AliveMeans

\* Two tasks that have a child each are not of one conversation.
LEMMA OneAlive ==
  ASSUME IndInv, NEW t \in Tasks, NEW u \in Tasks, Alive(t), Alive(u),
         rec[t].thread # None, rec[u].thread = rec[t].thread
  PROVE  t = u
<1>1. Drivers(t) # {} /\ Drivers(u) # {}
  BY AliveIsDriven
<1>2. Exists(t) /\ Exists(u) /\ Conversation(t) = Conversation(u)
  BY DEF IndInv, Threads
<1>3. t # u => Continued(t) \/ Continued(u)
  BY <1>2 DEF IndInv, OneLeaf
<1> QED
  BY <1>1, <1>2, <1>3, ContinuedIsAlone

LEMMA NotificationQuiet ==
  ASSUME IndInv, QuietInv, NEW t \in Tasks, Notification(t)
  PROVE  QuietInv'
<1>1. /\ rec[t].thread # None /\ Alive(t)
      /\ UNCHANGED <<reg, call, wire, turns, ask, begun, served>>
  BY DEF Notification
<1>2. PICK h \in Tasks : h = rec[t].thread
  BY <1>1 DEF IndInv, Base, TypeOK, Record
<1> DEFINE n == Head(news[h])
           q == Notified(rec[t], n)
<1>3. /\ news[h] # <<>> /\ rec' = [rec EXCEPT ![t] = q] /\ news' = [news EXCEPT ![h] = Tail(@)]
  BY <1>2 DEF Notification
<1>4. /\ rec[t] \in Record /\ Exists(t)
      /\ news \in [Tasks -> Seq([turn : Ops, status : TurnStatuses])]
  BY <1>1 DEF IndInv, Base, TypeOK, Threads
<1>5. news[h] \in Seq([turn : Ops, status : TurnStatuses])
  BY <1>4
<1>6. /\ Len(news[h]) \in Nat /\ Len(news[h]) > 0 /\ DOMAIN news[h] = 1..Len(news[h])
      /\ 1 \in DOMAIN news[h] /\ n = news[h][1] /\ n \in [turn : Ops, status : TurnStatuses]
      /\ DOMAIN Tail(news[h]) = 1..(Len(news[h]) - 1)
      /\ \A i \in 1..(Len(news[h]) - 1) : Tail(news[h])[i] = news[h][i + 1]
  <2>1. Len(news[h]) \in Nat /\ Len(news[h]) > 0
    BY <1>3, <1>5
  <2>2. DOMAIN news[h] = 1..Len(news[h])
    BY <1>5, SeqFun
  <2>3. /\ n \in [turn : Ops, status : TurnStatuses] /\ n = news[h][1]
        /\ Tail(news[h]) \in Seq([turn : Ops, status : TurnStatuses])
        /\ Len(Tail(news[h])) = Len(news[h]) - 1
        /\ \A i \in 1..(Len(news[h]) - 1) : Tail(news[h])[i] = news[h][i + 1]
    BY <1>5, <2>1, TailSeq
  <2>4. DOMAIN Tail(news[h]) = 1..(Len(news[h]) - 1)
    BY <2>3, SeqFun
  <2> QED
    BY <2>1, <2>2, <2>3, <2>4
<1>7. Item(h, 1)
  BY <1>6 DEF QuietInv, Unread
<1>8. n.turn = t /\ (Terminal(n.status) => Quiet(t))
  <2>1. PICK u \in Tasks : /\ news[h][1].turn = u /\ rec[u].thread = h /\ Alive(u)
                           /\ Terminal(news[h][1].status) => Quiet(u)
    BY <1>7 DEF Item
  <2>2. u = t
    BY <1>1, <1>2, <2>1, OneAlive
  <2> QED
    BY <1>6, <2>1, <2>2
<1> HIDE DEF n
<1>9. Settles(rec[t], q)
  BY <1>4, <1>6, NotifiedSettles
<1>10. rec[t].prev = None
  BY DEF QuietInv, Own
<1>11. /\ q.prev = rec[t].prev /\ q.turn \in {rec[t].turn, t}
       /\ Terminal(q.status) => Terminal(rec[t].status) \/ Quiet(t)
  <2> DEFINE z == [rec[t] EXCEPT !.status = n.status, !.turn = n.turn,
                                 !.prev = IF rec[t].turn = None THEN None ELSE @]
  <2>1. q = rec[t] \/ q = z
    BY DEF Notified
  <2>2. z.prev = rec[t].prev /\ z.turn = t /\ z.status = n.status
    BY <1>4, <1>8, <1>10 DEF Record
  <2> HIDE DEF z, q
  <2> QED
    BY <1>8, <2>1, <2>2
<1> HIDE DEF q
<1>12. \A u \in Tasks : Writes(u)
  BY <1>3, <1>4, <1>9, <1>11, OneWrites
<1>13. TurnsFall /\ SendsFresh /\ Kids
  BY <1>1, SameKids DEF TurnsFall, SendsFresh
<1>14. QuietLasts /\ ContinuedLasts
  BY <1>12, <1>13, FallBegins, QuietStays, ContinuedStays
<1>15. \A g \in Tasks : Thread(g)'
  BY <1>1, <1>12, <1>13, <1>14, ThreadsFall
<1>16. ASSUME NEW g \in Tasks, NEW i \in DOMAIN news'[g]
       PROVE  Item(g, i)'
  <2>1. news'[h] = Tail(news[h]) /\ \A f \in Tasks \ {h} : news'[f] = news[f]
    BY <1>3, <1>4
  <2>2. CASE g # h
    <3>1. Item(g, i) /\ news'[g][i] = news[g][i]
      BY <2>1, <2>2 DEF QuietInv, Unread
    <3> QED
      BY <1>1, <1>12, <1>14, <3>1, ItemStays
  <2>3. CASE g = h
    <3>1. i \in 1..(Len(news[h]) - 1)
      BY <1>6, <2>1, <2>3
    <3>2. i + 1 \in DOMAIN news[h] /\ news'[h][i] = news[h][i + 1]
      BY <1>6, <2>1, <3>1
    <3>3. Item(h, i + 1)
      BY <3>2 DEF QuietInv, Unread
    <3>4. Item(h, i)'
      BY <1>1, <1>12, <1>14, <3>2, <3>3, ItemStays
    <3> QED
      BY <2>3, <3>4
  <2> QED
    BY <2>2, <2>3
<1>17. Sent'
  BY <1>1 DEF QuietInv, Sent, At
<1>18. Halted'
  <2>1. \A o \in Controls : Action[o] = "interrupt" /\ wire'[o].state = "ok" => Quiet(Target[o])
    BY <1>1 DEF QuietInv, Halted
  <2> QED
    BY <1>14, <2>1, Names DEF Halted, QuietLasts
<1> QED
  BY <1>1, <1>12, <1>13, <1>14, <1>15, <1>16, <1>17, <1>18, ServerStep DEF Unread

\* What the app-server's answer makes of the wire.
LEMMA AnswerFalls ==
  ASSUME IndInv, QuietInv, NEW o \in Ops, NEW x \in {"ok", "err"}, wire[o].state = "sent",
         Answer(o, x), UNCHANGED call
  PROVE  /\ SendsFresh /\ Sent' /\ \A t \in Tasks : wire'[t].state = "sent" => wire[t].state = "sent"
         /\ \A u \in Ops \ {o} : wire'[u] = wire[u]
         /\ wire'[o].state = "ok" => x = "ok" /\ \E c \in Callers : Awaits(c, o)
<1> DEFINE w == IF \E c \in Callers : Awaits(c, o) THEN [wire[o] EXCEPT !.state = x] ELSE NoWire
<1>1. wire \in [Ops -> Wire]
  BY DEF IndInv, Base, TypeOK
<1>2. wire' = [wire EXCEPT ![o] = w]
  BY DEF Answer
<1>3. /\ w.state # "sent" /\ (w.state # "none" => w.turn = wire[o].turn)
      /\ w.state = "ok" => x = "ok" /\ \E c \in Callers : Awaits(c, o)
  BY <1>1 DEF NoWire, Wire
<1> HIDE DEF w
<1>4. wire'[o] = w /\ \A u \in Ops \ {o} : wire'[u] = wire[u]
  BY <1>1, <1>2
<1>5. \A t \in Tasks : wire'[t].state = "sent" => wire[t].state = "sent"
  BY <1>3, <1>4, Names
<1>6. Sent'
  <2>1. ASSUME NEW t \in Tasks, wire'[t].state = "sent"
        PROVE  \E c \in Callers : At(c, "start", "wait")' /\ call'[c].task = t
    BY <1>5, <2>1 DEF QuietInv, Sent, At
  <2>2. \A u \in Ops : wire'[u].state # "none" /\ wire'[u].turn = None => u \in Tasks
    BY <1>3, <1>4 DEF QuietInv, Sent
  <2> QED
    BY <2>1, <2>2 DEF Sent
<1> QED
  BY <1>3, <1>4, <1>5, <1>6 DEF SendsFresh

\* turn/start is served: everybody before in the thread has been continued.
LEMMA TurnBegins ==
  ASSUME IndInv, QuietInv, NEW t \in Tasks, NEW h \in Tasks, rec[t].thread = h, Alive(t),
         wire[t].state = "sent", NEW x \in {"ok", "err"}, Answer(t, x),
         turns' = [turns EXCEPT ![h] = Append(@, [op |-> t, status |-> "running"])],
         Announce(h, t, "running"), served' = [served EXCEPT ![t] = @ + 1],
         UNCHANGED <<rec, reg, call, ask>>
  PROVE  QuietInv'
<1> DEFINE e == [op |-> t, status |-> "running"]
<1>1. /\ turns \in [Tasks -> Seq([op : Ops, status : TurnStatuses])]
      /\ served \in [Ops -> Nat] /\ t \in Ops
  BY Names DEF IndInv, Base, TypeOK
<1>2. e \in [op : Ops, status : TurnStatuses] /\ e.op = t /\ "running" \in TurnStatuses
  BY <1>1 DEF TurnStatuses
<1>3. /\ turns'[h] = Append(turns[h], e) /\ \A g \in Tasks \ {h} : turns'[g] = turns[g]
      /\ turns[h] \in Seq([op : Ops, status : TurnStatuses])
  BY <1>1
<1> HIDE DEF e
<1>4. /\ Len(turns[h]) \in Nat /\ DOMAIN turns[h] = 1..Len(turns[h])
      /\ DOMAIN turns'[h] = 1..(Len(turns[h]) + 1)
      /\ turns'[h][Len(turns[h]) + 1] = e
      /\ \A i \in 1..Len(turns[h]) : turns'[h][i] = turns[h][i]
  BY <1>2, <1>3
<1>5. served[t] = 0 /\ served'[t] # 0 /\ \A u \in Tasks : served[u] # 0 => served'[u] # 0
  <2>1. served[t] = 0
    BY <1>1 DEF IndInv, Once
  <2>2. served'[t] = 1 /\ \A u \in Tasks \ {t} : served'[u] = served[u]
    BY <1>1, <2>1, Names
  <2> QED
    BY <2>1, <2>2
<1>6. SendsFresh /\ Sent' /\ \A u \in Ops \ {t} : wire'[u] = wire[u]
  BY <1>1, AnswerFalls
<1>7. TurnsBegin
  <2> SUFFICES ASSUME NEW g \in Tasks, NEW u \in Tasks, RunningTurn(g, u)', u # t
               PROVE  RunningTurn(g, u)
    BY DEF TurnsBegin
  <2>1. PICK i \in DOMAIN turns'[g] : turns'[g][i] = [op |-> u, status |-> "running"]
    BY DEF RunningTurn
  <2>2. CASE g # h
    BY <1>3, <2>1, <2>2 DEF RunningTurn
  <2>3. CASE g = h
    <3>1. i # Len(turns[h]) + 1
      BY <1>2, <1>4, <2>1, <2>3
    <3>2. i \in DOMAIN turns[h] /\ turns[h][i] = [op |-> u, status |-> "running"]
      BY <1>4, <2>1, <2>3, <3>1
    <3> QED
      BY <2>3, <3>2 DEF RunningTurn
  <2> QED
    BY <2>2, <2>3
<1>8. \A u \in Tasks : Writes(u)
  BY SameRecords
<1>9. QuietLasts
  BY <1>6, <1>7, <1>8, QuietStays
<1>10. \A u \in Tasks : (Alive(u) => Alive(u)') /\ (Continued(u) => Continued(u)')
  BY AliveMeans DEF Continued, Exists
<1>11. \A g \in Tasks : Unread(g)'
  BY <1>2, <1>9, AnnounceFalls DEF Terminal
<1>12. ASSUME NEW u \in Tasks, u # t, rec[u].thread = h
       PROVE  Continued(u)
  <2>1. Exists(t) /\ Exists(u) /\ Conversation(t) = Conversation(u)
    BY <1>12, Names DEF IndInv, Threads
  <2>2. ~Continued(t)
    BY ContinuedQuiet DEF Quiet
  <2> QED
    BY <1>12, <2>1, <2>2 DEF IndInv, OneLeaf
<1>13. ASSUME NEW g \in Tasks, NEW i \in DOMAIN turns'[g]
       PROVE  Turn(g, i)'
  <2>1. CASE g = h /\ i = Len(turns[h]) + 1
    <3>1. turns'[g][i].op = t /\ \A j \in DOMAIN turns'[g] : ~(i < j)
      BY <1>2, <1>4, <2>1
    <3> QED
      BY <1>5, <1>10, <2>1, <3>1 DEF Turn
  <2>2. CASE g # h \/ i # Len(turns[h]) + 1
    <3>1. i \in DOMAIN turns[g] /\ turns'[g][i] = turns[g][i]
      BY <1>3, <1>4, <2>2
    <3>2. PICK u \in Tasks :
            /\ turns[g][i].op = u /\ rec[u].thread = g /\ served[u] # 0
            /\ turns[g][i].status = "running" => Alive(u)
            /\ \A j \in DOMAIN turns[g] : i < j => Continued(u)
      BY <3>1 DEF QuietInv, Thread, Turn
    <3>3. \A j \in DOMAIN turns'[g] : i < j => Continued(u)
      <4>1. CASE g = h
        BY <1>5, <1>12, <3>2, <4>1
      <4>2. CASE g # h
        BY <1>3, <3>2, <4>2
      <4> QED
        BY <4>1, <4>2
    <3> QED
      BY <1>5, <1>10, <3>1, <3>2, <3>3 DEF Turn
  <2> QED
    BY <2>1, <2>2
<1>14. Halted'
  <2>1. \A o \in Controls : Action[o] = "interrupt" /\ wire'[o].state = "ok" => Quiet(Target[o])
    BY <1>6, Names DEF QuietInv, Halted
  <2> QED
    BY <1>9, <2>1, Names DEF Halted, QuietLasts
<1> QED
  BY <1>6, <1>8, <1>9, <1>11, <1>13, <1>14, ServerStep DEF Thread

\* The caller of an interrupt that is waited for knows that its task's turn has
\* begun or never will.
LEMMA AwaitedIsBegun ==
  ASSUME IndInv, QuietInv, NEW c \in Callers, NEW o \in Controls, Awaits(c, o)
  PROVE  wire[Target[o]].state # "sent" /\ rec[Target[o]].thread # None
<1>1. call[c].op = o /\ call[c].pc = "wait" /\ call[c] \in Call /\ Shape(c)
  BY DEF Awaits, IndInv, Base, TypeOK, CallShape
<1>2. call[c].kind # "start"
  BY <1>1, Names, StartFacts DEF StartShape
<1>3. RequestShape(call[c]) /\ call[c].kind \in Steers \cup {"get"} /\ call[c].task \in Tasks
  BY <1>1, <1>2, RequestFacts
<1>4. call[c].kind # "get" /\ call[c].task = Target[o]
  BY <1>1, <1>3, Names DEF RequestShape
<1> QED
  BY <1>1, <1>3, <1>4, KnowsCall DEF Knows

LEMMA ServeQuiet ==
  ASSUME IndInv, QuietInv, NEW o \in Ops, Serve(o)
  PROVE  QuietInv'
<1>1. /\ wire[o].state = "sent" /\ Alive(TaskOf(o)) /\ rec[TaskOf(o)].thread # None
      /\ served' = [served EXCEPT ![o] = @ + 1] /\ UNCHANGED <<rec, reg, call, ask, begun>>
  BY DEF Serve
<1>2. PICK t \in Tasks : t = TaskOf(o)
  BY Names
<1>3. PICK h \in Tasks : h = rec[t].thread
  BY <1>1, <1>2 DEF IndInv, Base, TypeOK, Record
<1>4. \A u \in Ops : served[u] # 0 => served'[u] # 0
  <2>1. served \in [Ops -> Nat]
    BY DEF IndInv, Base, TypeOK
  <2>2. \A u \in Ops : served'[u] = IF u = o THEN served[u] + 1 ELSE served[u]
    BY <1>1, <2>1
  <2> QED
    BY <2>1, <2>2
<1>5. \A u \in Tasks : Writes(u)
  BY <1>1, SameRecords
<1>6. Kids
  BY <1>1, SameKids
<1>7. CASE /\ wire[o].turn = None
           /\ turns' = [turns EXCEPT ![h] = Append(@, [op |-> o, status |-> "running"])]
           /\ Announce(h, o, "running") /\ Answer(o, "ok")
  <2>1. o \in Tasks
    BY <1>1, <1>7 DEF QuietInv, Sent
  <2>2. t = o
    BY <1>2, <2>1, Names
  <2> QED
    BY <1>1, <1>2, <1>3, <1>7, <2>1, <2>2, TurnBegins
<1>8. CASE /\ EndTurn(h, "interrupted") /\ Answer(o, "ok") /\ o \in Controls
           /\ Announce(h, wire[o].turn, "interrupted") /\ RunningTurn(h, wire[o].turn)
  <2>1. PICK i \in DOMAIN turns[h] : turns[h][i].op = wire[o].turn /\ turns[h][i].status = "running"
    BY <1>8 DEF RunningTurn
  <2>2. PICK u \in Tasks : /\ wire[o].turn = u /\ rec[u].thread = h /\ Alive(u)
                           /\ wire[u].state # "sent"
    BY <2>1, RunningOne
  <2>3. /\ SendsFresh /\ Sent' /\ \A v \in Tasks : wire'[v].state = "sent" => wire[v].state = "sent"
        /\ \A v \in Ops \ {o} : wire'[v] = wire[v]
        /\ wire'[o].state = "ok" => \E c \in Callers : Awaits(c, o)
    BY <1>1, <1>8, AnswerFalls
  <2>4. /\ TurnsFall
        /\ \A v \in Tasks : rec[v].thread = h /\ wire'[v].state # "sent" => Quiet(v)'
    BY <1>1, <1>8, EndTurnFalls
  <2>5. QuietLasts /\ ContinuedLasts
    BY <1>5, <2>3, <2>4, FallBegins, QuietStays, ContinuedStays
  <2>6. \A g \in Tasks : Thread(g)'
    BY <1>4, <1>5, <1>6, <2>4, <2>5, ThreadsFall
  <2>7. Quiet(u)' /\ "interrupted" \in TurnStatuses
    BY <2>2, <2>3, <2>4 DEF TurnStatuses
  <2>8. \A g \in Tasks : Unread(g)'
    BY <1>1, <1>8, <2>2, <2>5, <2>7, AnnounceFalls
  <2>9. Halted'
    <3> SUFFICES ASSUME NEW v \in Controls, Action[v] = "interrupt", wire'[v].state = "ok"
                 PROVE  Quiet(Target[v])'
      BY DEF Halted
    <3>1. CASE v = o
      <4>1. PICK c \in Callers : Awaits(c, o)
        BY <2>3, <3>1
      <4>2. Target[o] = t /\ wire[t].state # "sent"
        BY <1>2, <1>8, <4>1, AwaitedIsBegun, Names
      <4>3. Quiet(t)'
        BY <1>3, <2>3, <2>4, <4>2
      <4> QED
        BY <3>1, <4>2, <4>3
    <3>2. CASE v # o
      <4>1. Quiet(Target[v]) /\ Target[v] \in Tasks
        BY <2>3, <3>2, Names DEF QuietInv, Halted
      <4> QED
        BY <2>5, <4>1 DEF QuietLasts
    <3> QED
      BY <3>1, <3>2
  <2> QED
    BY <1>1, <1>5, <2>3, <2>5, <2>6, <2>8, <2>9, ServerStep
<1>9. ASSUME NEW x \in {"ok", "err"}, Answer(o, x), UNCHANGED <<turns, news>>,
             x = "ok" => ~(o \in Controls /\ Action[o] = "interrupt")
      PROVE  QuietInv'
  <2>1. /\ SendsFresh /\ Sent' /\ \A v \in Ops \ {o} : wire'[v] = wire[v]
        /\ wire'[o].state = "ok" => x = "ok"
    BY <1>1, <1>9, AnswerFalls
  <2>2. TurnsFall /\ NewsFall
    BY <1>9, ServerFalls
  <2>3. QuietLasts /\ ContinuedLasts
    BY <1>5, <2>1, <2>2, FallBegins, QuietStays, ContinuedStays
  <2>4. \A g \in Tasks : Thread(g)' /\ Unread(g)'
    BY <1>4, <1>5, <1>6, <2>2, <2>3, ThreadsFall, NewsFalls
  <2>5. Halted'
    <3>1. \A v \in Controls : Action[v] = "interrupt" /\ wire'[v].state = "ok" => Quiet(Target[v])
      BY <1>9, <2>1, Names DEF QuietInv, Halted
    <3> QED
      BY <2>3, <3>1, Names DEF Halted, QuietLasts
  <2> QED
    BY <1>1, <1>5, <2>1, <2>3, <2>4, <2>5, ServerStep
<1>10. \/ /\ wire[o].turn = None
          /\ turns' = [turns EXCEPT ![h] = Append(@, [op |-> o, status |-> "running"])]
          /\ Announce(h, o, "running") /\ Answer(o, "ok")
       \/ /\ EndTurn(h, "interrupted") /\ Answer(o, "ok") /\ o \in Controls
          /\ Announce(h, wire[o].turn, "interrupted") /\ RunningTurn(h, wire[o].turn)
       \/ /\ Answer(o, "ok") /\ UNCHANGED <<turns, news>>
          /\ ~(o \in Controls /\ Action[o] = "interrupt")
       \/ Answer(o, "err") /\ UNCHANGED <<turns, news>>
  BY <1>2, <1>3 DEF Serve
<1> QED
  BY <1>7, <1>8, <1>9, <1>10


-----------------------------------------------------------------------------
(* The theorem. *)

LEMMA InitQuiet == Init => QuietInv
<1> SUFFICES ASSUME Init PROVE QuietInv
  OBVIOUS
<1>1. /\ NoRecord.status = "missing" /\ NoRecord.prev = None /\ NoRecord.turn = None
      /\ NoWire.state = "none" /\ NoAsk.turn = None
  BY DEF NoRecord, NoWire, NoAsk
<1>2. /\ \A t \in Tasks : rec[t] = NoRecord /\ ask[t] = NoAsk /\ turns[t] = <<>> /\ news[t] = <<>>
      /\ \A c \in Callers : call[c] = Idle
      /\ \A o \in Ops : wire[o] = NoWire
  BY DEF Init
<1>3. Known
  BY <1>2, IdleKnows DEF Known
<1>4. Sent /\ Halted
  BY <1>1, <1>2, Names DEF Sent, Halted
<1>5. \A h \in Tasks : Thread(h) /\ Unread(h)
  BY <1>2 DEF Thread, Unread
<1>6. \A t \in Tasks : Own(t)
  BY <1>1, <1>2 DEF Own, Terminal
<1> QED
  BY <1>3, <1>4, <1>5, <1>6 DEF QuietInv

LEMMA StutterQuiet ==
  ASSUME IndInv, QuietInv, UNCHANGED vars
  PROVE  QuietInv'
<1>1. UNCHANGED <<rec, reg, call, wire, ask, turns, news, begun, served>>
  BY DEF vars, server
<1>2. \A c \in Callers : Knows(call'[c]) /\ Stands(c)
  BY <1>1 DEF QuietInv, Known, Stands, At
<1>3. (\A t \in Tasks : Writes(t)) /\ WireFalls /\ TurnsFall /\ NewsFall /\ Kids
  BY <1>1, SameRecords, SameWire, ServerFalls, SameKids
<1>4. \A t \in Tasks : ask'[t].turn \in {None, t}
  BY <1>1, SameAsks
<1> QED
  BY <1>1, <1>2, <1>3, <1>4, FallStep

LEMMA NextQuiet == IndInv /\ QuietInv /\ Calm' /\ [Next]_vars => QuietInv'
<1> SUFFICES ASSUME IndInv, QuietInv, Calm', [Next]_vars PROVE QuietInv'
  OBVIOUS
<1>1. ASSUME NEW c \in Callers, StartStep(c)
      PROVE  QuietInv'
  BY <1>1, RetireQuiet, AdmissionFailsQuiet, RefusalSavedQuiet, SpawnQuiet, SpawnFailsQuiet,
     ThreadServedQuiet, BindThreadQuiet, StartRepliedQuiet, StartFailsQuiet, InsertRuntimeQuiet
     DEF StartStep
<1>2. ASSUME NEW c \in Callers, RuntimeStep(c)
      PROVE  QuietInv'
  BY <1>2, UseRuntimeQuiet, OwnedElsewhereQuiet, AttachQuiet, AttachedQuiet, AttachFailsQuiet
     DEF RuntimeStep
<1>3. ASSUME NEW c \in Callers, RequestStep(c)
      PROVE  QuietInv'
  BY <1>3, OrphanSavedQuiet, SendQuiet, ReadQuiet, RequestFailsQuiet, FailureSavedQuiet,
     ControlAppliedQuiet, GetAppliedQuiet DEF RequestStep
<1>4. ASSUME NEW c \in Callers, NEW t \in Tasks,
             StartAccept(c, t) \/ StartTorn(c, t) \/ RetryStart(c, t) \/ GetAccept(c, t)
      PROVE  QuietInv'
  BY <1>4, StartAcceptQuiet, StartTornQuiet, RetryStartQuiet, GetAcceptQuiet
<1>5. ASSUME NEW c \in Callers, NEW o \in Controls, ControlAccept(c, o)
      PROVE  QuietInv'
  BY <1>5, ControlAcceptQuiet
<1>6. ASSUME NEW p \in Procs, NEW t \in Tasks,
             RuntimeDies(p, t) \/ LifetimeOver(p, t) \/ ActorEnds(p, t) \/ Asks(p, t)
      PROVE  QuietInv'
  BY <1>6, RuntimeDiesQuiet, LifetimeOverQuiet, ActorEndsQuiet, AsksQuiet
<1>7. ASSUME NEW p \in Procs, Crash(p)
      PROVE  QuietInv'
  BY <1>7, CrashQuiet
<1>8. ASSUME NEW o \in Ops, Serve(o)
      PROVE  QuietInv'
  BY <1>8, ServeQuiet
<1>9. ASSUME NEW t \in Tasks,
             TurnEnds(t) \/ Notification(t) \/ AskBound(t) \/ AskWaits(t) \/ AskDecided(t)
      PROVE  QuietInv'
  BY <1>9, TurnEndsQuiet, NotificationQuiet, AskBoundQuiet, AskWaitsQuiet, AskDecidedQuiet
<1>10. CASE UNCHANGED vars
  BY <1>10, StutterQuiet
<1> QED
  BY <1>1, <1>2, <1>3, <1>4, <1>5, <1>6, <1>7, <1>8, <1>9, <1>10 DEF Next

LEMMA QuietImplies == QuietInv => TerminalIsQuiet
<1> SUFFICES ASSUME QuietInv, NEW t \in Tasks, Terminal(rec[t].status),
                    NEW h \in Tasks, NEW o \in Ops, TaskOf(o) = t, RunningTurn(h, o)
             PROVE  FALSE
  BY DEF TerminalIsQuiet
<1>1. PICK i \in DOMAIN turns[h] : turns[h][i] = [op |-> o, status |-> "running"]
  BY DEF RunningTurn
<1>2. o \in Tasks
  BY <1>1 DEF QuietInv, Thread, Turn
<1>3. o = t
  BY <1>2, Names
<1>4. Quiet(t)
  BY DEF QuietInv, Own
<1> QED
  BY <1>3, <1>4 DEF Quiet

\* Unless a steer opens a second turn for a task that has ended, a task whose
\* record says completed, interrupted or failed has no turn running at the
\* app-server, whoever wrote it: task_get or a resume from a thread it had read
\* earlier, a notification that was handled late, the reply to an interrupt,
\* a start that gave up or the task's actor when its child died.
THEOREM QuietCorrect == Spec /\ []Calm => []TerminalIsQuiet
  BY InitQuiet, NextQuiet, QuietImplies, Invariance, PTL DEF Spec

LEMMA UnsteeredIsCalm ==
  ASSUME IndInv, \A o \in Controls : Action[o] # "steer"
  PROVE  Calm
<1> SUFFICES ASSUME NEW c \in Callers, call[c].kind = "steer" PROVE FALSE
  BY DEF Calm
<1>1. RequestShape(call[c])
  BY DEF IndInv, Base, CallShape, Shape, Steers
<1> QED
  BY <1>1 DEF RequestShape

\* For tasks that are interrupted and resumed but never steered, as in the run
\* that checks it, a terminal record always means that the app-server works on
\* the task no more.
THEOREM UnsteeredCorrect ==
  ASSUME \A o \in Controls : Action[o] # "steer"
  PROVE  Spec => []TerminalIsQuiet
<1>1. IndInv => Calm
  BY UnsteeredIsCalm
<1> QED
  BY <1>1, QuietCorrect, Invariance, PTL
=============================================================================
