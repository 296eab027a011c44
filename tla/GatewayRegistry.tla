--------------------------- MODULE GatewayRegistry ---------------------------
(***************************************************************************)
(* The registry Durable Object of routing-runtime.js and what the host     *)
(* objects write to it.  Every host object keeps its own registration and  *)
(* tells the registry of it by upsert and remove calls.  Each call is a    *)
(* fetch to another object: calls of one host overlap (several polls and   *)
(* responses, a reconnect), arrive in any order, fail before or after they *)
(* were applied, and a call whose sender gave up may still arrive.  The    *)
(* registry orders them by generation and by lease.                        *)
(*                                                                         *)
(* GatewaySession models one host object in detail and the registry as the *)
(* outcome of an await; here a host object is its registration, and its    *)
(* handlers are the calls they wait for.                                   *)
(***************************************************************************)
EXTENDS Naturals, FiniteSets

CONSTANTS Hosts,
          Calls,          \* handlers that may wait for the registry at once
          MaxHosts,       \* MAX_REGISTRY_HOSTS
          Lease,          \* HOST_LEASE_MS
          MaxGeneration, MaxTime, MaxOrphans,   \* bounds of the model
          None

ASSUME BoundAssumption ==
  /\ MaxHosts \in Nat /\ Lease \in Nat /\ MaxGeneration \in Nat /\ MaxTime \in Nat
  /\ MaxOrphans \in Nat
  /\ IsFiniteSet(Hosts)

VARIABLES now,
          generation,   \* each host object's "generation" in storage
          host,         \* its "host" registration, or None
          entries,      \* the registry's "hosts" map
          calls,        \* the call each handler waits for, or None
          orphans,      \* messages whose sender no longer waits
          acked,        \* history: hosts whose present registration was acknowledged
          left          \* history: when each host object gave up each generation

vars == <<now, generation, host, entries, calls, orphans, acked, left>>

Registration == [generation : 1 .. MaxGeneration, expires : 0 .. MaxTime + Lease]
Message == [op : {"upsert", "remove"}, id : Hosts, host : Registration]
Call == [message : Message, reply : {"none", "ok", "full"}]
Times == [1 .. MaxGeneration -> 0 .. MaxTime]

ASSUME NoneAssumption == None \notin Registration /\ None \notin Call

Upsert(h, reg) == [op |-> "upsert", id |-> h, host |-> reg]
Remove(h, reg) == [op |-> "remove", id |-> h, host |-> reg]
Sent(m) == [message |-> m, reply |-> "none"]

Init ==
  /\ now = 0
  /\ generation = [h \in Hosts |-> 0]
  /\ host = [h \in Hosts |-> None]
  /\ entries = [h \in Hosts |-> None]
  /\ calls = [c \in Calls |-> None]
  /\ orphans = {}
  /\ acked = {}
  /\ left = [h \in Hosts |-> [g \in 1 .. MaxGeneration |-> 0]]

-----------------------------------------------------------------------------
(* The registry. *)

Live(reg) == reg # None /\ reg.expires > now

\* pruneExpiredRegistrySessions
Pruned(e) == [h \in Hosts |-> IF Live(e[h]) THEN e[h] ELSE None]

Listed(e) == {h \in Hosts : e[h] # None}

\* shouldReplaceRegistrySession
ShouldReplace(existing, incoming) ==
  IF incoming.generation # existing.generation
    THEN incoming.generation > existing.generation
    ELSE incoming.expires >= existing.expires

IsFull(h) == Pruned(entries)[h] = None /\ Cardinality(Listed(Pruned(entries))) >= MaxHosts

Reply(m) == IF m.op = "upsert" /\ IsFull(m.id) THEN "full" ELSE "ok"

\* Defect: the registry counts the lease from the arrival of the upsert.
AfterUpsertRestamped(m) ==
  LET live == Pruned(entries)
  IN  IF IsFull(m.id) \/ (live[m.id] # None /\ ~ShouldReplace(live[m.id], m.host))
        THEN live
        ELSE [live EXCEPT ![m.id] = [m.host EXCEPT !.expires = now + Lease]]

\* The effect of one message on the map (upsert prunes, remove does not).
AfterUpsert(m) ==
  LET live == Pruned(entries)
  IN  IF IsFull(m.id) \/ (live[m.id] # None /\ ~ShouldReplace(live[m.id], m.host))
        THEN live
        ELSE [live EXCEPT ![m.id] = m.host]

\* Defect: a remove is not fenced by the generation.
AfterRemoveAny(m) == [entries EXCEPT ![m.id] = None]

AfterRemove(m) ==
  IF entries[m.id] # None /\ entries[m.id].generation = m.host.generation
    THEN [entries EXCEPT ![m.id] = None]
    ELSE entries

After(m) == IF m.op = "upsert" THEN AfterUpsert(m) ELSE AfterRemove(m)

Deliver(c) ==
  /\ calls[c] # None
  /\ calls[c].reply = "none"
  /\ entries' = After(calls[c].message)
  /\ calls' = [calls EXCEPT ![c].reply = Reply(calls[c].message)]
  /\ UNCHANGED <<now, generation, host, orphans, acked, left>>

DeliverOrphan(m) ==
  /\ entries' = After(m)
  /\ orphans' = orphans \ {m}
  /\ UNCHANGED <<now, generation, host, calls, acked, left>>

\* listCollection
List ==
  /\ entries' = Pruned(entries)
  /\ UNCHANGED <<now, generation, host, calls, orphans, acked, left>>

-----------------------------------------------------------------------------
(* The host objects. *)

Idle(c) == calls[c] = None

\* The registration of h, if it has one, is given up.
GiveUp(h) ==
  left' = IF host[h] = None THEN left ELSE [left EXCEPT ![h][host[h].generation] = now]

\* Defect: the generation counter is not saved with the registration.
ConnectUnsaved(h, c) ==
  /\ Idle(c)
  /\ generation[h] < MaxGeneration
  /\ LET reg == [generation |-> generation[h] + 1, expires |-> now + Lease]
     IN  /\ host' = [host EXCEPT ![h] = reg]
         /\ calls' = [calls EXCEPT ![c] = Sent(Upsert(h, reg))]
  /\ acked' = acked \ {h}
  /\ GiveUp(h)
  /\ UNCHANGED <<now, generation, entries, orphans>>

\* connect: a new generation replaces the registration, whoever holds it.
Connect(h, c) ==
  /\ Idle(c)
  /\ generation[h] < MaxGeneration
  /\ LET reg == [generation |-> generation[h] + 1, expires |-> now + Lease]
     IN  /\ generation' = [generation EXCEPT ![h] = @ + 1]
         /\ host' = [host EXCEPT ![h] = reg]
         /\ calls' = [calls EXCEPT ![c] = Sent(Upsert(h, reg))]
  /\ acked' = acked \ {h}
  /\ GiveUp(h)
  /\ UNCHANGED <<now, entries, orphans>>

\* poll and respond: the registered agent renews its lease.
Renew(h, c) ==
  /\ Idle(c)
  /\ host[h] # None
  /\ LET reg == [host[h] EXCEPT !.expires = now + Lease]
     IN  /\ host' = [host EXCEPT ![h] = reg]
         /\ calls' = [calls EXCEPT ![c] = Sent(Upsert(h, reg))]
  /\ acked' = acked \ {h}
  /\ UNCHANGED <<now, generation, entries, orphans, left>>

\* disconnect and fence, through clearHost.
Disconnect(h, c) ==
  /\ Idle(c)
  /\ host[h] # None
  /\ host' = [host EXCEPT ![h] = None]
  /\ calls' = [calls EXCEPT ![c] = Sent(Remove(h, host[h]))]
  /\ acked' = acked \ {h}
  /\ GiveUp(h)
  /\ UNCHANGED <<now, generation, entries, orphans>>

\* The handler resumes: a remove, or an upsert that was taken, ends it.
Succeed(c) ==
  /\ ~Idle(c)
  /\ calls[c].reply = "ok"
  /\ calls' = [calls EXCEPT ![c] = None]
  /\ LET m == calls[c].message
     IN  acked' = IF m.op = "upsert" /\ m.host = host[m.id] THEN acked \cup {m.id} ELSE acked
  /\ UNCHANGED <<now, generation, host, entries, orphans, left>>

\* clearHost compares the registration it was called with with the current one,
\* because the await of the registry may have let a newer connect through.
IsCurrent(m) == host[m.id] # None /\ host[m.id].generation = m.host.generation

\* A failed upsert clears the registration it speaks for; a failed remove is logged.
Clear(c) ==
  LET m == calls[c].message
  IN  IF m.op = "upsert" /\ IsCurrent(m)
        THEN /\ host' = [host EXCEPT ![m.id] = None]
             /\ acked' = acked \ {m.id}
             /\ calls' = [calls EXCEPT ![c] = Sent(Remove(m.id, m.host))]
             /\ GiveUp(m.id)
        ELSE /\ calls' = [calls EXCEPT ![c] = None]
             /\ UNCHANGED <<host, acked, left>>

Refused(c) ==
  /\ ~Idle(c)
  /\ calls[c].reply = "full"
  /\ Clear(c)
  /\ UNCHANGED <<now, generation, entries, orphans>>

\* Messages of handlers that are gone: those not yet applied are lost, or remain
\* under way (at most MaxOrphans of them at a time).
Abandon(lost) ==
  LET unapplied == {calls[c].message : c \in {d \in lost : calls[d].reply = "none"}}
  IN  /\ orphans' \in {orphans \cup kept : kept \in SUBSET unapplied}
      /\ Cardinality(orphans') <= MaxOrphans

\* fetch throws.
Fails(c) ==
  /\ ~Idle(c)
  /\ Clear(c)
  /\ Abandon({c})
  /\ UNCHANGED <<now, generation, entries>>

\* The host object restarts: its handlers are gone, its storage is not.
Restart(h) ==
  LET lost == {c \in Calls : ~Idle(c) /\ calls[c].message.id = h}
  IN  /\ lost # {}
      /\ calls' = [c \in Calls |-> IF c \in lost THEN None ELSE calls[c]]
      /\ Abandon(lost)
      /\ UNCHANGED <<now, generation, host, entries, acked, left>>

-----------------------------------------------------------------------------
Tick ==
  /\ now < MaxTime
  /\ now' = now + 1
  /\ UNCHANGED <<generation, host, entries, calls, orphans, acked, left>>

Next ==
  \/ \E h \in Hosts, c \in Calls : Connect(h, c) \/ Renew(h, c) \/ Disconnect(h, c)
  \/ \E c \in Calls : Deliver(c) \/ Succeed(c) \/ Refused(c) \/ Fails(c)
  \/ \E m \in orphans : DeliverOrphan(m)
  \/ \E h \in Hosts : Restart(h)
  \/ List \/ Tick

Spec == Init /\ [][Next]_vars

-----------------------------------------------------------------------------
(* Properties. *)

\* Every variable has its type.
TypeOK ==
  /\ now \in 0 .. MaxTime
  /\ generation \in [Hosts -> 0 .. MaxGeneration]
  /\ host \in [Hosts -> Registration \cup {None}]
  /\ entries \in [Hosts -> Registration \cup {None}]
  /\ calls \in [Calls -> Call \cup {None}]
  /\ orphans \in SUBSET Message
  /\ acked \in SUBSET Hosts
  /\ left \in [Hosts -> Times]

\* A registration the registry has acknowledged stays listed as it is until it
\* is renewed, cleared or its lease ends, whatever other calls for this host,
\* its predecessors and other hosts arrive late, fail or fill the registry: the
\* host list and routing see every host whose connect or poll was answered.
AckedIsListed == \A h \in Hosts : Live(host[h]) /\ h \in acked => entries[h] = host[h]

\* The registry is never ahead of the host object: upserts that overlap a
\* reconnect, a restart or a failed registration only ever list a generation
\* the object has saved as issued.
NeverAhead == \A h \in Hosts : entries[h] # None => entries[h].generation <= generation[h]

\* The registry keeps no trace of a removed registration, so an upsert that
\* arrives after the remove that followed it, or after its sender gave up, is
\* listed again.  It is gone all the same one lease after its host object gave
\* the registration up, by a disconnect, a fence, a failed call or a reconnect:
\* nothing that arrives late renews a registration nobody holds.
GoneWithinLease ==
  \A h \in Hosts :
    Live(entries[h]) /\ (host[h] = None \/ host[h].generation # entries[h].generation)
      => now < left[h][entries[h].generation] + Lease
==============================================================================
