------------------------ MODULE GatewayRegistryProofs ------------------------
(***************************************************************************)
(* Proofs about GatewayRegistry, for any number of hosts, handlers and     *)
(* orphaned messages and any bounds.                                       *)
(*                                                                         *)
(* The registry only sees messages, so the argument is about what may be   *)
(* under way (Sound): no message is of a generation the host object has    *)
(* not issued, an upsert for the present registration has no later lease,  *)
(* and no remove is for the present registration, because the object gives *)
(* it up before it sends the remove and never takes the generation again.  *)
(* What is listed obeys the same bounds (EntriesSound), so an upsert of    *)
(* the present registration always prevails (ReplyTells).                  *)
(*                                                                         *)
(* A registration that was given up may still be under way, and come back  *)
(* after its remove; LateInv bounds the leases of all of those.            *)
(***************************************************************************)
EXTENDS GatewayRegistry, TLAPS

\* The registrations of the host objects.
HostsSound ==
  \A h \in Hosts : host[h] # None =>
    host[h].generation = generation[h] /\ host[h].expires <= now + Lease

\* A message that may be under way.
Sound(m) ==
  /\ m.host.generation <= generation[m.id]
  /\ host[m.id] # None /\ m.host.generation = host[m.id].generation =>
       m.op = "upsert" /\ m.host.expires <= host[m.id].expires

MessagesSound ==
  /\ \A c \in Calls : calls[c] # None => Sound(calls[c].message)
  /\ \A m \in orphans : Sound(m)

EntriesSound ==
  \A h \in Hosts : entries[h] # None =>
    /\ entries[h].generation <= generation[h]
    /\ host[h] # None /\ entries[h].generation = host[h].generation =>
         entries[h].expires <= host[h].expires

\* h is listed with the registration it has.
ListedAsIs(h) == Live(host[h]) => entries[h] = host[h]

\* An upsert that was taken, for the registration the host still has.
ReplyTells ==
  \A c \in Calls :
    calls[c] # None /\ calls[c].reply = "ok" /\ calls[c].message.op = "upsert"
      /\ calls[c].message.host = host[calls[c].message.id]
        => ListedAsIs(calls[c].message.id)

IndInv == TypeOK /\ HostsSound /\ MessagesSound /\ EntriesSound /\ ReplyTells /\ AckedIsListed

-----------------------------------------------------------------------------
(* What a message does to the map. *)

EntriesType == [Hosts -> Registration \cup {None}]

\* pruneExpiredRegistrySessions keeps what is live and drops the rest.
LEMMA PrunedEntries ==
    ASSUME TypeOK
    PROVE  /\ Pruned(entries) \in EntriesType
           /\ \A h \in Hosts : Live(entries[h]) => Pruned(entries)[h] = entries[h]
           /\ \A h \in Hosts : ~Live(entries[h]) => Pruned(entries)[h] = None
BY DEF TypeOK, Pruned, EntriesType

\* A message changes no entry but that of its host, unless it has expired.
LEMMA AfterOthers ==
    ASSUME TypeOK, NEW m \in Message
    PROVE  /\ After(m) \in EntriesType
           /\ \A h \in Hosts : h # m.id => After(m)[h] \in {entries[h], None}
           /\ \A h \in Hosts : h # m.id /\ Live(entries[h]) => After(m)[h] = entries[h]
<1>1. m.id \in Hosts /\ m.host \in Registration
  BY DEF Message
<1>2. CASE m.op = "upsert"
  <2>1. After(m) = AfterUpsert(m)
    BY <1>2 DEF After
  <2>2. AfterUpsert(m) \in {Pruned(entries), [Pruned(entries) EXCEPT ![m.id] = m.host]}
    BY DEF AfterUpsert
  <2> QED
    BY <1>1, <2>1, <2>2, PrunedEntries DEF EntriesType
<1>3. CASE m.op # "upsert"
  <2>1. After(m) \in {entries, [entries EXCEPT ![m.id] = None]}
    BY <1>3 DEF After, AfterRemove
  <2> QED
    BY <1>1, <2>1 DEF TypeOK, EntriesType
<1> QED
  BY <1>2, <1>3

\* The entry of the message's host becomes what an upsert brings only if that
\* is newer than a live entry, and stays if it is not full and not newer.
LEMMA AfterUpserted ==
    ASSUME TypeOK, NEW m \in Message, m.op = "upsert"
    PROVE  LET e == entries[m.id]
           IN  /\ Live(e) /\ ~ShouldReplace(e, m.host) => After(m)[m.id] = e
               /\ Live(e) /\ ShouldReplace(e, m.host) => After(m)[m.id] = m.host
               /\ ~Live(e) /\ Reply(m) = "ok" => After(m)[m.id] = m.host
               /\ ~Live(e) /\ Reply(m) # "ok" => After(m)[m.id] = None
<1>1. m.id \in Hosts /\ m.host \in Registration
  BY DEF Message
<1>2. After(m) = AfterUpsert(m)
  BY DEF After
<1>3. Reply(m) = "ok" <=> ~IsFull(m.id)
  BY DEF Reply
<1>4. Live(entries[m.id]) => Pruned(entries)[m.id] = entries[m.id] /\ entries[m.id] # None
  BY <1>1, PrunedEntries DEF Live
<1>5. ~Live(entries[m.id]) => Pruned(entries)[m.id] = None
  BY <1>1, PrunedEntries
<1>6. Live(entries[m.id]) => ~IsFull(m.id)
  BY <1>4 DEF IsFull
<1>7. [Pruned(entries) EXCEPT ![m.id] = m.host][m.id] = m.host
  BY <1>1, PrunedEntries DEF EntriesType
<1> QED
  BY <1>2, <1>3, <1>4, <1>5, <1>6, <1>7 DEF AfterUpsert

\* A remove takes away an entry of its own generation.
LEMMA AfterRemoved ==
    ASSUME TypeOK, NEW m \in Message, m.op # "upsert"
    PROVE  LET e == entries[m.id]
           IN  /\ After(m)[m.id] \in {e, None}
               /\ e # None /\ e.generation # m.host.generation => After(m)[m.id] = e
BY DEF TypeOK, Message, After, AfterRemove

\* The bounds on entries survive every sound message.
LEMMA AfterSound ==
    ASSUME TypeOK, EntriesSound, NEW m \in Message, Sound(m),
           entries' = After(m), UNCHANGED <<generation, host>>
    PROVE  EntriesSound'
<1> SUFFICES ASSUME NEW h \in Hosts, entries'[h] # None
             PROVE  /\ entries'[h].generation <= generation[h]
                    /\ host[h] # None /\ entries'[h].generation = host[h].generation =>
                         entries'[h].expires <= host[h].expires
  BY DEF EntriesSound
<1>1. entries'[h] = entries[h] \/ (h = m.id /\ m.op = "upsert" /\ entries'[h] = m.host)
  BY AfterOthers, AfterUpserted, AfterRemoved
<1>2. CASE entries'[h] = entries[h]
  BY <1>2 DEF EntriesSound
<1>3. CASE h = m.id /\ entries'[h] = m.host
  BY <1>3 DEF Sound
<1> QED
  BY <1>1, <1>2, <1>3

\* An entry that shows the live registration as it is stays.
LEMMA AfterListed ==
    ASSUME TypeOK, HostsSound, NEW m \in Message, Sound(m), NEW h \in Hosts,
           Live(host[h]), entries[h] = host[h]
    PROVE  After(m)[h] = host[h]
<1>1. host[h] \in Registration /\ m.host \in Registration
  BY DEF TypeOK, Live, Message
<1>2. CASE h # m.id
  BY <1>2, AfterOthers
<1>3. CASE h = m.id /\ m.op = "upsert"
  <2>1. CASE ~ShouldReplace(entries[h], m.host)
    BY <1>3, <2>1, AfterUpserted
  <2>2. CASE ShouldReplace(entries[h], m.host)
    <3>1. m.host.generation = host[h].generation /\ m.host.expires = host[h].expires
      BY <1>1, <1>3, <2>2 DEF ShouldReplace, Sound, HostsSound, Live, Registration
    <3>2. m.host = host[h]
      BY <1>1, <3>1 DEF Registration
    <3> QED
      BY <1>3, <2>2, <3>2, AfterUpserted
  <2> QED
    BY <2>1, <2>2
<1>4. CASE h = m.id /\ m.op # "upsert"
  BY <1>4, AfterRemoved DEF Sound, Live
<1> QED
  BY <1>2, <1>3, <1>4

\* An upsert of the live registration that is not refused lists it.
LEMMA AfterAdded ==
    ASSUME TypeOK, HostsSound, EntriesSound, NEW m \in Message, m.op = "upsert",
           Reply(m) = "ok", m.host = host[m.id], Live(host[m.id])
    PROVE  After(m)[m.id] = host[m.id]
<1>1. m.id \in Hosts /\ host[m.id] \in Registration
  BY DEF Message
<1>2. CASE Live(entries[m.id])
  <2>1. entries[m.id] \in Registration
    BY <1>1, <1>2 DEF TypeOK, Live
  <2>2. ShouldReplace(entries[m.id], m.host)
    BY <1>1, <1>2, <2>1 DEF ShouldReplace, EntriesSound, HostsSound, Live, Registration
  <2> QED
    BY <1>2, <2>2, AfterUpserted
<1>3. CASE ~Live(entries[m.id])
  BY <1>3, AfterUpserted
<1> QED
  BY <1>2, <1>3

-----------------------------------------------------------------------------
(* The initial states. *)

\* The invariant holds initially.
LEMMA InitInv == Init => IndInv
<1> SUFFICES ASSUME Init PROVE IndInv
  OBVIOUS
<1>1. TypeOK
  BY BoundAssumption DEF Init, TypeOK, Times
<1>2. HostsSound /\ MessagesSound /\ EntriesSound /\ ReplyTells /\ AckedIsListed
  BY DEF Init, HostsSound, MessagesSound, EntriesSound, ReplyTells, AckedIsListed
<1> QED
  BY <1>1, <1>2 DEF IndInv

-----------------------------------------------------------------------------
(* The registry's steps. *)

\* A call is delivered and answered.
LEMMA DeliverInv ==
    ASSUME IndInv, NEW c \in Calls, Deliver(c)
    PROVE  IndInv'
<1> USE DEF IndInv, Deliver
<1> DEFINE m == calls[c].message
<1>1. calls[c] \in Call /\ m \in Message /\ m.id \in Hosts
  BY DEF TypeOK, Call, Message
<1>2. Sound(m)
  BY DEF MessagesSound
<1>3. Reply(m) \in {"ok", "full"}
  BY DEF Reply
<1>4. /\ calls' \in [Calls -> Call \cup {None}]
      /\ calls'[c] # None /\ calls'[c].message = m /\ calls'[c].reply = Reply(m)
      /\ \A d \in Calls : d # c => calls'[d] = calls[d]
  <2> DEFINE new == [calls[c] EXCEPT !.reply = Reply(m)]
  <2>1. new \in Call /\ new.message = m /\ new.reply = Reply(m)
    BY <1>1, <1>3 DEF Call
  <2>2. calls' = [calls EXCEPT ![c] = new]
    OBVIOUS
  <2> HIDE DEF new
  <2> QED
    BY <2>1, <2>2, NoneAssumption DEF TypeOK
<1>5. \A d \in Calls : calls'[d] # None => calls[d] # None /\ calls'[d].message = calls[d].message
  BY <1>4
<1> HIDE DEF m
<1>6. entries' = After(m)
  BY DEF m
<1>7. TypeOK'
  BY <1>1, <1>4, <1>6, AfterOthers DEF TypeOK, EntriesType
<1>8. HostsSound'
  BY DEF HostsSound
<1>9. MessagesSound'
  BY <1>5 DEF MessagesSound, Sound
<1>10. EntriesSound'
  BY <1>1, <1>2, <1>6, AfterSound
<1>11. \A h \in Hosts : Live(host[h]) /\ entries[h] = host[h] => entries'[h] = host[h]
  BY <1>1, <1>2, <1>6, AfterListed
<1>12. \A h : Live(host[h])' = Live(host[h])
  BY DEF Live
<1>13. ReplyTells'
  <2> SUFFICES ASSUME NEW d \in Calls, calls'[d] # None, calls'[d].reply = "ok",
                      calls'[d].message.op = "upsert",
                      calls'[d].message.host = host[calls'[d].message.id],
                      Live(host[calls'[d].message.id])
               PROVE  entries'[calls'[d].message.id] = host[calls'[d].message.id]
    BY <1>12 DEF ReplyTells, ListedAsIs
  <2>1. CASE d = c
    BY <1>1, <1>4, <1>6, <2>1, AfterAdded
  <2>2. CASE d # c
    <3>1. calls[d] \in Call /\ calls[d].message.id \in Hosts
      BY <1>5, <2>2 DEF TypeOK, Call, Message
    <3> QED
      BY <1>4, <1>11, <2>2, <3>1 DEF ReplyTells, ListedAsIs
  <2> QED
    BY <2>1, <2>2
<1>14. AckedIsListed'
  BY <1>11, <1>12 DEF AckedIsListed
<1> QED
  BY <1>7, <1>8, <1>9, <1>10, <1>13, <1>14

\* A message is delivered whose sender no longer waits.
LEMMA DeliverOrphanInv ==
    ASSUME IndInv, NEW m \in orphans, DeliverOrphan(m)
    PROVE  IndInv'
<1> USE DEF IndInv, DeliverOrphan
<1>1. m \in Message /\ Sound(m)
  BY DEF TypeOK, MessagesSound
<1>2. TypeOK'
  BY <1>1, AfterOthers DEF TypeOK, EntriesType
<1>3. HostsSound' /\ MessagesSound'
  BY DEF HostsSound, MessagesSound, Sound
<1>4. EntriesSound'
  BY <1>1, AfterSound
<1>5. \A h \in Hosts : Live(host[h]) /\ entries[h] = host[h] => entries'[h] = host[h]
  BY <1>1, AfterListed
<1>6. \A h : Live(host[h])' = Live(host[h])
  BY DEF Live
<1>7. \A c \in Calls : calls[c] # None => calls[c].message.id \in Hosts
  BY DEF TypeOK, Call, Message
<1>8. ReplyTells' /\ AckedIsListed'
  BY <1>5, <1>6, <1>7 DEF ReplyTells, ListedAsIs, AckedIsListed
<1> QED
  BY <1>2, <1>3, <1>4, <1>8

\* The registry is listed.
LEMMA ListInv ==
    ASSUME IndInv, List
    PROVE  IndInv'
<1> USE DEF IndInv, List
<1>1. TypeOK'
  BY PrunedEntries DEF TypeOK, EntriesType
<1>2. HostsSound' /\ MessagesSound'
  BY DEF HostsSound, MessagesSound, Sound
<1>3. \A h \in Hosts : entries'[h] \in {entries[h], None} /\ (Live(entries[h]) => entries'[h] = entries[h])
  BY PrunedEntries
<1>4. EntriesSound'
  BY <1>3 DEF EntriesSound
<1>5. \A h : Live(host[h])' = Live(host[h])
  BY DEF Live
<1>6. \A c \in Calls : calls[c] # None => calls[c].message.id \in Hosts
  BY DEF TypeOK, Call, Message
<1>7. ReplyTells' /\ AckedIsListed'
  BY <1>3, <1>5, <1>6 DEF ReplyTells, ListedAsIs, AckedIsListed
<1> QED
  BY <1>1, <1>2, <1>4, <1>7

-----------------------------------------------------------------------------
(* The host objects' steps. *)

\* A handler stores a registration and sends an upsert for it: connect with a
\* new generation, poll and respond with a later lease.
LEMMA StoreInv ==
    ASSUME IndInv, NEW h \in Hosts, NEW c \in Calls, NEW reg \in Registration,
           host' = [host EXCEPT ![h] = reg],
           calls' = [calls EXCEPT ![c] = Sent(Upsert(h, reg))],
           generation' \in [Hosts -> 0 .. MaxGeneration],
           \A g \in Hosts : generation'[g] >= generation[g],
           \A g \in Hosts : g # h => generation'[g] = generation[g],
           reg.generation = generation'[h], reg.expires = now + Lease,
           \/ reg.generation > generation[h]
           \/ host[h] # None /\ reg.generation = host[h].generation,
           acked' = acked \ {h}, left' \in [Hosts -> Times],
           UNCHANGED <<now, entries, orphans>>
    PROVE  IndInv'
<1> USE DEF IndInv
<1> DEFINE up == Upsert(h, reg)
<1>1. /\ up \in Message /\ up.id = h /\ up.host = reg /\ up.op = "upsert"
      /\ Sent(up) \in Call /\ Sent(up).message = up /\ Sent(up).reply = "none"
  BY DEF Upsert, Sent, Message, Call
<1>2. /\ host'[h] = reg /\ reg # None /\ \A g \in Hosts : g # h => host'[g] = host[g]
      /\ calls'[c] = Sent(up) /\ \A d \in Calls : d # c => calls'[d] = calls[d]
  BY NoneAssumption DEF TypeOK
<1> HIDE DEF up
<1>3. TypeOK'
  BY <1>1 DEF TypeOK, up
<1>4. HostsSound'
  BY <1>2, BoundAssumption DEF TypeOK, HostsSound, Registration
<1>5. ASSUME NEW m \in Message, Sound(m) PROVE Sound(m)'
  <2>1. CASE m.id # h
    BY <1>2, <1>5, <2>1 DEF Sound, Message
  <2>2. CASE m.id = h
    <3>1. /\ m.host.generation \in Nat /\ m.host.expires \in Nat /\ generation[h] \in Nat
          /\ generation'[h] \in Nat /\ now \in Nat /\ Lease \in Nat
      BY BoundAssumption DEF TypeOK, Message, Registration
    <3>2. CASE reg.generation > generation[h]
      BY <1>2, <1>5, <2>2, <3>1, <3>2 DEF Sound
    <3>3. CASE host[h] # None /\ reg.generation = host[h].generation
      <4>1. host[h].expires \in Nat /\ host[h].expires <= now + Lease
        BY <3>3 DEF TypeOK, HostsSound, Registration
      <4>2. m.host.generation <= generation'[h]
        BY <1>5, <2>2, <3>1 DEF Sound
      <4>3. ASSUME m.host.generation = reg.generation
            PROVE  m.op = "upsert" /\ m.host.expires <= reg.expires
        <5>1. m.op = "upsert" /\ m.host.expires <= host[h].expires
          BY <1>5, <2>2, <3>3, <4>3 DEF Sound
        <5> QED
          BY <3>1, <4>1, <5>1
      <4> QED
        BY <1>2, <2>2, <4>2, <4>3 DEF Sound
    <3> QED
      BY <3>2, <3>3
  <2> QED
    BY <2>1, <2>2
<1>6. Sound(up)'
  BY <1>1, <1>2, BoundAssumption DEF Sound, Registration
<1>7. MessagesSound'
  <2>1. \A d \in Calls : calls[d] # None => calls[d].message \in Message
    BY DEF TypeOK, Call
  <2>2. \A m \in orphans : m \in Message
    BY DEF TypeOK
  <2> QED
    BY <1>1, <1>2, <1>5, <1>6, <2>1, <2>2 DEF MessagesSound
<1>8. EntriesSound'
  <2> SUFFICES ASSUME NEW g \in Hosts, entries[g] # None
               PROVE  /\ entries[g].generation <= generation'[g]
                      /\ host'[g] # None /\ entries[g].generation = host'[g].generation =>
                           entries[g].expires <= host'[g].expires
    BY DEF EntriesSound
  <2>1. /\ entries[g].generation \in Nat /\ entries[g].expires \in Nat /\ generation[g] \in Nat
        /\ generation'[g] \in Nat /\ now \in Nat /\ Lease \in Nat
    BY BoundAssumption DEF TypeOK, Registration
  <2>2. CASE g # h
    BY <1>2, <2>1, <2>2 DEF EntriesSound
  <2>3. CASE g = h /\ reg.generation > generation[h]
    BY <1>2, <2>1, <2>3 DEF EntriesSound
  <2>4. CASE g = h /\ host[h] # None /\ reg.generation = host[h].generation
    <3>1. host[h].expires \in Nat /\ host[h].expires <= now + Lease
      BY <2>4 DEF TypeOK, HostsSound, Registration
    <3>2. entries[g].generation <= generation'[g]
      BY <2>1 DEF EntriesSound
    <3>3. ASSUME entries[g].generation = reg.generation
          PROVE  entries[g].expires <= reg.expires
      <4>1. entries[g].expires <= host[h].expires
        BY <2>4, <3>3 DEF EntriesSound
      <4> QED
        BY <2>1, <3>1, <4>1
    <3> QED
      BY <1>2, <2>4, <3>2, <3>3
  <2> QED
    BY <2>2, <2>3, <2>4
<1>9. \A d \in Calls, g \in Hosts :
        calls[d] # None /\ calls[d].message.id = h /\ calls[d].message.host = reg => reg = host[h]
  <2> SUFFICES ASSUME NEW d \in Calls, calls[d] # None, calls[d].message.id = h,
                      calls[d].message.host = reg
               PROVE  reg = host[h]
    OBVIOUS
  <2>1. reg.generation <= generation[h]
    BY DEF MessagesSound, Sound
  <2>2. host[h] # None /\ reg.generation = host[h].generation
    BY <2>1 DEF TypeOK, Registration
  <2>3. host[h] \in Registration /\ host[h].expires <= now + Lease
    BY <2>2 DEF TypeOK, HostsSound
  <2>4. reg.expires <= host[h].expires
    BY <2>2 DEF MessagesSound, Sound
  <2>5. reg.expires = host[h].expires
    <3>1. host[h].expires \in Nat /\ reg.expires \in Nat
      BY <2>3, BoundAssumption DEF Registration
    <3> QED
      BY <2>3, <2>4, <3>1
  <2> QED
    BY <2>2, <2>3, <2>5 DEF Registration
<1>10. ReplyTells'
  <2> SUFFICES ASSUME NEW d \in Calls, NEW g, calls'[d] # None, g = calls'[d].message.id,
                      calls'[d].reply = "ok", calls'[d].message.op = "upsert",
                      calls'[d].message.host = host'[g]
               PROVE  ListedAsIs(g)'
    BY DEF ReplyTells, ListedAsIs, Live
  <2>1. d # c /\ calls'[d] = calls[d]
    BY <1>1, <1>2
  <2>2. g \in Hosts
    BY <2>1 DEF TypeOK, Call, Message
  <2>3. host'[g] = host[g]
    BY <1>2, <1>9, <2>1, <2>2
  <2>4. ListedAsIs(g)
    BY <2>1, <2>3 DEF ReplyTells
  <2> QED
    BY <2>3, <2>4 DEF ListedAsIs, Live
<1>11. AckedIsListed'
  BY <1>2 DEF AckedIsListed, Live
<1> QED
  BY <1>3, <1>4, <1>7, <1>8, <1>10, <1>11

\* The history of given up registrations is well typed.
LEMMA GiveUpType ==
    ASSUME TypeOK, NEW h \in Hosts, GiveUp(h)
    PROVE  left' \in [Hosts -> Times]
<1>1. now \in 0 .. MaxTime /\ left \in [Hosts -> Times]
  BY DEF TypeOK
<1>2. host[h] # None => host[h].generation \in 1 .. MaxGeneration
  BY DEF TypeOK, Registration
<1>3. host[h] # None => [left[h] EXCEPT ![host[h].generation] = now] \in Times
  BY <1>1, <1>2 DEF Times
<1> QED
  BY <1>1, <1>3 DEF GiveUp

\* connect
LEMMA ConnectInv ==
    ASSUME IndInv, NEW h \in Hosts, NEW c \in Calls, Connect(h, c)
    PROVE  IndInv'
<1> DEFINE reg == [generation |-> generation[h] + 1, expires |-> now + Lease]
<1>1. generation[h] \in Nat /\ generation[h] + 1 \in 1 .. MaxGeneration
  BY BoundAssumption DEF IndInv, TypeOK, Connect
<1>2. reg \in Registration
  BY <1>1, BoundAssumption DEF IndInv, TypeOK, Registration
<1>3. /\ generation' \in [Hosts -> 0 .. MaxGeneration]
      /\ generation'[h] = generation[h] + 1
      /\ \A g \in Hosts : g # h => generation'[g] = generation[g]
      /\ \A g \in Hosts : generation'[g] >= generation[g]
  BY <1>1, BoundAssumption DEF IndInv, TypeOK, Connect
<1>4. /\ host' = [host EXCEPT ![h] = reg]
      /\ calls' = [calls EXCEPT ![c] = Sent(Upsert(h, reg))]
      /\ acked' = acked \ {h} /\ left' \in [Hosts -> Times] /\ UNCHANGED <<now, entries, orphans>>
  BY GiveUpType DEF Connect, IndInv
<1>5. reg.generation = generation'[h] /\ reg.generation > generation[h] /\ reg.expires = now + Lease
  BY <1>1, <1>3
<1> HIDE DEF reg
<1> QED
  BY <1>2, <1>3, <1>4, <1>5, StoreInv

\* poll and respond
LEMMA RenewInv ==
    ASSUME IndInv, NEW h \in Hosts, NEW c \in Calls, Renew(h, c)
    PROVE  IndInv'
<1> DEFINE reg == [host[h] EXCEPT !.expires = now + Lease]
<1>1. host[h] \in Registration /\ host[h] # None /\ host[h].generation = generation[h]
  BY DEF IndInv, TypeOK, Renew, HostsSound
<1>2. now + Lease \in 0 .. MaxTime + Lease
  BY BoundAssumption DEF IndInv, TypeOK
<1>3. reg \in Registration /\ reg.generation = host[h].generation /\ reg.expires = now + Lease
  BY <1>1, <1>2 DEF Registration
<1>4. /\ host' = [host EXCEPT ![h] = reg]
      /\ calls' = [calls EXCEPT ![c] = Sent(Upsert(h, reg))]
      /\ acked' = acked \ {h} /\ UNCHANGED <<now, generation, entries, orphans>>
      /\ left' \in [Hosts -> Times]
  BY DEF Renew, IndInv, TypeOK
<1>5. /\ generation' \in [Hosts -> 0 .. MaxGeneration]
      /\ \A g \in Hosts : generation'[g] = generation[g] /\ generation'[g] >= generation[g]
  BY <1>4 DEF IndInv, TypeOK
<1> HIDE DEF reg
<1> QED
  BY <1>1, <1>3, <1>4, <1>5, StoreInv

\* A handler gives up registrations: those given up are not acknowledged, and
\* the calls that go on are old ones or removes for what was given up.
LEMMA GiveUpInv ==
    ASSUME IndInv, TypeOK',
           \A h \in Hosts : host'[h] \in {host[h], None},
           \A h \in acked' : h \in acked /\ host'[h] = host[h],
           \A c \in Calls : calls'[c] # None =>
             \/ calls'[c] = calls[c]
             \/ /\ calls'[c].reply = "none" /\ calls'[c].message.op = "remove"
                /\ calls'[c].message.host.generation <= generation[calls'[c].message.id]
                /\ host'[calls'[c].message.id] = None,
           \A m \in orphans' : m \in orphans \/ \E c \in Calls : calls[c] # None /\ m = calls[c].message,
           UNCHANGED <<now, generation, entries>>
    PROVE  IndInv'
<1> USE DEF IndInv
<1>1. HostsSound'
  BY DEF HostsSound
<1>2. ASSUME NEW m \in Message, Sound(m) PROVE Sound(m)'
  <2>1. m.id \in Hosts
    BY DEF Message
  <2> QED
    BY <1>2, <2>1 DEF Sound
<1>3. \A c \in Calls : calls[c] # None => calls[c].message \in Message /\ Sound(calls[c].message)
  BY DEF TypeOK, Call, MessagesSound
<1>4. \A m \in orphans : m \in Message /\ Sound(m)
  BY DEF MessagesSound, TypeOK
<1>5. MessagesSound'
  <2>1. ASSUME NEW c \in Calls, NEW m, calls'[c] # None, m = calls'[c].message PROVE Sound(m)'
    <3>1. CASE calls'[c] = calls[c]
      BY <1>2, <1>3, <2>1, <3>1
    <3>2. CASE calls'[c] # calls[c]
      BY <2>1, <3>2 DEF Sound
    <3> QED
      BY <3>1, <3>2
  <2>2. ASSUME NEW m \in orphans' PROVE Sound(m)'
    BY <1>2, <1>3, <1>4, <2>2
  <2> QED
    BY <2>1, <2>2 DEF MessagesSound
<1>6. EntriesSound'
  BY DEF EntriesSound
<1>7. \A c \in Calls : calls'[c] # None => calls'[c].message.id \in Hosts
  BY DEF TypeOK, Call, Message
<1>8. ReplyTells'
  <2> SUFFICES ASSUME NEW c \in Calls, NEW g, calls'[c] # None, g = calls'[c].message.id,
                      calls'[c].reply = "ok", calls'[c].message.op = "upsert",
                      calls'[c].message.host = host'[g]
               PROVE  ListedAsIs(g)'
    BY DEF ReplyTells, ListedAsIs, Live
  <2>1. calls'[c] = calls[c] /\ g \in Hosts
    BY <1>7
  <2>2. CASE host'[g] = None
    BY <2>2 DEF ListedAsIs, Live
  <2>3. CASE host'[g] = host[g]
    BY <2>1, <2>3 DEF ReplyTells, ListedAsIs, Live
  <2> QED
    BY <2>1, <2>2, <2>3
<1>9. AckedIsListed'
  BY DEF AckedIsListed, Live
<1> QED
  BY <1>1, <1>5, <1>6, <1>8, <1>9

\* disconnect and fence
LEMMA DisconnectInv ==
    ASSUME IndInv, NEW h \in Hosts, NEW c \in Calls, Disconnect(h, c)
    PROVE  IndInv'
<1> USE DEF IndInv, Disconnect
<1> DEFINE m == Remove(h, host[h])
<1>1. host[h] \in Registration /\ host[h].generation = generation[h] /\ generation[h] \in Nat
  BY BoundAssumption DEF TypeOK, HostsSound
<1>2. /\ m \in Message /\ m.id = h /\ m.host = host[h] /\ m.op = "remove"
      /\ Sent(m) \in Call /\ Sent(m).message = m /\ Sent(m).reply = "none"
  BY <1>1 DEF Remove, Sent, Message, Call
<1> HIDE DEF m
<1>3. calls' = [calls EXCEPT ![c] = Sent(m)]
  BY DEF m
<1>4. TypeOK'
  BY <1>2, <1>3, GiveUpType DEF TypeOK
<1>5. /\ host'[h] = None /\ \A g \in Hosts : g # h => host'[g] = host[g]
      /\ calls'[c] = Sent(m) /\ \A d \in Calls : d # c => calls'[d] = calls[d]
  BY <1>3 DEF TypeOK
<1>6. \A g \in Hosts : host'[g] \in {host[g], None}
  BY <1>5
<1>7. \A g \in acked' : g \in acked /\ host'[g] = host[g]
  BY <1>5 DEF TypeOK
<1>8. \A d \in Calls : calls'[d] # None =>
        \/ calls'[d] = calls[d]
        \/ /\ calls'[d].reply = "none" /\ calls'[d].message.op = "remove"
           /\ calls'[d].message.host.generation <= generation[calls'[d].message.id]
           /\ host'[calls'[d].message.id] = None
  BY <1>1, <1>2, <1>5
<1> QED
  BY <1>4, <1>6, <1>7, <1>8, GiveUpInv

\* clearHost after a failed call keeps what GiveUpInv asks for.
LEMMA ClearGivesUp ==
    ASSUME IndInv, NEW c \in Calls, ~Idle(c), Clear(c)
    PROVE  /\ host' \in [Hosts -> Registration \cup {None}]
           /\ calls' \in [Calls -> Call \cup {None}] /\ acked' \in SUBSET Hosts
           /\ left' \in [Hosts -> Times]
           /\ \A h \in Hosts : host'[h] \in {host[h], None}
           /\ \A h \in acked' : h \in acked /\ host'[h] = host[h]
           /\ \A d \in Calls : calls'[d] # None =>
                \/ calls'[d] = calls[d]
                \/ /\ calls'[d].reply = "none" /\ calls'[d].message.op = "remove"
                   /\ calls'[d].message.host.generation <= generation[calls'[d].message.id]
                   /\ host'[calls'[d].message.id] = None
<1> USE DEF IndInv
<1> DEFINE m == calls[c].message
<1>1. m \in Message /\ m.id \in Hosts /\ m.host \in Registration /\ Sound(m)
  BY DEF Idle, TypeOK, Call, Message, MessagesSound
<1>2. CASE m.op = "upsert" /\ IsCurrent(m)
  <2> DEFINE r == Remove(m.id, m.host)
  <2>1. /\ r.op = "remove" /\ r.id = m.id /\ r.host = m.host
        /\ Sent(r) \in Call /\ Sent(r).message = r /\ Sent(r).reply = "none"
    BY <1>1 DEF Remove, Sent, Message, Call
  <2>2. /\ host' = [host EXCEPT ![m.id] = None] /\ acked' = acked \ {m.id}
        /\ calls' = [calls EXCEPT ![c] = Sent(r)] /\ left' \in [Hosts -> Times]
    BY <1>1, <1>2, GiveUpType DEF Clear
  <2>3. m.host.generation <= generation[m.id]
    BY <1>1 DEF Sound
  <2> HIDE DEF m, r
  <2> QED
    BY <1>1, <2>1, <2>2, <2>3 DEF TypeOK
<1>3. CASE ~(m.op = "upsert" /\ IsCurrent(m))
  <2>1. calls' = [calls EXCEPT ![c] = None] /\ UNCHANGED <<host, acked, left>>
    BY <1>3 DEF Clear
  <2> HIDE DEF m
  <2> QED
    BY <2>1 DEF TypeOK
<1> QED
  BY <1>2, <1>3

\* The registry is full.
LEMMA RefusedInv ==
    ASSUME IndInv, NEW c \in Calls, Refused(c)
    PROVE  IndInv'
<1>1. ~Idle(c) /\ Clear(c) /\ UNCHANGED <<now, generation, entries, orphans>>
  BY DEF Refused
<1>2. TypeOK'
  BY <1>1, ClearGivesUp DEF IndInv, TypeOK
<1> QED
  BY <1>1, <1>2, ClearGivesUp, GiveUpInv

\* Messages that are left under way were sent by calls.
LEMMA AbandonOrphans ==
    ASSUME TypeOK, NEW lost \in SUBSET {c \in Calls : ~Idle(c)}, Abandon(lost)
    PROVE  /\ orphans' \in SUBSET Message
           /\ \A m \in orphans' : m \in orphans \/ \E c \in Calls : calls[c] # None /\ m = calls[c].message
<1>1. \A m \in orphans' : m \in orphans \/ \E c \in lost : m = calls[c].message
  BY DEF Abandon
<1>2. \A c \in lost : c \in Calls /\ calls[c] # None /\ calls[c].message \in Message
  BY DEF Idle, TypeOK, Call
<1>3. orphans \subseteq Message
  BY DEF TypeOK
<1> QED
  BY <1>1, <1>2, <1>3

\* fetch throws.
LEMMA FailsInv ==
    ASSUME IndInv, NEW c \in Calls, Fails(c)
    PROVE  IndInv'
<1>1. ~Idle(c) /\ Clear(c) /\ Abandon({c}) /\ UNCHANGED <<now, generation, entries>>
  BY DEF Fails
<1>2. /\ orphans' \in SUBSET Message
      /\ \A m \in orphans' : m \in orphans \/ \E d \in Calls : calls[d] # None /\ m = calls[d].message
  BY <1>1, AbandonOrphans DEF IndInv
<1>3. TypeOK'
  BY <1>1, <1>2, ClearGivesUp DEF IndInv, TypeOK
<1> QED
  BY <1>1, <1>2, <1>3, ClearGivesUp, GiveUpInv

\* The host object restarts.
LEMMA RestartInv ==
    ASSUME IndInv, NEW h \in Hosts, Restart(h)
    PROVE  IndInv'
<1> DEFINE lost == {c \in Calls : ~Idle(c) /\ calls[c].message.id = h}
<1>1. /\ calls' = [c \in Calls |-> IF c \in lost THEN None ELSE calls[c]]
      /\ Abandon(lost) /\ UNCHANGED <<now, generation, host, entries, acked, left>>
  BY DEF Restart
<1>2. lost \in SUBSET {c \in Calls : ~Idle(c)}
  OBVIOUS
<1> HIDE DEF lost
<1>3. /\ orphans' \in SUBSET Message
      /\ \A m \in orphans' : m \in orphans \/ \E d \in Calls : calls[d] # None /\ m = calls[d].message
  BY <1>1, <1>2, AbandonOrphans DEF IndInv
<1>4. TypeOK'
  BY <1>1, <1>3 DEF IndInv, TypeOK
<1>5. \A c \in Calls : calls'[c] # None => calls'[c] = calls[c]
  BY <1>1
<1> QED
  BY <1>1, <1>3, <1>4, <1>5, GiveUpInv

\* A handler's call has succeeded.
LEMMA SucceedInv ==
    ASSUME IndInv, NEW c \in Calls, Succeed(c)
    PROVE  IndInv'
<1> USE DEF IndInv, Succeed
<1> DEFINE m == calls[c].message
<1>1. calls[c] # None /\ m \in Message /\ m.id \in Hosts
  BY DEF Idle, TypeOK, Call, Message
<1>2. calls' \in [Calls -> Call \cup {None}] /\ \A d \in Calls : calls'[d] # None => calls'[d] = calls[d]
  BY DEF TypeOK
<1>3. acked' \subseteq acked \cup {m.id} /\ (m.id \in acked' /\ m.id \notin acked => m.op = "upsert" /\ m.host = host[m.id])
  OBVIOUS
<1>4. TypeOK'
  BY <1>1, <1>2, <1>3 DEF TypeOK
<1>5. HostsSound' /\ EntriesSound'
  BY DEF HostsSound, EntriesSound
<1>6. MessagesSound'
  BY <1>2 DEF MessagesSound, Sound
<1>7. ReplyTells'
  BY <1>2 DEF ReplyTells, ListedAsIs, Live
<1>8. AckedIsListed'
  BY <1>1, <1>3 DEF AckedIsListed, ReplyTells, ListedAsIs, Live
<1> QED
  BY <1>4, <1>5, <1>6, <1>7, <1>8

\* Time passes.
LEMMA TickInv ==
    ASSUME IndInv, Tick
    PROVE  IndInv'
<1> USE DEF IndInv, Tick
<1>1. now \in Nat /\ now' = now + 1 /\ now' \in 0 .. MaxTime
  BY BoundAssumption DEF TypeOK
<1>2. TypeOK'
  BY <1>1 DEF TypeOK
<1>3. HostsSound'
  BY <1>1, BoundAssumption DEF TypeOK, HostsSound, Registration
<1>4. MessagesSound' /\ EntriesSound'
  BY DEF MessagesSound, Sound, EntriesSound
<1>5. \A h \in Hosts : Live(host[h])' => Live(host[h])
  BY <1>1, BoundAssumption DEF TypeOK, Live, Registration
<1>6. \A c \in Calls : calls[c] # None => calls[c].message.id \in Hosts
  BY DEF TypeOK, Call, Message
<1>7. ReplyTells' /\ AckedIsListed'
  BY <1>5, <1>6 DEF ReplyTells, ListedAsIs, AckedIsListed
<1> QED
  BY <1>2, <1>3, <1>4, <1>7

-----------------------------------------------------------------------------
(* The theorems. *)

\* Every step preserves the invariant.
LEMMA NextInv == IndInv /\ [Next]_vars => IndInv'
<1> SUFFICES ASSUME IndInv, [Next]_vars PROVE IndInv'
  OBVIOUS
<1>1. ASSUME NEW h \in Hosts, NEW c \in Calls, Connect(h, c) \/ Renew(h, c) \/ Disconnect(h, c)
      PROVE  IndInv'
  BY <1>1, ConnectInv, RenewInv, DisconnectInv
<1>2. ASSUME NEW c \in Calls, Deliver(c) \/ Succeed(c) \/ Refused(c) \/ Fails(c)
      PROVE  IndInv'
  BY <1>2, DeliverInv, SucceedInv, RefusedInv, FailsInv
<1>3. ASSUME NEW m \in orphans, DeliverOrphan(m) PROVE IndInv'
  BY <1>3, DeliverOrphanInv
<1>4. ASSUME NEW h \in Hosts, Restart(h) PROVE IndInv'
  BY <1>4, RestartInv
<1>5. CASE List \/ Tick
  BY <1>5, ListInv, TickInv
<1>6. CASE UNCHANGED vars
  BY <1>6 DEF vars, IndInv, TypeOK, HostsSound, MessagesSound, Sound, EntriesSound, ReplyTells,
              ListedAsIs, AckedIsListed, Live
<1> QED
  BY <1>1, <1>2, <1>3, <1>4, <1>5, <1>6 DEF Next

\* The invariant holds in every reachable state.
LEMMA Invariance == Spec => []IndInv
BY InitInv, NextInv, PTL DEF Spec

\* Every reachable state of the registry and of what is under way to it is well
\* typed.
THEOREM TypeCorrect == Spec => []TypeOK
<1>1. IndInv => TypeOK
  BY DEF IndInv
<1> QED
  BY <1>1, Invariance, PTL

\* However many hosts share the registry and however their upserts and removes
\* are delayed, reordered, repeated or orphaned: a registration the registry has
\* acknowledged is listed as it is while its lease lasts.
THEOREM ListingCorrect == Spec => []AckedIsListed
<1>1. IndInv => AckedIsListed
  BY DEF IndInv
<1> QED
  BY <1>1, Invariance, PTL

\* The registry lists only generations the host object has issued.
THEOREM NeverAheadCorrect == Spec => []NeverAhead
<1>1. IndInv => NeverAhead
  BY DEF IndInv, EntriesSound, NeverAhead
<1> QED
  BY <1>1, Invariance, PTL

-----------------------------------------------------------------------------
(* Registrations nobody holds. *)

\* If h no longer holds this registration, its lease ends one lease after h gave
\* it up.
Late(h, reg) ==
  host[h] = None \/ host[h].generation # reg.generation =>
    reg.expires <= left[h][reg.generation] + Lease

LateInv ==
  /\ \A c \in Calls : calls[c] # None => Late(calls[c].message.id, calls[c].message.host)
  /\ \A m \in orphans : Late(m.id, m.host)
  /\ \A h \in Hosts : entries[h] # None => Late(h, entries[h])

\* A registration that h has issued, with a lease no later than the present one.
Issued(h, reg) ==
  /\ reg.generation <= generation[h]
  /\ host[h] # None /\ reg.generation = host[h].generation => reg.expires <= host[h].expires

\* h keeps what it holds, or gives it up for nothing or for a new generation.
Moves(h) ==
  \/ /\ left'[h] = left[h]
     /\ host[h] = None <=> host'[h] = None
     /\ host[h] # None => host'[h].generation = host[h].generation
  \/ /\ GiveUp(h)
     /\ host'[h] = None \/ host'[h].generation > generation[h]

LEMMA LateStays ==
    ASSUME IndInv, NEW h \in Hosts, NEW reg \in Registration, Late(h, reg), Issued(h, reg), Moves(h)
    PROVE  Late(h, reg)'
<1>1. /\ reg.generation \in 1 .. MaxGeneration /\ reg.generation \in Nat /\ reg.expires \in Nat
      /\ generation[h] \in Nat /\ now \in Nat /\ Lease \in Nat
  BY BoundAssumption DEF IndInv, TypeOK, Registration
<1>2. CASE /\ left'[h] = left[h]
           /\ host[h] = None <=> host'[h] = None
           /\ host[h] # None => host'[h].generation = host[h].generation
  BY <1>2 DEF Late
<1>3. CASE GiveUp(h) /\ (host'[h] = None \/ host'[h].generation > generation[h])
  <2>1. left \in [Hosts -> Times] /\ left[h] \in Times
    BY DEF IndInv, TypeOK
  <2>2. CASE host[h] = None
    BY <2>2, <1>3 DEF Late, GiveUp
  <2>3. CASE host[h] # None
    <3>1. host[h].generation \in 1 .. MaxGeneration /\ host[h].expires \in Nat /\ host[h].expires <= now + Lease
      BY <2>3, BoundAssumption DEF IndInv, TypeOK, HostsSound, Registration
    <3>2. left'[h] = [left[h] EXCEPT ![host[h].generation] = now]
      BY <1>3, <2>1, <2>3 DEF GiveUp
    <3>3. CASE reg.generation = host[h].generation
      <4>1. left'[h][reg.generation] = now
        BY <3>1, <3>2, <3>3, <2>1 DEF Times
      <4> QED
        BY <1>1, <2>3, <3>1, <3>3, <4>1 DEF Late, Issued
    <3>4. CASE reg.generation # host[h].generation
      <4>1. left'[h][reg.generation] = left[h][reg.generation]
        BY <1>1, <3>1, <3>2, <3>4, <2>1 DEF Times
      <4> QED
        BY <3>4, <4>1 DEF Late
    <3> QED
      BY <3>3, <3>4
  <2> QED
    BY <2>2, <2>3
<1> QED
  BY <1>2, <1>3 DEF Moves

\* Everything under way or listed is an issued registration.
LEMMA AllIssued ==
    ASSUME IndInv
    PROVE  /\ \A c \in Calls : calls[c] # None =>
                /\ calls[c].message.id \in Hosts /\ calls[c].message.host \in Registration
                /\ Issued(calls[c].message.id, calls[c].message.host)
           /\ \A m \in orphans : m.id \in Hosts /\ m.host \in Registration /\ Issued(m.id, m.host)
           /\ \A h \in Hosts : entries[h] # None => entries[h] \in Registration /\ Issued(h, entries[h])
<1>1. ASSUME NEW m \in Message, Sound(m) PROVE Issued(m.id, m.host)
  BY <1>1 DEF Sound, Issued
<1>2. \A c \in Calls : calls[c] # None => calls[c].message \in Message /\ Sound(calls[c].message)
  BY DEF IndInv, TypeOK, Call, MessagesSound
<1>3. \A m \in orphans : m \in Message /\ Sound(m)
  BY DEF IndInv, TypeOK, MessagesSound
<1>4. \A h \in Hosts : entries[h] # None => entries[h] \in Registration /\ Issued(h, entries[h])
  BY DEF IndInv, TypeOK, EntriesSound, Issued
<1>5. \A m \in Message : m.id \in Hosts /\ m.host \in Registration
  BY DEF Message
<1> QED
  BY <1>1, <1>2, <1>3, <1>4, <1>5

\* What is under way or listed stays within its lease.
LEMMA LateKnown ==
    ASSUME IndInv, LateInv, NEW h \in Hosts, NEW reg \in Registration, Moves(h),
           \/ \E d \in Calls : calls[d] # None /\ h = calls[d].message.id /\ reg = calls[d].message.host
           \/ \E m \in orphans : h = m.id /\ reg = m.host
           \/ reg = entries[h]
           \/ reg = host[h]
    PROVE  Late(h, reg)'
<1>1. reg # None
  BY NoneAssumption
<1>2. Late(h, reg)
  BY <1>1 DEF LateInv, Late
<1>3. CASE reg = host[h]
  <2>1. Issued(h, reg)
    BY <1>1, <1>3, BoundAssumption DEF Issued, IndInv, HostsSound, TypeOK, Registration
  <2> QED
    BY <1>2, <2>1, LateStays
<1>4. CASE reg # host[h]
  <2>1. Issued(h, reg)
    BY <1>1, <1>4, AllIssued
  <2> QED
    BY <1>2, <2>1, LateStays
<1> QED
  BY <1>3, <1>4

\* A step that brings no registrations but those that were there, or that a
\* host holds afterwards.
LEMMA LateKept ==
    ASSUME IndInv, LateInv, TypeOK', \A h \in Hosts : Moves(h),
           \A c \in Calls : calls'[c] # None =>
             LET m == calls'[c].message
             IN  \/ \E d \in Calls : calls[d] # None /\ m.id = calls[d].message.id /\ m.host = calls[d].message.host
                 \/ m.host = host[m.id]
                 \/ host'[m.id] # None /\ host'[m.id].generation = m.host.generation,
           \A m \in orphans' : m \in orphans \/ \E c \in Calls : calls[c] # None /\ m = calls[c].message,
           \A h \in Hosts : entries'[h] # None =>
             \/ entries'[h] = entries[h]
             \/ \E d \in Calls : calls[d] # None /\ h = calls[d].message.id /\ entries'[h] = calls[d].message.host
             \/ \E m \in orphans : h = m.id /\ entries'[h] = m.host
    PROVE  LateInv'
<1>1. ASSUME NEW c \in Calls, calls'[c] # None
      PROVE  \E h \in Hosts, reg \in Registration :
               h = calls'[c].message.id /\ reg = calls'[c].message.host /\ Late(h, reg)'
  <2>1. calls'[c].message \in Message
    BY <1>1 DEF TypeOK, Call
  <2>2. PICK h \in Hosts, reg \in Registration : h = calls'[c].message.id /\ reg = calls'[c].message.host
    BY <2>1 DEF Message
  <2>3. \/ \E d \in Calls : calls[d] # None /\ h = calls[d].message.id /\ reg = calls[d].message.host
        \/ reg = host[h]
        \/ host'[h] # None /\ host'[h].generation = reg.generation
    BY <1>1, <2>2
  <2>4. CASE host'[h] # None /\ host'[h].generation = reg.generation
    BY <2>2, <2>4 DEF Late
  <2>5. CASE ~(host'[h] # None /\ host'[h].generation = reg.generation)
    BY <2>2, <2>3, <2>5, LateKnown
  <2> QED
    BY <2>4, <2>5
<1>2. ASSUME NEW m \in orphans'
      PROVE  \E h \in Hosts, reg \in Registration : h = m.id /\ reg = m.host /\ Late(h, reg)'
  <2>1. m \in Message
    BY <1>2 DEF TypeOK
  <2>2. PICK h \in Hosts, reg \in Registration : h = m.id /\ reg = m.host
    BY <2>1 DEF Message
  <2> QED
    BY <1>2, <2>2, LateKnown
<1>3. ASSUME NEW h \in Hosts, entries'[h] # None
      PROVE  \E reg \in Registration : reg = entries'[h] /\ Late(h, reg)'
  <2>1. PICK reg \in Registration : reg = entries'[h]
    BY <1>3 DEF TypeOK
  <2> QED
    BY <1>3, <2>1, LateKnown
<1>4. \A c \in Calls : calls'[c] # None => Late(calls[c].message.id, calls[c].message.host)'
  BY <1>1 DEF Late
<1>5. \A m \in orphans' : Late(m.id, m.host)'
  BY <1>2 DEF Late
<1>6. \A h \in Hosts : entries'[h] # None => Late(h, entries[h])'
  BY <1>3 DEF Late
<1> QED
  BY <1>4, <1>5, <1>6 DEF LateInv

\* Every step keeps registrations nobody holds within their lease.
LEMMA LateNext == IndInv /\ LateInv /\ [Next]_vars => LateInv'
<1> SUFFICES ASSUME IndInv, LateInv, [Next]_vars PROVE LateInv'
  OBVIOUS
<1>0. TypeOK' /\ TypeOK
  BY NextInv DEF IndInv
<1> DEFINE Same == UNCHANGED <<host, left>>
<1>1. ASSUME Same PROVE \A h \in Hosts : Moves(h)
  BY <1>1 DEF Moves
<1>2. ASSUME NEW m \in Message, entries' = After(m)
      PROVE  \A h \in Hosts : entries'[h] # None => entries'[h] = entries[h] \/ (h = m.id /\ entries'[h] = m.host)
  BY <1>0, <1>2, AfterOthers, AfterUpserted, AfterRemoved
<1>3. ASSUME NEW c \in Calls, Deliver(c) PROVE LateInv'
  <2>1. calls[c].message \in Message /\ entries' = After(calls[c].message) /\ Same /\ orphans' = orphans
    BY <1>0, <1>3 DEF Deliver, TypeOK, Call
  <2>2. \A d \in Calls : calls'[d] # None => calls[d] # None /\ calls'[d].message = calls[d].message
    BY <1>0, <1>3 DEF Deliver, TypeOK, Call
  <2>3. \A h \in Hosts : entries'[h] # None =>
          entries'[h] = entries[h] \/ (h = calls[c].message.id /\ entries'[h] = calls[c].message.host)
    BY <1>2, <2>1
  <2>4. calls[c] # None BY <1>3 DEF Deliver
  <2> QED
    BY <1>0, <1>1, <2>1, <2>2, <2>3, <2>4, LateKept
<1>4. ASSUME NEW m \in orphans, DeliverOrphan(m) PROVE LateInv'
  <2>1. m \in Message /\ entries' = After(m) /\ Same /\ orphans' = orphans \ {m} /\ calls' = calls
    BY <1>0, <1>4 DEF DeliverOrphan, TypeOK
  <2>2. \A h \in Hosts : entries'[h] # None => entries'[h] = entries[h] \/ (h = m.id /\ entries'[h] = m.host)
    BY <1>2, <2>1
  <2> QED
    BY <1>0, <1>1, <2>1, <2>2, LateKept
<1>5. CASE List
  <2>1. \A h \in Hosts : entries'[h] # None => entries'[h] = entries[h]
    BY <1>0, <1>5, PrunedEntries DEF List
  <2> QED
    BY <1>0, <1>1, <1>5, <2>1, LateKept DEF List
<1>6. CASE Tick \/ UNCHANGED vars
  BY <1>0, <1>1, <1>6, LateKept DEF Tick, vars
<1>7. ASSUME NEW c \in Calls, Succeed(c) PROVE LateInv'
  <2>1. \A d \in Calls : calls'[d] # None => calls'[d] = calls[d]
    BY <1>0, <1>7 DEF Succeed, TypeOK
  <2> QED
    BY <1>0, <1>1, <1>7, <2>1, LateKept DEF Succeed
<1>8. ASSUME NEW h \in Hosts, NEW c \in Calls, Connect(h, c) PROVE LateInv'
  <2> DEFINE reg == [generation |-> generation[h] + 1, expires |-> now + Lease]
  <2>1. /\ host' = [host EXCEPT ![h] = reg] /\ calls' = [calls EXCEPT ![c] = Sent(Upsert(h, reg))]
        /\ GiveUp(h) /\ UNCHANGED <<entries, orphans>>
    BY <1>8 DEF Connect
  <2>2. reg # None /\ reg.generation > generation[h]
    <3>1. reg \in Registration
      BY <1>0, <1>8, BoundAssumption DEF Connect, TypeOK, Registration
    <3> QED
      BY <1>0, <3>1, NoneAssumption, BoundAssumption DEF TypeOK
  <2>3. Sent(Upsert(h, reg)).message.id = h /\ Sent(Upsert(h, reg)).message.host = reg
    BY DEF Sent, Upsert
  <2> HIDE DEF reg
  <2>4. /\ host'[h] = reg /\ \A g \in Hosts \ {h} : host'[g] = host[g] /\ left'[g] = left[g]
        /\ calls'[c].message.id = h /\ calls'[c].message.host = reg
        /\ \A d \in Calls \ {c} : calls'[d] = calls[d]
    BY <1>0, <2>1, <2>3 DEF TypeOK, GiveUp
  <2>5. \A g \in Hosts : Moves(g)
    BY <2>1, <2>2, <2>4 DEF Moves
  <2>6. \A d \in Calls : calls'[d] # None =>
             LET m == calls'[d].message
             IN  \/ calls[d] # None /\ m.id = calls[d].message.id /\ m.host = calls[d].message.host
                 \/ host'[m.id] # None /\ host'[m.id].generation = m.host.generation
    BY <2>2, <2>4
  <2> QED
    BY <1>0, <2>1, <2>5, <2>6, LateKept
<1>9. ASSUME NEW h \in Hosts, NEW c \in Calls, Renew(h, c) PROVE LateInv'
  <2> DEFINE reg == [host[h] EXCEPT !.expires = now + Lease]
  <2>1. /\ host' = [host EXCEPT ![h] = reg] /\ calls' = [calls EXCEPT ![c] = Sent(Upsert(h, reg))]
        /\ host[h] # None /\ UNCHANGED <<entries, orphans, left>>
    BY <1>9 DEF Renew
  <2>2. reg # None /\ reg.generation = host[h].generation
    <3>1. now + Lease \in 0 .. MaxTime + Lease /\ host[h] \in Registration
      BY <1>0, <2>1, BoundAssumption DEF TypeOK
    <3>2. reg \in Registration /\ reg.generation = host[h].generation
      BY <3>1 DEF Registration
    <3> QED
      BY <3>2, NoneAssumption
  <2>3. Sent(Upsert(h, reg)).message.id = h /\ Sent(Upsert(h, reg)).message.host = reg
    BY DEF Sent, Upsert
  <2> HIDE DEF reg
  <2>4. /\ host'[h] = reg /\ \A g \in Hosts \ {h} : host'[g] = host[g]
        /\ calls'[c].message.id = h /\ calls'[c].message.host = reg
        /\ \A d \in Calls \ {c} : calls'[d] = calls[d]
    BY <1>0, <2>1, <2>3 DEF TypeOK
  <2>5. \A g \in Hosts : Moves(g)
    BY <2>1, <2>2, <2>4 DEF Moves
  <2>6. \A d \in Calls : calls'[d] # None =>
             LET m == calls'[d].message
             IN  \/ calls[d] # None /\ m.id = calls[d].message.id /\ m.host = calls[d].message.host
                 \/ host'[m.id] # None /\ host'[m.id].generation = m.host.generation
    BY <2>2, <2>4
  <2> QED
    BY <1>0, <2>1, <2>5, <2>6, LateKept
<1>10. ASSUME NEW h \in Hosts, NEW c \in Calls, Disconnect(h, c) PROVE LateInv'
  <2> DEFINE reg == host[h]
  <2>1. /\ host' = [host EXCEPT ![h] = None] /\ calls' = [calls EXCEPT ![c] = Sent(Remove(h, reg))]
        /\ GiveUp(h) /\ UNCHANGED <<entries, orphans>>
    BY <1>10 DEF Disconnect
  <2>2. Sent(Remove(h, reg)).message.id = h /\ Sent(Remove(h, reg)).message.host = reg
    BY DEF Sent, Remove
  <2> HIDE DEF reg
  <2>3. /\ host'[h] = None /\ \A g \in Hosts \ {h} : host'[g] = host[g] /\ left'[g] = left[g]
        /\ calls'[c].message.id = h /\ calls'[c].message.host = reg
        /\ \A d \in Calls \ {c} : calls'[d] = calls[d]
    BY <1>0, <2>1, <2>2 DEF TypeOK, GiveUp
  <2>4. \A g \in Hosts : Moves(g)
    BY <2>1, <2>3 DEF Moves
  <2>5. \A d \in Calls : calls'[d] # None =>
             LET m == calls'[d].message
             IN  \/ calls[d] # None /\ m.id = calls[d].message.id /\ m.host = calls[d].message.host
                 \/ m.host = host[m.id]
    BY <2>3 DEF reg
  <2> QED
    BY <1>0, <2>1, <2>4, <2>5, LateKept
<1>11. ASSUME NEW c \in Calls, ~Idle(c), Clear(c), entries' = entries,
              \A m \in orphans' : m \in orphans \/ \E d \in Calls : calls[d] # None /\ m = calls[d].message
       PROVE  LateInv'
  <2>1. calls[c] # None /\ calls[c].message.id \in Hosts
    BY <1>0, <1>11 DEF Idle, TypeOK, Call, Message
  <2>2. PICK m : m = calls[c].message
    OBVIOUS
  <2>3. CASE m.op = "upsert" /\ IsCurrent(m)
    <3>1. /\ host' = [host EXCEPT ![m.id] = None] /\ GiveUp(m.id)
          /\ calls' = [calls EXCEPT ![c] = Sent(Remove(m.id, m.host))]
      BY <1>11, <2>2, <2>3 DEF Clear
    <3>2. Sent(Remove(m.id, m.host)).message.id = m.id /\ Sent(Remove(m.id, m.host)).message.host = m.host
      BY DEF Sent, Remove
    <3>3. /\ host'[m.id] = None /\ \A g \in Hosts \ {m.id} : host'[g] = host[g] /\ left'[g] = left[g]
          /\ calls'[c].message.id = m.id /\ calls'[c].message.host = m.host
          /\ \A d \in Calls \ {c} : calls'[d] = calls[d]
      BY <1>0, <2>1, <2>2, <3>1, <3>2 DEF TypeOK, GiveUp
    <3>4. \A g \in Hosts : Moves(g)
      BY <3>1, <3>3 DEF Moves
    <3>5. \A d \in Calls : calls'[d] # None =>
            calls[d] # None /\ calls'[d].message.id = calls[d].message.id /\ calls'[d].message.host = calls[d].message.host
      BY <2>1, <2>2, <3>3
    <3> QED
      BY <1>0, <1>11, <3>4, <3>5, LateKept
  <2>4. CASE ~(m.op = "upsert" /\ IsCurrent(m))
    <3>1. calls' = [calls EXCEPT ![c] = None] /\ Same
      BY <1>11, <2>2, <2>4 DEF Clear
    <3>2. \A d \in Calls : calls'[d] # None => calls'[d] = calls[d]
      BY <1>0, <3>1 DEF TypeOK
    <3> QED
      BY <1>0, <1>1, <1>11, <3>1, <3>2, LateKept
  <2> QED
    BY <2>3, <2>4
<1>12. ASSUME NEW c \in Calls, Refused(c) \/ Fails(c) PROVE LateInv'
  <2>1. CASE Refused(c)
    BY <1>11, <2>1 DEF Refused
  <2>2. CASE Fails(c)
    <3>1. ~Idle(c) /\ Clear(c) /\ Abandon({c}) /\ entries' = entries
      BY <2>2 DEF Fails
    <3> QED
      BY <1>0, <1>11, <3>1, AbandonOrphans
  <2> QED
    BY <1>12, <2>1, <2>2
<1>13. ASSUME NEW h \in Hosts, Restart(h) PROVE LateInv'
  <2> DEFINE lost == {c \in Calls : ~Idle(c) /\ calls[c].message.id = h}
  <2>1. /\ calls' = [c \in Calls |-> IF c \in lost THEN None ELSE calls[c]]
        /\ Abandon(lost) /\ Same /\ entries' = entries
    BY <1>13 DEF Restart
  <2>2. lost \in SUBSET {c \in Calls : ~Idle(c)}
    OBVIOUS
  <2> HIDE DEF lost
  <2>3. \A d \in Calls : calls'[d] # None => calls'[d] = calls[d]
    BY <2>1
  <2> QED
    BY <1>0, <1>1, <2>1, <2>2, <2>3, AbandonOrphans, LateKept
<1> QED
  BY <1>3, <1>4, <1>5, <1>6, <1>7, <1>8, <1>9, <1>10, <1>12, <1>13 DEF Next

\* However late upserts and removes arrive and in whatever order, also an upsert
\* after the remove that followed it: one lease after a host object has given a
\* registration up the registry does not show it any more.
THEOREM GoneCorrect == Spec => []GoneWithinLease
<1>1. Init => LateInv
  BY DEF Init, LateInv
<1>2. IndInv /\ LateInv => GoneWithinLease
  <2> SUFFICES ASSUME IndInv, LateInv, NEW h \in Hosts, Live(entries[h]),
                      host[h] = None \/ host[h].generation # entries[h].generation
               PROVE  now < left[h][entries[h].generation] + Lease
    BY DEF GoneWithinLease
  <2>1. entries[h] \in Registration /\ entries[h].expires > now
    BY DEF Live, IndInv, TypeOK
  <2>2. entries[h].generation \in 1 .. MaxGeneration /\ entries[h].expires \in Nat /\ now \in Nat
    BY <2>1, BoundAssumption DEF Registration, IndInv, TypeOK
  <2>3. left[h] \in Times BY DEF IndInv, TypeOK
  <2>4. left[h][entries[h].generation] \in Nat
    BY <2>2, <2>3, BoundAssumption DEF Times
  <2>5. entries[h].expires <= left[h][entries[h].generation] + Lease
    BY DEF LateInv, Late, Live
  <2> QED
    BY <2>1, <2>2, <2>4, <2>5, BoundAssumption
<1> QED
  BY <1>1, <1>2, Invariance, LateNext, PTL DEF Spec
==============================================================================
