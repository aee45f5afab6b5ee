--------------------------- MODULE ClusterProofs ---------------------------
(***************************************************************************)
(* Replication, for any number of nodes, names, ids, writes, faults and    *)
(* any stamps: only the writer of a record broadcasts it, and a stamp      *)
(* identifies a record.                                                    *)
(*                                                                         *)
(* Neither is inductive by itself: a record reaches a catalogue through    *)
(* the subscription, the network, ApplyRemote's two transactions and       *)
(* snapshots, so the invariant speaks of every copy under way.  A fresh    *)
(* stamp has no copies, and all other steps only move copies about.        *)
(***************************************************************************)
EXTENDS Cluster, FiniteSetTheorems, FunctionTheorems, SequenceTheorems, TLAPS

Upsert == {"service.upserted", "instance.upserted"}

\* The events that can really occur: each with the key and record of its type.
Message ==
    [type : {"service.upserted"}, key : Name, rec : Service, origin : Origin]
    \union [type : {"instance.upserted"}, key : Key, rec : Instance, origin : Origin]
    \union [type : {"service.deleted"}, key : Name, rec : {Absent}, origin : Origin]
    \union [type : {"instance.deleted"}, key : Key, rec : {Absent}, origin : Origin]

Pull == [stage : {"idle", "reading", "applying"}, peer : Node \union {Absent},
         todo : SUBSET Message]

Typed == /\ cat \in [Node -> Catalogue]
         /\ sub \in [Node -> Seq(Message)]
         /\ \A n \in Node : Len(sub[n]) <= SubCap
         /\ net \in [Node -> SUBSET Message]
         /\ applying \in [Node -> SUBSET Message]
         /\ snap \in [Node -> Pull]
         /\ \A n \in Node : snap[n].stage = "reading" => snap[n].peer \in Node
         /\ writer \in [1..MaxStamp -> Node \union {Absent}]
         /\ ops \in 0..MaxOps /\ faults \in 0..MaxFaults

\* The events that node n has still to handle, in whatever place.
Carried(n) == Range(sub[n]) \union net[n] \union applying[n] \union snap[n].todo

KeysOf(type) == IF type = "service.upserted" THEN Name ELSE Key

Part(db, type, x) == IF type = "service.upserted" THEN db.svc[x] ELSE db.inst[x]

\* The records of one key, stored or under way.
Copies(type, x) ==
    {Part(cat[n], type, x) : n \in {m \in Node : Part(cat[m], type, x) # Absent}}
    \union {ev.rec : ev \in {e \in UNION {Carried(n) : n \in Node} :
                               e.type = type /\ e.key = x}}

Stamped(rec) == rec.updated \in 1..MaxStamp /\ writer[rec.updated] # Absent

\* A copy carries a stamp that some write took, and its stamp tells which
\* record it is a copy of.
Agreement ==
    \A type \in Upsert : \A x \in KeysOf(type) :
        /\ \A r \in Copies(type, x) : Stamped(r)
        /\ \A r, q \in Copies(type, x) : r.updated = q.updated => r = q

\* An event waiting for Run on node n: without an origin it was written here.
Emitted(n, ev) ==
    /\ ev.origin # n
    /\ ev.origin = "" /\ ev.rec # Absent => writer[ev.rec.updated] = n

\* An event on the network for node n: written by the node it names.
Gossiped(n, ev) ==
    /\ ev.origin \in Node \ {n}
    /\ ev.rec # Absent => ev.origin = writer[ev.rec.updated]

Origins == \A n \in Node :
              /\ \A ev \in Range(sub[n]) : Emitted(n, ev)
              /\ \A ev \in net[n] : Gossiped(n, ev)
              /\ \A ev \in applying[n] : ev.type \in Upsert /\ ev.origin \notin {"", n}
              /\ \A ev \in snap[n].todo : ev.type \in Upsert /\ ev.origin = "snapshot"

ClusterInv == Typed /\ Agreement /\ Origins

-----------------------------------------------------------------------------
(* A message is an event; only an upsert has a record, which is of its     *)
(* type.                                                                   *)
LEMMA MessageFacts ==
    ASSUME NEW ev \in Message
    PROVE  /\ ev \in Event
           /\ ev.type \in Upsert <=> ev.rec # Absent
           /\ ev.type \in Upsert => ev.key \in KeysOf(ev.type)
           /\ ev.type = "service.upserted" => ev.key \in Name /\ ev.rec \in Service
           /\ ev.type = "instance.upserted" => ev.key \in Key /\ ev.rec \in Instance
           /\ ev.type = "service.deleted" => ev.key \in Name
           /\ ev.type = "instance.deleted" => ev.key \in Key
           /\ \A n \in Node : [ev EXCEPT !.origin = n] \in Message
  BY AbsentAssumption DEF Message, Event, Types, Upsert, KeysOf, Origin

(* The elements of a sequence are of the sequence's type.                  *)
LEMMA RangeOf == ASSUME NEW S, NEW q \in Seq(S) PROVE Range(q) \subseteq S
  BY DEF Range

(* The records that an event carries and that a node stores are copies.    *)
LEMMA CopiesHave ==
    /\ \A n \in Node : \A ev \in Carried(n) : ev.rec \in Copies(ev.type, ev.key)
    /\ \A n \in Node : \A type, x :
          Part(cat[n], type, x) # Absent => Part(cat[n], type, x) \in Copies(type, x)
  BY DEF Copies

-----------------------------------------------------------------------------
(* A step that only moves copies about keeps Agreement.                    *)
LEMMA CopiesMove ==
    ASSUME Agreement, writer' = writer,
           \A n \in Node, type \in Upsert : \A x \in KeysOf(type) :
              Part(cat'[n], type, x) \in Copies(type, x) \union {Absent},
           \A n \in Node : \A ev \in Carried(n)' :
              ev.type \in Upsert => ev.rec \in Copies(ev.type, ev.key)
    PROVE  Agreement'
<1>1. ASSUME NEW type \in Upsert, NEW x \in KeysOf(type), NEW r \in Copies(type, x)'
      PROVE  r \in Copies(type, x)
  BY <1>1 DEF Copies
<1> QED
  BY <1>1 DEF Agreement, Stamped

(* A write with a fresh stamp keeps Agreement: its copies are the only     *)
(* ones with that stamp, and they are of what the node now stores.         *)
LEMMA CopiesFresh ==
    ASSUME Typed, Agreement,
           NEW n \in Node, NEW ts \in 1..MaxStamp, writer[ts] = Absent,
           writer' = [writer EXCEPT ![ts] = n],
           \A m \in Node, type \in Upsert : \A x \in KeysOf(type) :
              \/ Part(cat'[m], type, x) \in Copies(type, x) \union {Absent}
              \/ m = n /\ Part(cat'[n], type, x).updated = ts,
           \A m \in Node : \A ev \in Carried(m)' :
              ev.type \in Upsert => \/ ev.rec \in Copies(ev.type, ev.key)
                                    \/ /\ ev.rec = Part(cat'[n], ev.type, ev.key)
                                       /\ ev.rec.updated = ts
    PROVE  Agreement'
<1>1. n # Absent
  BY ClusterAssumption
<1>2. ASSUME NEW type \in Upsert, NEW x \in KeysOf(type), NEW r \in Copies(type, x)'
      PROVE  \/ r \in Copies(type, x)
             \/ r = Part(cat'[n], type, x) /\ r.updated = ts
  BY <1>2 DEF Copies
<1>3. ASSUME NEW type \in Upsert, NEW x \in KeysOf(type), NEW r \in Copies(type, x)
      PROVE  Stamped(r) /\ r.updated # ts
  BY <1>3 DEF Agreement, Stamped
<1>4. ASSUME NEW type \in Upsert, NEW x \in KeysOf(type), NEW r \in Copies(type, x)'
      PROVE  Stamped(r)'
  BY <1>1, <1>2, <1>3, <1>4 DEF Stamped, Typed
<1>5. ASSUME NEW type \in Upsert, NEW x \in KeysOf(type),
             NEW r \in Copies(type, x)', NEW q \in Copies(type, x)', r.updated = q.updated
      PROVE  r = q
  BY <1>2, <1>3, <1>5 DEF Agreement
<1> QED
  BY <1>4, <1>5 DEF Agreement

(* What was written stays written: an event keeps its origin whatever      *)
(* stamps are taken later.                                                 *)
LEMMA OriginStays ==
    ASSUME Typed, Agreement, NEW n \in Node, NEW ev \in Carried(n),
           \/ writer' = writer
           \/ \E ts \in 1..MaxStamp, m \in Node :
                 writer[ts] = Absent /\ writer' = [writer EXCEPT ![ts] = m]
    PROVE  /\ \A m \in Node : Emitted(m, ev) => Emitted(m, ev)'
           /\ \A m \in Node : Gossiped(m, ev) => Gossiped(m, ev)'
<1>1. ev \in Message
  <2>1. sub[n] \in Seq(Message) /\ snap[n] \in Pull
    BY DEF Typed
  <2>2. Range(sub[n]) \subseteq Message
    BY <2>1, RangeOf
  <2> QED
    BY <2>1, <2>2 DEF Typed, Carried, Pull
<1>2. ev.rec # Absent => ev.type \in Upsert /\ ev.key \in KeysOf(ev.type)
  BY <1>1, MessageFacts
<1>3. ev.rec # Absent => Stamped(ev.rec)
  BY <1>2, CopiesHave DEF Agreement
<1>4. ev.rec # Absent => writer'[ev.rec.updated] = writer[ev.rec.updated]
  BY <1>3 DEF Stamped, Typed
<1> QED
  BY <1>4 DEF Emitted, Gossiped

(* emit: the subscription takes as many of the events as it has room for.  *)
LEMMA EmitFacts ==
    ASSUME Typed, NEW n \in Node, NEW events \in Seq(Message), Emit(n, events)
    PROVE  /\ sub' \in [Node -> Seq(Message)]
           /\ \A m \in Node : Len(sub'[m]) <= SubCap
           /\ \A m \in Node \ {n} : sub'[m] = sub[m]
           /\ Range(sub'[n]) \subseteq Range(sub[n]) \union Range(events)
<1> DEFINE q == sub[n]
           room == Least(Len(events), SubCap - Len(q))
           new == SubSeq(events, 1, room)
<1>0. q \in Seq(Message) /\ Len(q) <= SubCap
  BY DEF Typed
<1>3. sub' = [sub EXCEPT ![n] = q \o new]
  BY DEF Emit
<1> HIDE DEF q
<1>1. /\ q \in Seq(Message) /\ Len(q) \in Nat /\ Len(q) <= SubCap
      /\ SubCap \in Nat /\ Len(events) \in Nat
  <2>1. SubCap \in Nat
    BY ClusterAssumption
  <2> QED
    BY <1>0, <2>1, LenProperties
<1>2. room \in Nat /\ room <= Len(events) /\ room <= SubCap - Len(q)
  BY <1>1 DEF Least
<1> HIDE DEF room
<1>4. new \in Seq(Message) /\ Len(new) = room /\ \A i \in 1..room : new[i] = events[i]
  BY <1>2, SubSeqProperties
<1> HIDE DEF new
<1>5. /\ q \o new \in Seq(Message) /\ Len(q \o new) = Len(q) + room
      /\ \A i \in 1..(Len(q) + room) : (q \o new)[i] = IF i <= Len(q) THEN q[i]
                                                       ELSE new[i - Len(q)]
  BY <1>1, <1>4, ConcatProperties
<1>6. Range(q \o new) \subseteq Range(q) \union Range(events)
  <2> SUFFICES ASSUME NEW i \in 1..(Len(q) + room)
               PROVE  (q \o new)[i] \in Range(q) \union Range(events)
    BY <1>5 DEF Range
  <2>1. CASE i <= Len(q)
    BY <1>1, <1>2, <1>5, <2>1 DEF Range
  <2>2. CASE ~(i <= Len(q))
    <3>1. i - Len(q) \in 1..room /\ i - Len(q) \in DOMAIN events
      BY <1>1, <1>2, <2>2
    <3> QED
      BY <1>4, <1>5, <2>2, <3>1 DEF Range
  <2> QED
    BY <2>1, <2>2
<1>7. Len(q \o new) <= SubCap
  BY <1>1, <1>2, <1>5
<1> QED
  BY <1>3, <1>5, <1>6, <1>7 DEF Typed, q

-----------------------------------------------------------------------------
(* API operations.                                                         *)

(* A local transaction leaves every part of the state in its type.         *)
LEMMA LocalTyped ==
    ASSUME Typed, NEW n \in Node, NEW op, NEW db \in Catalogue,
           NEW events \in Seq(Message), Local(n, op, db, events),
           writer' \in [1..MaxStamp -> Node \union {Absent}]
    PROVE  Typed'
<1>1. /\ ops' \in 0..MaxOps
      /\ cat' = [cat EXCEPT ![n] = db]
      /\ Emit(n, events)
      /\ UNCHANGED <<net, applying, snap, faults>>
  <2>1. ops \in 0..MaxOps /\ MaxOps \in Nat /\ ops < MaxOps /\ ops' = ops + 1
    BY ClusterAssumption DEF Local, Typed
  <2> QED
    BY <2>1 DEF Local
<1>2. /\ sub' \in [Node -> Seq(Message)]
      /\ \A m \in Node : Len(sub'[m]) <= SubCap
  BY <1>1, EmitFacts
<1>3. cat' \in [Node -> Catalogue]
  BY <1>1 DEF Typed
<1> QED
  BY <1>1, <1>2, <1>3 DEF Typed

(* What the nodes hold and carry after a local transaction.                *)
LEMMA LocalMoves ==
    ASSUME Typed, NEW n \in Node, NEW op, NEW db \in Catalogue,
           NEW events \in Seq(Message), Local(n, op, db, events)
    PROVE  /\ cat'[n] = db /\ \A m \in Node \ {n} : cat'[m] = cat[m]
           /\ Range(sub'[n]) \subseteq Range(sub[n]) \union Range(events)
           /\ \A m \in Node \ {n} : sub'[m] = sub[m]
           /\ \A m \in Node : \A ev \in Carried(m)' :
                 ev \in Carried(m) \/ (m = n /\ ev \in Range(events))
           /\ UNCHANGED <<net, applying, snap>>
<1>1. /\ cat' = [cat EXCEPT ![n] = db]
      /\ Emit(n, events)
      /\ UNCHANGED <<net, applying, snap>>
  BY DEF Local
<1>2. /\ \A m \in Node \ {n} : sub'[m] = sub[m]
      /\ Range(sub'[n]) \subseteq Range(sub[n]) \union Range(events)
  BY <1>1, EmitFacts
<1>3. cat'[n] = db /\ \A m \in Node \ {n} : cat'[m] = cat[m]
  BY <1>1 DEF Typed
<1>4. \A m \in Node : \A ev \in Carried(m)' :
         ev \in Carried(m) \/ (m = n /\ ev \in Range(events))
  BY <1>1, <1>2 DEF Carried
<1> QED
  BY <1>1, <1>2, <1>3, <1>4

(* Origins survive an API operation whose events bear no origin and whose  *)
(* records, if any, were stamped by this very write.                       *)
LEMMA LocalOrigins ==
    ASSUME ClusterInv, NEW n \in Node, NEW op, NEW db \in Catalogue,
           NEW events \in Seq(Message), Local(n, op, db, events),
           \/ writer' = writer
           \/ \E ts \in 1..MaxStamp, m \in Node :
                 writer[ts] = Absent /\ writer' = [writer EXCEPT ![ts] = m],
           \A ev \in Range(events) :
              ev.origin = "" /\ (ev.rec # Absent => writer'[ev.rec.updated] = n)
    PROVE  Origins'
<1>1. Typed /\ Agreement /\ Origins
  BY DEF ClusterInv
<1>2. /\ Range(sub'[n]) \subseteq Range(sub[n]) \union Range(events)
      /\ \A m \in Node \ {n} : sub'[m] = sub[m]
      /\ UNCHANGED <<net, applying, snap>>
  BY <1>1, LocalMoves
<1>3. "" # n
  BY ClusterAssumption
<1>4. ASSUME NEW m \in Node, NEW ev \in Range(sub'[m]) PROVE Emitted(m, ev)'
  <2>1. CASE ev \in Range(sub[m])
    <3>1. ev \in Carried(m) /\ Emitted(m, ev)
      BY <1>1, <2>1 DEF Carried, Origins
    <3> QED
      BY <1>1, <3>1, OriginStays
  <2>2. CASE ev \notin Range(sub[m])
    <3>1. m = n /\ ev \in Range(events)
      BY <1>2, <1>4, <2>2
    <3> QED
      BY <1>3, <3>1 DEF Emitted
  <2> QED
    BY <2>1, <2>2
<1>5. ASSUME NEW m \in Node, NEW ev \in net'[m] PROVE Gossiped(m, ev)'
  <2>1. ev \in Carried(m) /\ Gossiped(m, ev)
    BY <1>1, <1>2, <1>5 DEF Carried, Origins
  <2> QED
    BY <1>1, <2>1, OriginStays
<1> QED
  BY <1>1, <1>2, <1>4, <1>5 DEF Origins

\* From what node n stores to db records are only removed, or stamped ts.
Restamps(n, db, ts) ==
    \A type \in Upsert : \A x \in KeysOf(type) :
        \/ Part(db, type, x) \in {Absent, Part(cat[n], type, x)}
        \/ Part(db, type, x).updated = ts

\* The events are this node's own, and tell of records of db stamped ts.
Announces(db, events, ts) ==
    \A ev \in Range(events) :
        /\ ev.origin = ""
        /\ ev.type \in Upsert => ev.rec = Part(db, ev.type, ev.key) /\ ev.rec.updated = ts

(* A write under a fresh stamp: it changes records of this node only, each *)
(* to one with the new stamp, and announces some of those.                 *)
LEMMA FreshWrite ==
    ASSUME ClusterInv, NEW n \in Node, NEW op, NEW db \in Catalogue,
           NEW events \in Seq(Message), Local(n, op, db, events),
           NEW ts \in 1..MaxStamp, writer[ts] = Absent,
           writer' = [writer EXCEPT ![ts] = n],
           Restamps(n, db, ts), Announces(db, events, ts)
    PROVE  ClusterInv'
<1>1. Typed /\ Agreement
  BY DEF ClusterInv
<1>2. writer' \in [1..MaxStamp -> Node \union {Absent}] /\ writer'[ts] = n
  BY <1>1 DEF Typed
<1>3. Typed'
  BY <1>1, <1>2, LocalTyped
<1>4. Range(events) \subseteq Message
  BY RangeOf
<1>5. \A ev \in Range(events) :
         ev.origin = "" /\ (ev.rec # Absent => writer'[ev.rec.updated] = n)
  BY <1>2, <1>4, MessageFacts DEF Announces
<1>6. Origins'
  BY <1>5, LocalOrigins
<1>7. /\ cat'[n] = db /\ \A m \in Node \ {n} : cat'[m] = cat[m]
      /\ \A m \in Node : \A ev \in Carried(m)' :
            ev \in Carried(m) \/ (m = n /\ ev \in Range(events))
  BY <1>1, LocalMoves
<1>8. ASSUME NEW m \in Node, NEW type \in Upsert, NEW x \in KeysOf(type)
      PROVE  \/ Part(cat'[m], type, x) \in Copies(type, x) \union {Absent}
             \/ m = n /\ Part(cat'[n], type, x).updated = ts
  <2>1. CASE m = n
    BY <1>7, <2>1, CopiesHave DEF Restamps
  <2>2. CASE m # n
    BY <1>7, <2>2, CopiesHave
  <2> QED
    BY <2>1, <2>2
<1>9. \A m \in Node : \A ev \in Carried(m)' :
         ev.type \in Upsert => \/ ev.rec \in Copies(ev.type, ev.key)
                               \/ /\ ev.rec = Part(cat'[n], ev.type, ev.key)
                                  /\ ev.rec.updated = ts
  BY <1>7, CopiesHave DEF Announces
<1>10. Agreement'
  BY <1>1, <1>8, <1>9, CopiesFresh
<1> QED
  BY <1>3, <1>6, <1>10 DEF ClusterInv

\* From what node n stores to db records are only removed.
OnlyRemoves(n, db) ==
    \A type \in Upsert : \A x \in KeysOf(type) :
        Part(db, type, x) \in {Absent, Part(cat[n], type, x)}

AnnouncesNone(events) == \A ev \in Range(events) : ev.origin = "" /\ ev.type \notin Upsert

(* A deletion takes no stamp: it removes records of this node and          *)
(* announces none.                                                         *)
LEMMA Deletion ==
    ASSUME ClusterInv, NEW n \in Node, NEW op, NEW db \in Catalogue,
           NEW events \in Seq(Message), Local(n, op, db, events),
           writer' = writer, OnlyRemoves(n, db), AnnouncesNone(events)
    PROVE  ClusterInv'
<1>1. Typed /\ Agreement
  BY DEF ClusterInv
<1>2. Typed'
  <2>1. writer' \in [1..MaxStamp -> Node \union {Absent}]
    BY <1>1 DEF Typed
  <2> QED
    BY <1>1, <2>1, LocalTyped
<1>3. Range(events) \subseteq Message
  BY RangeOf
<1>4. Origins'
  <2>1. \A ev \in Range(events) :
           ev.origin = "" /\ (ev.rec # Absent => writer'[ev.rec.updated] = n)
    BY <1>3, MessageFacts DEF AnnouncesNone
  <2> QED
    BY <2>1, LocalOrigins
<1>5. /\ cat'[n] = db /\ \A m \in Node \ {n} : cat'[m] = cat[m]
      /\ \A m \in Node : \A ev \in Carried(m)' :
            ev \in Carried(m) \/ (m = n /\ ev \in Range(events))
  BY <1>1, LocalMoves
<1>6. ASSUME NEW m \in Node, NEW type \in Upsert, NEW x \in KeysOf(type)
      PROVE  Part(cat'[m], type, x) \in Copies(type, x) \union {Absent}
  <2>1. CASE m = n
    BY <1>5, <2>1, CopiesHave DEF OnlyRemoves
  <2>2. CASE m # n
    BY <1>5, <2>2, CopiesHave
  <2> QED
    BY <2>1, <2>2
<1>7. \A m \in Node : \A ev \in Carried(m)' :
         ev.type \in Upsert => ev.rec \in Copies(ev.type, ev.key)
  BY <1>5, CopiesHave DEF AnnouncesNone
<1>8. Agreement'
  BY <1>1, <1>6, <1>7, CopiesMove
<1> QED
  BY <1>2, <1>4, <1>8 DEF ClusterInv

(* The events built by the operations are messages; a sequence of one has  *)
(* that one as its range.                                                  *)
LEMMA EventsAreMessages ==
    /\ \A s \in Name, rec \in Service, o \in Origin : ServiceUpserted(s, rec, o) \in Message
    /\ \A k \in Key, rec \in Instance, o \in Origin : InstanceUpserted(k, rec, o) \in Message
    /\ \A s \in Name : ServiceDeleted(s) \in Message
    /\ \A k \in Key : InstanceDeleted(k) \in Message
    /\ "" \in Origin /\ "snapshot" \in Origin
    /\ \A ev \in Message : <<ev>> \in Seq(Message) /\ Range(<<ev>>) = {ev}
<1>1. \A ev \in Message : <<ev>> \in Seq(Message) /\ Range(<<ev>>) = {ev}
  BY DEF Range
<1> QED
  BY <1>1 DEF ServiceUpserted, InstanceUpserted, ServiceDeleted, InstanceDeleted, Message,
              Origin

(* A record is written or removed, by a transaction or by ApplyRemote.     *)
LEMMA RawService ==
    ASSUME NEW db \in Catalogue, NEW s \in Name, NEW rec \in Service \union {Absent}
    PROVE  LET new == [db EXCEPT !.svc[s] = rec]
           IN  /\ new \in Catalogue /\ new.inst = db.inst /\ new.svc[s] = rec
               /\ \A x \in Name \ {s} : new.svc[x] = db.svc[x]
  BY DEF Catalogue, Services

(* The same, for instances.                                                *)
LEMMA RawInstance ==
    ASSUME NEW db \in Catalogue, NEW k \in Key, NEW rec \in Instance \union {Absent}
    PROVE  LET new == [db EXCEPT !.inst[k] = rec]
           IN  /\ new \in Catalogue /\ new.svc = db.svc /\ new.inst[k] = rec
               /\ \A x \in Key \ {k} : new.inst[x] = db.inst[x]
  BY DEF Catalogue, Instances

\* Instance k of db is new, and so is every service that differs.
StampsOne(n, db, k, ts) ==
    /\ db.inst[k] \in Instance /\ db.inst[k].updated = ts
    /\ \A x \in Key \ {k} : db.inst[x] = cat[n].inst[x]
    /\ \A s \in Name : db.svc[s] = cat[n].svc[s] \/ db.svc[s].updated = ts

(* PutInstance, Heartbeat, SetStatus, SetBlocked: one instance gets the    *)
(* new stamp and is announced; PutInstance may also stamp a stub.          *)
LEMMA InstanceWrite ==
    ASSUME ClusterInv, NEW n \in Node, NEW op, NEW db \in Catalogue, NEW k \in Key,
           NEW ts \in 1..MaxStamp, writer[ts] = Absent,
           writer' = [writer EXCEPT ![ts] = n],
           Local(n, op, db, Upserted(db, k)),
           StampsOne(n, db, k, ts)
    PROVE  ClusterInv'
<1> USE DEF StampsOne
<1> DEFINE ev == InstanceUpserted(k, db.inst[k], "")
           events == Upserted(db, k)
<1>1. events = <<ev>>
  BY DEF Upserted
<1>2. ev \in Message /\ <<ev>> \in Seq(Message) /\ Range(<<ev>>) = {ev}
  BY EventsAreMessages
<1>3. /\ ev.origin = "" /\ ev.type = "instance.upserted"
      /\ ev.rec = Part(db, ev.type, ev.key) /\ ev.rec.updated = ts
  BY DEF InstanceUpserted, Part
<1>4. Restamps(n, db, ts)
  BY DEF Upsert, KeysOf, Part, Restamps
<1> HIDE DEF ev
<1>5. events \in Seq(Message) /\ Announces(db, events, ts)
  BY <1>1, <1>2, <1>3 DEF Announces
<1> HIDE DEF events
<1>6. Local(n, op, db, events)
  BY DEF events
<1> QED
  BY <1>4, <1>5, <1>6, FreshWrite

(* PutService stamps and announces one service.                            *)
LEMMA PutServiceStep ==
    ASSUME ClusterInv, NEW n \in Node, NEW s \in Name, NEW ts \in 1..MaxStamp,
           writer[ts] = Absent, PutService(n, s, ts)
    PROVE  ClusterInv'
<1> DEFINE db == PutServiceTx(cat[n], s, ts)
           ev == ServiceUpserted(s, db.svc[s], "")
           events == <<ev>>
<1>1. cat[n] \in Catalogue /\ ts \in Nat
  BY DEF ClusterInv, Typed
<1>2. [updated |-> ts] \in Service
  BY <1>1 DEF Service
<1>3. /\ db \in Catalogue /\ db.inst = cat[n].inst /\ db.svc[s] = [updated |-> ts]
      /\ \A x \in Name \ {s} : db.svc[x] = cat[n].svc[x]
  BY <1>1, <1>2, RawService DEF PutServiceTx
<1>4. db.svc[s] \in Service /\ db.svc[s].updated = ts
  BY <1>1, <1>3 DEF Service
<1>5. Local(n, "putService", db, events) /\ writer' = [writer EXCEPT ![ts] = n]
  BY DEF PutService
<1> HIDE DEF db
<1>6. events \in Seq(Message) /\ Range(events) = {ev}
  BY <1>4, EventsAreMessages
<1>7. ev.origin = "" /\ ev.rec = Part(db, ev.type, ev.key) /\ ev.rec.updated = ts
  BY <1>4 DEF ServiceUpserted, Part
<1>8. Restamps(n, db, ts)
  BY <1>3, <1>4 DEF Upsert, KeysOf, Part, Restamps
<1> HIDE DEF ev, events
<1>9. Announces(db, events, ts)
  BY <1>6, <1>7 DEF Announces
<1> QED
  BY <1>3, <1>5, <1>6, <1>8, <1>9, FreshWrite

(* PutInstance stamps the instance and a stub, if it needs one.            *)
LEMMA PutInstanceStep ==
    ASSUME ClusterInv, NEW n \in Node, NEW nm \in Name, NEW i \in Id,
           NEW status \in StatusInput,
           NEW ts \in 1..MaxStamp, writer[ts] = Absent,
           PutInstance(n, nm, i, status, ts)
    PROVE  ClusterInv'
<1> DEFINE k  == instanceKey(nm, i)
           db == PutInstanceTx(cat[n], nm, i, status, ts)
<1>0. k \in Key
  BY DEF Key
<1> HIDE DEF k
<1>1. cat[n] \in Catalogue /\ ts \in Nat
  BY DEF ClusterInv, Typed
<1>2. /\ db.inst[k].updated = ts
      /\ \A x \in Key \ {k} : db.inst[x] = cat[n].inst[x]
      /\ \A s \in Name : db.svc[s] = cat[n].svc[s] \/ db.svc[s].updated = ts
  BY <1>0, <1>1 DEF PutInstanceTx, WithStub, Catalogue, Services, Instances, k
<1>3. db.inst[k] \in Instance
  <2> DEFINE b == BlockedAt(cat[n], k)
             rec == [service |-> nm, id |-> i, status |-> Validated(status),
                     blocked |-> b, updated |-> ts]
  <2>1. db.inst[k] = rec
    BY <1>0, <1>1 DEF PutInstanceTx, Catalogue, Instances, k
  <2>2. b \in BOOLEAN
    BY <1>0, <1>1 DEF BlockedAt, HasInstance, Catalogue, Instances, Instance
  <2> HIDE DEF b
  <2>3. rec \in Instance
    BY <1>1, <2>2 DEF Instance, Validated, StatusInput, Status
  <2> QED
    BY <2>1, <2>3
<1>4. db \in Catalogue
  <2>1. [updated |-> ts] \in Service
    BY <1>1 DEF Service
  <2>2. db.svc \in Services
    BY <1>1, <2>1 DEF PutInstanceTx, WithStub, Catalogue, Services
  <2>3. db.inst \in Instances
    BY <1>0, <1>1, <1>3 DEF PutInstanceTx, Catalogue, Instances, k
  <2> QED
    BY <2>2, <2>3 DEF PutInstanceTx, Catalogue
<1>5. Local(n, "putInstance", db, Upserted(db, k)) /\ writer' = [writer EXCEPT ![ts] = n]
  BY DEF PutInstance, k
<1>6. StampsOne(n, db, k, ts)
  BY <1>2, <1>3 DEF StampsOne
<1> HIDE DEF db
<1> QED
  BY <1>0, <1>4, <1>5, <1>6, InstanceWrite

(* Replacing a stored instance by a record with the new stamp.             *)
LEMMA RewriteStep ==
    ASSUME ClusterInv, NEW n \in Node, NEW op, NEW k \in Key, HasInstance(cat[n], k),
           NEW rec \in Instance, NEW ts \in 1..MaxStamp, writer[ts] = Absent,
           rec.updated = ts, writer' = [writer EXCEPT ![ts] = n],
           Local(n, op, Rewrite(cat[n], k, rec), Upserted(Rewrite(cat[n], k, rec), k))
    PROVE  ClusterInv'
<1> DEFINE db == Rewrite(cat[n], k, rec)
<1>1. cat[n] \in Catalogue
  BY DEF ClusterInv, Typed
<1>2. /\ db \in Catalogue /\ db.inst[k] = rec
      /\ \A x \in Key \ {k} : db.inst[x] = cat[n].inst[x]
  BY <1>1, RawInstance DEF Rewrite
<1>3. db.svc = cat[n].svc
  BY <1>1, RawInstance DEF Rewrite
<1> HIDE DEF db
<1>4. Local(n, op, db, Upserted(db, k))
  BY DEF db
<1>5. StampsOne(n, db, k, ts)
  BY <1>2, <1>3 DEF StampsOne
<1> QED
  BY <1>2, <1>4, <1>5, InstanceWrite

(* Heartbeats, the health checker's verdicts and the operator's blocks     *)
(* rewrite a stored instance.                                              *)
LEMMA RewritingSteps ==
    ASSUME ClusterInv, NEW n \in Node, NEW k \in Key, NEW ts \in 1..MaxStamp,
           writer[ts] = Absent,
           \/ \E status \in StatusInput : Heartbeat(n, k, status, ts)
           \/ \E status \in Status : SetStatus(n, k, status, ts)
           \/ \E b \in BOOLEAN : SetBlocked(n, k, b, ts)
    PROVE  ClusterInv'
<1>1. HasInstance(cat[n], k) /\ writer' = [writer EXCEPT ![ts] = n] /\ ts \in Nat
  BY DEF Heartbeat, SetStatus, SetBlocked
<1>2. cat[n].inst[k] \in Instance
  BY <1>1 DEF ClusterInv, Typed, Catalogue, Instances, HasInstance
<1>3. ASSUME NEW status \in StatusInput, Heartbeat(n, k, status, ts) PROVE ClusterInv'
  <2> DEFINE st  == IF status # "" THEN status
                    ELSE IF cat[n].inst[k].status = "down" THEN "up"
                    ELSE cat[n].inst[k].status
             rec == [cat[n].inst[k] EXCEPT !.status = st, !.updated = ts]
  <2>1. st \in Status
    BY <1>2 DEF Instance, StatusInput, Status
  <2>2. rec \in Instance /\ rec.updated = ts
    BY <1>1, <1>2, <2>1 DEF Instance
  <2>3. HeartbeatTx(cat[n], k, status, ts) = Rewrite(cat[n], k, rec)
    BY <1>2 DEF HeartbeatTx, Instance
  <2> HIDE DEF rec
  <2>4. Local(n, "heartbeat", Rewrite(cat[n], k, rec), Upserted(Rewrite(cat[n], k, rec), k))
    BY <1>3, <2>3 DEF Heartbeat
  <2> QED
    BY <1>1, <2>2, <2>4, RewriteStep
<1>4. ASSUME NEW status \in Status, SetStatus(n, k, status, ts) PROVE ClusterInv'
  <2> DEFINE rec == [cat[n].inst[k] EXCEPT !.status = status, !.updated = ts]
  <2>1. rec \in Instance /\ rec.updated = ts
    BY <1>1, <1>2 DEF Instance
  <2>2. SetStatusTx(cat[n], k, status, ts) = Rewrite(cat[n], k, rec)
    BY <1>4 DEF SetStatus, SetStatusTx
  <2> HIDE DEF rec
  <2>3. Local(n, "setStatus", Rewrite(cat[n], k, rec), Upserted(Rewrite(cat[n], k, rec), k))
    BY <1>4, <2>2 DEF SetStatus
  <2> QED
    BY <1>1, <2>1, <2>3, RewriteStep
<1>5. ASSUME NEW b \in BOOLEAN, SetBlocked(n, k, b, ts) PROVE ClusterInv'
  <2> DEFINE rec == [cat[n].inst[k] EXCEPT !.blocked = b, !.updated = ts]
             op == IF b THEN "block" ELSE "unblock"
  <2>1. rec \in Instance /\ rec.updated = ts
    BY <1>1, <1>2 DEF Instance
  <2>2. SetBlockedTx(cat[n], k, b, ts) = Rewrite(cat[n], k, rec)
    BY DEF SetBlockedTx
  <2> HIDE DEF rec
  <2>3. Local(n, op, Rewrite(cat[n], k, rec), Upserted(Rewrite(cat[n], k, rec), k))
    BY <1>5, <2>2 DEF SetBlocked
  <2> HIDE DEF op
  <2> QED
    BY <1>1, <2>1, <2>3, RewriteStep
<1> QED
  BY <1>3, <1>4, <1>5

(* DeleteInstance and DeleteService remove records and announce one event. *)
LEMMA DeleteSteps ==
    ASSUME ClusterInv, NEW n \in Node,
           \/ \E k \in Key : DeleteInstance(n, k)
           \/ \E s \in Name : DeleteService(n, s)
    PROVE  ClusterInv'
<1>1. cat[n] \in Catalogue
  BY DEF ClusterInv, Typed
<1>2. ASSUME NEW k \in Key, DeleteInstance(n, k) PROVE ClusterInv'
  <2> DEFINE db == DeleteInstanceTx(cat[n], k)
             ev == InstanceDeleted(k)
             events == <<ev>>
  <2>1. db \in Catalogue
    BY <1>1, RawInstance DEF DeleteInstanceTx
  <2>2. OnlyRemoves(n, db)
    BY <1>1 DEF DeleteInstanceTx, OnlyRemoves, Part, KeysOf, Upsert, Catalogue, Instances
  <2>3. events \in Seq(Message) /\ Range(events) = {ev}
    BY EventsAreMessages
  <2>4. ev.origin = "" /\ ev.type \notin Upsert
    BY DEF InstanceDeleted, Upsert
  <2>5. Local(n, "deleteInstance", db, events) /\ writer' = writer
    BY <1>2 DEF DeleteInstance
  <2> HIDE DEF db, ev, events
  <2>6. AnnouncesNone(events)
    BY <2>3, <2>4 DEF AnnouncesNone
  <2> QED
    BY <2>1, <2>2, <2>3, <2>5, <2>6, Deletion
<1>3. ASSUME NEW s \in Name, DeleteService(n, s) PROVE ClusterInv'
  <2> DEFINE db == DeleteServiceTx(cat[n], s)
             ev == ServiceDeleted(s)
             events == <<ev>>
  <2>1. db \in Catalogue
    BY <1>1 DEF DeleteServiceTx, Catalogue, Services, Instances
  <2>2. OnlyRemoves(n, db)
    BY <1>1 DEF DeleteServiceTx, OnlyRemoves, Part, KeysOf, Upsert, Catalogue, Services
  <2>3. events \in Seq(Message) /\ Range(events) = {ev}
    BY EventsAreMessages
  <2>4. ev.origin = "" /\ ev.type \notin Upsert
    BY DEF ServiceDeleted, Upsert
  <2>5. Local(n, "deleteService", db, events) /\ writer' = writer
    BY <1>3 DEF DeleteService
  <2> HIDE DEF db, ev, events
  <2>6. AnnouncesNone(events)
    BY <2>3, <2>4 DEF AnnouncesNone
  <2> QED
    BY <2>1, <2>2, <2>3, <2>5, <2>6, Deletion
<1> QED
  BY <1>2, <1>3

(* What the cursor of a rename may do, taken apart.                        *)
LEMMA ScanFacts ==
    ASSUME NEW db, NEW old, NEW nw, NEW scan \in Scans(db, old, nw)
    PROVE  /\ scan.seen \subseteq Under(old) /\ scan.seen \subseteq DOMAIN scan.last
           /\ \A w \in DOMAIN scan.last : /\ scan.last[w] \in StoredUnder(db, old)
                                          /\ w = MovedTo(db, scan.last[w], nw)
<1> DEFINE found == StoredUnder(db, old)
           targets(S) == {MovedTo(db, k, nw) : k \in S}
<1>1. PICK seen \in SUBSET (Under(old) \intersect targets(found)) :
        scan \in {[seen |-> seen, last |-> f] :
                    f \in {g \in [targets(found \ seen) -> found \ seen] :
                             /\ seen \subseteq DOMAIN g
                             /\ \A w \in DOMAIN g : MovedTo(db, g[w], nw) = w}}
  BY DEF Scans
<1>2. PICK f \in [targets(found \ seen) -> found \ seen] :
        /\ seen \subseteq DOMAIN f
        /\ \A w \in DOMAIN f : MovedTo(db, f[w], nw) = w
        /\ scan = [seen |-> seen, last |-> f]
  BY <1>1
<1>3. scan.seen = seen /\ scan.last = f
  BY <1>2
<1>4. \A w \in DOMAIN f : f[w] \in found
  BY <1>2
<1> HIDE DEF targets
<1> QED
  BY <1>1, <1>2, <1>3, <1>4

(* Names without slashes differ in their first segment, and so do the keys *)
(* of their instances.                                                     *)
LEMMA FirstSegment ==
    /\ \A n \in Name, i \in Id : instanceKey(n, i)[1] = n[1]
    /\ \A n \in Name : \A k \in Under(n) : k[1] = n[1]
    /\ \A m, n \in Name : m[1] = n[1] => m = n
<1>1. ASSUME NEW n \in Name
      PROVE  n \in Seq(Segment) /\ Len(n) = 1 /\ 1 \in 1..Len(n)
  <2>1. Len(n) = 1
    BY ClusterAssumption, Zenon DEF Valid
  <2> QED
    BY <2>1, TextAssumption
<1>2. ASSUME NEW n \in Name, NEW i \in Id PROVE instanceKey(n, i)[1] = n[1]
  <2>1. i \in Seq(Segment)
    BY TextAssumption
  <2> QED
    BY <1>1, <2>1, ConcatProperties DEF instanceKey
<1>3. ASSUME NEW n \in Name, NEW k \in Under(n) PROVE k[1] = n[1]
  <2>1. PICK m \in Name, i \in Id : k = m \o i
    BY DEF Under, Key, instanceKey
  <2>2. k \in Seq(Segment)
    <3>1. m \in Seq(Segment) /\ i \in Seq(Segment)
      BY TextAssumption
    <3> QED
      BY <2>1, <3>1, ConcatProperties
  <2>3. 1 < Len(k) /\ SubSeq(k, 1, 1) = n
    BY <1>1 DEF Under
  <2> HIDE <2>1
  <2> QED
    BY <2>2, <2>3
<1>4. ASSUME NEW m \in Name, NEW n \in Name, m[1] = n[1] PROVE m = n
  BY <1>1, <1>4, SeqEqual
<1> QED
  BY <1>2, <1>3, <1>4

\* What RenameTx makes of db: records are removed or stamped ts, the service
\* has its new name and the instances it moved are stamped ts.
Renamed(db, new, nw, ts, moved) ==
    /\ new \in Catalogue
    /\ new.svc[nw] = [updated |-> ts]
    /\ \A s \in Name \ {nw} : new.svc[s] \in {Absent, db.svc[s]}
    /\ \A k \in Key : new.inst[k] \in {Absent, db.inst[k]} \/ new.inst[k].updated = ts
    /\ moved \subseteq Key
    /\ \A k \in moved : new.inst[k] \in Instance /\ new.inst[k].updated = ts

(* RenameService, on a catalogue that need not be closed: replication may  *)
(* have brought instances of the new name, which are then overwritten.     *)
LEMMA RenameTxFacts ==
    ASSUME NEW db \in Catalogue, NEW old \in Name, NEW nw \in Name, old # nw,
           NEW ts \in Nat, NEW scan \in Scans(db, old, nw)
    PROVE  Renamed(db, RenameTx(db, old, nw, ts, scan), nw, ts, DOMAIN scan.last)
<1> DEFINE new == RenameTx(db, old, nw, ts, scan)
           moved == DOMAIN scan.last
           gone == StoredUnder(db, old) \union scan.seen
           rec(k) == [db.inst[scan.last[k]] EXCEPT !.service = nw, !.updated = ts]
<1>1. /\ gone \subseteq Under(old)
      /\ \A k \in moved : /\ scan.last[k] \in StoredUnder(db, old)
                          /\ k = instanceKey(nw, db.inst[scan.last[k]].id)
  BY ScanFacts DEF StoredUnder, MovedTo
<1>2. \A k \in StoredUnder(db, old) : db.inst[k] \in Instance
  BY DEF StoredUnder, Under, HasInstance, Catalogue, Instances
<1>3. /\ new.svc = [db.svc EXCEPT ![old] = Absent, ![nw] = [updated |-> ts]]
      /\ new.inst = [k \in Key |->
                       IF k \in gone THEN Absent
                       ELSE IF k \in moved THEN rec(k) ELSE db.inst[k]]
      /\ new = [svc |-> new.svc, inst |-> new.inst]
  BY DEF RenameTx
<1>4. [updated |-> ts] \in Service
  BY DEF Service
<1>5. ASSUME NEW k \in moved
      PROVE  k \in Key \ gone /\ rec(k) \in Instance /\ rec(k).updated = ts
  <2> DEFINE r == db.inst[scan.last[k]]
  <2>1. r \in Instance /\ k = instanceKey(nw, r.id)
    BY <1>1, <1>2, <1>5
  <2> HIDE DEF r
  <2>2. r.id \in Id
    BY <2>1 DEF Instance
  <2>3. k \in Key
    BY <2>1, <2>2 DEF Key
  <2>4. k \notin Under(old)
    BY <2>1, <2>2, FirstSegment
  <2>5. [r EXCEPT !.service = nw, !.updated = ts] \in Instance
        /\ [r EXCEPT !.service = nw, !.updated = ts].updated = ts
    BY <2>1 DEF Instance
  <2> QED
    BY <1>1, <2>3, <2>4, <2>5 DEF r
<1> HIDE DEF new, rec, moved, gone
<1>6. new.svc \in Services /\ new.svc[nw] = [updated |-> ts]
  BY <1>3, <1>4 DEF Catalogue, Services
<1>7. new.inst \in Instances
  BY <1>3, <1>5 DEF Catalogue, Instances
<1>8. \A s \in Name \ {nw} : new.svc[s] \in {Absent, db.svc[s]}
  BY <1>3 DEF Catalogue, Services
<1>9. \A k \in Key : new.inst[k] \in {Absent, db.inst[k]} \/ new.inst[k].updated = ts
  BY <1>3, <1>5
<1>10. \A k \in moved : k \in Key /\ new.inst[k] \in Instance /\ new.inst[k].updated = ts
  BY <1>3, <1>5
<1>11. new \in Catalogue
  BY <1>3, <1>6, <1>7 DEF Catalogue
<1>12. Renamed(db, new, nw, ts, moved)
  BY <1>6, <1>8, <1>9, <1>10, <1>11 DEF Renamed
<1> QED
  BY <1>12 DEF new, moved

(* The moved instances can be listed: there are finitely many.             *)
LEMMA Listed ==
    ASSUME NEW S \in SUBSET Key
    PROVE  LET order == CHOOSE f \in [1..Cardinality(S) -> S] :
                           \A x \in S : \E j \in DOMAIN f : f[j] = x
           IN  Cardinality(S) \in Nat /\ order \in [1..Cardinality(S) -> S]
<1>1. IsFiniteSet(Name) /\ IsFiniteSet(Id)
  BY ClusterAssumption
<1>2. IsFiniteSet(S)
  <2> DEFINE f == [p \in Name \X Id |-> instanceKey(p[1], p[2])]
  <2>1. \A p \in Name \X Id : f[p] \in Key
    BY DEF Key
  <2>2. ASSUME NEW k \in Key PROVE \E p \in Name \X Id : f[p] = k
    <3>1. PICK nm \in Name, i \in Id : k = instanceKey(nm, i)
      BY DEF Key
    <3>2. <<nm, i>> \in Name \X Id /\ f[<<nm, i>>] = k
      BY <3>1
    <3> QED
      BY <3>2
  <2>3. f \in Surjection(Name \X Id, Key)
    BY <2>1, <2>2 DEF Surjection
  <2> HIDE DEF f
  <2> QED
    BY <1>1, <2>3, FS_Product, FS_Surjection, FS_Subset
<1>3. Cardinality(S) \in Nat /\ ExistsBijection(1..Cardinality(S), S)
  BY <1>2, FS_CardinalityType
<1>4. PICK f \in [1..Cardinality(S) -> S] : \A x \in S : \E j \in 1..Cardinality(S) : f[j] = x
  BY <1>3 DEF ExistsBijection, Bijection, Surjection
<1>5. \A x \in S : \E j \in DOMAIN f : f[j] = x
  BY <1>4
<1> QED
  BY <1>3, <1>4, <1>5

(* RenameService stamps the service and the moved instances and announces  *)
(* them.                                                                   *)
LEMMA RenameStep ==
    ASSUME ClusterInv, NEW n \in Node, NEW old \in Name, NEW nw \in Name,
           NEW ts \in 1..MaxStamp, writer[ts] = Absent,
           NEW scan \in Scans(cat[n], old, nw), RenameService(n, old, nw, ts, scan)
    PROVE  ClusterInv'
<1> DEFINE db == RenameTx(cat[n], old, nw, ts, scan)
           moved == DOMAIN scan.last
           order == CHOOSE f \in [1..Cardinality(moved) -> moved] :
                       \A x \in moved : \E j \in DOMAIN f : f[j] = x
           e1 == ServiceDeleted(old)
           e2 == ServiceUpserted(nw, db.svc[nw], "")
           first == <<e1, e2>>
           rest == [j \in DOMAIN order |-> InstanceUpserted(order[j], db.inst[order[j]], "")]
           events == first \o rest
<1>1. /\ Local(n, "rename", db, events) /\ writer' = [writer EXCEPT ![ts] = n]
      /\ old # nw
  BY DEF RenameService, RenameAllowed
<1>2. cat[n] \in Catalogue /\ ts \in Nat
  BY DEF ClusterInv, Typed
<1>3. /\ db \in Catalogue
      /\ db.svc[nw] = [updated |-> ts]
      /\ \A s \in Name \ {nw} : db.svc[s] \in {Absent, cat[n].svc[s]}
      /\ \A k \in Key : db.inst[k] \in {Absent, cat[n].inst[k]} \/ db.inst[k].updated = ts
      /\ moved \subseteq Key
      /\ \A x \in moved : db.inst[x] \in Instance /\ db.inst[x].updated = ts
  <2>1. Renamed(cat[n], db, nw, ts, moved)
    BY <1>1, <1>2, RenameTxFacts
  <2> HIDE DEF db, moved
  <2> QED
    BY <2>1 DEF Renamed
<1> HIDE DEF db, moved
<1>4. moved \in SUBSET Key
  BY <1>3
<1>5. \A x \in moved : db.inst[x] \in Instance /\ db.inst[x].updated = ts
  BY <1>3
<1>6. Cardinality(moved) \in Nat /\ order \in [1..Cardinality(moved) -> moved]
  BY <1>4, Listed
<1> HIDE DEF order
<1>7. db.svc[nw] \in Service /\ db.svc[nw].updated = ts
  BY <1>2, <1>3 DEF Service
<1>8. first \in Seq(Message)
  <2>1. e1 \in Message /\ e2 \in Message
    BY <1>7, EventsAreMessages
  <2> HIDE DEF e1, e2
  <2> QED
    BY <2>1
<1>9. \A j \in DOMAIN order : InstanceUpserted(order[j], db.inst[order[j]], "") \in Message
  BY <1>4, <1>5, <1>6, EventsAreMessages
<1>10. rest \in Seq(Message)
  <2>1. rest \in [1..Cardinality(moved) -> Message]
    BY <1>6, <1>9
  <2> HIDE DEF rest
  <2> QED
    BY <1>6, <2>1, SeqDef
<1>11. Announces(db, events, ts)
  <2>1. ASSUME NEW ev \in Range(events) PROVE ev \in Range(first) \union Range(rest)
    <3> HIDE DEF first, rest
    <3> QED
      BY <1>8, <1>10, <2>1, ConcatProperties DEF Range
  <2>2. ASSUME NEW ev \in Range(first)
        PROVE  ev \in {e1, e2}
    <3> HIDE DEF e1, e2
    <3> QED
      BY <2>2 DEF Range
  <2>3. ASSUME NEW ev \in Range(rest)
        PROVE  \E x \in moved : ev = InstanceUpserted(x, db.inst[x], "")
    BY <1>6, <2>3 DEF Range
  <2>4. ASSUME NEW ev \in Range(events)
        PROVE  /\ ev.origin = ""
               /\ ev.type \in Upsert => /\ ev.rec = Part(db, ev.type, ev.key)
                                        /\ ev.rec.updated = ts
    <3>1. CASE ev = ServiceDeleted(old)
      BY <3>1 DEF ServiceDeleted, Upsert
    <3>2. CASE ev = ServiceUpserted(nw, db.svc[nw], "")
      BY <1>7, <3>2 DEF ServiceUpserted, Part
    <3>3. ASSUME NEW x \in moved, ev = InstanceUpserted(x, db.inst[x], "")
          PROVE  ev.origin = "" /\ ev.rec = Part(db, ev.type, ev.key) /\ ev.rec.updated = ts
      BY <1>5, <3>3 DEF InstanceUpserted, Part
    <3> QED
      BY <2>1, <2>2, <2>3, <2>4, <3>1, <3>2, <3>3
  <2> HIDE DEF events
  <2> QED
    BY <2>4 DEF Announces
<1>12. Restamps(n, db, ts)
  BY <1>3, <1>7 DEF Restamps, Part, KeysOf, Upsert
<1>13. events \in Seq(Message)
  <2> HIDE DEF first, rest
  <2> QED
    BY <1>8, <1>10, ConcatProperties
<1> HIDE DEF events
<1> QED
  BY <1>1, <1>3, <1>11, <1>12, <1>13, FreshWrite

(* Every API operation keeps the invariant.                                *)
LEMMA APICallStep == ASSUME ClusterInv, NEW n \in Node, APICall(n) PROVE ClusterInv'
<1>1. ASSUME NEW ts \in Readings PROVE ts \in 1..MaxStamp /\ writer[ts] = Absent
  BY DEF Readings
<1>2. Registers \subseteq Name \X Id /\ Sends \subseteq StatusInput /\ {"up", "down"} \subseteq Status
  BY ClusterAssumption DEF Status
<1>3. ASSUME NEW ts \in Readings, NEW s \in Name, PutService(n, s, ts) PROVE ClusterInv'
  BY <1>1, <1>3, PutServiceStep
<1>4. ASSUME NEW ts \in Readings, NEW r \in Registers, NEW status \in Sends,
             PutInstance(n, r[1], r[2], status, ts)
      PROVE  ClusterInv'
  <2>1. r[1] \in Name /\ r[2] \in Id /\ status \in StatusInput
    BY <1>2
  <2> QED
    BY <1>1, <1>4, <2>1, PutInstanceStep
<1>5. ASSUME NEW ts \in Readings, NEW k \in Key,
             \/ \E status \in Sends : Heartbeat(n, k, status, ts)
             \/ \E status \in {"up", "down"} : SetStatus(n, k, status, ts)
             \/ \E b \in BOOLEAN : SetBlocked(n, k, b, ts)
      PROVE  ClusterInv'
  <2>1. \/ \E status \in StatusInput : Heartbeat(n, k, status, ts)
        \/ \E status \in Status : SetStatus(n, k, status, ts)
        \/ \E b \in BOOLEAN : SetBlocked(n, k, b, ts)
    BY <1>2, <1>5
  <2> QED
    BY <1>1, <2>1, RewritingSteps
<1>6. ASSUME NEW ts \in Readings, NEW old \in Name, NEW new \in Name,
             NEW scan \in Scans(cat[n], old, new),
             RenameService(n, old, new, ts, scan)
      PROVE  ClusterInv'
  BY <1>1, <1>6, RenameStep
<1>7. ASSUME \/ \E k \in Key : DeleteInstance(n, k)
             \/ \E s \in Name : DeleteService(n, s)
      PROVE  ClusterInv'
  BY <1>7, DeleteSteps
<1> QED
  BY <1>3, <1>4, <1>5, <1>6, <1>7 DEF APICall

-----------------------------------------------------------------------------
(* Gossip, anti-entropy, crashes: no stamp is taken, copies move about.    *)

StoresCopies ==
    \A n \in Node, type \in Upsert : \A x \in KeysOf(type) :
        Part(cat'[n], type, x) \in Copies(type, x) \union {Absent}

CarriesCopies ==
    \A n \in Node : \A ev \in Carried(n)' :
        ev.type \in Upsert => ev.rec \in Copies(ev.type, ev.key)

(* Such a step keeps the invariant, once types and origins are settled.    *)
LEMMA OnlyMoves ==
    ASSUME ClusterInv, Typed', Origins', writer' = writer, StoresCopies, CarriesCopies
    PROVE  ClusterInv'
<1>1. Agreement'
  BY CopiesMove DEF ClusterInv, StoresCopies, CarriesCopies
<1> QED
  BY <1>1 DEF ClusterInv

(* A step that leaves the catalogues alone stores copies only.             *)
LEMMA SameStored == ASSUME cat' = cat PROVE StoresCopies
  BY CopiesHave DEF StoresCopies

(* A step that brings no event to a node carries copies only.              *)
LEMMA SameCarried ==
    ASSUME \A n \in Node : Carried(n)' \subseteq Carried(n)
    PROVE  CarriesCopies
  BY CopiesHave DEF CarriesCopies

(* Whatever a node has still to handle is a message.                       *)
LEMMA CarriedTyped == ASSUME Typed, NEW n \in Node PROVE Carried(n) \subseteq Message
<1>1. sub[n] \in Seq(Message) /\ snap[n] \in Pull
  BY DEF Typed
<1>2. Range(sub[n]) \subseteq Message
  BY <1>1, RangeOf
<1> QED
  BY <1>1, <1>2 DEF Typed, Carried, Pull

(* Taking the head off a sequence.                                         *)
LEMMA HeadAndTail ==
    ASSUME NEW S, NEW q \in Seq(S), q # <<>>
    PROVE  /\ Head(q) \in Range(q) /\ Tail(q) \in Seq(S)
           /\ Len(Tail(q)) <= Len(q) /\ Range(Tail(q)) \subseteq Range(q)
<1>1. Len(q) \in Nat /\ Len(q) > 0 /\ DOMAIN q = 1..Len(q)
  BY EmptySeq, LenProperties
<1>2. Head(q) = q[1] /\ Tail(q) \in Seq(S) /\ Len(Tail(q)) = Len(q) - 1
  BY <1>1, HeadTailProperties
<1>3. \A i \in 1..(Len(q) - 1) : Tail(q)[i] = q[i + 1]
  BY <1>1, HeadTailProperties
<1> QED
  BY <1>1, <1>2, <1>3 DEF Range

(* Run: what leaves the node was written on it.                            *)
LEMMA BroadcastStep == ASSUME ClusterInv, NEW n \in Node, Broadcast(n) PROVE ClusterInv'
<1> DEFINE q == sub[n]
           ev == Head(q)
           new == [ev EXCEPT !.origin = n]
<1>1. Typed /\ Agreement /\ Origins
  BY DEF ClusterInv
<1>2. /\ q # <<>> /\ sub' = [sub EXCEPT ![n] = Tail(q)]
      /\ net' = IF FromElsewhere(n, ev) THEN net
                ELSE [p \in Node |-> IF p = n THEN net[p] ELSE net[p] \union {new}]
      /\ UNCHANGED <<cat, applying, snap, writer, ops, faults>>
  BY DEF Broadcast
<1>3. q \in Seq(Message) /\ Len(q) <= SubCap
  BY <1>1 DEF Typed
<1> HIDE DEF q
<1>4. /\ ev \in Range(q) /\ Tail(q) \in Seq(Message) /\ Range(Tail(q)) \subseteq Range(q)
      /\ Len(Tail(q)) <= SubCap
  <2>1. SubCap \in Nat
    BY ClusterAssumption
  <2>2. /\ ev \in Range(q) /\ Tail(q) \in Seq(Message) /\ Range(Tail(q)) \subseteq Range(q)
        /\ Len(Tail(q)) <= Len(q)
    BY <1>2, <1>3, HeadAndTail
  <2>3. Len(q) \in Nat /\ Len(Tail(q)) \in Nat
    BY <1>3, <2>2, LenProperties
  <2> QED
    BY <1>3, <2>1, <2>2, <2>3
<1>5. ev \in Carried(n) /\ Emitted(n, ev)
  BY <1>1, <1>4 DEF Carried, Origins, q
<1> HIDE DEF ev
<1>6. ev \in Message
  BY <1>1, <1>5, CarriedTyped
<1>7. /\ new \in Message /\ new.origin = n
      /\ new.type = ev.type /\ new.key = ev.key /\ new.rec = ev.rec
  <2>1. new \in Message
    BY <1>6, MessageFacts
  <2> QED
    BY <1>6, <2>1 DEF Message
<1> HIDE DEF new
<1>8. /\ \A m \in Node : net'[m] \subseteq net[m] \union {new}
      /\ net'[n] = net[n]
      /\ FromElsewhere(n, ev) => net' = net
      /\ net' \in [Node -> SUBSET Message]
  BY <1>1, <1>2, <1>7 DEF Typed
<1>9. /\ sub' \in [Node -> Seq(Message)] /\ sub'[n] = Tail(q)
      /\ \A m \in Node \ {n} : sub'[m] = sub[m]
  BY <1>1, <1>2, <1>4 DEF Typed
<1>10. \A m \in Node : Len(sub'[m]) <= SubCap /\ Range(sub'[m]) \subseteq Range(sub[m])
  <2> SUFFICES ASSUME NEW m \in Node
               PROVE  Len(sub'[m]) <= SubCap /\ Range(sub'[m]) \subseteq Range(sub[m])
    OBVIOUS
  <2>1. CASE m = n
    BY <1>4, <1>9, <2>1 DEF q
  <2>2. CASE m # n
    BY <1>1, <1>9, <2>2 DEF Typed
  <2> QED
    BY <2>1, <2>2
<1>11. Typed'
  BY <1>1, <1>2, <1>8, <1>9, <1>10 DEF Typed
<1>12. ASSUME NEW m \in Node, m # n, ~FromElsewhere(n, ev) PROVE Gossiped(m, new)
  BY <1>5, <1>7, <1>12 DEF FromElsewhere, Emitted, Gossiped
<1>13. Origins'
  <2>1. ASSUME NEW m \in Node, NEW e \in Range(sub'[m]) PROVE Emitted(m, e)'
    BY <1>1, <1>2, <1>10, <2>1 DEF Origins, Emitted
  <2>2. ASSUME NEW m \in Node, NEW e \in net'[m] PROVE Gossiped(m, e)'
    <3>1. ASSUME e \in net[m] PROVE Gossiped(m, e)
      BY <1>1, <3>1 DEF Origins
    <3>2. ASSUME e \notin net[m] PROVE Gossiped(m, e)
      <4>1. e = new /\ m # n /\ ~FromElsewhere(n, ev)
        BY <1>8, <2>2, <3>2
      <4> QED
        BY <1>12, <4>1
    <3>3. Gossiped(m, e)
      BY <3>1, <3>2
    <3> QED
      BY <1>2, <3>3 DEF Gossiped
  <2> QED
    BY <1>1, <1>2, <2>1, <2>2 DEF Origins
<1>14. CarriesCopies
  <2>1. \A m \in Node : Carried(m)' \subseteq Carried(m) \union {new}
    BY <1>2, <1>8, <1>10 DEF Carried
  <2>2. new.rec \in Copies(new.type, new.key)
    BY <1>5, <1>7, CopiesHave
  <2> QED
    BY <2>1, <2>2, CopiesHave DEF CarriesCopies
<1> QED
  BY <1>2, <1>11, <1>13, <1>14, SameStored, OnlyMoves

(* An event that came from elsewhere is emitted under its origin: it is    *)
(* stored or removed here, and Run will not pass it on.                    *)
LEMMA EmitRemote ==
    ASSUME ClusterInv, NEW n \in Node, NEW ev \in Carried(n), ev.origin \notin {"", n},
           Emit(n, <<ev>>), writer' = writer
    PROVE  /\ sub' \in [Node -> Seq(Message)]
           /\ \A m \in Node : Len(sub'[m]) <= SubCap
           /\ \A m \in Node : Range(sub'[m]) \subseteq Range(sub[m]) \union Carried(m)
           /\ \A m \in Node : \A e \in Range(sub'[m]) : Emitted(m, e)'
<1>1. Typed /\ Origins
  BY DEF ClusterInv
<1>2. ev \in Message
  BY <1>1, CarriedTyped
<1>3. <<ev>> \in Seq(Message) /\ Range(<<ev>>) = {ev}
  BY <1>2, EventsAreMessages
<1> DEFINE events == <<ev>>
<1> HIDE DEF events
<1>4. events \in Seq(Message) /\ Range(events) = {ev} /\ Emit(n, events)
  BY <1>3 DEF events
<1>5. /\ sub' \in [Node -> Seq(Message)]
      /\ \A m \in Node : Len(sub'[m]) <= SubCap
      /\ \A m \in Node \ {n} : sub'[m] = sub[m]
      /\ Range(sub'[n]) \subseteq Range(sub[n]) \union {ev}
  BY <1>1, <1>4, EmitFacts
<1>6. ASSUME NEW m \in Node PROVE Range(sub'[m]) \subseteq Range(sub[m]) \union Carried(m)
  <2>1. CASE m = n
    BY <1>5, <2>1
  <2>2. CASE m # n
    BY <1>5, <2>2
  <2> QED
    BY <2>1, <2>2
<1>7. ASSUME NEW m \in Node, NEW e \in Range(sub'[m]) PROVE Emitted(m, e)'
  <2>1. ASSUME e \in Range(sub[m]) PROVE Emitted(m, e)
    BY <1>1, <2>1 DEF Origins
  <2>2. ASSUME e \notin Range(sub[m]) PROVE Emitted(m, e)
    <3>1. m = n /\ e = ev
      BY <1>5, <1>7, <2>2
    <3> QED
      BY <3>1 DEF Emitted
  <2>3. Emitted(m, e)
    BY <2>1, <2>2
  <2> QED
    BY <2>3 DEF Emitted
<1> QED
  BY <1>5, <1>6, <1>7

(* ApplyRemote's first transaction writes nothing.                         *)
LEMMA CheckFacts ==
    ASSUME ClusterInv, NEW n \in Node, NEW ev \in Carried(n), ev.origin \notin {"", n},
           ApplyRemoteCheck(n, ev)
    PROVE  /\ applying' \in [Node -> SUBSET Message]
           /\ \A m \in Node : applying'[m] \subseteq applying[m] \union Carried(m)
           /\ \A m \in Node : \A e \in applying'[m] :
                 e.type \in Upsert /\ e.origin \notin {"", m}
<1>1. Typed /\ Origins
  BY DEF ClusterInv
<1>2. ev \in Message
  BY <1>1, CarriedTyped
<1>3. /\ applying' = applying \/ applying' = [applying EXCEPT ![n] = @ \union {ev}]
      /\ ev.type \in Upsert
  BY DEF ApplyRemoteCheck, Upsert
<1>4. /\ applying' \in [Node -> SUBSET Message]
      /\ \A m \in Node \ {n} : applying'[m] = applying[m]
      /\ applying'[n] \subseteq applying[n] \union {ev}
  <2>1. CASE applying' = applying
    BY <1>1, <2>1 DEF Typed
  <2>2. CASE applying' = [applying EXCEPT ![n] = @ \union {ev}]
    BY <1>1, <1>2, <2>2 DEF Typed
  <2> QED
    BY <1>3, <2>1, <2>2
<1>5. ASSUME NEW m \in Node, NEW e \in applying'[m]
      PROVE  /\ e \in applying[m] \union Carried(m)
             /\ e.type \in Upsert /\ e.origin \notin {"", m}
  <2>1. CASE e \in applying[m]
    BY <1>1, <2>1 DEF Origins
  <2>2. CASE e \notin applying[m]
    <3>1. m = n /\ e = ev
      BY <1>4, <1>5, <2>2
    <3> QED
      BY <1>3, <3>1
  <2> QED
    BY <2>1, <2>2
<1> QED
  BY <1>4, <1>5

(* NotifyMsg: an upsert goes on to ApplyRemote's second transaction, a     *)
(* deletion is applied.                                                    *)
LEMMA DeliverStep ==
    ASSUME ClusterInv, NEW n \in Node, NEW ev \in net[n], NEW copy \in BOOLEAN,
           Deliver(n, ev, copy)
    PROVE  ClusterInv'
<1>1. Typed /\ Agreement /\ Origins
  BY DEF ClusterInv
<1>2. ev \in Carried(n) /\ Gossiped(n, ev)
  BY <1>1 DEF Carried, Origins
<1>3. ev \in Message
  BY <1>1, <1>2, CarriedTyped
<1>4. ev.origin \notin {"", n}
  <2>1. "" \notin Node
    BY ClusterAssumption
  <2> QED
    BY <1>2, <2>1 DEF Gossiped
<1>5. /\ net' \in [Node -> SUBSET Message]
      /\ \A m \in Node : net'[m] \subseteq net[m]
      /\ faults' \in 0..MaxFaults
      /\ UNCHANGED <<snap, writer, ops>>
      /\ ApplyRemoteCheck(n, ev) \/ ApplyRemoteDelete(n, ev)
  <2>1. MaxFaults \in Nat
    BY ClusterAssumption
  <2>2. net' = net \/ net' = [net EXCEPT ![n] = @ \ {ev}]
    BY DEF Deliver
  <2>3. faults' \in 0..MaxFaults
    BY <1>1, <2>1 DEF Typed, Deliver
  <2>4. net' \in [Node -> SUBSET Message] /\ \A m \in Node : net'[m] \subseteq net[m]
    <3>1. net \in [Node -> SUBSET Message]
      BY <1>1 DEF Typed
    <3> QED
      BY <2>2, <3>1
  <2>5. /\ UNCHANGED <<snap, writer, ops>>
        /\ ApplyRemoteCheck(n, ev) \/ ApplyRemoteDelete(n, ev)
    BY <1>4 DEF Deliver
  <2> QED
    BY <2>3, <2>4, <2>5
<1>6. \A m \in Node : \A e \in net'[m] : Gossiped(m, e)'
  BY <1>1, <1>5 DEF Origins, Gossiped
<1>7. CASE ApplyRemoteCheck(n, ev)
  <2>1. /\ applying' \in [Node -> SUBSET Message]
        /\ \A m \in Node : applying'[m] \subseteq applying[m] \union Carried(m)
        /\ \A m \in Node : \A e \in applying'[m] : e.type \in Upsert /\ e.origin \notin {"", m}
    BY <1>2, <1>4, <1>7, CheckFacts
  <2>2. UNCHANGED <<cat, sub>>
    BY <1>7 DEF ApplyRemoteCheck
  <2>3. Typed'
    BY <1>1, <1>5, <2>1, <2>2 DEF Typed
  <2>4. Origins'
    <3>1. ASSUME NEW m \in Node, NEW e \in Range(sub'[m]) PROVE Emitted(m, e)'
      <4>1. Emitted(m, e)
        BY <1>1, <2>2, <3>1 DEF Origins
      <4> QED
        BY <1>5, <4>1 DEF Emitted
    <3> QED
      BY <1>1, <1>5, <1>6, <2>1, <3>1 DEF Origins
  <2>5. \A m \in Node : Carried(m)' \subseteq Carried(m)
    BY <1>5, <2>1, <2>2 DEF Carried
  <2> QED
    BY <1>5, <2>2, <2>3, <2>4, <2>5, SameStored, SameCarried, OnlyMoves
<1>8. CASE ApplyRemoteDelete(n, ev)
  <2>1. /\ sub' \in [Node -> Seq(Message)]
        /\ \A m \in Node : Len(sub'[m]) <= SubCap
        /\ \A m \in Node : Range(sub'[m]) \subseteq Range(sub[m]) \union Carried(m)
        /\ \A m \in Node : \A e \in Range(sub'[m]) : Emitted(m, e)'
    BY <1>2, <1>4, <1>5, <1>8, EmitRemote DEF ApplyRemoteDelete
  <2>2. applying' = applying
    BY <1>8 DEF ApplyRemoteDelete
  <2>3. cat[n] \in Catalogue /\ cat \in [Node -> Catalogue]
    BY <1>1 DEF Typed
  <2>4. PICK db \in Catalogue : /\ cat' = [cat EXCEPT ![n] = db]
                                /\ OnlyRemoves(n, db)
    <3>1. CASE ev.type = "service.deleted"
      <4> DEFINE db == DeleteServiceRaw(cat[n], ev.key)
      <4>1. cat' = [cat EXCEPT ![n] = db] /\ ev.key \in Name
        BY <1>3, <1>8, <2>3, <3>1, MessageFacts DEF ApplyRemoteDelete
      <4>2. /\ db \in Catalogue /\ db.inst = cat[n].inst /\ db.svc[ev.key] = Absent
            /\ \A x \in Name \ {ev.key} : db.svc[x] = cat[n].svc[x]
        BY <2>3, <4>1, RawService DEF DeleteServiceRaw
      <4> HIDE DEF db
      <4>3. OnlyRemoves(n, db)
        BY <4>2 DEF OnlyRemoves, Part, KeysOf, Upsert
      <4> QED
        BY <4>1, <4>2, <4>3
    <3>2. CASE ev.type = "instance.deleted"
      <4> DEFINE db == DeleteInstanceRaw(cat[n], ev.key)
      <4>1. cat' = [cat EXCEPT ![n] = db] /\ ev.key \in Key
        BY <1>3, <1>8, <2>3, <3>2, MessageFacts DEF ApplyRemoteDelete
      <4>2. /\ db \in Catalogue /\ db.svc = cat[n].svc /\ db.inst[ev.key] = Absent
            /\ \A x \in Key \ {ev.key} : db.inst[x] = cat[n].inst[x]
        BY <2>3, <4>1, RawInstance DEF DeleteInstanceRaw
      <4> HIDE DEF db
      <4>3. OnlyRemoves(n, db)
        BY <4>2 DEF OnlyRemoves, Part, KeysOf, Upsert
      <4> QED
        BY <4>1, <4>2, <4>3
    <3> QED
      BY <1>8, <3>1, <3>2 DEF ApplyRemoteDelete
  <2>5. Typed'
    <3>1. cat' \in [Node -> Catalogue]
      BY <2>3, <2>4
    <3> QED
      BY <1>1, <1>5, <2>1, <2>2, <3>1 DEF Typed
  <2>6. Origins'
    BY <1>1, <1>5, <1>6, <2>1, <2>2 DEF Origins
  <2>7. \A m \in Node : Carried(m)' \subseteq Carried(m)
    BY <1>5, <2>1, <2>2 DEF Carried
  <2>8. StoresCopies
    <3>1. cat'[n] = db /\ \A m \in Node \ {n} : cat'[m] = cat[m]
      BY <2>3, <2>4
    <3>2. ASSUME NEW m \in Node, NEW type \in Upsert, NEW x \in KeysOf(type)
          PROVE  Part(cat'[m], type, x) \in {Absent, Part(cat[m], type, x)}
      BY <2>4, <3>1, <3>2 DEF OnlyRemoves
    <3> QED
      BY <3>2, CopiesHave DEF StoresCopies
  <2> QED
    BY <1>5, <2>5, <2>6, <2>7, <2>8, SameCarried, OnlyMoves
<1> QED
  BY <1>5, <1>7, <1>8

(* ApplyRemote's second transaction stores the record the event carries,   *)
(* whatever has been stored since the first.                               *)
LEMMA ApplyRemotePutStep ==
    ASSUME ClusterInv, NEW n \in Node, NEW ev \in applying[n], ApplyRemotePut(n, ev)
    PROVE  ClusterInv'
<1>1. Typed /\ Agreement /\ Origins
  BY DEF ClusterInv
<1>2. ev \in Carried(n) /\ ev.type \in Upsert /\ ev.origin \notin {"", n}
  BY <1>1 DEF Carried, Origins
<1>3. ev \in Message
  BY <1>1, <1>2, CarriedTyped
<1>4. UNCHANGED <<net, snap, writer, ops, faults>>
  BY DEF ApplyRemotePut
<1>5. /\ sub' \in [Node -> Seq(Message)]
      /\ \A m \in Node : Len(sub'[m]) <= SubCap
      /\ \A m \in Node : Range(sub'[m]) \subseteq Range(sub[m]) \union Carried(m)
      /\ \A m \in Node : \A e \in Range(sub'[m]) : Emitted(m, e)'
  BY <1>2, <1>4, EmitRemote DEF ApplyRemotePut
<1>6. /\ applying' \in [Node -> SUBSET Message]
      /\ \A m \in Node : applying'[m] \subseteq applying[m]
  BY <1>1 DEF Typed, ApplyRemotePut
<1>7. cat[n] \in Catalogue /\ cat \in [Node -> Catalogue]
  BY <1>1 DEF Typed
<1>8. PICK db \in Catalogue :
         /\ cat' = [cat EXCEPT ![n] = db]
         /\ \A type \in Upsert : \A x \in KeysOf(type) :
               Part(db, type, x) = IF type = ev.type /\ x = ev.key THEN ev.rec
                                   ELSE Part(cat[n], type, x)
  <2>1. CASE ev.type = "service.upserted"
    <3> DEFINE db == PutServiceRaw(cat[n], ev.key, ev.rec)
    <3>1. cat' = [cat EXCEPT ![n] = db] /\ ev.key \in Name /\ ev.rec \in Service
      <4>1. ev.key \in Name /\ ev.rec \in Service
        BY <1>3, <2>1, MessageFacts
      <4>2. cat' = [cat EXCEPT ![n] = db]
        BY <2>1 DEF ApplyRemotePut
      <4> QED
        BY <4>1, <4>2
    <3>2. /\ db \in Catalogue /\ db.inst = cat[n].inst /\ db.svc[ev.key] = ev.rec
          /\ \A x \in Name \ {ev.key} : db.svc[x] = cat[n].svc[x]
      <4>1. cat[n] \in Catalogue /\ ev.key \in Name /\ ev.rec \in Service
        BY <1>7, <3>1
      <4> QED
        BY <4>1 DEF PutServiceRaw, Catalogue, Services
    <3> HIDE DEF db
    <3>3. ASSUME NEW type \in Upsert, NEW x \in KeysOf(type)
          PROVE  Part(db, type, x) = IF type = ev.type /\ x = ev.key THEN ev.rec
                                     ELSE Part(cat[n], type, x)
      BY <2>1, <3>1, <3>2 DEF Part, KeysOf, Upsert
    <3> QED
      BY <3>1, <3>2, <3>3
  <2>2. CASE ev.type = "instance.upserted"
    <3> DEFINE db == PutInstanceRaw(cat[n], ev.key, ev.rec)
    <3>1. cat' = [cat EXCEPT ![n] = db] /\ ev.key \in Key /\ ev.rec \in Instance
      <4>1. ev.key \in Key /\ ev.rec \in Instance
        BY <1>3, <2>2, MessageFacts
      <4>2. cat' = [cat EXCEPT ![n] = db]
        BY <2>2 DEF ApplyRemotePut
      <4> QED
        BY <4>1, <4>2
    <3>2. /\ db \in Catalogue /\ db.svc = cat[n].svc /\ db.inst[ev.key] = ev.rec
          /\ \A x \in Key \ {ev.key} : db.inst[x] = cat[n].inst[x]
      <4>1. cat[n] \in Catalogue /\ ev.key \in Key /\ ev.rec \in Instance
        BY <1>7, <3>1
      <4> QED
        BY <4>1 DEF PutInstanceRaw, Catalogue, Instances
    <3> HIDE DEF db
    <3>3. ASSUME NEW type \in Upsert, NEW x \in KeysOf(type)
          PROVE  Part(db, type, x) = IF type = ev.type /\ x = ev.key THEN ev.rec
                                     ELSE Part(cat[n], type, x)
      BY <2>2, <3>1, <3>2 DEF Part, KeysOf, Upsert
    <3> QED
      BY <3>1, <3>2, <3>3
  <2> QED
    BY <1>2, <2>1, <2>2 DEF Upsert
<1>9. cat' \in [Node -> Catalogue] /\ cat'[n] = db /\ \A m \in Node \ {n} : cat'[m] = cat[m]
  BY <1>7, <1>8
<1>10. Typed'
  BY <1>1, <1>4, <1>5, <1>6, <1>9 DEF Typed
<1>11. Origins'
  BY <1>1, <1>4, <1>5, <1>6 DEF Origins, Gossiped
<1>12. \A m \in Node : Carried(m)' \subseteq Carried(m)
  BY <1>4, <1>5, <1>6 DEF Carried
<1>13. StoresCopies
  <2>1. ev.rec \in Copies(ev.type, ev.key)
    BY <1>2, CopiesHave
  <2>2. ASSUME NEW m \in Node, NEW type \in Upsert, NEW x \in KeysOf(type)
        PROVE  Part(cat'[m], type, x) \in Copies(type, x) \union {Absent}
    <3>1. CASE m = n
      BY <1>8, <1>9, <2>1, <3>1, CopiesHave
    <3>2. CASE m # n
      BY <1>9, <3>2, CopiesHave
    <3> QED
      BY <3>1, <3>2
  <2> QED
    BY <2>2 DEF StoresCopies
<1> QED
  BY <1>4, <1>10, <1>11, <1>12, <1>13, SameCarried, OnlyMoves

(* An empty sequence has an empty range.                                   *)
LEMMA EmptyRange ==
    \A S : <<>> \in Seq(S) /\ Len(<<>>) = 0 /\ \A q \in Seq(S) : Len(q) = 0 => Range(q) = {}
<1>1. \A S : <<>> \in Seq(S) /\ Len(<<>>) = 0
  BY EmptySeq
<1>2. ASSUME NEW S, NEW q \in Seq(S), Len(q) = 0 PROVE Range(q) = {}
  <2>1. DOMAIN q = 1..0
    BY <1>2, LenProperties
  <2> QED
    BY <2>1 DEF Range
<1> QED
  BY <1>1, <1>2

(* A crash may lose what Run has not read.                                 *)
LEMMA SubLost ==
    ASSUME Typed, NEW n \in Node, sub' = sub \/ sub' = [sub EXCEPT ![n] = <<>>]
    PROVE  /\ sub' \in [Node -> Seq(Message)]
           /\ \A m \in Node : Len(sub'[m]) <= SubCap /\ Range(sub'[m]) \subseteq Range(sub[m])
<1> DEFINE none == <<>>
<1>1. none \in Seq(Message) /\ Len(none) = 0 /\ Range(none) = {}
  BY EmptyRange
<1>2. sub' = sub \/ sub' = [sub EXCEPT ![n] = none]
  OBVIOUS
<1> HIDE DEF none
<1>3. SubCap \in Nat
  BY ClusterAssumption
<1>4. CASE sub' = sub
  BY <1>4 DEF Typed
<1>5. CASE sub' = [sub EXCEPT ![n] = none]
  <2>1. /\ sub' \in [Node -> Seq(Message)] /\ sub'[n] = none
        /\ \A m \in Node \ {n} : sub'[m] = sub[m]
    BY <1>1, <1>5 DEF Typed
  <2>2. Len(sub'[n]) <= SubCap /\ Range(sub'[n]) \subseteq Range(sub[n])
    BY <1>1, <1>3, <2>1
  <2>3. \A m \in Node \ {n} : Len(sub'[m]) <= SubCap /\ Range(sub'[m]) \subseteq Range(sub[m])
    BY <2>1 DEF Typed
  <2> QED
    BY <2>1, <2>2, <2>3
<1> QED
  BY <1>2, <1>4, <1>5

\* A step that changes no more than snapshots, applications under way, what
\* Run has still to read and the count of faults.
Quiet == UNCHANGED <<cat, net, writer, ops>>

(* Such a step, when it brings in copies only.                             *)
LEMMA QuietStep ==
    ASSUME ClusterInv, Quiet, faults' \in 0..MaxFaults, NEW n \in Node,
           sub' = sub \/ sub' = [sub EXCEPT ![n] = <<>>],
           applying' \in [Node -> SUBSET Message],
           \A m \in Node : \A ev \in applying'[m] : ev.type \in Upsert /\ ev.origin \notin {"", m},
           \A m \in Node : \A ev \in applying'[m] : ev.rec \in Copies(ev.type, ev.key),
           NEW pull \in Pull, snap' = [snap EXCEPT ![n] = pull],
           pull.stage = "reading" => pull.peer \in Node,
           \A ev \in pull.todo : ev.type \in Upsert /\ ev.origin = "snapshot",
           \A ev \in pull.todo : ev.rec \in Copies(ev.type, ev.key)
    PROVE  ClusterInv'
<1>1. Typed /\ Agreement /\ Origins
  BY DEF ClusterInv
<1>2. /\ sub' \in [Node -> Seq(Message)]
      /\ \A m \in Node : Len(sub'[m]) <= SubCap /\ Range(sub'[m]) \subseteq Range(sub[m])
  BY <1>1, SubLost
<1>3. /\ snap' \in [Node -> Pull] /\ snap'[n] = pull
      /\ \A m \in Node \ {n} : snap'[m] = snap[m]
  BY <1>1 DEF Typed
<1>4. \A m \in Node : snap'[m].stage = "reading" => snap'[m].peer \in Node
  BY <1>1, <1>3 DEF Typed
<1>5. Typed'
  BY <1>1, <1>2, <1>3, <1>4 DEF Typed, Quiet
<1>6. Origins'
  <2>1. ASSUME NEW m \in Node, NEW ev \in Range(sub'[m]) PROVE Emitted(m, ev)'
    <3>1. Emitted(m, ev)
      BY <1>1, <1>2, <2>1 DEF Origins
    <3> QED
      BY <3>1 DEF Emitted, Quiet
  <2>2. ASSUME NEW m \in Node, NEW ev \in net'[m] PROVE Gossiped(m, ev)'
    BY <1>1, <2>2 DEF Origins, Gossiped, Quiet
  <2>3. \A m \in Node : \A ev \in snap'[m].todo : ev.type \in Upsert /\ ev.origin = "snapshot"
    BY <1>1, <1>3 DEF Origins
  <2> QED
    BY <2>1, <2>2, <2>3 DEF Origins
<1>7. CarriesCopies
  <2> SUFFICES ASSUME NEW m \in Node, NEW ev \in Carried(m)', ev.type \in Upsert
               PROVE  ev.rec \in Copies(ev.type, ev.key)
    BY DEF CarriesCopies
  <2>1. CASE ev \in applying'[m]
    BY <2>1
  <2>2. CASE ev \in snap'[m].todo
    <3>1. CASE m = n
      BY <1>3, <2>2, <3>1
    <3>2. CASE m # n
      BY <1>3, <2>2, <3>2, CopiesHave DEF Carried
    <3> QED
      BY <3>1, <3>2
  <2>3. CASE ev \in Range(sub'[m]) \union net'[m]
    BY <1>2, <2>3, CopiesHave DEF Carried, Quiet
  <2> QED
    BY <2>1, <2>2, <2>3 DEF Carried
<1> QED
  BY <1>5, <1>6, <1>7, SameStored, OnlyMoves DEF Quiet

(* A node that pulls nothing has nothing left to apply.                    *)
LEMMA IdlePull == Idle \in Pull /\ Idle.todo = {} /\ Idle.stage = "idle"
  BY DEF Idle, Pull

(* What the peer's Snapshot reads are copies of its records.               *)
LEMMA PullServicesStep ==
    ASSUME ClusterInv, NEW n \in Node, NEW p \in Node, PullServices(n, p)
    PROVE  ClusterInv'
<1> DEFINE todo == {ServiceUpserted(s, cat[p].svc[s], "snapshot") :
                      s \in {x \in Name : HasService(cat[p], x)}}
           pull == [stage |-> "reading", peer |-> p, todo |-> todo]
<1>1. Typed /\ Agreement /\ Origins
  BY DEF ClusterInv
<1>2. ASSUME NEW ev \in todo
      PROVE  /\ ev \in Message /\ ev.type \in Upsert /\ ev.origin = "snapshot"
             /\ ev.rec \in Copies(ev.type, ev.key)
  <2>1. PICK s \in Name : /\ HasService(cat[p], s)
                          /\ ev = ServiceUpserted(s, cat[p].svc[s], "snapshot")
    BY <1>2
  <2>2. cat[p].svc[s] \in Service
    BY <1>1, <2>1 DEF Typed, Catalogue, Services, HasService
  <2>3. ev \in Message
    BY <2>1, <2>2, EventsAreMessages
  <2>4. /\ ev.type = "service.upserted" /\ ev.key = s /\ ev.origin = "snapshot"
        /\ ev.rec = Part(cat[p], "service.upserted", s) /\ ev.rec # Absent
    BY <2>1 DEF ServiceUpserted, Part, HasService
  <2> QED
    BY <2>3, <2>4, CopiesHave DEF Upsert
<1> HIDE DEF todo
<1>3. pull \in Pull /\ pull.todo = todo /\ pull.peer = p
  BY <1>2 DEF Pull
<1>4. /\ Quiet /\ UNCHANGED <<faults, sub, applying>>
      /\ snap' = [snap EXCEPT ![n] = pull]
  BY DEF PullServices, Quiet, todo
<1> HIDE DEF pull
<1>5. \A m \in Node : \A ev \in applying'[m] : /\ ev.type \in Upsert /\ ev.origin \notin {"", m}
                                               /\ ev.rec \in Copies(ev.type, ev.key)
  BY <1>1, <1>4, CopiesHave DEF Origins, Carried
<1>6. faults' \in 0..MaxFaults /\ applying' \in [Node -> SUBSET Message]
  BY <1>1, <1>4 DEF Typed
<1> QED
  BY <1>2, <1>3, <1>4, <1>5, <1>6, QuietStep

(* Snapshot reads the instances in a transaction of their own: again       *)
(* copies of what the peer stores.                                         *)
LEMMA PullInstancesStep ==
    ASSUME ClusterInv, NEW n \in Node, PullInstances(n)
    PROVE  ClusterInv'
<1> DEFINE p == snap[n].peer
           insts == {InstanceUpserted(k, cat[p].inst[k], "snapshot") :
                       k \in {x \in Key : HasInstance(cat[p], x)}}
           todo == snap[n].todo \union insts
           pull == Rest(p, todo)
<1>1. Typed /\ Agreement /\ Origins
  BY DEF ClusterInv
<1>2. p \in Node /\ snap[n] \in Pull
  BY <1>1 DEF Typed, PullInstances
<1>3. /\ Quiet /\ UNCHANGED <<faults, sub, applying>>
      /\ snap' = [snap EXCEPT ![n] = pull]
  BY DEF PullInstances, Quiet
<1> HIDE DEF p
<1>4. ASSUME NEW ev \in insts
      PROVE  /\ ev \in Message /\ ev.type \in Upsert /\ ev.origin = "snapshot"
             /\ ev.rec \in Copies(ev.type, ev.key)
  <2>1. PICK k \in Key : /\ HasInstance(cat[p], k)
                         /\ ev = InstanceUpserted(k, cat[p].inst[k], "snapshot")
    BY <1>4
  <2>2. cat[p].inst[k] \in Instance
    BY <1>1, <1>2, <2>1 DEF Typed, Catalogue, Instances, HasInstance
  <2>3. ev \in Message
    BY <2>1, <2>2, EventsAreMessages
  <2>4. /\ ev.type = "instance.upserted" /\ ev.key = k /\ ev.origin = "snapshot"
        /\ ev.rec = Part(cat[p], "instance.upserted", k) /\ ev.rec # Absent
    BY <2>1 DEF InstanceUpserted, Part, HasInstance
  <2> QED
    BY <1>2, <2>3, <2>4, CopiesHave DEF Upsert
<1> HIDE DEF insts
<1>5. ASSUME NEW ev \in todo
      PROVE  /\ ev \in Message /\ ev.type \in Upsert /\ ev.origin = "snapshot"
             /\ ev.rec \in Copies(ev.type, ev.key)
  <2>1. CASE ev \in insts
    BY <1>4, <2>1
  <2>2. CASE ev \in snap[n].todo
    BY <1>1, <1>2, <2>2, CopiesHave DEF Origins, Carried, Pull
  <2> QED
    BY <1>5, <2>1, <2>2
<1> HIDE DEF todo
<1>6. pull \in Pull /\ pull.stage # "reading" /\ pull.todo \subseteq todo
  BY <1>2, <1>5, IdlePull DEF Rest, Pull
<1> HIDE DEF pull
<1>7. \A m \in Node : \A ev \in applying'[m] : /\ ev.type \in Upsert /\ ev.origin \notin {"", m}
                                               /\ ev.rec \in Copies(ev.type, ev.key)
  BY <1>1, <1>3, CopiesHave DEF Origins, Carried
<1>8. faults' \in 0..MaxFaults /\ applying' \in [Node -> SUBSET Message]
  BY <1>1, <1>3 DEF Typed
<1> QED
  BY <1>3, <1>5, <1>6, <1>7, <1>8, QuietStep

(* The next record of a snapshot goes to ApplyRemote.                      *)
LEMMA ApplySnapshotStep ==
    ASSUME ClusterInv, NEW n \in Node, NEW ev \in snap[n].todo, ApplySnapshot(n, ev)
    PROVE  ClusterInv'
<1> DEFINE todo == snap[n].todo \ {ev}
           pull == Rest(snap[n].peer, todo)
<1>1. Typed /\ Agreement /\ Origins
  BY DEF ClusterInv
<1>2. snap[n] \in Pull
  BY <1>1 DEF Typed
<1>3. /\ Quiet /\ UNCHANGED <<faults, sub>> /\ ApplyRemoteCheck(n, ev)
      /\ snap' = [snap EXCEPT ![n] = pull]
  BY DEF ApplySnapshot, ApplyRemoteCheck, Quiet
<1>4. ev \in Carried(n) /\ ev.origin \notin {"", n}
  <2>1. "snapshot" \notin Node
    BY ClusterAssumption
  <2> QED
    BY <1>1, <2>1 DEF Origins, Carried
<1>5. /\ applying' \in [Node -> SUBSET Message]
      /\ \A m \in Node : applying'[m] \subseteq applying[m] \union Carried(m)
      /\ \A m \in Node : \A e \in applying'[m] : e.type \in Upsert /\ e.origin \notin {"", m}
  BY <1>3, <1>4, CheckFacts
<1>6. \A m \in Node : \A e \in applying'[m] : e.rec \in Copies(e.type, e.key)
  BY <1>5, CopiesHave DEF Carried
<1>7. ASSUME NEW e \in todo
      PROVE  /\ e \in Message /\ e.type \in Upsert /\ e.origin = "snapshot"
             /\ e.rec \in Copies(e.type, e.key)
  BY <1>1, <1>2, <1>7, CopiesHave DEF Origins, Carried, Pull
<1>8. snap[n].peer \in Node \union {Absent}
  BY <1>2 DEF Pull
<1> HIDE DEF todo
<1>9. pull \in Pull /\ pull.stage # "reading" /\ pull.todo \subseteq todo
  BY <1>7, <1>8, IdlePull DEF Rest, Pull
<1> HIDE DEF pull
<1>10. faults' \in 0..MaxFaults
  BY <1>1, <1>3 DEF Typed
<1> QED
  BY <1>3, <1>5, <1>6, <1>7, <1>9, <1>10, QuietStep

(* A failed pull and a crash lose events, and change no catalogue.         *)
LEMMA FaultSteps ==
    ASSUME ClusterInv, NEW n \in Node, FailPull(n) \/ Crash(n)
    PROVE  ClusterInv'
<1>1. Typed /\ Agreement /\ Origins
  BY DEF ClusterInv
<1>2. faults' \in 0..MaxFaults
  <2>1. MaxFaults \in Nat
    BY ClusterAssumption
  <2> QED
    BY <1>1, <2>1 DEF Typed, FailPull, Crash
<1>3. /\ Quiet /\ snap' = [snap EXCEPT ![n] = Idle]
      /\ sub' = sub \/ sub' = [sub EXCEPT ![n] = <<>>]
      /\ applying' = applying \/ applying' = [applying EXCEPT ![n] = {}]
  BY DEF FailPull, Crash, Quiet
<1>4. /\ applying' \in [Node -> SUBSET Message]
      /\ \A m \in Node : applying'[m] \subseteq applying[m]
  BY <1>1, <1>3 DEF Typed
<1>5. \A m \in Node : \A ev \in applying'[m] : /\ ev.type \in Upsert /\ ev.origin \notin {"", m}
                                               /\ ev.rec \in Copies(ev.type, ev.key)
  BY <1>1, <1>4, CopiesHave DEF Origins, Carried
<1> DEFINE pull == Idle
<1>6. pull \in Pull /\ pull.stage # "reading" /\ pull.todo = {}
  BY IdlePull
<1>7. snap' = [snap EXCEPT ![n] = pull]
  BY <1>3
<1> HIDE DEF pull
<1> QED
  BY <1>2, <1>3, <1>4, <1>5, <1>6, <1>7, QuietStep

-----------------------------------------------------------------------------
(* At the start there are no copies.                                       *)
LEMMA InitHolds == Init => ClusterInv
<1> SUFFICES ASSUME Init PROVE ClusterInv
  OBVIOUS
<1>1. MaxOps \in Nat /\ MaxFaults \in Nat /\ SubCap \in Nat
  BY ClusterAssumption
<1> DEFINE none == <<>>
<1>2. none \in Seq(Message) /\ Len(none) = 0 /\ Range(none) = {}
  BY EmptyRange
<1>3. /\ \A n \in Node : sub[n] = none
      /\ sub = [n \in Node |-> none]
  BY DEF Init
<1> HIDE DEF none
<1>4. EmptyCatalogue \in Catalogue
  BY DEF EmptyCatalogue, Catalogue, Services, Instances
<1>5. \A n \in Node : cat[n] = EmptyCatalogue /\ net[n] = {} /\ applying[n] = {} /\ snap[n] = Idle
  BY DEF Init
<1>6. Typed
  <2>1. sub \in [Node -> Seq(Message)] /\ \A n \in Node : Len(sub[n]) <= SubCap
    BY <1>1, <1>2, <1>3
  <2>2. ops \in 0..MaxOps /\ faults \in 0..MaxFaults
    BY <1>1 DEF Init
  <2>3. /\ cat \in [Node -> Catalogue] /\ net \in [Node -> SUBSET Message]
        /\ applying \in [Node -> SUBSET Message]
        /\ writer \in [1..MaxStamp -> Node \union {Absent}]
    BY <1>4 DEF Init
  <2>4. snap \in [Node -> Pull] /\ \A n \in Node : snap[n].stage # "reading"
    BY IdlePull DEF Init
  <2> QED
    BY <2>1, <2>2, <2>3, <2>4 DEF Typed
<1>7. \A n \in Node : Carried(n) = {}
  BY <1>2, <1>3, <1>5, IdlePull DEF Carried
<1>8. \A n \in Node, type \in Upsert : \A x \in KeysOf(type) : Part(cat[n], type, x) = Absent
  BY <1>5 DEF EmptyCatalogue, Part, KeysOf, Upsert
<1>9. \A type \in Upsert : \A x \in KeysOf(type) : Copies(type, x) = {}
  BY <1>7, <1>8 DEF Copies
<1>10. Agreement
  BY <1>9 DEF Agreement
<1>11. Origins
  BY <1>7 DEF Origins, Carried
<1> QED
  BY <1>6, <1>10, <1>11 DEF ClusterInv

(* Every step, of whatever node, keeps the invariant.                      *)
LEMMA NextKeeps == ClusterInv /\ [Next]_vars => ClusterInv'
<1> SUFFICES ASSUME ClusterInv, [Next]_vars PROVE ClusterInv'
  OBVIOUS
<1>1. CASE UNCHANGED vars
  <2>1. Typed /\ Origins /\ UNCHANGED <<cat, sub, net, applying, snap, writer, ops, faults>>
    BY <1>1 DEF vars, ClusterInv
  <2>2. Typed' /\ \A n \in Node : Carried(n)' \subseteq Carried(n)
    BY <2>1 DEF Typed, Carried
  <2>3. Origins'
    BY <2>1 DEF Origins, Emitted, Gossiped
  <2> QED
    BY <2>1, <2>2, <2>3, SameStored, SameCarried, OnlyMoves
<1>2. ASSUME NEW n \in Node, APICall(n) PROVE ClusterInv'
  BY <1>2, APICallStep
<1>3. ASSUME NEW n \in Node, Broadcast(n) PROVE ClusterInv'
  BY <1>3, BroadcastStep
<1>4. ASSUME NEW n \in Node, NEW ev \in net[n], NEW copy \in BOOLEAN, Deliver(n, ev, copy)
      PROVE  ClusterInv'
  BY <1>4, DeliverStep
<1>5. ASSUME NEW n \in Node, NEW ev \in applying[n], ApplyRemotePut(n, ev) PROVE ClusterInv'
  BY <1>5, ApplyRemotePutStep
<1>6. ASSUME NEW n \in Node, NEW p \in Node, PullServices(n, p) PROVE ClusterInv'
  BY <1>6, PullServicesStep
<1>7. ASSUME NEW n \in Node, AntiEntropy(n) PROVE ClusterInv'
  BY <1>7, PullInstancesStep, ApplySnapshotStep DEF AntiEntropy
<1>8. ASSUME NEW n \in Node, FailPull(n) \/ Crash(n) PROVE ClusterInv'
  BY <1>8, FaultSteps
<1> QED
  BY <1>1, <1>2, <1>3, <1>4, <1>5, <1>6, <1>7, <1>8 DEF Next

(* The invariant holds of every reachable state.                           *)
THEOREM ClusterInvariant == Spec => []ClusterInv
<1>1. Init => ClusterInv
  BY InitHolds
<1>2. ClusterInv /\ [Next]_vars => ClusterInv'
  BY NextKeeps
<1> QED
  BY <1>1, <1>2, PTL DEF Spec

(* Types of the cluster's state: catalogues, queues within their capacity, *)
(* events under way.                                                       *)
THEOREM TypeCorrect == Spec => []TypeOK
<1>1. ClusterInv => TypeOK
  <2> SUFFICES ASSUME Typed PROVE TypeOK
    BY DEF ClusterInv
  <2>1. Message \subseteq Event
    BY MessageFacts
  <2>2. ASSUME NEW n \in Node PROVE sub[n] \in Seq(Event) /\ Len(sub[n]) <= SubCap
    BY <2>1 DEF Typed
  <2>3. ASSUME NEW n \in Node PROVE net[n] \subseteq Event /\ applying[n] \subseteq Event
    BY <2>1 DEF Typed
  <2>4. ASSUME NEW n \in Node
        PROVE  /\ snap[n].stage \in {"idle", "reading", "applying"}
               /\ snap[n].peer \in Node \union {Absent}
               /\ snap[n].todo \subseteq Event
    BY <2>1 DEF Typed, Pull
  <2> QED
    BY <2>2, <2>3, <2>4 DEF Typed, TypeOK
<1> QED
  BY <1>1, ClusterInvariant, PTL

(* Run's filter suffices: only the node that wrote a record broadcasts it, *)
(* however events are lost, reordered, duplicated or read from snapshots.  *)
THEOREM OnlyWriterBroadcasts == Spec => []NoEcho
<1>1. ClusterInv => NoEcho
  BY DEF ClusterInv, Origins, Gossiped, NoEcho
<1> QED
  BY <1>1, ClusterInvariant, PTL

(* Last-write-wins may compare stamps alone: two nodes that store an       *)
(* instance under one stamp store the same record.                         *)
THEOREM StampIdentifiesRecord == Spec => []SameStampSameRecord
<1>1. ClusterInv => SameStampSameRecord
  <2> SUFFICES ASSUME Agreement, NEW n \in Node, NEW p \in Node, NEW k \in Key,
                      HasInstance(cat[n], k), HasInstance(cat[p], k),
                      cat[n].inst[k].updated = cat[p].inst[k].updated
               PROVE  cat[n].inst[k] = cat[p].inst[k]
    BY DEF ClusterInv, SameStampSameRecord
  <2> DEFINE t == "instance.upserted"
  <2>1. Part(cat[n], t, k) = cat[n].inst[k] /\ Part(cat[p], t, k) = cat[p].inst[k]
    BY DEF Part
  <2>2. cat[n].inst[k] \in Copies(t, k) /\ cat[p].inst[k] \in Copies(t, k)
    BY <2>1, CopiesHave DEF HasInstance
  <2>3. t \in Upsert /\ k \in KeysOf(t)
    BY DEF Upsert, KeysOf
  <2> QED
    BY <2>2, <2>3 DEF Agreement
<1> QED
  BY <1>1, ClusterInvariant, PTL

(* What nothing to learn says, key by key.                                 *)
LEMMA LearnsNothing ==
    ASSUME NEW n \in Node, NEW p \in Node, NothingToLearn(n, p),
           NEW type \in Upsert, NEW x \in KeysOf(type),
           Part(cat[p], type, x) # Absent
    PROVE  /\ Part(cat[n], type, x) # Absent
           /\ ~(Part(cat[n], type, x).updated < Part(cat[p], type, x).updated)
<1>1. CASE type = "service.upserted"
  <2> DEFINE ev == ServiceUpserted(x, cat[p].svc[x], "snapshot")
  <2>1. x \in Name /\ HasService(cat[p], x)
    BY <1>1 DEF KeysOf, Part, HasService
  <2>2. ~Wins(n, ev)
    BY <2>1 DEF NothingToLearn
  <2>3. Stored(n, ev) = cat[n].svc[x] /\ ev.rec = cat[p].svc[x]
    BY DEF ServiceUpserted, Stored
  <2> QED
    BY <1>1, <2>2, <2>3 DEF Wins, Part
<1>2. CASE type = "instance.upserted"
  <2> DEFINE ev == InstanceUpserted(x, cat[p].inst[x], "snapshot")
  <2>1. x \in Key /\ HasInstance(cat[p], x)
    BY <1>2 DEF KeysOf, Part, HasInstance
  <2>2. ~Wins(n, ev)
    BY <2>1 DEF NothingToLearn
  <2>3. Stored(n, ev) = cat[n].inst[x] /\ ev.rec = cat[p].inst[x]
    BY DEF InstanceUpserted, Stored
  <2> QED
    BY <1>2, <2>2, <2>3 DEF Wins, Part
<1> QED
  BY <1>1, <1>2 DEF Upsert

(* Last-write-wins leaves no difference that anti-entropy would not see:   *)
(* without anything to learn from each other two nodes store the same.     *)
(* For a difference both would keep, the two records would carry the same  *)
(* stamp, which Agreement excludes.                                        *)
THEOREM SettledNodesAgree == Spec => []SettledMeansAgreed
<1>1. ClusterInv => SettledMeansAgreed
  <2> SUFFICES ASSUME Typed, Agreement, NEW n \in Node, NEW p \in Node,
                      NothingToLearn(n, p), NothingToLearn(p, n)
               PROVE  cat[n] = cat[p]
    BY DEF ClusterInv, SettledMeansAgreed
  <2>1. ASSUME NEW type \in Upsert, NEW x \in KeysOf(type)
        PROVE  Part(cat[n], type, x) = Part(cat[p], type, x)
    <3> DEFINE r == Part(cat[n], type, x)
               q == Part(cat[p], type, x)
    <3>1. CASE r # Absent /\ q # Absent
      <4>1. r \in Copies(type, x) /\ q \in Copies(type, x)
        BY <3>1, CopiesHave
      <4>2. ~(r.updated < q.updated) /\ ~(q.updated < r.updated)
        BY <3>1, LearnsNothing
      <4>3. r.updated \in Nat /\ q.updated \in Nat
        BY <4>1 DEF Agreement, Stamped
      <4> HIDE DEF r, q
      <4>4. r.updated = q.updated
        BY <4>2, <4>3
      <4> QED
        BY <4>1, <4>4 DEF Agreement, r, q
    <3>2. r # Absent <=> q # Absent
      BY LearnsNothing
    <3> QED
      BY <3>1, <3>2
  <2>2. \A s \in Name : cat[n].svc[s] = cat[p].svc[s]
    BY <2>1 DEF Upsert, KeysOf, Part
  <2>3. \A k \in Key : cat[n].inst[k] = cat[p].inst[k]
    BY <2>1 DEF Upsert, KeysOf, Part
  <2>4. cat[n] \in Catalogue /\ cat[p] \in Catalogue
    BY DEF Typed
  <2>5. cat[n].svc = cat[p].svc /\ cat[n].inst = cat[p].inst
    BY <2>2, <2>3, <2>4 DEF Catalogue, Services, Instances
  <2> QED
    BY <2>4, <2>5 DEF Catalogue
<1> QED
  BY <1>1, ClusterInvariant, PTL
=============================================================================
