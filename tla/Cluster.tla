------------------------------ MODULE Cluster ------------------------------
(***************************************************************************)
(* Replication of the catalogue between discovery nodes                    *)
(* (internal/cluster/cluster.go, Store.ApplyRemote and Store.Snapshot).    *)
(*                                                                         *)
(*   API call -> local transaction -> emit -> Run -> gossip -> NotifyMsg   *)
(*                                              -> ApplyRemote             *)
(*   anti-entropy: Snapshot of a peer -> ApplyRemote of each record        *)
(*                                                                         *)
(* Gossip reorders, delays, duplicates and loses events.  ApplyRemote      *)
(* reads the stored record in one transaction and writes in another; the   *)
(* packet handler, the TCP stream handlers and the anti-entropy goroutine  *)
(* all call it concurrently, and API calls commit in between.              *)
(*                                                                         *)
(* When Skewed, a local write may carry any stamp not used before: nodes'  *)
(* wall clocks are not synchronised, a clock may be stepped back, and      *)
(* PutService and PutInstance read it before their transaction.  Otherwise *)
(* all nodes read one clock.  Two writes never carry the same nanosecond.  *)
(*                                                                         *)
(* Service names are such as PutService accepts, without slashes: what a   *)
(* rename does where names are nested is a matter of one node (Store).     *)
(***************************************************************************)
EXTENDS Catalog, FiniteSets

CONSTANTS Node,       \* the nodes of the cluster (none is named "snapshot")
          Op,         \* the API operations clients use
          Registers,  \* the service and id of the instances they register
          Sends,      \* the statuses they send
          Skewed,     \* do the nodes' wall clocks disagree?
          MaxStamp,   \* bound on the stamps, hence on the stamping writes
          MaxOps,     \* bound on the API operations
          MaxFaults,  \* bound on duplicates, crashes and failed pulls
          SubCap      \* capacity of the subscription Run reads (256)

ASSUME ClusterAssumption ==
    /\ {"snapshot", "", Absent} \intersect Node = {}
    /\ \A n \in Name : Valid(n)
    /\ IsFiniteSet(Name) /\ IsFiniteSet(Id)
    /\ Registers \subseteq Name \X Id /\ Sends \subseteq StatusInput
    /\ Skewed \in BOOLEAN
    /\ MaxStamp \in Nat /\ MaxOps \in Nat /\ MaxFaults \in Nat
    /\ SubCap \in Nat \ {0}

VARIABLES cat,       \* each node's catalogue
          sub,       \* events emitted and not yet read by Run
          net,       \* gossip events on their way to each node
          applying,  \* per node: upserts past ApplyRemote's check
          snap,      \* per node: the snapshot being pulled
          writer,    \* history: the node whose write took each stamp
          ops,       \* API operations so far
          faults     \* duplicates, crashes and failed pulls so far

vars == <<cat, sub, net, applying, snap, writer, ops, faults>>

Types == {"service.upserted", "service.deleted",
          "instance.upserted", "instance.deleted"}
Origin == Node \union {"", "snapshot"}

\* instance.status is handled exactly as instance.upserted.
Event == [type : Types, key : Name \union Key,
          rec : Service \union Instance \union {Absent}, origin : Origin]

ServiceUpserted(n, rec, origin) ==
    [type |-> "service.upserted", key |-> n, rec |-> rec, origin |-> origin]
ServiceDeleted(n) ==
    [type |-> "service.deleted", key |-> n, rec |-> Absent, origin |-> ""]
InstanceUpserted(k, rec, origin) ==
    [type |-> "instance.upserted", key |-> k, rec |-> rec, origin |-> origin]
InstanceDeleted(k) ==
    [type |-> "instance.deleted", key |-> k, rec |-> Absent, origin |-> ""]

Idle == [stage |-> "idle", peer |-> Absent, todo |-> {}]

TypeOK ==
    /\ cat \in [Node -> Catalogue]
    /\ \A n \in Node : sub[n] \in Seq(Event) /\ Len(sub[n]) <= SubCap
    /\ \A n \in Node : net[n] \subseteq Event /\ applying[n] \subseteq Event
    /\ \A n \in Node : /\ snap[n].stage \in {"idle", "reading", "applying"}
                       /\ snap[n].peer \in Node \union {Absent}
                       /\ snap[n].todo \subseteq Event
    /\ writer \in [1..MaxStamp -> Node \union {Absent}]
    /\ ops \in 0..MaxOps /\ faults \in 0..MaxFaults

Init == /\ cat = [n \in Node |-> EmptyCatalogue]
        /\ sub = [n \in Node |-> <<>>]
        /\ net = [n \in Node |-> {}]
        /\ applying = [n \in Node |-> {}]
        /\ snap = [n \in Node |-> Idle]
        /\ writer = [ts \in 1..MaxStamp |-> Absent]
        /\ ops = 0
        /\ faults = 0

-----------------------------------------------------------------------------
(* API operations on a node: a transaction, then its events.               *)

Least(x, y) == IF x < y THEN x ELSE y

\* Mutant of Emit: the buffer has no limit.
EmitUnbounded(n, events) == sub' = [sub EXCEPT ![n] = @ \o events]

\* emit drops what does not fit into the subscriber's buffer.
Emit(n, events) ==
    LET room == Least(Len(events), SubCap - Len(sub[n]))
    IN  sub' = [sub EXCEPT ![n] = @ \o SubSeq(events, 1, room)]

Local(n, op, db, events) ==
    /\ op \in Op
    /\ ops < MaxOps
    /\ ops' = ops + 1
    /\ cat' = [cat EXCEPT ![n] = db]
    /\ Emit(n, events)
    /\ UNCHANGED <<net, applying, snap, faults>>

Upserted(db, k) == <<InstanceUpserted(k, db.inst[k], "")>>

PutService(n, s, ts) ==
    LET db == PutServiceTx(cat[n], s, ts)
    IN  /\ Local(n, "putService", db, <<ServiceUpserted(s, db.svc[s], "")>>)
        /\ writer' = [writer EXCEPT ![ts] = n]

\* The stub PutInstance may create is not announced.
PutInstance(n, s, i, status, ts) ==
    LET db == PutInstanceTx(cat[n], s, i, status, ts)
    IN  /\ Local(n, "putInstance", db, Upserted(db, instanceKey(s, i)))
        /\ writer' = [writer EXCEPT ![ts] = n]

Heartbeat(n, k, status, ts) ==
    LET db == HeartbeatTx(cat[n], k, status, ts)
    IN  /\ HasInstance(cat[n], k)
        /\ Local(n, "heartbeat", db, Upserted(db, k))
        /\ writer' = [writer EXCEPT ![ts] = n]

SetStatus(n, k, status, ts) ==
    LET db == SetStatusTx(cat[n], k, status, ts)
    IN  /\ HasInstance(cat[n], k)
        /\ cat[n].inst[k].status # status
        /\ Local(n, "setStatus", db, Upserted(db, k))
        /\ writer' = [writer EXCEPT ![ts] = n]

SetBlocked(n, k, b, ts) ==
    LET db == SetBlockedTx(cat[n], k, b, ts)
    IN  /\ HasInstance(cat[n], k)
        /\ Local(n, IF b THEN "block" ELSE "unblock", db, Upserted(db, k))
        /\ writer' = [writer EXCEPT ![ts] = n]

DeleteInstance(n, k) ==
    /\ HasInstance(cat[n], k)
    /\ Local(n, "deleteInstance", DeleteInstanceTx(cat[n], k),
             <<InstanceDeleted(k)>>)
    /\ UNCHANGED writer

DeleteService(n, s) ==
    /\ HasService(cat[n], s)
    /\ Local(n, "deleteService", DeleteServiceTx(cat[n], s),
             <<ServiceDeleted(s)>>)
    /\ UNCHANGED writer

\* The moved instances are announced one by one, the keys they left are not.
RenameService(n, old, new, ts, scan) ==
    LET db     == RenameTx(cat[n], old, new, ts, scan)
        moved  == DOMAIN scan.last
        order  == CHOOSE f \in [1..Cardinality(moved) -> moved] :
                     \A x \in moved : \E j \in DOMAIN f : f[j] = x
    IN  /\ RenameAllowed(cat[n], old, new)
        /\ Local(n, "rename", db,
                 <<ServiceDeleted(old), ServiceUpserted(new, db.svc[new], "")>>
                 \o [j \in DOMAIN order |->
                        InstanceUpserted(order[j], db.inst[order[j]], "")])
        /\ writer' = [writer EXCEPT ![ts] = n]

\* What time.Now() may return to the next write.
Readings ==
    LET unused == {ts \in 1..MaxStamp : writer[ts] = Absent}
    IN  {ts \in unused : Skewed \/ \A t \in unused : ts <= t}

APICall(n) ==
    \/ \E ts \in Readings :
          \/ \E s \in Name : PutService(n, s, ts)
          \/ \E r \in Registers, status \in Sends :
                PutInstance(n, r[1], r[2], status, ts)
          \/ \E k \in Key, status \in Sends : Heartbeat(n, k, status, ts)
          \/ \E k \in Key, status \in {"up", "down"} : SetStatus(n, k, status, ts)
          \/ \E k \in Key, b \in BOOLEAN : SetBlocked(n, k, b, ts)
          \/ \E old, new \in Name : \E scan \in Scans(cat[n], old, new) :
                RenameService(n, old, new, ts, scan)
    \/ \E k \in Key : DeleteInstance(n, k)
    \/ \E s \in Name : DeleteService(n, s)

-----------------------------------------------------------------------------
(* Gossip.                                                                 *)

\* Mutant of FromElsewhere: everything emitted locally is broadcast.
FromElsewhereNever(n, ev) == FALSE

\* Run's filter: an event that came from elsewhere is not broadcast again.
FromElsewhere(n, ev) == ev.origin # "" /\ ev.origin # n

Broadcast(n) ==
    LET ev == Head(sub[n])
    IN  /\ sub[n] # <<>>
        /\ sub' = [sub EXCEPT ![n] = Tail(@)]
        /\ net' = IF FromElsewhere(n, ev) THEN net
                  ELSE [p \in Node |-> IF p = n THEN net[p]
                                       ELSE net[p] \union {[ev EXCEPT !.origin = n]}]
        /\ UNCHANGED <<cat, applying, snap, writer, ops, faults>>

Stored(n, ev) == IF ev.type = "service.upserted" THEN cat[n].svc[ev.key]
                 ELSE cat[n].inst[ev.key]

\* Mutant of Wins: a remote record only fills a gap.
WinsIfAbsent(n, ev) == Stored(n, ev) = Absent

\* ApplyRemote's first transaction: is the stored record absent or older?
Wins(n, ev) == \/ Stored(n, ev) = Absent
               \/ Stored(n, ev).updated < ev.rec.updated

ApplyRemoteCheck(n, ev) ==
    /\ ev.type \in {"service.upserted", "instance.upserted"}
    /\ applying' = IF Wins(n, ev) THEN [applying EXCEPT ![n] = @ \union {ev}]
                   ELSE applying
    /\ UNCHANGED <<cat, sub>>

\* Deletes are applied at once, whatever is stored.
ApplyRemoteDelete(n, ev) ==
    /\ \/ /\ ev.type = "service.deleted"
          /\ cat' = [cat EXCEPT ![n] = DeleteServiceRaw(@, ev.key)]
       \/ /\ ev.type = "instance.deleted"
          /\ cat' = [cat EXCEPT ![n] = DeleteInstanceRaw(@, ev.key)]
    /\ Emit(n, <<ev>>)
    /\ UNCHANGED applying

\* NotifyMsg: a message arrives, once or (copy) not for the last time.
Deliver(n, ev, copy) ==
    /\ IF copy THEN /\ faults < MaxFaults
                    /\ faults' = faults + 1
                    /\ UNCHANGED net
               ELSE /\ net' = [net EXCEPT ![n] = @ \ {ev}]
                    /\ UNCHANGED faults
    /\ IF ev.origin = n THEN UNCHANGED <<cat, sub, applying>>
       ELSE ApplyRemoteCheck(n, ev) \/ ApplyRemoteDelete(n, ev)
    /\ UNCHANGED <<snap, writer, ops>>

\* ApplyRemote's second transaction, and the emit that follows.
ApplyRemotePut(n, ev) ==
    /\ cat' = [cat EXCEPT ![n] = IF ev.type = "service.upserted"
                                 THEN PutServiceRaw(@, ev.key, ev.rec)
                                 ELSE PutInstanceRaw(@, ev.key, ev.rec)]
    /\ applying' = [applying EXCEPT ![n] = @ \ {ev}]
    /\ Emit(n, <<ev>>)
    /\ UNCHANGED <<net, snap, writer, ops, faults>>

-----------------------------------------------------------------------------
(* Anti-entropy and the initial sync.                                      *)

\* pullSnapshot applies its records one after another.
Pulling(n) == \/ snap[n].stage # "idle"
              \/ \E ev \in applying[n] : ev.origin = "snapshot"

\* The peer's Snapshot lists the services in one transaction ...
PullServices(n, p) ==
    /\ p # n
    /\ ~Pulling(n)
    /\ snap' = [snap EXCEPT ![n] =
                   [stage |-> "reading", peer |-> p,
                    todo  |-> {ServiceUpserted(s, cat[p].svc[s], "snapshot") :
                                 s \in {x \in Name : HasService(cat[p], x)}}]]
    /\ UNCHANGED <<cat, sub, net, applying, writer, ops, faults>>

\* What is left of a pull; an empty rest ends it.
Rest(p, todo) == IF todo = {} THEN Idle
                 ELSE [stage |-> "applying", peer |-> p, todo |-> todo]

\* Mutant of PullInstances: the snapshot carries the services only.
PullInstancesNone(n) ==
    /\ snap[n].stage = "reading"
    /\ snap' = [snap EXCEPT ![n] = Rest(@.peer, @.todo)]
    /\ UNCHANGED <<cat, sub, net, applying, writer, ops, faults>>

\* ... and the instances in another; then the answer is on its way.
PullInstances(n) ==
    LET p     == snap[n].peer
        insts == {InstanceUpserted(k, cat[p].inst[k], "snapshot") :
                    k \in {x \in Key : HasInstance(cat[p], x)}}
    IN  /\ snap[n].stage = "reading"
        /\ snap' = [snap EXCEPT ![n] = Rest(p, @.todo \union insts)]
        /\ UNCHANGED <<cat, sub, net, applying, writer, ops, faults>>

\* The next record, services before instances, once the last one is done.
ApplySnapshot(n, ev) ==
    /\ snap[n].stage = "applying"
    /\ \A x \in applying[n] : x.origin # "snapshot"
    /\ \/ ev.type = "service.upserted"
       \/ \A x \in snap[n].todo : x.type = "instance.upserted"
    /\ ApplyRemoteCheck(n, ev)
    /\ snap' = [snap EXCEPT ![n] = Rest(@.peer, @.todo \ {ev})]
    /\ UNCHANGED <<net, writer, ops, faults>>

\* The request fails, or the peer does.
FailPull(n) ==
    /\ snap[n].stage = "reading"
    /\ faults < MaxFaults
    /\ faults' = faults + 1
    /\ snap' = [snap EXCEPT ![n] = Idle]
    /\ UNCHANGED <<cat, sub, net, applying, writer, ops>>

\* The process stops and restarts on the same bbolt file: what was committed
\* stays, events not yet broadcast and remote events half applied are gone.
Crash(n) ==
    /\ faults < MaxFaults
    /\ faults' = faults + 1
    /\ sub' = [sub EXCEPT ![n] = <<>>]
    /\ applying' = [applying EXCEPT ![n] = {}]
    /\ snap' = [snap EXCEPT ![n] = Idle]
    /\ UNCHANGED <<cat, net, writer, ops>>

AntiEntropy(n) == \/ PullInstances(n)
                  \/ \E ev \in snap[n].todo : ApplySnapshot(n, ev)

Next == \E n \in Node :
          \/ APICall(n)
          \/ Broadcast(n)
          \/ \E ev \in net[n], copy \in BOOLEAN : Deliver(n, ev, copy)
          \/ \E ev \in applying[n] : ApplyRemotePut(n, ev)
          \/ \E p \in Node : PullServices(n, p)
          \/ AntiEntropy(n)
          \/ FailPull(n)
          \/ Crash(n)

Spec == Init /\ [][Next]_vars

\* Goroutines run, and the anti-entropy ticker draws every peer again and
\* again (Go randomises the iteration order of the members map).  Nothing is
\* assumed of gossip: a message may never arrive.
Fairness ==
    \A n \in Node :
        /\ WF_vars(Broadcast(n))
        /\ WF_vars(\E ev \in applying[n] : ApplyRemotePut(n, ev))
        /\ WF_vars(AntiEntropy(n))
        /\ \A p \in Node : SF_vars(PullServices(n, p))

FairSpec == Spec /\ Fairness

-----------------------------------------------------------------------------
(* Only the node that wrote a record ever broadcasts it: what ApplyRemote  *)
(* or a snapshot brought in is emitted locally but never gossiped again.   *)
NoEcho ==
    \A n \in Node : \A ev \in net[n] :
        ev.rec # Absent => ev.origin = writer[ev.rec.updated] /\ ev.origin # n

(* UpdatedAt identifies a record: two nodes that store an instance under   *)
(* the same stamp store the same record.  Last-write-wins cannot tell such *)
(* records apart, so nothing would ever repair a difference.               *)
SameStampSameRecord ==
    \A n, p \in Node, k \in Key :
        /\ HasInstance(cat[n], k) /\ HasInstance(cat[p], k)
        /\ cat[n].inst[k].updated = cat[p].inst[k].updated
        => cat[n].inst[k] = cat[p].inst[k]

\* A snapshot of p has nothing that node n would take over.
NothingToLearn(n, p) ==
    /\ \A s \in Name : HasService(cat[p], s) =>
                       ~Wins(n, ServiceUpserted(s, cat[p].svc[s], "snapshot"))
    /\ \A k \in Key : HasInstance(cat[p], k) =>
                      ~Wins(n, InstanceUpserted(k, cat[p].inst[k], "snapshot"))

(* Anti-entropy never stops short: two nodes that have nothing to learn    *)
(* from each other's snapshots have the same catalogue, so a difference,   *)
(* however it came about, is always one that the next pulls repair.        *)
SettledMeansAgreed ==
    \A n, p \in Node :
        NothingToLearn(n, p) /\ NothingToLearn(p, n) => cat[n] = cat[p]

(* When the API calls stop, anti-entropy alone brings all catalogues to    *)
(* the same contents: with gossip lost, nodes restarted, ApplyRemote's two *)
(* transactions interleaved and deletions under way.                       *)
Convergence == <>[](\A n, p \in Node : cat[n] = cat[p])
=============================================================================
