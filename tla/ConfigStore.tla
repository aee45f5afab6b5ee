---------------------------- MODULE ConfigStore ----------------------------
(***************************************************************************)
(* The cluster-replicated configuration of one scope                       *)
(* (internal/store/config.go): the active revision, the history and the    *)
(* draft that every node keeps under "active/", "rev/" and "draft/".       *)
(* Scopes share no keys, so one of them is enough; but ids are not checked *)
(* for slashes, and deleting a scope deletes all of "rev/<id>/".  That is  *)
(* also the history of every scope whose id goes on after a slash, such as *)
(* service:a/b when service:a is deleted (DeleteOuterScope).               *)
(*                                                                         *)
(* Unlike services and instances, a remote revision is compared and stored *)
(* in one transaction, so every handler is one step; only a rollback reads *)
(* the old revision first and publishes it in a second transaction.        *)
(*                                                                         *)
(* An emitted event goes straight into net: a message that is dropped      *)
(* before or after it was broadcast is one that is never delivered.        *)
(* Module Cluster has the subscription queue and the echo filter.          *)
(***************************************************************************)
EXTENDS Integers

CONSTANTS Node,       \* the nodes of the cluster
          Vars,       \* variable blocks an operator publishes
          Op,         \* the API operations operators use
          Absent,     \* no value under this key
          Skewed,     \* do the nodes' wall clocks disagree?
          MaxRev,     \* bound on revision numbers
          MaxStamp,   \* bound on the stamps
          MaxOps,     \* bound on the API operations
          MaxFaults   \* bound on duplicated messages and restarts

RevNo == 1..MaxRev
Stamp == 1..MaxStamp

Revision == [rev : RevNo, vars : Vars, stamp : Stamp]
Draft    == [vars : Vars, base : 0..MaxRev, stamp : Stamp]

ASSUME ConfigAssumption ==
    /\ Absent \notin Revision \union Draft \union Vars
    /\ Skewed \in BOOLEAN
    /\ MaxRev \in Nat /\ MaxStamp \in Nat /\ MaxOps \in Nat /\ MaxFaults \in Nat

VARIABLES cfg,        \* each node's keys of the scope
          net,        \* gossip events on their way to each node
          snap,       \* per node: what is left of a snapshot being applied
          rolling,    \* per node: the variables a rollback has read
          used,       \* stamps taken
          ops,        \* API operations so far
          faults,     \* duplicates and restarts so far
          published,  \* history: the revisions that ApplyConfig returned
          cut         \* history: has a node lost its revisions with an outer
                      \* scope, since it has the active one?

vars == <<cfg, net, snap, rolling, used, ops, faults, published, cut>>

Scope == [active : Revision \union {Absent},
          hist   : [RevNo -> Revision \union {Absent}],
          draft  : Draft \union {Absent}]

Event == [type : {"config.applied"}, rec : Revision]
         \union [type : {"config.draft.saved"}, rec : Draft]
         \union [type : {"config.draft.deleted", "config.deleted", "outer.deleted"},
                 rec : {Absent}]

Snapshot == [revs : SUBSET Revision, draft : Draft \union {Absent}]

TypeOK == /\ cfg \in [Node -> Scope]
          /\ net \in [Node -> SUBSET Event]
          /\ snap \in [Node -> Snapshot]
          /\ rolling \in [Node -> Vars \union {Absent}]
          /\ used \subseteq Stamp
          /\ ops \in Nat /\ faults \in Nat
          /\ published \subseteq Revision
          /\ cut \in [Node -> BOOLEAN]

NoScope == [active |-> Absent, hist |-> [r \in RevNo |-> Absent], draft |-> Absent]

NothingLeft == [revs |-> {}, draft |-> Absent]

Init == /\ cfg = [n \in Node |-> NoScope]
        /\ net = [n \in Node |-> {}]
        /\ snap = [n \in Node |-> NothingLeft]
        /\ rolling = [n \in Node |-> Absent]
        /\ used = {}
        /\ ops = 0
        /\ faults = 0
        /\ published = {}
        /\ cut = [n \in Node |-> FALSE]

-----------------------------------------------------------------------------
(* Transactions on one node's keys.                                        *)

NextNo(c) == IF c.active = Absent THEN 1 ELSE c.active.rev + 1

\* Publish a block: active, history entry and no draft any more.
ApplyTx(c, rev) == [active |-> rev,
                    hist   |-> [c.hist EXCEPT ![rev.rev] = rev],
                    draft  |-> Absent]

BaseRevision(c) == IF c.active = Absent THEN 0 ELSE c.active.rev

\* Mutant of Advances: the stamps alone decide.
AdvancesByStamp(c, rev) == c.active = Absent \/ rev.stamp > c.active.stamp

Advances(c, rev) == \/ c.active = Absent
                    \/ rev.rev > c.active.rev
                    \/ rev.rev = c.active.rev /\ rev.stamp > c.active.stamp

\* Mutant of PutRevisionRaw: history keeps the first revision of a number.
PutRevisionKeepsFirst(c, rev) ==
    IF c.hist[rev.rev] # Absent
    THEN c
    ELSE [c EXCEPT !.hist[rev.rev] = rev,
                   !.active = IF Advances(c, rev) THEN rev ELSE @]

\* Mutant of PutRevisionRaw: history keeps the revision that came last.
PutRevisionOverwrites(c, rev) ==
    [c EXCEPT !.hist[rev.rev] = rev,
              !.active = IF Advances(c, rev) THEN rev ELSE @]

\* putConfigRevisionRaw: history keeps the later of two revisions with the
\* same number; only if this one is kept may it become active.
PutRevisionRaw(c, rev) ==
    IF c.hist[rev.rev] # Absent /\ c.hist[rev.rev].stamp > rev.stamp
    THEN c
    ELSE [c EXCEPT !.hist[rev.rev] = rev,
                   !.active = IF Advances(c, rev) THEN rev ELSE @]

\* What is left when a scope is deleted whose id is a beginning of this one's.
OuterDeleted(c) == [c EXCEPT !.hist = NoScope.hist]

\* A remote draft replaces whatever is there.
PutDraftRaw(c, d) == [c EXCEPT !.draft = d]

-----------------------------------------------------------------------------
(* API operations.                                                         *)

Emit(n, type, rec) ==
    net' = [p \in Node |-> IF p = n THEN net[p]
                           ELSE net[p] \union {[type |-> type, rec |-> rec]}]

\* The keys of node n change; outer: by the deletion of an outer scope.
Cuts(n, outer) ==
    cut' = [cut EXCEPT ![n] = IF outer THEN cfg[n].active # Absent
                              ELSE @ /\ cfg'[n].active = cfg[n].active]

Counted(op) == op \in Op /\ ops < MaxOps /\ ops' = ops + 1

\* What time.Now() may return to the next write; no nanosecond twice.
Readings == {ts \in Stamp \ used : Skewed \/ \A t \in Stamp \ used : ts <= t}

Publish(n, block, ts) ==
    LET rev == [rev |-> NextNo(cfg[n]), vars |-> block, stamp |-> ts]
    IN  /\ NextNo(cfg[n]) <= MaxRev
        /\ cfg' = [cfg EXCEPT ![n] = ApplyTx(@, rev)]
        /\ Emit(n, "config.applied", rev)
        /\ used' = used \union {ts}
        /\ published' = published \union {rev}
        /\ Cuts(n, FALSE)

ApplyConfig(n, block, ts) ==
    /\ Counted("apply")
    /\ Publish(n, block, ts)
    /\ UNCHANGED <<snap, rolling, faults>>

RollbackRead(n, r) ==
    /\ Counted("rollback")
    /\ rolling[n] = Absent
    /\ cfg[n].hist[r] # Absent
    /\ rolling' = [rolling EXCEPT ![n] = cfg[n].hist[r].vars]
    /\ UNCHANGED <<cfg, net, snap, used, faults, published, cut>>

RollbackApply(n, ts) ==
    /\ rolling[n] # Absent
    /\ Publish(n, rolling[n], ts)
    /\ rolling' = [rolling EXCEPT ![n] = Absent]
    /\ UNCHANGED <<snap, ops, faults>>

PutDraft(n, block, ts) ==
    LET d == [vars |-> block, base |-> BaseRevision(cfg[n]), stamp |-> ts]
    IN  /\ Counted("draft")
        /\ cfg' = [cfg EXCEPT ![n].draft = d]
        /\ Emit(n, "config.draft.saved", d)
        /\ used' = used \union {ts}
        /\ UNCHANGED <<snap, rolling, faults, published, cut>>

\* Deleting is announced even if there was nothing to delete.
DeleteDraft(n) ==
    /\ Counted("deleteDraft")
    /\ cfg' = [cfg EXCEPT ![n].draft = Absent]
    /\ Emit(n, "config.draft.deleted", Absent)
    /\ UNCHANGED <<snap, rolling, used, faults, published, cut>>

DeleteConfigScope(n) ==
    /\ Counted("deleteScope")
    /\ cfg' = [cfg EXCEPT ![n] = NoScope]
    /\ Emit(n, "config.deleted", Absent)
    /\ Cuts(n, FALSE)
    /\ UNCHANGED <<snap, rolling, used, faults, published>>

\* DeleteConfigScope of the scope whose id is this one's up to a slash.
DeleteOuterScope(n) ==
    /\ Counted("deleteOuter")
    /\ cfg' = [cfg EXCEPT ![n] = OuterDeleted(@)]
    /\ Emit(n, "outer.deleted", Absent)
    /\ Cuts(n, TRUE)
    /\ UNCHANGED <<snap, rolling, used, faults, published>>

-----------------------------------------------------------------------------
(* Replication.                                                            *)

\* Mutant of Applied: a remote revision is stored as one published here.
AppliedAsOwn(c, ev) ==
    CASE ev.type = "config.applied"       -> ApplyTx(c, ev.rec)
      [] ev.type = "config.draft.saved"   -> PutDraftRaw(c, ev.rec)
      [] ev.type = "config.draft.deleted" -> [c EXCEPT !.draft = Absent]
      [] ev.type = "config.deleted"       -> NoScope
      [] ev.type = "outer.deleted"        -> OuterDeleted(c)

\* applyConfigRemote.
Applied(c, ev) == CASE ev.type = "config.applied"       -> PutRevisionRaw(c, ev.rec)
                    [] ev.type = "config.draft.saved"   -> PutDraftRaw(c, ev.rec)
                    [] ev.type = "config.draft.deleted" -> [c EXCEPT !.draft = Absent]
                    [] ev.type = "config.deleted"       -> NoScope
                    [] ev.type = "outer.deleted"        -> OuterDeleted(c)

\* A message arrives, once or (copy) not for the last time.
Deliver(n, ev, copy) ==
    /\ IF copy THEN /\ faults < MaxFaults
                    /\ faults' = faults + 1
                    /\ UNCHANGED net
               ELSE /\ net' = [net EXCEPT ![n] = @ \ {ev}]
                    /\ UNCHANGED faults
    /\ cfg' = [cfg EXCEPT ![n] = Applied(@, ev)]
    /\ Cuts(n, ev.type = "outer.deleted")
    /\ UNCHANGED <<snap, rolling, used, ops, published>>

History(c) == {c.hist[r] : r \in {x \in RevNo : c.hist[x] # Absent}}

\* Mutant of Pull: the snapshot carries only the draft.
PullNoHistory(n, p) ==
    /\ p # n
    /\ snap[n] = NothingLeft
    /\ snap' = [snap EXCEPT ![n] = [revs |-> {}, draft |-> cfg[p].draft]]
    /\ UNCHANGED <<cfg, net, rolling, used, ops, faults, published, cut>>

\* configSnapshot of the peer: its history and its draft, in one transaction.
Pull(n, p) ==
    /\ p # n
    /\ snap[n] = NothingLeft
    /\ snap' = [snap EXCEPT ![n] = [revs |-> History(cfg[p]), draft |-> cfg[p].draft]]
    /\ UNCHANGED <<cfg, net, rolling, used, ops, faults, published, cut>>

\* pullSnapshot applies the revisions in key order, then the draft.
ApplySnapshotRev(n, rev) ==
    /\ \A r \in snap[n].revs : rev.rev <= r.rev
    /\ cfg' = [cfg EXCEPT ![n] = PutRevisionRaw(@, rev)]
    /\ Cuts(n, FALSE)
    /\ snap' = [snap EXCEPT ![n].revs = @ \ {rev}]
    /\ UNCHANGED <<net, rolling, used, ops, faults, published>>

ApplySnapshotDraft(n) ==
    /\ snap[n].revs = {} /\ snap[n].draft # Absent
    /\ cfg' = [cfg EXCEPT ![n] = PutDraftRaw(@, snap[n].draft)]
    /\ snap' = [snap EXCEPT ![n] = NothingLeft]
    /\ UNCHANGED <<net, rolling, used, ops, faults, published, cut>>

\* The process restarts on the same file.
Restart(n) ==
    /\ faults < MaxFaults
    /\ faults' = faults + 1
    /\ snap' = [snap EXCEPT ![n] = NothingLeft]
    /\ rolling' = [rolling EXCEPT ![n] = Absent]
    /\ UNCHANGED <<cfg, net, used, ops, published, cut>>

ApplySnapshot(n) == \/ \E rev \in snap[n].revs : ApplySnapshotRev(n, rev)
                    \/ ApplySnapshotDraft(n)

Next == \E n \in Node :
          \/ \E ts \in Readings :
                \/ \E block \in Vars : ApplyConfig(n, block, ts)
                \/ \E block \in Vars : PutDraft(n, block, ts)
                \/ RollbackApply(n, ts)
          \/ \E r \in RevNo : RollbackRead(n, r)
          \/ DeleteDraft(n)
          \/ DeleteConfigScope(n)
          \/ DeleteOuterScope(n)
          \/ \E ev \in net[n], copy \in BOOLEAN : Deliver(n, ev, copy)
          \/ \E p \in Node : Pull(n, p)
          \/ ApplySnapshot(n)
          \/ Restart(n)

Spec == Init /\ [][Next]_vars

\* As in Cluster: goroutines run and every peer is drawn again and again;
\* gossip may never arrive.
FairSpec == /\ Spec
            /\ \A n \in Node : /\ WF_vars(ApplySnapshot(n))
                               /\ \A p \in Node : SF_vars(Pull(n, p))

-----------------------------------------------------------------------------
\* Active is stored in the history under its own number, and nothing there
\* has a higher one.
Newest(c) == /\ c.active # Absent => c.hist[c.active.rev] = c.active
             /\ \A r \in RevNo :
                   c.hist[r] # Absent => c.active # Absent /\ r <= c.active.rev

(* What clients read is the newest entry of the history.  Two keys are     *)
(* written by two rules (history: later stamp of the same number; active:  *)
(* higher number, then later stamp) in whatever order revisions arrive.    *)
(* Only the deletion of an outer scope (config.go:271-281) can part them,  *)
(* and only until the next revision becomes active.                        *)
ActiveIsNewest == \A n \in Node : cut[n] \/ Newest(cfg[n])

\* Active is the same, was deleted or created, or moved forward.
Forward(c, d) ==
    c.active # Absent /\ d.active # Absent /\ d.active # c.active =>
        \/ d.active.rev > c.active.rev
        \/ d.active.rev = c.active.rev /\ d.active.stamp > c.active.stamp

(* A late, duplicated or reordered revision never takes clients back: the  *)
(* active revision of a node only moves forward, until the scope is        *)
(* deleted.  IsRegister, which the run checks, implies it.                 *)
NeverBackwards == [][\A n \in Node : Forward(cfg[n], cfg'[n])]_vars

(* To its clients the scope is a Register: what a node shows them was      *)
(* published, under a stamp of its own and as the successor of what the    *)
(* publishing node showed, and gives way to newer revisions only, although *)
(* it goes through events, snapshots and two keys per node.                *)
Reg == INSTANCE Register WITH active <- [n \in Node |-> cfg[n].active]
IsRegister == Reg!Spec

(* Nothing depends on the order in which gossip and snapshots bring        *)
(* revisions, nor on how often: wherever a node is, two of them leave the  *)
(* same history and the same active revision in either order, and one of   *)
(* them twice is the same as once.                                         *)
ArrivalOrderIrrelevant ==
    \A n \in Node, a, b \in published :
        LET c == cfg[n]
        IN  /\ PutRevisionRaw(PutRevisionRaw(c, a), b)
                  = PutRevisionRaw(PutRevisionRaw(c, b), a)
            /\ PutRevisionRaw(PutRevisionRaw(c, a), a) = PutRevisionRaw(c, a)

\* A snapshot of p has no revision that changes node n.
NothingToLearn(n, p) ==
    \A rev \in History(cfg[p]) : PutRevisionRaw(cfg[n], rev) = cfg[n]

(* Anti-entropy never stops short: two nodes that have nothing to learn    *)
(* from each other's snapshots have the same history and the same active   *)
(* revision, although they number their revisions independently and a      *)
(* snapshot does not say which one is active.  A node that lost its        *)
(* history with an outer scope has nothing to tell.                        *)
SettledMeansAgreed ==
    \A n, p \in Node :
        ~cut[n] /\ ~cut[p] /\ NothingToLearn(n, p) /\ NothingToLearn(p, n) =>
            cfg[n].active = cfg[p].active /\ cfg[n].hist = cfg[p].hist

(* When the operators stop, anti-entropy alone brings all nodes to the     *)
(* same history and the same active revision, although snapshots carry no  *)
(* active revision, nodes number revisions independently and deletions     *)
(* leave no trace.  A node that lost its history with an outer scope keeps *)
(* an active revision that no snapshot carries; drafts are not part of it  *)
(* either: two of them can change places forever.                          *)
Convergence == <>[](\A n, p \in Node : \/ cut[n] \/ cut[p]
                                       \/ /\ cfg[n].active = cfg[p].active
                                          /\ cfg[n].hist = cfg[p].hist)
=============================================================================
