--------------------------- MODULE ConfigProofs ---------------------------
(***************************************************************************)
(* Proofs about ConfigStore, for any number of nodes, revisions, messages  *)
(* and faults: what clients read is the newest entry of the history, the   *)
(* active revision never moves backwards, revisions may arrive in any      *)
(* order, nodes whose snapshots tell each other nothing new agree, and the *)
(* scope implements Register.                                              *)
(*                                                                         *)
(* The comparison rules look at numbers and stamps only, so the argument   *)
(* needs to know that a stamp identifies a revision (Unique) and that      *)
(* every copy under way or stored is of a published revision (Traced).     *)
(* That active is in the history is lost when an outer scope is deleted;   *)
(* that nothing in the history is newer than active is not (Bounded), and  *)
(* most of the argument needs no more.                                     *)
(***************************************************************************)
EXTENDS ConfigStore, TLAPS

\* No two published revisions carry the same stamp.
Unique(pub) == \A a, b \in pub : a.stamp = b.stamp => a = b

\* One node's keys hold published revisions, each under its own number.
Traced(c, pub) == /\ c.active # Absent => c.active \in pub
                  /\ \A r \in RevNo :
                        c.hist[r] # Absent => c.hist[r] \in pub /\ c.hist[r].rev = r

\* Nothing in the history is newer than the active revision.
Bounded(c) == \A r \in RevNo :
                 c.hist[r] # Absent =>
                     /\ c.active # Absent /\ r <= c.active.rev
                     /\ r = c.active.rev => c.hist[r].stamp <= c.active.stamp

Sound(c, pub) == c \in Scope /\ Bounded(c) /\ Traced(c, pub)

\* Whatever is on its way was published.
Carried(messages, pub) ==
    \A ev \in messages : ev.type = "config.applied" => ev.rec \in pub

ConfigInv ==
    /\ TypeOK
    /\ Unique(published)
    /\ \A rev \in published : rev.stamp \in used
    /\ \A n \in Node : /\ Sound(cfg[n], published)
                       /\ Carried(net[n], published)
                       /\ snap[n].revs \subseteq published
                       /\ cut[n] \/ Newest(cfg[n])

-----------------------------------------------------------------------------
(* The transactions.                                                       *)

(* Absent is none of the records.                                          *)
LEMMA AbsentFacts == /\ Absent \notin Revision /\ Absent \notin Draft
                     /\ Absent \notin Vars
BY ConfigAssumption

(* A scope without keys is sound.                                          *)
LEMMA NoScopeSound == ASSUME NEW pub PROVE Sound(NoScope, pub)
BY DEF Sound, NoScope, Scope, Bounded, Traced

(* Neither does deleting an outer scope make keys unsound.                 *)
LEMMA OuterDeletedSound ==
    ASSUME NEW pub, NEW c, Sound(c, pub) PROVE Sound(OuterDeleted(c), pub)
BY DEF Sound, OuterDeleted, NoScope, Scope, Bounded, Traced

(* It leaves the active revision alone.                                    *)
LEMMA OuterDeletedActive ==
    ASSUME NEW c \in Scope PROVE OuterDeleted(c).active = c.active
BY DEF OuterDeleted, Scope

(* putConfigRevisionRaw keeps a node's keys sound, whichever published     *)
(* revision arrives.                                                       *)
LEMMA PutRevisionSound ==
    ASSUME NEW pub, pub \subseteq Revision, Unique(pub),
           NEW c, Sound(c, pub), NEW rev \in pub
    PROVE  Sound(PutRevisionRaw(c, rev), pub)
<1> DEFINE d == PutRevisionRaw(c, rev)
<1>1. rev \in Revision /\ rev.rev \in RevNo /\ rev.stamp \in Nat
  BY DEF Revision, Stamp
<1>2. c \in Scope /\ Bounded(c) /\ Traced(c, pub)
  BY DEF Sound
<1>3. CASE c.hist[rev.rev] # Absent /\ c.hist[rev.rev].stamp > rev.stamp
  BY <1>3 DEF PutRevisionRaw
<1>4. CASE ~(c.hist[rev.rev] # Absent /\ c.hist[rev.rev].stamp > rev.stamp)
  <2>1. /\ d.hist = [c.hist EXCEPT ![rev.rev] = rev]
        /\ d.active = IF Advances(c, rev) THEN rev ELSE c.active
        /\ d \in Scope
    BY <1>1, <1>2, <1>4 DEF PutRevisionRaw, Scope
  <2>2. Traced(d, pub)
    BY <1>1, <1>2, <2>1 DEF Traced, Scope
  <2> HIDE DEF d
  <2>3. ASSUME NEW r \in RevNo, d.hist[r] # Absent
        PROVE  /\ d.active # Absent /\ r <= d.active.rev
               /\ r = d.active.rev => d.hist[r].stamp <= d.active.stamp
    <3>1. r \in Nat /\ rev.rev \in Nat
      BY <1>1 DEF RevNo
    <3>2. c.active # Absent => /\ c.active \in Revision
                               /\ c.active.rev \in Nat /\ c.active.stamp \in Nat
      BY <1>2 DEF Scope, Revision, RevNo, Stamp
    <3>3. d.active # Absent /\ rev.rev <= d.active.rev
          /\ (rev.rev = d.active.rev => rev.stamp <= d.active.stamp)
      BY <1>1, <2>1, <3>1, <3>2, AbsentFacts DEF Advances
    <3>4. CASE r = rev.rev
      <4>1. d.hist[r] = rev
        BY <1>1, <1>2, <2>1, <3>4 DEF Scope
      <4> QED
        BY <3>3, <3>4, <4>1
    <3>5. CASE r # rev.rev
      <4>1. d.hist[r] = c.hist[r]
        BY <1>2, <2>1, <3>5 DEF Scope
      <4>2. /\ c.active # Absent /\ r <= c.active.rev
            /\ r = c.active.rev => c.hist[r].stamp <= c.active.stamp
        BY <1>2, <2>3, <4>1 DEF Bounded
      <4>3. CASE Advances(c, rev)
        <5>1. d.active = rev /\ c.active.rev <= rev.rev
          BY <1>1, <2>1, <3>1, <3>2, <4>2, <4>3 DEF Advances
        <5> QED
          BY <3>1, <3>2, <3>3, <3>5, <4>2, <5>1
      <4>4. CASE ~Advances(c, rev)
        BY <2>1, <4>1, <4>2, <4>4
      <4> QED
        BY <4>3, <4>4
    <3> QED
      BY <3>4, <3>5
  <2> QED
    BY <2>1, <2>2, <2>3 DEF Sound, Bounded, d
<1> QED
  BY <1>3, <1>4

(* It leaves active the newest entry, if it was or if active is another    *)
(* one now.                                                                *)
LEMMA PutRevisionNewest ==
    ASSUME NEW pub, pub \subseteq Revision, Unique(pub),
           NEW c, Sound(c, pub), NEW rev \in pub,
           Newest(c) \/ PutRevisionRaw(c, rev).active # c.active
    PROVE  Newest(PutRevisionRaw(c, rev))
<1> DEFINE d == PutRevisionRaw(c, rev)
<1>1. rev \in Revision /\ rev.rev \in RevNo /\ rev.stamp \in Nat
  BY DEF Revision, Stamp
<1>2. c \in Scope /\ Traced(c, pub) /\ Sound(d, pub)
  BY PutRevisionSound DEF Sound
<1>3. CASE c.hist[rev.rev] # Absent /\ c.hist[rev.rev].stamp > rev.stamp
  BY <1>3 DEF PutRevisionRaw
<1>4. CASE ~(c.hist[rev.rev] # Absent /\ c.hist[rev.rev].stamp > rev.stamp)
  <2>1. /\ d.hist = [c.hist EXCEPT ![rev.rev] = rev]
        /\ d.active = IF Advances(c, rev) THEN rev ELSE c.active
    BY <1>1, <1>2, <1>4 DEF PutRevisionRaw, Scope
  <2> HIDE DEF d
  <2>2. d.active # Absent => d.hist[d.active.rev] = d.active
    <3>1. CASE Advances(c, rev)
      BY <1>1, <1>2, <2>1, <3>1 DEF Scope
    <3>2. CASE ~Advances(c, rev)
      <4>1. Newest(c) /\ d.active = c.active
        BY <2>1, <3>2 DEF d
      <4>2. /\ c.active \in Revision /\ c.active \in pub
            /\ rev.rev = c.active.rev => rev.stamp <= c.active.stamp
        BY <1>1, <1>2, <3>2 DEF Advances, Scope, Traced, Revision, RevNo, Stamp
      <4>3. rev.rev = c.active.rev => rev = c.active
        <5> SUFFICES ASSUME rev.rev = c.active.rev PROVE rev = c.active
          OBVIOUS
        <5>1. c.hist[rev.rev] = c.active
          BY <4>1, <4>2, AbsentFacts DEF Newest
        <5>2. rev.stamp = c.active.stamp
          BY <1>1, <1>4, <4>2, <5>1, AbsentFacts DEF Revision, Stamp
        <5> QED
          BY <4>2, <5>2 DEF Unique
      <4> QED
        BY <1>1, <1>2, <2>1, <4>1, <4>2, <4>3, AbsentFacts DEF Newest, Scope, Revision
    <3> QED
      BY <3>1, <3>2
  <2> QED
    BY <1>2, <2>2 DEF Sound, Bounded, Newest, d
<1> QED
  BY <1>3, <1>4

(* Publishing the next revision keeps the publishing node's keys sound,    *)
(* and active is the newest entry then.                                    *)
LEMMA ApplySound ==
    ASSUME NEW pub, pub \subseteq Revision, NEW c, Sound(c, pub),
           NEW rev \in Revision, rev.rev = NextNo(c)
    PROVE  /\ Sound(ApplyTx(c, rev), pub \union {rev})
           /\ Newest(ApplyTx(c, rev))
<1> DEFINE d == ApplyTx(c, rev)
<1>1. c \in Scope /\ Bounded(c) /\ Traced(c, pub)
  BY DEF Sound
<1>2. rev.rev \in RevNo /\ RevNo \subseteq Nat /\ rev.stamp \in Nat
  BY DEF Revision, RevNo, Stamp
<1>3. /\ d.hist = [c.hist EXCEPT ![rev.rev] = rev]
      /\ d.active = rev
      /\ d \in Scope
  BY <1>1, <1>2 DEF ApplyTx, Scope
<1>4. Traced(d, pub \union {rev})
  BY <1>1, <1>2, <1>3 DEF Traced, Scope
<1>5. ASSUME NEW r \in RevNo, c.hist[r] # Absent PROVE r < rev.rev
  <2>1. c.active # Absent /\ r <= c.active.rev
    BY <1>1, <1>5 DEF Bounded
  <2>2. c.active.rev \in Nat /\ r \in Nat
    BY <1>1, <1>2, <2>1 DEF Scope, Revision
  <2>3. rev.rev = c.active.rev + 1
    BY <2>1 DEF NextNo
  <2> QED
    BY <2>1, <2>2, <2>3
<1>6. Newest(d) /\ Bounded(d)
  <2> HIDE DEF d
  <2>1. d.hist[rev.rev] = rev /\ rev # Absent
    BY <1>1, <1>2, <1>3, AbsentFacts DEF Scope
  <2>2. ASSUME NEW r \in RevNo, d.hist[r] # Absent, r # rev.rev PROVE r < rev.rev
    <3>1. c.hist[r] # Absent
      BY <1>1, <1>3, <2>2 DEF Scope
    <3> QED
      BY <1>5, <3>1
  <2>3. \A r \in RevNo : r \in Nat
    BY <1>2
  <2>4. ASSUME NEW r \in RevNo, d.hist[r] # Absent
        PROVE  r <= rev.rev /\ (r = rev.rev => d.hist[r] = rev)
    <3>1. CASE r = rev.rev
      BY <1>2, <2>1, <3>1
    <3>2. CASE r # rev.rev
      <4>1. r < rev.rev
        BY <2>2, <2>4, <3>2
      <4>2. r \in Nat /\ rev.rev \in Nat
        BY <1>2, <2>3
      <4> QED
        BY <3>2, <4>1, <4>2
    <3> QED
      BY <3>1, <3>2
  <2> QED
    BY <1>2, <1>3, <2>1, <2>4 DEF Newest, Bounded
<1> QED
  BY <1>3, <1>4, <1>6 DEF Sound

(* Drafts come and go without touching revisions.                          *)
LEMMA DraftSound ==
    ASSUME NEW pub, NEW c, Sound(c, pub), NEW d \in Draft \union {Absent}
    PROVE  Sound([c EXCEPT !.draft = d], pub)
BY DEF Sound, Scope, Bounded, Traced

(* More published revisions leave sound keys sound.                        *)
LEMMA SoundMonotone ==
    ASSUME NEW pub, NEW more, pub \subseteq more, NEW c, Sound(c, pub)
    PROVE  Sound(c, more)
BY DEF Sound, Traced

-----------------------------------------------------------------------------
(* The inductive invariant.                                                *)

(* The initial state.                                                      *)
LEMMA InitInv == Init => ConfigInv
<1> SUFFICES ASSUME Init PROVE ConfigInv
  OBVIOUS
<1>1. NoScope \in Scope
  BY NoScopeSound DEF Sound
<1>2. TypeOK
  BY <1>1 DEF Init, TypeOK, NothingLeft, Snapshot
<1> QED
  BY <1>2, NoScopeSound DEF Init, ConfigInv, Unique, Carried, NothingLeft, Newest, NoScope

(* Publishing a revision: ApplyConfig and the second half of a rollback.   *)
LEMMA PublishInv ==
    ASSUME ConfigInv, NEW n \in Node, NEW block \in Vars,
           NEW ts \in Readings, Publish(n, block, ts),
           UNCHANGED snap, rolling' \in [Node -> Vars \union {Absent}],
           ops' \in Nat, UNCHANGED faults
    PROVE  ConfigInv'
<1> DEFINE rev == [rev |-> NextNo(cfg[n]), vars |-> block, stamp |-> ts]
<1>1. ts \in Stamp /\ ts \notin used
  BY DEF Readings
<1>2. Sound(cfg[n], published) /\ published \subseteq Revision
  BY DEF ConfigInv, TypeOK
<1>3. rev \in Revision
  <2>1. NextNo(cfg[n]) \in Nat /\ NextNo(cfg[n]) >= 1
    BY <1>2 DEF NextNo, Sound, Scope, Revision, RevNo
  <2>2. NextNo(cfg[n]) \in RevNo
    BY <2>1, ConfigAssumption DEF Publish, RevNo
  <2> QED
    BY <1>1, <2>2 DEF Revision
<1>4. /\ cfg' = [cfg EXCEPT ![n] = ApplyTx(cfg[n], rev)]
      /\ published' = published \union {rev}
      /\ used' = used \union {ts}
      /\ Emit(n, "config.applied", rev)
  BY DEF Publish
<1>5. \A p \in Node : Sound(cfg'[p], published')
  <2> TAKE p \in Node
  <2>1. CASE p = n
    <3>1. cfg'[p] = ApplyTx(cfg[n], rev)
      BY <1>4, <2>1 DEF ConfigInv, TypeOK
    <3> QED
      BY <1>2, <1>3, <1>4, <3>1, ApplySound
  <2>2. CASE p # n
    <3>1. cfg'[p] = cfg[p] /\ Sound(cfg[p], published)
      BY <1>4, <2>2 DEF ConfigInv, TypeOK
    <3> QED
      BY <1>4, <3>1, SoundMonotone
  <2> QED
    BY <2>1, <2>2
<1>6. \A p \in Node : cfg'[p] \in Scope
  BY <1>5 DEF Sound
<1>b. \A p \in Node : cut'[p] \/ Newest(cfg'[p])
  <2> TAKE p \in Node
  <2>1. CASE p = n
    <3>1. cfg'[p] = ApplyTx(cfg[n], rev)
      BY <1>4, <2>1 DEF ConfigInv, TypeOK
    <3> QED
      BY <1>2, <1>3, <3>1, ApplySound
  <2>2. CASE p # n
    BY <1>4, <2>2 DEF Publish, Cuts, ConfigInv, TypeOK
  <2> QED
    BY <2>1, <2>2
<1>c. cut' \in [Node -> BOOLEAN]
  BY DEF Publish, Cuts, ConfigInv, TypeOK
<1>7. [type |-> "config.applied", rec |-> rev] \in Event
  BY <1>3 DEF Event
<1>8. net' \in [Node -> SUBSET Event]
  BY <1>4, <1>7 DEF Emit, ConfigInv, TypeOK
<1>9. TypeOK'
  <2>1. cfg' \in [Node -> Scope]
    BY <1>4, <1>6 DEF ConfigInv, TypeOK
  <2> QED
    BY <2>1, <1>1, <1>3, <1>4, <1>8, <1>c DEF Publish, ConfigInv, TypeOK
<1>10. Unique(published')
  BY <1>1, <1>4 DEF ConfigInv, Unique
<1>11. \A r \in published' : r.stamp \in used'
  BY <1>4 DEF ConfigInv
<1>12. \A p \in Node : Carried(net'[p], published') /\ snap'[p].revs \subseteq published'
  <2> TAKE p \in Node
  <2>1. net'[p] \subseteq net[p] \union {[type |-> "config.applied", rec |-> rev]}
    BY <1>4 DEF Emit
  <2>2. Carried(net[p], published) /\ snap[p].revs \subseteq published
    BY DEF ConfigInv
  <2> QED
    BY <1>4, <2>1, <2>2 DEF Carried
<1> QED
  BY <1>5, <1>9, <1>10, <1>11, <1>12, <1>b DEF ConfigInv

(* A step that gives one node new sound keys, takes messages from the      *)
(* network or adds one that is not a revision, and publishes nothing.      *)
LEMMA KeysInv ==
    ASSUME ConfigInv, NEW n \in Node, NEW d, Sound(d, published),
           cfg' = [cfg EXCEPT ![n] = d],
           net' \in [Node -> SUBSET Event],
           \A p \in Node : Carried(net'[p], published),
           snap' \in [Node -> Snapshot],
           \A p \in Node : snap'[p].revs \subseteq published,
           used \subseteq used', used' \subseteq Stamp,
           ops' \in Nat, faults' \in Nat,
           UNCHANGED <<rolling, published>>,
           cut' \in [Node -> BOOLEAN], cut'[n] \/ Newest(d),
           \A p \in Node \ {n} : cut'[p] = cut[p]
    PROVE  ConfigInv'
<1>1. \A p \in Node : cfg'[p] = IF p = n THEN d ELSE cfg[p]
  BY DEF ConfigInv, TypeOK
<1>2. \A p \in Node : Sound(cfg'[p], published)
  BY <1>1 DEF ConfigInv
<1>3. cfg' \in [Node -> Scope]
  BY DEF Sound, ConfigInv, TypeOK
<1>4. TypeOK'
  BY <1>3 DEF ConfigInv, TypeOK
<1>5. \A p \in Node : cut'[p] \/ Newest(cfg'[p])
  BY <1>1 DEF ConfigInv
<1> QED
  BY <1>2, <1>4, <1>5 DEF ConfigInv

(* cut follows a change of a node's keys: unless its history went with an  *)
(* outer scope, the node's active revision is the newest or was so before  *)
(* and is the same.                                                        *)
LEMMA CutsInv ==
    ASSUME ConfigInv, NEW n \in Node, NEW d, NEW outer \in BOOLEAN,
           cfg' = [cfg EXCEPT ![n] = d], Cuts(n, outer),
           outer => d.active = cfg[n].active /\ d.hist = NoScope.hist,
           ~outer /\ (Newest(cfg[n]) \/ d.active # cfg[n].active) => Newest(d)
    PROVE  /\ cut' \in [Node -> BOOLEAN] /\ (cut'[n] \/ Newest(d))
           /\ \A p \in Node \ {n} : cut'[p] = cut[p]
<1>1. cut \in [Node -> BOOLEAN] /\ cfg \in [Node -> Scope] /\ (cut[n] \/ Newest(cfg[n]))
  BY DEF ConfigInv, TypeOK
<1>2. cfg'[n] = d
  BY <1>1
<1>3. CASE outer
  <2>1. cut' = [cut EXCEPT ![n] = cfg[n].active # Absent]
    BY <1>3 DEF Cuts
  <2> QED
    BY <1>1, <1>3, <2>1 DEF Newest, NoScope
<1>4. CASE ~outer
  <2>1. cut' = [cut EXCEPT ![n] = cut[n] /\ d.active = cfg[n].active]
    BY <1>2, <1>4 DEF Cuts
  <2> QED
    BY <1>1, <1>4, <2>1
<1> QED
  BY <1>3, <1>4

(* Emitting anything but a revision keeps the network traced.              *)
LEMMA EmitCarried ==
    ASSUME ConfigInv, NEW n \in Node, NEW type, NEW rec,
           [type |-> type, rec |-> rec] \in Event, type # "config.applied",
           Emit(n, type, rec)
    PROVE  /\ net' \in [Node -> SUBSET Event]
           /\ \A p \in Node : Carried(net'[p], published)
<1>1. net' \in [Node -> SUBSET Event]
  BY DEF Emit, ConfigInv, TypeOK
<1>2. ASSUME NEW p \in Node PROVE Carried(net'[p], published)
  <2>1. net'[p] \subseteq net[p] \union {[type |-> type, rec |-> rec]}
    BY DEF Emit
  <2>2. Carried(net[p], published)
    BY DEF ConfigInv
  <2> QED
    BY <2>1, <2>2 DEF Carried
<1> QED
  BY <1>1, <1>2

(* Delivery of any event under way keeps the receiver's keys sound.        *)
LEMMA AppliedSound ==
    ASSUME ConfigInv, NEW n \in Node, NEW ev \in net[n]
    PROVE  Sound(Applied(cfg[n], ev), published)
<1>1. /\ ev \in Event /\ Sound(cfg[n], published)
      /\ published \subseteq Revision /\ Unique(published)
  BY DEF ConfigInv, TypeOK
<1>2. CASE ev.type = "config.applied"
  <2>1. ev.rec \in published
    BY <1>2 DEF ConfigInv, Carried
  <2>2. Applied(cfg[n], ev) = PutRevisionRaw(cfg[n], ev.rec)
    BY <1>2 DEF Applied
  <2> QED
    BY <1>1, <2>1, <2>2, PutRevisionSound
<1>3. CASE ev.type = "config.draft.saved"
  <2>1. ev.rec \in Draft
    BY <1>1, <1>3 DEF Event
  <2>2. Applied(cfg[n], ev) = [cfg[n] EXCEPT !.draft = ev.rec]
    BY <1>3 DEF Applied, PutDraftRaw
  <2> QED
    BY <1>1, <2>1, <2>2, DraftSound
<1>4. CASE ev.type = "config.draft.deleted"
  <2>1. Applied(cfg[n], ev) = [cfg[n] EXCEPT !.draft = Absent]
    BY <1>4 DEF Applied
  <2> QED
    BY <1>1, <2>1, DraftSound
<1>5. CASE ev.type = "config.deleted"
  BY <1>5, NoScopeSound DEF Applied
<1>6. CASE ev.type = "outer.deleted"
  BY <1>1, <1>6, OuterDeletedSound DEF Applied
<1> QED
  BY <1>1, <1>2, <1>3, <1>4, <1>5, <1>6 DEF Event

(* What an event under way leaves of active being the newest entry, in the *)
(* terms of CutsInv.                                                       *)
LEMMA AppliedNewest ==
    ASSUME ConfigInv, NEW n \in Node, NEW ev \in net[n]
    PROVE  LET c == cfg[n]
               d == Applied(cfg[n], ev)
               outer == ev.type = "outer.deleted"
           IN  /\ outer => d.active = c.active /\ d.hist = NoScope.hist
               /\ ~outer /\ (Newest(c) \/ d.active # c.active) => Newest(d)
<1> DEFINE c == cfg[n]
           d == Applied(cfg[n], ev)
<1>1. /\ ev \in Event /\ Sound(c, published) /\ c \in Scope
      /\ published \subseteq Revision /\ Unique(published)
  BY DEF ConfigInv, TypeOK, Sound
<1>2. CASE ev.type = "config.applied"
  <2>1. ev.rec \in published
    BY <1>2 DEF ConfigInv, Carried
  <2>2. d = PutRevisionRaw(c, ev.rec)
    BY <1>2 DEF Applied
  <2> HIDE DEF c, d
  <2>3. Newest(c) \/ d.active # c.active => Newest(d)
    BY <1>1, <2>1, <2>2, PutRevisionNewest
  <2> QED
    BY <1>2, <2>3 DEF c, d
<1>3. CASE ev.type = "config.draft.saved" \/ ev.type = "config.draft.deleted"
  <2>1. PICK x : d = [c EXCEPT !.draft = x]
    BY <1>3 DEF Applied, PutDraftRaw
  <2>2. d.active = c.active /\ d.hist = c.hist
    BY <1>1, <2>1 DEF Scope
  <2> QED
    BY <1>3, <2>2 DEF Newest
<1>4. CASE ev.type = "config.deleted"
  <2>1. d = NoScope
    BY <1>4 DEF Applied
  <2> QED
    BY <1>4, <2>1 DEF Newest, NoScope
<1>5. CASE ev.type = "outer.deleted"
  <2>1. d = OuterDeleted(c)
    BY <1>5 DEF Applied
  <2>2. d.active = c.active /\ d.hist = NoScope.hist
    BY <1>1, <2>1 DEF OuterDeleted, Scope
  <2> QED
    BY <1>5, <2>2
<1> QED
  BY <1>1, <1>2, <1>3, <1>4, <1>5 DEF Event

(* Every step of the specification preserves the invariant.                *)
LEMMA NextInv == ConfigInv /\ [Next]_vars => ConfigInv'
<1> SUFFICES ASSUME ConfigInv, [Next]_vars PROVE ConfigInv'
  OBVIOUS
<1>0. TypeOK /\ published \subseteq Revision /\ Unique(published)
  BY DEF ConfigInv, TypeOK
<1>d. ASSUME NEW c \in Scope, NEW x, Newest(c) PROVE Newest([c EXCEPT !.draft = x])
  BY <1>d DEF Newest, Scope
<1>1. ASSUME NEW n \in Node, NEW ts \in Readings, NEW block \in Vars,
             ApplyConfig(n, block, ts)
      PROVE  ConfigInv'
  <2>1. /\ UNCHANGED <<snap, rolling, faults>> /\ Publish(n, block, ts)
        /\ ops' \in Nat /\ rolling' \in [Node -> Vars \union {Absent}]
    BY <1>0, <1>1 DEF ApplyConfig, Counted, TypeOK
  <2> QED
    BY <2>1, PublishInv
<1>2. ASSUME NEW n \in Node, NEW ts \in Readings, NEW block \in Vars,
             PutDraft(n, block, ts)
      PROVE  ConfigInv'
  <2> DEFINE d == [vars |-> block, base |-> BaseRevision(cfg[n]), stamp |-> ts]
  <2>1. Sound(cfg[n], published)
    BY DEF ConfigInv
  <2>2. ts \in Stamp
    BY DEF Readings
  <2>3. BaseRevision(cfg[n]) \in 0..MaxRev
    BY <2>1, ConfigAssumption DEF BaseRevision, Sound, Scope, Revision, RevNo
  <2>4. d \in Draft
    BY <2>2, <2>3 DEF Draft
  <2>5. Sound([cfg[n] EXCEPT !.draft = d], published)
    BY <2>1, <2>4, DraftSound
  <2>6. /\ net' \in [Node -> SUBSET Event]
        /\ \A p \in Node : Carried(net'[p], published)
    <3>1. [type |-> "config.draft.saved", rec |-> d] \in Event
      BY <2>4 DEF Event
    <3>2. Emit(n, "config.draft.saved", d)
      BY <1>2 DEF PutDraft
    <3> QED
      BY <3>1, <3>2, EmitCarried
  <2>7. cfg' = [cfg EXCEPT ![n] = [cfg[n] EXCEPT !.draft = d]]
    BY <1>2 DEF PutDraft
  <2>8. /\ snap' \in [Node -> Snapshot]
        /\ \A p \in Node : snap'[p].revs \subseteq published
        /\ used \subseteq used' /\ used' \subseteq Stamp
        /\ ops' \in Nat /\ faults' \in Nat
        /\ UNCHANGED <<rolling, published, cut>>
    BY <1>0, <1>2, <2>2 DEF PutDraft, Counted, TypeOK, ConfigInv
  <2>9. cut[n] \/ Newest([cfg[n] EXCEPT !.draft = d])
    BY <2>1, <1>d DEF ConfigInv, Sound
  <2> QED
    BY <1>0, <2>5, <2>6, <2>7, <2>8, <2>9, KeysInv DEF TypeOK
<1>3. ASSUME NEW n \in Node, NEW ts \in Readings, RollbackApply(n, ts)
      PROVE  ConfigInv'
  <2>1. /\ UNCHANGED <<snap, faults>> /\ Publish(n, rolling[n], ts)
        /\ rolling[n] \in Vars /\ ops' \in Nat
        /\ rolling' \in [Node -> Vars \union {Absent}]
    BY <1>0, <1>3 DEF RollbackApply, TypeOK
  <2> QED
    BY <2>1, PublishInv
<1>4. ASSUME NEW n \in Node, NEW r \in RevNo, RollbackRead(n, r)
      PROVE  ConfigInv'
  <2>1. cfg[n].hist[r].vars \in Vars
    BY <1>0, <1>4 DEF RollbackRead, TypeOK, Scope, Revision
  <2>2. TypeOK'
    BY <1>0, <1>4, <2>1 DEF RollbackRead, Counted, TypeOK
  <2> QED
    BY <1>4, <2>2 DEF RollbackRead, ConfigInv
<1>5. ASSUME NEW n \in Node, DeleteDraft(n)
      PROVE  ConfigInv'
  <2>1. Sound([cfg[n] EXCEPT !.draft = Absent], published)
    BY DraftSound DEF ConfigInv
  <2>2. /\ net' \in [Node -> SUBSET Event]
        /\ \A p \in Node : Carried(net'[p], published)
    <3>1. [type |-> "config.draft.deleted", rec |-> Absent] \in Event
      BY DEF Event
    <3>2. Emit(n, "config.draft.deleted", Absent)
      BY <1>5 DEF DeleteDraft
    <3> QED
      BY <3>1, <3>2, EmitCarried
  <2>3. cfg' = [cfg EXCEPT ![n] = [cfg[n] EXCEPT !.draft = Absent]]
    BY <1>5 DEF DeleteDraft
  <2>4. /\ snap' \in [Node -> Snapshot]
        /\ \A p \in Node : snap'[p].revs \subseteq published
        /\ used \subseteq used' /\ used' \subseteq Stamp
        /\ ops' \in Nat /\ faults' \in Nat
        /\ UNCHANGED <<rolling, published, cut>>
    BY <1>0, <1>5 DEF DeleteDraft, Counted, TypeOK, ConfigInv
  <2>5. cut[n] \/ Newest([cfg[n] EXCEPT !.draft = Absent])
    BY <1>d DEF ConfigInv, Sound
  <2> QED
    BY <1>0, <2>1, <2>2, <2>3, <2>4, <2>5, KeysInv DEF TypeOK
<1>6. ASSUME NEW n \in Node, DeleteConfigScope(n)
      PROVE  ConfigInv'
  <2>1. /\ net' \in [Node -> SUBSET Event]
        /\ \A p \in Node : Carried(net'[p], published)
    <3>1. [type |-> "config.deleted", rec |-> Absent] \in Event
      BY DEF Event
    <3>2. Emit(n, "config.deleted", Absent)
      BY <1>6 DEF DeleteConfigScope
    <3> QED
      BY <3>1, <3>2, EmitCarried
  <2>2. cfg' = [cfg EXCEPT ![n] = NoScope]
    BY <1>6 DEF DeleteConfigScope
  <2>3. /\ snap' \in [Node -> Snapshot]
        /\ \A p \in Node : snap'[p].revs \subseteq published
        /\ used \subseteq used' /\ used' \subseteq Stamp
        /\ ops' \in Nat /\ faults' \in Nat
        /\ UNCHANGED <<rolling, published>>
    BY <1>0, <1>6 DEF DeleteConfigScope, Counted, TypeOK, ConfigInv
  <2>4. Cuts(n, FALSE) /\ Newest(NoScope)
    BY <1>6 DEF DeleteConfigScope, Newest, NoScope
  <2>5. /\ cut' \in [Node -> BOOLEAN] /\ (cut'[n] \/ Newest(NoScope))
        /\ \A p \in Node \ {n} : cut'[p] = cut[p]
    BY <2>2, <2>4, CutsInv
  <2> QED
    BY <2>1, <2>2, <2>3, <2>5, NoScopeSound, KeysInv
<1>6o. ASSUME NEW n \in Node, DeleteOuterScope(n)
      PROVE  ConfigInv'
  <2>1. /\ net' \in [Node -> SUBSET Event]
        /\ \A p \in Node : Carried(net'[p], published)
    <3>1. [type |-> "outer.deleted", rec |-> Absent] \in Event
      BY DEF Event
    <3>2. Emit(n, "outer.deleted", Absent)
      BY <1>6o DEF DeleteOuterScope
    <3> QED
      BY <3>1, <3>2, EmitCarried
  <2>2. cfg' = [cfg EXCEPT ![n] = OuterDeleted(cfg[n])] /\ Cuts(n, TRUE)
    BY <1>6o DEF DeleteOuterScope
  <2>3. /\ snap' \in [Node -> Snapshot]
        /\ \A p \in Node : snap'[p].revs \subseteq published
        /\ used \subseteq used' /\ used' \subseteq Stamp
        /\ ops' \in Nat /\ faults' \in Nat
        /\ UNCHANGED <<rolling, published>>
    BY <1>0, <1>6o DEF DeleteOuterScope, Counted, TypeOK, ConfigInv
  <2>4. /\ Sound(OuterDeleted(cfg[n]), published)
        /\ OuterDeleted(cfg[n]).active = cfg[n].active
        /\ OuterDeleted(cfg[n]).hist = NoScope.hist
    BY OuterDeletedSound DEF ConfigInv, Sound, Scope, OuterDeleted
  <2>5. /\ cut' \in [Node -> BOOLEAN] /\ (cut'[n] \/ Newest(OuterDeleted(cfg[n])))
        /\ \A p \in Node \ {n} : cut'[p] = cut[p]
    BY <2>2, <2>4, CutsInv
  <2> QED
    BY <2>1, <2>2, <2>3, <2>4, <2>5, KeysInv
<1>7. ASSUME NEW n \in Node, NEW ev \in net[n], NEW copy \in BOOLEAN,
             Deliver(n, ev, copy)
      PROVE  ConfigInv'
  <2>1. Sound(Applied(cfg[n], ev), published)
    BY AppliedSound
  <2>2. net' \in [Node -> SUBSET Event] /\ \A p \in Node : net'[p] \subseteq net[p]
    BY <1>0, <1>7 DEF Deliver, TypeOK
  <2>3. \A p \in Node : Carried(net'[p], published)
    BY <2>2 DEF Carried, ConfigInv
  <2>4. faults' \in Nat
    BY <1>0, <1>7 DEF Deliver, TypeOK
  <2>5. cfg' = [cfg EXCEPT ![n] = Applied(cfg[n], ev)]
    BY <1>7 DEF Deliver
  <2>6. /\ snap' \in [Node -> Snapshot]
        /\ \A p \in Node : snap'[p].revs \subseteq published
        /\ used \subseteq used' /\ used' \subseteq Stamp
        /\ ops' \in Nat
        /\ UNCHANGED <<rolling, published>>
    BY <1>0, <1>7 DEF Deliver, TypeOK, ConfigInv
  <2>7. Cuts(n, ev.type = "outer.deleted")
    BY <1>7 DEF Deliver
  <2>8. /\ cut' \in [Node -> BOOLEAN] /\ (cut'[n] \/ Newest(Applied(cfg[n], ev)))
        /\ \A p \in Node \ {n} : cut'[p] = cut[p]
    BY <2>5, <2>7, AppliedNewest, CutsInv
  <2> QED
    BY <2>1, <2>2, <2>3, <2>4, <2>5, <2>6, <2>8, KeysInv
<1>8. ASSUME NEW n \in Node, NEW p \in Node, Pull(n, p)
      PROVE  ConfigInv'
  <2>1. cfg[p] \in Scope /\ Traced(cfg[p], published)
    BY DEF ConfigInv, Sound
  <2>2. History(cfg[p]) \subseteq published
    BY <2>1 DEF History, Traced
  <2>3. [revs |-> History(cfg[p]), draft |-> cfg[p].draft] \in Snapshot
    BY <1>0, <2>1, <2>2 DEF Snapshot, Scope
  <2>4. /\ snap' = [snap EXCEPT ![n] = [revs |-> History(cfg[p]), draft |-> cfg[p].draft]]
        /\ UNCHANGED <<cfg, net, rolling, used, ops, faults, published, cut>>
    BY <1>8 DEF Pull
  <2>5. TypeOK'
    BY <1>0, <2>3, <2>4 DEF TypeOK
  <2>6. \A q \in Node : snap'[q].revs \subseteq published
    BY <1>0, <2>2, <2>4 DEF ConfigInv, TypeOK
  <2> QED
    BY <2>4, <2>5, <2>6 DEF ConfigInv
<1>9. ASSUME NEW n \in Node, NEW rev \in snap[n].revs, ApplySnapshotRev(n, rev)
      PROVE  ConfigInv'
  <2>1. rev \in published /\ Sound(cfg[n], published)
    BY DEF ConfigInv
  <2>2. Sound(PutRevisionRaw(cfg[n], rev), published)
    BY <1>0, <2>1, PutRevisionSound
  <2>3. cfg' = [cfg EXCEPT ![n] = PutRevisionRaw(cfg[n], rev)]
    BY <1>9 DEF ApplySnapshotRev
  <2>4. /\ snap' \in [Node -> Snapshot]
        /\ \A p \in Node : snap'[p].revs \subseteq snap[p].revs
    BY <1>0, <1>9 DEF ApplySnapshotRev, TypeOK, Snapshot
  <2>5. \A p \in Node : snap'[p].revs \subseteq published
    BY <2>4 DEF ConfigInv
  <2>6. /\ net' \in [Node -> SUBSET Event]
        /\ \A p \in Node : Carried(net'[p], published)
        /\ used \subseteq used' /\ used' \subseteq Stamp
        /\ ops' \in Nat /\ faults' \in Nat
        /\ UNCHANGED <<rolling, published>>
    BY <1>0, <1>9 DEF ApplySnapshotRev, TypeOK, ConfigInv
  <2>7. Cuts(n, FALSE)
    BY <1>9 DEF ApplySnapshotRev
  <2>8. Newest(cfg[n]) \/ PutRevisionRaw(cfg[n], rev).active # cfg[n].active
          => Newest(PutRevisionRaw(cfg[n], rev))
    BY <1>0, <2>1, PutRevisionNewest
  <2>9. /\ cut' \in [Node -> BOOLEAN] /\ (cut'[n] \/ Newest(PutRevisionRaw(cfg[n], rev)))
        /\ \A p \in Node \ {n} : cut'[p] = cut[p]
    BY <2>3, <2>7, <2>8, CutsInv
  <2> QED
    BY <2>2, <2>3, <2>4, <2>5, <2>6, <2>9, KeysInv
<1>10. ASSUME NEW n \in Node, ApplySnapshotDraft(n)
       PROVE  ConfigInv'
  <2>1. snap[n].draft \in Draft /\ NothingLeft \in Snapshot
    BY <1>0, <1>10 DEF ApplySnapshotDraft, TypeOK, Snapshot, NothingLeft
  <2>2. Sound([cfg[n] EXCEPT !.draft = snap[n].draft], published)
    BY <2>1, DraftSound DEF ConfigInv
  <2>3. cfg' = [cfg EXCEPT ![n] = [cfg[n] EXCEPT !.draft = snap[n].draft]]
    BY <1>10 DEF ApplySnapshotDraft, PutDraftRaw
  <2>4. /\ snap' \in [Node -> Snapshot]
        /\ \A p \in Node : snap'[p].revs \subseteq published
    BY <1>0, <1>10, <2>1 DEF ApplySnapshotDraft, TypeOK, ConfigInv, NothingLeft
  <2>5. /\ net' \in [Node -> SUBSET Event]
        /\ \A p \in Node : Carried(net'[p], published)
        /\ used \subseteq used' /\ used' \subseteq Stamp
        /\ ops' \in Nat /\ faults' \in Nat
        /\ UNCHANGED <<rolling, published, cut>>
    BY <1>0, <1>10 DEF ApplySnapshotDraft, TypeOK, ConfigInv
  <2>6. cut[n] \/ Newest([cfg[n] EXCEPT !.draft = snap[n].draft])
    BY <1>d DEF ConfigInv, Sound
  <2> QED
    BY <1>0, <2>2, <2>3, <2>4, <2>5, <2>6, KeysInv DEF TypeOK
<1>11. ASSUME NEW n \in Node, Restart(n)
       PROVE  ConfigInv'
  <2>1. NothingLeft \in Snapshot /\ NothingLeft.revs = {}
    BY DEF NothingLeft, Snapshot
  <2>2. TypeOK'
    BY <1>0, <1>11, <2>1 DEF Restart, TypeOK
  <2>3. \A p \in Node : snap'[p].revs \subseteq published
    BY <1>0, <1>11, <2>1 DEF Restart, ConfigInv, TypeOK
  <2> QED
    BY <1>11, <2>2, <2>3 DEF Restart, ConfigInv
<1>12. CASE UNCHANGED vars
  BY <1>12 DEF vars, ConfigInv, TypeOK
<1> QED
  BY <1>1, <1>2, <1>3, <1>4, <1>5, <1>6, <1>6o, <1>7, <1>8, <1>9, <1>10, <1>11, <1>12
  DEF Next, ApplySnapshot

-----------------------------------------------------------------------------
(* The inductive invariant holds throughout.                               *)
THEOREM ConfigInvariant == Spec => []ConfigInv
<1>1. Init => ConfigInv
  BY InitInv
<1>2. ConfigInv /\ [Next]_vars => ConfigInv'
  BY NextInv
<1> QED
  BY <1>1, <1>2, PTL DEF Spec

(* On every node, and in whatever order revisions arrive, what clients     *)
(* read is the newest entry of the history (ApplyConfig and                *)
(* putConfigRevisionRaw keep the two keys in step).                        *)
THEOREM ActiveNewest == Spec => []ActiveIsNewest
<1>1. ConfigInv => ActiveIsNewest
  BY DEF ConfigInv, ActiveIsNewest
<1> QED
  BY <1>1, ConfigInvariant, PTL

(* Type correctness.                                                       *)
THEOREM TypeCorrect == Spec => []TypeOK
<1>1. ConfigInv => TypeOK
  BY DEF ConfigInv
<1> QED
  BY <1>1, ConfigInvariant, PTL

(* Storing a revision that came from a peer moves active forward or not at *)
(* all.                                                                    *)
LEMMA PutRevisionForward ==
    ASSUME NEW c \in Scope, NEW rev \in Revision
    PROVE  Forward(c, PutRevisionRaw(c, rev))
<1> DEFINE d == PutRevisionRaw(c, rev)
<1>1. d.active = c.active \/ (d.active = rev /\ Advances(c, rev))
  BY DEF PutRevisionRaw, Scope
<1> QED
  BY <1>1 DEF Forward, Advances

(* Publishing takes the next number.                                       *)
LEMMA PublishForward ==
    ASSUME NEW c \in Scope, NEW rev, rev.rev = NextNo(c)
    PROVE  Forward(c, ApplyTx(c, rev))
<1>1. ApplyTx(c, rev).active = rev
  BY DEF ApplyTx
<1>2. c.active # Absent => c.active.rev \in Nat /\ rev.rev = c.active.rev + 1
  BY DEF NextNo, Scope, Revision, RevNo
<1> QED
  BY <1>1, <1>2 DEF Forward

(* One step changes the keys of one node at most, and moves its active     *)
(* revision forward.                                                       *)
LEMMA StepForward ==
    ASSUME ConfigInv, [Next]_vars, NEW p \in Node
    PROVE  Forward(cfg[p], cfg'[p])
<1>0. cfg \in [Node -> Scope] /\ cfg[p] \in Scope
  BY DEF ConfigInv, TypeOK
<1>1. CASE cfg'[p] = cfg[p]
  BY <1>1 DEF Forward
<1>2. ASSUME NEW ts \in Readings, NEW block, Publish(p, block, ts)
      PROVE  Forward(cfg[p], cfg'[p])
  <2> DEFINE rev == [rev |-> NextNo(cfg[p]), vars |-> block, stamp |-> ts]
  <2>1. cfg'[p] = ApplyTx(cfg[p], rev)
    BY <1>0, <1>2 DEF Publish
  <2> QED
    BY <1>0, <2>1, PublishForward
<1>3. ASSUME cfg'[p].active = cfg[p].active \/ cfg'[p].active = Absent
      PROVE  Forward(cfg[p], cfg'[p])
  BY <1>3 DEF Forward
<1>4. ASSUME NEW rev \in Revision, cfg'[p] = PutRevisionRaw(cfg[p], rev)
      PROVE  Forward(cfg[p], cfg'[p])
  BY <1>0, <1>4, PutRevisionForward
<1>5. ASSUME NEW ts \in Readings, NEW block \in Vars,
             ApplyConfig(p, block, ts) \/ PutDraft(p, block, ts) \/ RollbackApply(p, ts)
      PROVE  Forward(cfg[p], cfg'[p])
  <2>1. CASE ApplyConfig(p, block, ts)
    BY <1>2, <2>1 DEF ApplyConfig
  <2>2. CASE PutDraft(p, block, ts)
    BY <1>0, <1>3, <2>2 DEF PutDraft, Scope
  <2>3. CASE RollbackApply(p, ts)
    BY <1>2, <2>3 DEF RollbackApply
  <2> QED
    BY <1>5, <2>1, <2>2, <2>3
<1>6. ASSUME DeleteDraft(p) \/ DeleteConfigScope(p) \/ DeleteOuterScope(p)
      PROVE  Forward(cfg[p], cfg'[p])
  <2>1. CASE DeleteDraft(p)
    <3>1. cfg'[p] = [cfg[p] EXCEPT !.draft = Absent]
      BY <1>0, <2>1 DEF DeleteDraft
    <3> QED
      BY <1>0, <1>3, <3>1 DEF Scope
  <2>3. CASE DeleteConfigScope(p)
    BY <1>0, <1>3, <2>3 DEF DeleteConfigScope, NoScope
  <2>2. CASE DeleteOuterScope(p)
    BY <1>0, <1>3, <2>2, OuterDeletedActive DEF DeleteOuterScope
  <2> QED
    BY <1>6, <2>1, <2>2, <2>3
<1>7. ASSUME NEW ev \in net[p], NEW copy \in BOOLEAN, Deliver(p, ev, copy)
      PROVE  Forward(cfg[p], cfg'[p])
  <2>1. cfg'[p] = Applied(cfg[p], ev) /\ ev \in Event
    BY <1>0, <1>7 DEF Deliver, ConfigInv, TypeOK
  <2>2. CASE ev.type = "config.applied"
    BY <1>4, <2>1, <2>2 DEF Applied, Event
  <2>3. CASE ev.type # "config.applied"
    BY <1>0, <1>3, <2>1, <2>3 DEF Applied, Event, PutDraftRaw, OuterDeleted, NoScope, Scope
  <2> QED
    BY <2>2, <2>3
<1>8. ASSUME NEW rev \in snap[p].revs, ApplySnapshotRev(p, rev)
      PROVE  Forward(cfg[p], cfg'[p])
  <2>1. cfg'[p] = PutRevisionRaw(cfg[p], rev) /\ rev \in Revision
    BY <1>0, <1>8 DEF ApplySnapshotRev, ConfigInv, TypeOK, Snapshot
  <2> QED
    BY <1>4, <2>1
<1>9. ASSUME ApplySnapshotDraft(p)
      PROVE  Forward(cfg[p], cfg'[p])
  BY <1>0, <1>3, <1>9 DEF ApplySnapshotDraft, PutDraftRaw, Scope
<1>10. ASSUME NEW n \in Node, n # p,
              \/ \E ts \in Readings :
                    \/ \E block \in Vars : ApplyConfig(n, block, ts)
                    \/ \E block \in Vars : PutDraft(n, block, ts)
                    \/ RollbackApply(n, ts)
              \/ DeleteDraft(n) \/ DeleteConfigScope(n) \/ DeleteOuterScope(n)
              \/ \E ev \in net[n], copy \in BOOLEAN : Deliver(n, ev, copy)
              \/ ApplySnapshot(n)
       PROVE  cfg'[p] = cfg[p]
  BY <1>0, <1>10 DEF ApplyConfig, PutDraft, RollbackApply, Publish, DeleteDraft,
     DeleteConfigScope, DeleteOuterScope, Deliver, ApplySnapshot, ApplySnapshotRev,
     ApplySnapshotDraft
<1>11. ASSUME NEW n \in Node,
              \/ \E r \in RevNo : RollbackRead(n, r)
              \/ \E q \in Node : Pull(n, q)
              \/ Restart(n)
       PROVE  cfg'[p] = cfg[p]
  BY <1>11 DEF RollbackRead, Pull, Restart
<1>12. CASE UNCHANGED vars
  BY <1>1, <1>12 DEF vars
<1>13. CASE Next
  <2> PICK n \in Node :
          \/ \E ts \in Readings :
                \/ \E block \in Vars : ApplyConfig(n, block, ts)
                \/ \E block \in Vars : PutDraft(n, block, ts)
                \/ RollbackApply(n, ts)
          \/ \E r \in RevNo : RollbackRead(n, r)
          \/ DeleteDraft(n)
          \/ DeleteConfigScope(n)
          \/ DeleteOuterScope(n)
          \/ \E ev \in net[n], copy \in BOOLEAN : Deliver(n, ev, copy)
          \/ \E q \in Node : Pull(n, q)
          \/ ApplySnapshot(n)
          \/ Restart(n)
    BY <1>13 DEF Next
  <2>1. CASE n # p
    BY <1>1, <1>10, <1>11, <2>1
  <2>2. CASE n = p
    BY <1>1, <1>5, <1>6, <1>7, <1>8, <1>9, <1>11, <2>2, <1>2
    DEF ApplySnapshot, RollbackApply
  <2> QED
    BY <2>1, <2>2
<1> QED
  BY <1>12, <1>13

(* No message or snapshot, however late, takes a node's clients back to an *)
(* earlier revision.                                                       *)
THEOREM ActiveForward == Spec => NeverBackwards
<1>1. ConfigInv /\ [Next]_vars => [\A n \in Node : Forward(cfg[n], cfg'[n])]_vars
  BY StepForward
<1> QED
  BY <1>1, ConfigInvariant, PTL DEF Spec, NeverBackwards

-----------------------------------------------------------------------------
(* Arrival of revisions.                                                   *)

\* History already has a later revision of the same number.
Superseded(c, rev) == c.hist[rev.rev] # Absent /\ c.hist[rev.rev].stamp > rev.stamp

(* On sound keys the two rules of putConfigRevisionRaw act independently:  *)
(* a revision that history does not keep would not have become active.     *)
LEMMA PutRevisionIs ==
    ASSUME NEW pub, pub \subseteq Revision, NEW c, Sound(c, pub), NEW rev \in pub
    PROVE  PutRevisionRaw(c, rev) =
             [active |-> IF Advances(c, rev) THEN rev ELSE c.active,
              hist   |-> [c.hist EXCEPT ![rev.rev] =
                             IF Superseded(c, rev) THEN @ ELSE rev],
              draft  |-> c.draft]
<1>1. rev \in Revision /\ rev.rev \in RevNo /\ rev.rev \in Nat /\ rev.stamp \in Nat
  BY DEF Revision, Stamp, RevNo
<1>2. c \in Scope /\ Bounded(c) /\ Traced(c, pub)
  BY DEF Sound
<1>3. Superseded(c, rev) => ~Advances(c, rev)
  <2> SUFFICES ASSUME Superseded(c, rev), Advances(c, rev) PROVE FALSE
    OBVIOUS
  <2>1. /\ c.active # Absent /\ rev.rev <= c.active.rev
        /\ rev.rev = c.active.rev => c.hist[rev.rev].stamp <= c.active.stamp
    BY <1>1, <1>2 DEF Superseded, Bounded
  <2>2. c.active \in Revision /\ c.hist[rev.rev] \in Revision
    BY <1>1, <1>2, <2>1 DEF Scope, Superseded
  <2>3. /\ c.active.rev \in Nat /\ c.active.stamp \in Nat
        /\ c.hist[rev.rev].stamp \in Nat
    BY <2>2 DEF Revision, RevNo, Stamp
  <2>4. rev.rev = c.active.rev /\ rev.stamp > c.active.stamp
    BY <1>1, <2>1, <2>3 DEF Advances
  <2>5. c.hist[rev.rev].stamp > rev.stamp
    BY DEF Superseded
  <2> QED
    BY <1>1, <2>1, <2>3, <2>4, <2>5
<1>4. CASE Superseded(c, rev)
  BY <1>2, <1>3, <1>4 DEF PutRevisionRaw, Superseded, Scope
<1>5. CASE ~Superseded(c, rev)
  BY <1>2, <1>5 DEF PutRevisionRaw, Superseded, Scope
<1> QED
  BY <1>4, <1>5

(* The same revision again changes nothing.                                *)
LEMMA PutRevisionTwice ==
    ASSUME NEW pub, pub \subseteq Revision, Unique(pub),
           NEW c, Sound(c, pub), NEW rev \in pub
    PROVE  PutRevisionRaw(PutRevisionRaw(c, rev), rev) = PutRevisionRaw(c, rev)
<1> DEFINE d == PutRevisionRaw(c, rev)
<1>1. Sound(d, pub)
  BY PutRevisionSound
<1>2. /\ d = [active |-> IF Advances(c, rev) THEN rev ELSE c.active,
              hist   |-> [c.hist EXCEPT ![rev.rev] =
                             IF Superseded(c, rev) THEN @ ELSE rev],
              draft  |-> c.draft]
      /\ PutRevisionRaw(d, rev) =
             [active |-> IF Advances(d, rev) THEN rev ELSE d.active,
              hist   |-> [d.hist EXCEPT ![rev.rev] =
                             IF Superseded(d, rev) THEN @ ELSE rev],
              draft  |-> d.draft]
  BY <1>1, PutRevisionIs
<1>3. rev.rev \in RevNo /\ rev.rev \in Nat /\ rev.stamp \in Nat /\ rev # Absent
  BY AbsentFacts DEF Revision, Stamp, RevNo
<1> HIDE DEF d
<1>4. ~Advances(d, rev) \/ d.active = rev
  BY <1>2, <1>3 DEF Advances
<1>5. Superseded(d, rev) \/ d.hist[rev.rev] = rev
  BY <1>2, <1>3 DEF Superseded, Sound, Scope
<1>6. [d.hist EXCEPT ![rev.rev] = IF Superseded(d, rev) THEN @ ELSE rev] = d.hist
  BY <1>1, <1>3, <1>5 DEF Sound, Scope
<1> QED
  BY <1>1, <1>2, <1>4, <1>6 DEF Sound, Scope, d

\* Which of two published revisions, or of one and Absent, is to be active.
Better(x, rev) == IF \/ x = Absent
                     \/ rev.rev > x.rev
                     \/ rev.rev = x.rev /\ rev.stamp > x.stamp
                  THEN rev ELSE x

\* Which one history keeps under a number.
Kept(x, rev) == IF x # Absent /\ x.stamp > rev.stamp THEN x ELSE rev

\* d is c with these two for rev.
Maximal(c, rev, d) ==
    /\ d.active = Better(c.active, rev) /\ d.draft = c.draft
    /\ \A r \in RevNo :
          d.hist[r] = IF r = rev.rev THEN Kept(c.hist[r], rev) ELSE c.hist[r]

(* Both are maxima, since a stamp identifies a revision.                   *)
LEMMA MaximaCommute ==
    ASSUME NEW pub, pub \subseteq Revision, Unique(pub),
           NEW x \in pub \union {Absent}, NEW a \in pub, NEW b \in pub
    PROVE  /\ Better(Better(x, a), b) = Better(Better(x, b), a)
           /\ Kept(Kept(x, a), b) = Kept(Kept(x, b), a)
<1>1. \A r \in pub : r.rev \in Nat /\ r.stamp \in Nat /\ r # Absent
  BY AbsentFacts DEF Revision, RevNo, Stamp
<1>2. \A r, q \in pub : r.stamp = q.stamp => r = q
  BY DEF Unique
<1>3. CASE x = Absent
  BY <1>1, <1>2, <1>3 DEF Better, Kept
<1>4. CASE x \in pub
  BY <1>1, <1>2, <1>4 DEF Better, Kept
<1> QED
  BY <1>3, <1>4

(* Storing a revision is taking the maxima.                                *)
LEMMA PutRevisionMaxima ==
    ASSUME NEW pub, pub \subseteq Revision, NEW c, Sound(c, pub), NEW rev \in pub
    PROVE  Maximal(c, rev, PutRevisionRaw(c, rev))
<1>1. c \in Scope /\ rev.rev \in RevNo
  BY DEF Sound, Revision
<1>2. PICK d : d = PutRevisionRaw(c, rev)
  OBVIOUS
<1>3. /\ d.active = IF Advances(c, rev) THEN rev ELSE c.active
      /\ d.hist = [c.hist EXCEPT ![rev.rev] = IF Superseded(c, rev) THEN @ ELSE rev]
      /\ d.draft = c.draft
  <2>1. d = [active |-> IF Advances(c, rev) THEN rev ELSE c.active,
             hist   |-> [c.hist EXCEPT ![rev.rev] =
                            IF Superseded(c, rev) THEN @ ELSE rev],
             draft  |-> c.draft]
    BY <1>2, PutRevisionIs
  <2> QED
    BY <2>1
<1>4. d.active = Better(c.active, rev)
  BY <1>3 DEF Advances, Better
<1>5. ASSUME NEW r \in RevNo
      PROVE  d.hist[r] = IF r = rev.rev THEN Kept(c.hist[r], rev) ELSE c.hist[r]
  <2>1. c.hist \in [RevNo -> Revision \union {Absent}]
    BY <1>1 DEF Scope
  <2> QED
    BY <1>1, <1>3, <2>1 DEF Superseded, Kept
<1> QED
  BY <1>2, <1>3, <1>4, <1>5 DEF Maximal

(* Two revisions may arrive in either order.                               *)
LEMMA PutRevisionsCommute ==
    ASSUME NEW pub, pub \subseteq Revision, Unique(pub),
           NEW c, Sound(c, pub), NEW a \in pub, NEW b \in pub
    PROVE  PutRevisionRaw(PutRevisionRaw(c, a), b) = PutRevisionRaw(PutRevisionRaw(c, b), a)
<1> DEFINE ca == PutRevisionRaw(c, a)
           cb == PutRevisionRaw(c, b)
           ab == PutRevisionRaw(ca, b)
           ba == PutRevisionRaw(cb, a)
<1>1. Sound(ca, pub) /\ Sound(cb, pub)
  BY PutRevisionSound
<1>2. Sound(ab, pub) /\ Sound(ba, pub)
  BY <1>1, PutRevisionSound
<1>3. /\ Maximal(c, a, ca) /\ Maximal(ca, b, ab)
      /\ Maximal(c, b, cb) /\ Maximal(cb, a, ba)
  BY <1>1, PutRevisionMaxima
<1>5. /\ c.active \in pub \union {Absent}
      /\ \A r \in RevNo : c.hist[r] \in pub \union {Absent}
  BY DEF Sound, Traced
<1> HIDE DEF ca, cb, ab, ba
<1>6. ab.active = ba.active /\ ab.draft = ba.draft
  BY <1>3, <1>5, MaximaCommute DEF Maximal
<1>7. ASSUME NEW r \in RevNo PROVE ab.hist[r] = ba.hist[r]
  <2>1. PICK x \in pub \union {Absent} : x = c.hist[r]
    BY <1>5
  <2>2. Kept(Kept(x, a), b) = Kept(Kept(x, b), a)
    BY MaximaCommute
  <2> QED
    BY <1>3, <2>1, <2>2 DEF Maximal
<1>8. ab \in Scope /\ ba \in Scope
  BY <1>2 DEF Sound
<1>9. ab.hist = ba.hist
  BY <1>7, <1>8 DEF Scope
<1>10. ab = ba
  BY <1>6, <1>8, <1>9 DEF Scope
<1> QED
  BY <1>10 DEF ab, ba, ca, cb

(* putConfigRevisionRaw: neither the order in which revisions arrive nor   *)
(* how often they do makes a difference, whatever a node has stored.       *)
THEOREM ArrivalsCommute == Spec => []ArrivalOrderIrrelevant
<1>1. ConfigInv => ArrivalOrderIrrelevant
  <2> SUFFICES ASSUME ConfigInv, NEW n \in Node, NEW a \in published, NEW b \in published
               PROVE  /\ PutRevisionRaw(PutRevisionRaw(cfg[n], a), b)
                            = PutRevisionRaw(PutRevisionRaw(cfg[n], b), a)
                      /\ PutRevisionRaw(PutRevisionRaw(cfg[n], a), a)
                            = PutRevisionRaw(cfg[n], a)
    BY DEF ArrivalOrderIrrelevant
  <2>1. published \subseteq Revision /\ Unique(published) /\ Sound(cfg[n], published)
    BY DEF ConfigInv, TypeOK
  <2> QED
    BY <2>1, PutRevisionsCommute, PutRevisionTwice
<1> QED
  BY <1>1, ConfigInvariant, PTL

-----------------------------------------------------------------------------
(* Anti-entropy.                                                           *)

(* A revision of the peer's history that changes nothing is in the node's  *)
(* history, or a later one of the same number is.                          *)
LEMMA LearnsNothing ==
    ASSUME ConfigInv, NEW n \in Node, NEW p \in Node, NothingToLearn(n, p),
           NEW r \in RevNo, cfg[p].hist[r] # Absent
    PROVE  /\ cfg[n].hist[r] # Absent
           /\ cfg[n].hist[r].stamp >= cfg[p].hist[r].stamp
<1> DEFINE c == cfg[n]
           rev == cfg[p].hist[r]
<1>1. Sound(cfg[n], published) /\ Sound(cfg[p], published) /\ published \subseteq Revision
  BY DEF ConfigInv, TypeOK
<1>2. rev \in published /\ rev.rev = r /\ rev \in History(cfg[p])
  BY <1>1 DEF Sound, Traced, History
<1>3. rev.stamp \in Nat /\ rev # Absent
  BY <1>1, <1>2, AbsentFacts DEF Revision, Stamp
<1>4. PutRevisionRaw(c, rev) = c
  BY <1>2 DEF NothingToLearn
<1> HIDE DEF rev, c
<1>5. Maximal(c, rev, c)
  BY <1>1, <1>2, <1>4, PutRevisionMaxima DEF c
<1>6. c.hist[r] = Kept(c.hist[r], rev)
  BY <1>2, <1>5 DEF Maximal
<1>7. c.hist[r] \in published \union {Absent}
  BY <1>1 DEF c, Sound, Traced
<1>8. c.hist[r] # Absent => c.hist[r].stamp \in Nat
  BY <1>1, <1>7 DEF Revision, Stamp
<1>9. c.hist[r] = rev \/ (c.hist[r] # Absent /\ c.hist[r].stamp > rev.stamp)
  BY <1>6 DEF Kept
<1> QED
  BY <1>3, <1>8, <1>9 DEF c, rev

(* Active can be read off the history: two nodes with the same history     *)
(* show the same revision.                                                 *)
LEMMA SameHistory ==
    ASSUME NEW pub, NEW c, NEW d, Sound(c, pub), Sound(d, pub), c.hist = d.hist,
           Newest(c), Newest(d)
    PROVE  c.active = d.active
<1>1. /\ c \in Scope /\ d \in Scope /\ Newest(c) /\ Newest(d)
      /\ Traced(c, pub) /\ Traced(d, pub)
  BY DEF Sound
<1>2. CASE c.active # Absent /\ d.active # Absent
  <2>1. c.active.rev \in RevNo /\ d.active.rev \in RevNo
    BY <1>1, <1>2 DEF Scope, Revision
  <2>2. c.hist[c.active.rev] = c.active /\ d.hist[d.active.rev] = d.active
    BY <1>1, <1>2 DEF Newest
  <2>3. d.active.rev <= c.active.rev /\ c.active.rev <= d.active.rev
    BY <1>1, <1>2, <2>1, <2>2 DEF Newest
  <2>4. c.active.rev = d.active.rev
    BY <2>1, <2>3 DEF RevNo
  <2> QED
    BY <2>2, <2>4
<1>3. c.active = Absent <=> d.active = Absent
  <2>1. ASSUME NEW x, NEW y, x \in Scope, Newest(x), Newest(y), x.hist = y.hist,
               x.active # Absent
        PROVE  y.active # Absent
    <3>1. x.active.rev \in RevNo /\ x.hist[x.active.rev] = x.active
      BY <2>1 DEF Scope, Revision, Newest
    <3> QED
      BY <2>1, <3>1 DEF Newest
  <2> QED
    BY <1>1, <2>1
<1> QED
  BY <1>2, <1>3

(* config.go, cluster.go: nodes whose snapshots no longer change each      *)
(* other show their clients the same revision and have the same history.   *)
(* Two revisions of one number that both nodes would keep carry the same   *)
(* stamp, which Unique excludes.                                           *)
THEOREM SettledNodesAgree == Spec => []SettledMeansAgreed
<1>1. ConfigInv => SettledMeansAgreed
  <2> SUFFICES ASSUME ConfigInv, NEW n \in Node, NEW p \in Node,
                      NothingToLearn(n, p), NothingToLearn(p, n), ~cut[n], ~cut[p]
               PROVE  cfg[n].active = cfg[p].active /\ cfg[n].hist = cfg[p].hist
    BY DEF SettledMeansAgreed
  <2>1. /\ Sound(cfg[n], published) /\ Sound(cfg[p], published)
        /\ published \subseteq Revision /\ Unique(published)
    BY DEF ConfigInv, TypeOK
  <2>2. ASSUME NEW r \in RevNo PROVE cfg[n].hist[r] = cfg[p].hist[r]
    <3> DEFINE a == cfg[n].hist[r]
               b == cfg[p].hist[r]
    <3>1. a # Absent <=> b # Absent
      BY LearnsNothing
    <3>2. CASE a # Absent /\ b # Absent
      <4>1. a.stamp >= b.stamp /\ b.stamp >= a.stamp
        BY <3>2, LearnsNothing
      <4>2. a \in published /\ b \in published
        BY <2>1, <3>2 DEF Sound, Traced
      <4>3. a.stamp \in Nat /\ b.stamp \in Nat
        BY <2>1, <4>2 DEF Revision, Stamp
      <4> HIDE DEF a, b
      <4>4. a.stamp = b.stamp
        BY <4>1, <4>3
      <4>5. a = b
        BY <2>1, <4>2, <4>4 DEF Unique
      <4> QED
        BY <4>5 DEF a, b
    <3> QED
      BY <3>1, <3>2
  <2>3. cfg[n].hist = cfg[p].hist
    BY <2>1, <2>2 DEF Sound, Scope
  <2>4. Newest(cfg[n]) /\ Newest(cfg[p])
    BY DEF ConfigInv
  <2> QED
    BY <2>1, <2>3, <2>4, SameHistory
<1> QED
  BY <1>1, ConfigInvariant, PTL

-----------------------------------------------------------------------------
(* The scope implements Register.                                          *)

\* What the register's nodes show.
Active == [n \in Node |-> cfg[n].active]

(* A step on the keys of one node shows another revision there and nowhere *)
(* else, or none.                                                          *)
LEMMA OneNodeShows ==
    ASSUME TypeOK, NEW n \in Node, NEW d, cfg' = [cfg EXCEPT ![n] = d]
    PROVE  /\ Reg!Show(n, d.active)
           /\ d.active = cfg[n].active => Active' = Active
<1>1. cfg \in [Node -> Scope]
  BY DEF TypeOK
<1> QED
  BY <1>1 DEF Reg!Show, Active

(* Publishing a revision here is publishing one there.                     *)
LEMMA PublishImplements ==
    ASSUME ConfigInv, NEW n \in Node, NEW block \in Vars, NEW ts \in Readings,
           Publish(n, block, ts)
    PROVE  Reg!Publish(n)
<1>1. PICK rev : rev = [rev |-> NextNo(cfg[n]), vars |-> block, stamp |-> ts]
  OBVIOUS
<1>2. TypeOK /\ ts \in Stamp /\ ts \notin used /\ cfg[n] \in Scope
  BY DEF ConfigInv, TypeOK, Readings
<1>3. NextNo(cfg[n]) \in RevNo
  <2>1. NextNo(cfg[n]) \in Nat /\ NextNo(cfg[n]) >= 1
    BY <1>2 DEF NextNo, Scope, Revision, RevNo
  <2> QED
    BY <2>1, ConfigAssumption DEF Publish, RevNo
<1>4. rev \in Revision /\ \A q \in published : q.stamp # rev.stamp
  BY <1>1, <1>2, <1>3 DEF Revision, ConfigInv
<1>5. cfg' = [cfg EXCEPT ![n] = ApplyTx(cfg[n], rev)] /\ published' = published \union {rev}
  BY <1>1 DEF Publish
<1>6. Reg!Show(n, rev)
  <2>1. ApplyTx(cfg[n], rev).active = rev
    BY DEF ApplyTx
  <2> QED
    BY <1>2, <1>5, <2>1, OneNodeShows
<1>7. rev.rev = IF Active[n] = Absent THEN 1 ELSE Active[n].rev + 1
  BY <1>1 DEF NextNo, Active
<1> QED
  BY <1>4, <1>5, <1>6, <1>7 DEF Reg!Publish, Active

(* Storing a revision that came from a peer is taking it over, or it does  *)
(* not become active.                                                      *)
LEMMA PutImplements ==
    ASSUME ConfigInv, NEW n \in Node, NEW rev \in published,
           cfg' = [cfg EXCEPT ![n] = PutRevisionRaw(cfg[n], rev)], UNCHANGED published
    PROVE  Reg!TakeOver(n) \/ UNCHANGED <<Active, published>>
<1>1. TypeOK /\ cfg[n] \in Scope
  BY DEF ConfigInv, TypeOK
<1>2. PICK d : d = PutRevisionRaw(cfg[n], rev)
  OBVIOUS
<1>3. d.active = cfg[n].active \/ (d.active = rev /\ Advances(cfg[n], rev))
  BY <1>1, <1>2 DEF PutRevisionRaw, Scope
<1>4. CASE d.active = cfg[n].active
  BY <1>1, <1>2, <1>4, OneNodeShows
<1>5. CASE d.active = rev /\ Advances(cfg[n], rev)
  <2>1. Reg!Show(n, rev)
    BY <1>1, <1>2, <1>5, OneNodeShows
  <2>2. Reg!Newer(rev, Active[n])
    BY <1>5 DEF Advances, Reg!Newer, Active
  <2> QED
    BY <2>1, <2>2 DEF Reg!TakeOver, Active
<1> QED
  BY <1>3, <1>4, <1>5

(* Drafts do not show; a scope that is deleted shows none.                 *)
LEMMA KeysImplement ==
    ASSUME ConfigInv, NEW n \in Node, NEW d, cfg' = [cfg EXCEPT ![n] = d],
           d.active = cfg[n].active \/ d.active = Absent, UNCHANGED published
    PROVE  Reg!Withdraw(n) \/ UNCHANGED <<Active, published>>
<1>1. TypeOK
  BY DEF ConfigInv
<1> QED
  BY <1>1, OneNodeShows DEF Reg!Withdraw

(* Every step of the scope is a step of the register or none.              *)
LEMMA StepImplements ==
    ASSUME ConfigInv, [Next]_vars
    PROVE  Reg!Next \/ UNCHANGED <<Active, published>>
<1>1. TypeOK /\ \A n \in Node : cfg[n] \in Scope
  BY DEF ConfigInv, TypeOK
<1>2. ASSUME NEW n \in Node, NEW ts \in Readings, NEW block \in Vars,
             ApplyConfig(n, block, ts)
      PROVE  Reg!Next
  BY <1>2, PublishImplements DEF ApplyConfig, Reg!Next
<1>3. ASSUME NEW n \in Node, NEW ts \in Readings, RollbackApply(n, ts)
      PROVE  Reg!Next
  <2>1. rolling[n] \in Vars /\ Publish(n, rolling[n], ts)
    BY <1>1, <1>3 DEF RollbackApply, TypeOK
  <2> QED
    BY <2>1, PublishImplements DEF Reg!Next
<1>4. ASSUME NEW n \in Node, NEW ts \in Readings, NEW block \in Vars,
             PutDraft(n, block, ts)
      PROVE  Reg!Next \/ UNCHANGED <<Active, published>>
  <2>1. PICK d : d = [vars |-> block, base |-> BaseRevision(cfg[n]), stamp |-> ts]
    OBVIOUS
  <2>2. PICK c : c = [cfg[n] EXCEPT !.draft = d]
    OBVIOUS
  <2>3. cfg' = [cfg EXCEPT ![n] = c] /\ published' = published
    BY <1>4, <2>1, <2>2 DEF PutDraft
  <2>4. c.active = cfg[n].active
    BY <1>1, <2>2 DEF Scope
  <2> QED
    BY <2>3, <2>4, KeysImplement DEF Reg!Next
<1>5. ASSUME NEW n \in Node,
             \/ DeleteDraft(n) \/ DeleteConfigScope(n)
             \/ DeleteOuterScope(n) \/ ApplySnapshotDraft(n)
      PROVE  Reg!Next \/ UNCHANGED <<Active, published>>
  <2>1. PICK d : /\ cfg' = [cfg EXCEPT ![n] = d]
                 /\ d.active = cfg[n].active \/ d.active = Absent
    <3>1. CASE DeleteOuterScope(n)
      BY <1>1, <3>1, OuterDeletedActive DEF DeleteOuterScope
    <3>2. CASE DeleteConfigScope(n)
      <4>1. cfg' = [cfg EXCEPT ![n] = NoScope] /\ NoScope.active = Absent
        BY <3>2 DEF DeleteConfigScope, NoScope
      <4> QED
        BY <4>1
    <3>3. CASE DeleteDraft(n) \/ ApplySnapshotDraft(n)
      <4>1. PICK x : cfg' = [cfg EXCEPT ![n] = [cfg[n] EXCEPT !.draft = x]]
        BY <3>3 DEF DeleteDraft, ApplySnapshotDraft, PutDraftRaw
      <4>2. [cfg[n] EXCEPT !.draft = x].active = cfg[n].active
        BY <1>1 DEF Scope
      <4> QED
        BY <4>1, <4>2
    <3> QED
      BY <1>5, <3>1, <3>2, <3>3
  <2>2. published' = published
    BY <1>5 DEF DeleteDraft, DeleteConfigScope, DeleteOuterScope, ApplySnapshotDraft
  <2> QED
    BY <2>1, <2>2, KeysImplement DEF Reg!Next
<1>6. ASSUME NEW n \in Node, NEW ev \in net[n], NEW copy \in BOOLEAN, Deliver(n, ev, copy)
      PROVE  Reg!Next \/ UNCHANGED <<Active, published>>
  <2>1. /\ cfg' = [cfg EXCEPT ![n] = Applied(cfg[n], ev)] /\ published' = published
        /\ ev \in Event
    BY <1>1, <1>6 DEF Deliver, TypeOK
  <2>2. CASE ev.type = "config.applied"
    <3>1. ev.rec \in published /\ Applied(cfg[n], ev) = PutRevisionRaw(cfg[n], ev.rec)
      BY <2>2 DEF ConfigInv, Carried, Applied
    <3> QED
      BY <2>1, <3>1, PutImplements DEF Reg!Next
  <2>3. CASE ev.type # "config.applied"
    <3>1. PICK d : d = Applied(cfg[n], ev)
      OBVIOUS
    <3>2. d.active = cfg[n].active \/ d.active = Absent
      BY <1>1, <2>1, <2>3, <3>1 DEF Applied, Event, PutDraftRaw, OuterDeleted, NoScope, Scope
    <3> QED
      BY <2>1, <3>1, <3>2, KeysImplement DEF Reg!Next
  <2> QED
    BY <2>2, <2>3
<1>7. ASSUME NEW n \in Node, NEW rev \in snap[n].revs, ApplySnapshotRev(n, rev)
      PROVE  Reg!Next \/ UNCHANGED <<Active, published>>
  <2>1. /\ cfg' = [cfg EXCEPT ![n] = PutRevisionRaw(cfg[n], rev)]
        /\ published' = published /\ rev \in published
    BY <1>7 DEF ApplySnapshotRev, ConfigInv
  <2> QED
    BY <2>1, PutImplements DEF Reg!Next
<1>8. ASSUME UNCHANGED <<cfg, published>>
      PROVE  UNCHANGED <<Active, published>>
  BY <1>8 DEF Active
<1>9. ASSUME NEW n \in Node,
             \/ \E r \in RevNo : RollbackRead(n, r)
             \/ \E p \in Node : Pull(n, p)
             \/ Restart(n)
      PROVE  UNCHANGED <<Active, published>>
  BY <1>8, <1>9 DEF RollbackRead, Pull, Restart
<1>10. CASE UNCHANGED vars
  BY <1>8, <1>10 DEF vars
<1> QED
  BY <1>2, <1>3, <1>4, <1>5, <1>6, <1>7, <1>9, <1>10 DEF Next, ApplySnapshot

(* config.go: to its clients a scope is a Register, with any number of     *)
(* nodes, operations, lost, late or duplicated messages and restarts.      *)
THEOREM ImplementsRegister == Spec => IsRegister
<1>1. Init => Reg!Init
  BY DEF Init, NoScope, Reg!Init
<1>2. ConfigInv /\ [Next]_vars => [Reg!Next]_(Reg!vars)
  BY StepImplements DEF Reg!vars, Active
<1> QED
  BY <1>1, <1>2, ConfigInvariant, PTL DEF Spec, IsRegister, Reg!Spec
=============================================================================
