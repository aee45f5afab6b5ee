---------------------------- MODULE StoreProofs ----------------------------
(***************************************************************************)
(* Theorems about one node's store, for every set of names and ids, with   *)
(* or without slashes, and every bound.                                    *)
(*                                                                         *)
(* First what the transactions of Catalog preserve: the type of the        *)
(* catalogue, that every instance is filed under its own key and beside    *)
(* its service, and the operator's block; then that the operations keep    *)
(* the invariant.                                                          *)
(***************************************************************************)
EXTENDS Store, SequenceTheorems, TLAPS

\* Every record is stored under the key that its service and id make.
Filed(db) ==
    \A k \in Key : HasInstance(db, k) =>
                   k = instanceKey(db.inst[k].service, db.inst[k].id)

\* Every stored instance belongs to a stored service.
Closed(db) ==
    \A k \in Key : HasInstance(db, k) => HasService(db, db.inst[k].service)

Sound(db) == Filed(db) /\ Closed(db)

\* The record under k is of the same instance in db and in new.
SameInstance(db, new, k) ==
    /\ HasInstance(db, k) /\ HasInstance(new, k)
    /\ new.inst[k].service = db.inst[k].service
    /\ new.inst[k].id = db.inst[k].id

\* From db to new no instance that stays loses its block.
KeepsBlocks(db, new) ==
    \A k \in Key : SameInstance(db, new, k) /\ BlockedAt(db, k) => BlockedAt(new, k)

-----------------------------------------------------------------------------
(* The text of names, ids and keys.                                        *)
LEMMA KeyFacts ==
    /\ \A n \in Name : n \in Seq(Segment) /\ Len(n) \in Nat /\ 1 <= Len(n)
    /\ \A i \in Id : i \in Seq(Segment) /\ Len(i) \in Nat /\ 1 <= Len(i)
    /\ \A k \in Key : k \in Seq(Segment)
    /\ \A n \in Name, i \in Id : instanceKey(n, i) \in Key
<1>1. /\ \A n \in Name : n \in Seq(Segment) /\ Len(n) \in Nat /\ 1 <= Len(n)
      /\ \A i \in Id : i \in Seq(Segment) /\ Len(i) \in Nat /\ 1 <= Len(i)
  BY TextAssumption
<1>2. \A k \in Key : k \in Seq(Segment)
  <2> SUFFICES ASSUME NEW k \in Key PROVE k \in Seq(Segment)
    OBVIOUS
  <2>1. PICK n \in Name, i \in Id : k = n \o i
    BY DEF Key, instanceKey
  <2> QED
    BY <1>1, <2>1, ConcatProperties
<1>3. \A n \in Name, i \in Id : instanceKey(n, i) \in Key
  BY DEF Key
<1>4. QED
  BY <1>1, <1>2, <1>3

(* An instance's key has the prefix "name/" of its service.                *)
LEMMA KeyIsUnderItsName ==
    ASSUME NEW n \in Name, NEW i \in Id
    PROVE  instanceKey(n, i) \in Under(n)
<1>1. /\ n \in Seq(Segment) /\ Len(n) \in Nat /\ 1 <= Len(n)
      /\ i \in Seq(Segment) /\ Len(i) \in Nat /\ 1 <= Len(i)
      /\ instanceKey(n, i) \in Key
  BY KeyFacts
<1>2. Len(n \o i) = Len(n) + Len(i)
  BY <1>1, ConcatProperties
<1>3. SubSeq(n \o i, 1, Len(n)) = n
  <2>1. SubSeq(n \o i, 1, Len(n)) = SubSeq(n, 1, Len(n))
    BY <1>1, SubSeqOfConcat1
  <2> QED
    BY <1>1, <2>1, SubSeqFull
<1>4. n \o i \in Key /\ Len(n) < Len(n \o i)
  BY <1>1, <1>2 DEF instanceKey
<1>5. QED
  BY <1>3, <1>4 DEF Under, instanceKey

(* Names without slashes: the first segment of a key is the name.          *)
LEMMA FirstSegment ==
    /\ \A n \in Name, i \in Id : instanceKey(n, i)[1] = n[1]
    /\ \A n \in Name : \A k \in Under(n) : k[1] = n[1]
    /\ \A m, n \in Name : Valid(m) /\ Valid(n) /\ m[1] = n[1] => m = n
<1>1. ASSUME NEW n \in Name, NEW i \in Id PROVE instanceKey(n, i)[1] = n[1]
  BY KeyFacts, ConcatProperties DEF instanceKey
<1>2. ASSUME NEW n \in Name, NEW k \in Under(n) PROVE k[1] = n[1]
  <2>1. /\ k \in Seq(Segment) /\ n \in Seq(Segment) /\ Len(n) \in Nat /\ 1 <= Len(n)
        /\ Len(n) < Len(k) /\ SubSeq(k, 1, Len(n)) = n
    BY KeyFacts DEF Under
  <2> QED
    BY <2>1
<1>3. ASSUME NEW m \in Name, NEW n \in Name, Valid(m), Valid(n), m[1] = n[1]
      PROVE  m = n
  <2>1. m \in Seq(Segment) /\ n \in Seq(Segment) /\ Len(m) = 1 /\ Len(n) = 1
    BY <1>3, KeyFacts DEF Valid
  <2> QED
    BY <1>3, <2>1, SeqEqual
<1>4. QED
  BY <1>1, <1>2, <1>3

(* The keys of two instances of one service differ.                        *)
LEMMA KeyHasId ==
    ASSUME NEW n \in Name, NEW i \in Id, NEW j \in Id,
           instanceKey(n, i) = instanceKey(n, j)
    PROVE  i = j
<1>1. n \in Seq(Segment) /\ i \in Seq(Segment) /\ j \in Seq(Segment)
  BY KeyFacts
<1>2. n \o i = n \o j
  BY DEF instanceKey
<1>3. QED
  BY <1>1, <1>2, ConcatSimplifications

-----------------------------------------------------------------------------
(* Replacing one stored instance by another record of the same instance    *)
(* keeps the catalogue well-formed and sound, and the blocks if the record *)
(* keeps its flag.                                                         *)
LEMMA RewriteInstance ==
    ASSUME NEW db \in Catalogue, NEW k \in Key, HasInstance(db, k),
           NEW rec \in Instance,
           rec.service = db.inst[k].service, rec.id = db.inst[k].id
    PROVE  LET new == Rewrite(db, k, rec)
           IN  /\ new \in Catalogue
               /\ Sound(db) => Sound(new)
               /\ new.inst[k] = rec
               /\ \A x \in Key \ {k} : new.inst[x] = db.inst[x]
               /\ rec.blocked = db.inst[k].blocked => KeepsBlocks(db, new)
<1> DEFINE new == Rewrite(db, k, rec)
<1>0. new = [svc |-> db.svc, inst |-> [db.inst EXCEPT ![k] = rec]]
  BY DEF Rewrite, Catalogue
<1>1. rec # Absent
  BY AbsentAssumption
<1> HIDE DEF new
<1>2. /\ new \in Catalogue
      /\ new.inst[k] = rec /\ \A x \in Key \ {k} : new.inst[x] = db.inst[x]
  BY <1>0, <1>1 DEF Catalogue, Instances
<1>3. new.svc = db.svc
  BY <1>0
<1>4. ASSUME Sound(db) PROVE Sound(new)
  BY <1>2, <1>3, <1>4 DEF Sound, Filed, Closed, HasService, HasInstance
<1>5. ASSUME rec.blocked = db.inst[k].blocked PROVE KeepsBlocks(db, new)
  BY <1>1, <1>2, <1>5 DEF KeepsBlocks, SameInstance, BlockedAt, HasInstance
<1>6. QED
  BY <1>2, <1>4, <1>5 DEF new

(* PutService writes a well-formed record and touches no instance.         *)
LEMMA PutServicePreserves ==
    ASSUME NEW db \in Catalogue, NEW n \in Name, NEW ts \in Nat
    PROVE  LET new == PutServiceTx(db, n, ts)
           IN  /\ new \in Catalogue
               /\ Sound(db) => Sound(new)
               /\ KeepsBlocks(db, new)
<1> DEFINE rec == [updated |-> ts]
<1>1. rec \in Service /\ rec # Absent
  BY AbsentAssumption DEF Service
<1>2. PutServiceTx(db, n, ts) = [svc |-> [db.svc EXCEPT ![n] = rec], inst |-> db.inst]
  BY DEF PutServiceTx, Catalogue
<1> HIDE DEF rec
<1>3. QED
  BY <1>1, <1>2
  DEF Catalogue, Services, Sound, Filed, Closed, KeepsBlocks, BlockedAt,
      HasService, HasInstance

(* DeleteService's cascade leaves no instance without its service.         *)
LEMMA DeleteServicePreserves ==
    ASSUME NEW db \in Catalogue, NEW n \in Name
    PROVE  LET new == DeleteServiceTx(db, n)
           IN  /\ new \in Catalogue
               /\ Sound(db) => Sound(new)
               /\ KeepsBlocks(db, new)
<1> DEFINE new == DeleteServiceTx(db, n)
<1>1. /\ new = [svc |-> new.svc, inst |-> new.inst]
      /\ new.svc = [db.svc EXCEPT ![n] = Absent]
      /\ new.inst = [k \in Key |-> IF k \in Under(n) THEN Absent ELSE db.inst[k]]
  BY DEF DeleteServiceTx
<1> HIDE DEF new
<1>2. new \in Catalogue
  BY <1>1 DEF Catalogue, Services, Instances
<1>3. KeepsBlocks(db, new)
  BY <1>1 DEF KeepsBlocks, SameInstance, BlockedAt, HasInstance
<1>4. ASSUME Sound(db), NEW k \in Key, HasInstance(new, k)
      PROVE  /\ k = instanceKey(new.inst[k].service, new.inst[k].id)
             /\ HasService(new, new.inst[k].service)
  <2>1. new.inst[k] = db.inst[k] /\ k \notin Under(n) /\ HasInstance(db, k)
    BY <1>1, <1>4 DEF HasInstance
  <2>2. db.inst[k] \in Instance
    BY <2>1 DEF HasInstance, Catalogue, Instances
  <2>3. db.inst[k].service \in Name /\ db.inst[k].id \in Id
    BY <2>2 DEF Instance
  <2>4. k = instanceKey(db.inst[k].service, db.inst[k].id)
        /\ HasService(db, db.inst[k].service)
    BY <1>4, <2>1 DEF Sound, Filed, Closed
  <2>5. db.inst[k].service # n
    BY <2>1, <2>3, <2>4, KeyIsUnderItsName
  <2> QED
    BY <1>1, <2>1, <2>3, <2>4, <2>5 DEF HasService, Catalogue, Services
<1>5. QED
  BY <1>2, <1>3, <1>4 DEF new, Sound, Filed, Closed

(* PutInstance stores a well-formed instance and, where it was missing,    *)
(* its service; a block is carried over from the record it replaces.       *)
LEMMA PutInstancePreserves ==
    ASSUME NEW db \in Catalogue, NEW n \in Name, NEW i \in Id,
           NEW status \in StatusInput, NEW ts \in Nat
    PROVE  LET new == PutInstanceTx(db, n, i, status, ts)
           IN  /\ new \in Catalogue
               /\ Sound(db) => Sound(new)
               /\ KeepsBlocks(db, new)
<1> DEFINE k    == instanceKey(n, i)
           rec  == [service |-> n, id |-> i, status |-> Validated(status),
                    blocked |-> BlockedAt(db, k), updated |-> ts]
           stub == [updated |-> ts]
           new  == PutInstanceTx(db, n, i, status, ts)
<1>1. k \in Key
  BY KeyFacts
<1>2. BlockedAt(db, k) \in BOOLEAN
  BY <1>1 DEF BlockedAt, Catalogue, Instances, Instance, HasInstance
<1>3. rec \in Instance
  BY <1>2 DEF Instance, Validated, StatusInput, Status
<1>4. rec.blocked = BlockedAt(db, k) /\ rec.service = n /\ rec.id = i
  OBVIOUS
<1>5. stub \in Service
  BY DEF Service
<1>6. stub # Absent /\ rec # Absent
  BY <1>3, <1>5, AbsentAssumption
<1>7. /\ new = [svc |-> new.svc, inst |-> new.inst]
      /\ new.svc = IF db.svc[n] # Absent THEN db.svc ELSE [db.svc EXCEPT ![n] = stub]
      /\ new.inst = [db.inst EXCEPT ![k] = rec]
  BY DEF PutInstanceTx, WithStub
<1> HIDE DEF rec, stub, new, k
<1>8. new \in Catalogue
  BY <1>3, <1>5, <1>7 DEF Catalogue, Services, Instances
<1>9. new.inst[k] = rec /\ \A x \in Key \ {k} : new.inst[x] = db.inst[x]
  BY <1>1, <1>7 DEF Catalogue, Instances
<1>10. /\ HasService(new, n)
       /\ \A m \in Name : HasService(db, m) => HasService(new, m)
  BY <1>6, <1>7 DEF Catalogue, Services, HasService
<1>11. ASSUME Sound(db) PROVE Sound(new)
  <2> SUFFICES ASSUME NEW x \in Key, HasInstance(new, x)
               PROVE  /\ x = instanceKey(new.inst[x].service, new.inst[x].id)
                      /\ HasService(new, new.inst[x].service)
    BY DEF Sound, Filed, Closed
  <2>1. CASE x = k
    BY <1>4, <1>9, <1>10, <2>1 DEF k
  <2>2. CASE x # k
    <3>1. new.inst[x] = db.inst[x] /\ HasInstance(db, x)
      BY <1>9, <2>2 DEF HasInstance
    <3>2. db.inst[x].service \in Name
      BY <3>1 DEF HasInstance, Catalogue, Instances, Instance
    <3> QED
      BY <1>10, <1>11, <3>1, <3>2 DEF Sound, Filed, Closed
  <2> QED
    BY <2>1, <2>2
<1>12. KeepsBlocks(db, new)
  BY <1>4, <1>6, <1>9 DEF KeepsBlocks, SameInstance, BlockedAt, HasInstance
<1>13. QED
  BY <1>8, <1>11, <1>12 DEF new

(* A heartbeat rewrites status and stamp of a stored instance.             *)
LEMMA HeartbeatPreserves ==
    ASSUME NEW db \in Catalogue, NEW k \in Key, HasInstance(db, k),
           NEW status \in StatusInput, NEW ts \in Nat
    PROVE  LET new == HeartbeatTx(db, k, status, ts)
           IN  /\ new \in Catalogue
               /\ Sound(db) => Sound(new)
               /\ KeepsBlocks(db, new)
<1> DEFINE st  == IF status # "" THEN status
                  ELSE IF db.inst[k].status = "down" THEN "up"
                  ELSE db.inst[k].status
           rec == [db.inst[k] EXCEPT !.status = st, !.updated = ts]
<1>1. db.inst[k] \in Instance
  BY DEF HasInstance, Catalogue, Instances
<1>2. st \in Status
  BY <1>1 DEF Instance, StatusInput, Status
<1>3. /\ rec \in Instance /\ rec.blocked = db.inst[k].blocked
      /\ rec.service = db.inst[k].service /\ rec.id = db.inst[k].id
  BY <1>1, <1>2 DEF Instance
<1>4. HeartbeatTx(db, k, status, ts) = Rewrite(db, k, rec)
  BY <1>1 DEF HeartbeatTx, Instance
<1> HIDE DEF rec
<1>5. QED
  BY <1>3, <1>4, RewriteInstance

(* SetStatus rewrites status and stamp, or nothing.                        *)
LEMMA SetStatusPreserves ==
    ASSUME NEW db \in Catalogue, NEW k \in Key, HasInstance(db, k),
           NEW status \in Status, NEW ts \in Nat
    PROVE  LET new == SetStatusTx(db, k, status, ts)
           IN  /\ new \in Catalogue
               /\ Sound(db) => Sound(new)
               /\ KeepsBlocks(db, new)
<1> DEFINE rec == [db.inst[k] EXCEPT !.status = status, !.updated = ts]
<1>1. db.inst[k] \in Instance
  BY DEF HasInstance, Catalogue, Instances
<1>2. CASE db.inst[k].status = status
  BY <1>2 DEF SetStatusTx, KeepsBlocks
<1>3. CASE db.inst[k].status # status
  <2>1. /\ rec \in Instance /\ rec.blocked = db.inst[k].blocked
        /\ rec.service = db.inst[k].service /\ rec.id = db.inst[k].id
    BY <1>1 DEF Instance
  <2>2. SetStatusTx(db, k, status, ts) = Rewrite(db, k, rec)
    BY <1>3 DEF SetStatusTx
  <2> HIDE DEF rec
  <2>3. QED
    BY <2>1, <2>2, RewriteInstance
<1>4. QED
  BY <1>2, <1>3

(* SetBlocked rewrites the flag of one instance and no other.              *)
LEMMA SetBlockedPreserves ==
    ASSUME NEW db \in Catalogue, NEW k \in Key, HasInstance(db, k),
           NEW blocked \in BOOLEAN, NEW ts \in Nat
    PROVE  LET new == SetBlockedTx(db, k, blocked, ts)
           IN  /\ new \in Catalogue
               /\ Sound(db) => Sound(new)
               /\ HasInstance(new, k) /\ new.inst[k].blocked = blocked
               /\ \A x \in Key \ {k} : new.inst[x] = db.inst[x]
<1> DEFINE rec == [db.inst[k] EXCEPT !.blocked = blocked, !.updated = ts]
<1>1. db.inst[k] \in Instance
  BY DEF HasInstance, Catalogue, Instances
<1>2. /\ rec \in Instance /\ rec.blocked = blocked /\ rec # Absent
      /\ rec.service = db.inst[k].service /\ rec.id = db.inst[k].id
  BY <1>1, AbsentAssumption DEF Instance
<1>3. SetBlockedTx(db, k, blocked, ts) = Rewrite(db, k, rec)
  BY DEF SetBlockedTx
<1> HIDE DEF rec
<1>4. QED
  BY <1>2, <1>3, RewriteInstance DEF HasInstance

(* DeleteInstance removes one record.                                      *)
LEMMA DeleteInstancePreserves ==
    ASSUME NEW db \in Catalogue, NEW k \in Key
    PROVE  LET new == DeleteInstanceTx(db, k)
           IN  /\ new \in Catalogue
               /\ Sound(db) => Sound(new)
               /\ KeepsBlocks(db, new)
<1>1. DeleteInstanceTx(db, k) =
        [svc |-> db.svc, inst |-> [db.inst EXCEPT ![k] = Absent]]
  BY DEF DeleteInstanceTx, Catalogue
<1>2. QED
  BY <1>1
  DEF Catalogue, Instances, Sound, Filed, Closed, KeepsBlocks, SameInstance,
      BlockedAt, HasService, HasInstance

(* What the cursor of a rename may do, taken apart.                        *)
LEMMA ScanFacts ==
    ASSUME NEW db, NEW old, NEW nw, NEW scan \in Scans(db, old, nw)
    PROVE  /\ scan.seen \subseteq Under(old) /\ scan.seen \subseteq DOMAIN scan.last
           /\ \A w \in DOMAIN scan.last : /\ scan.last[w] \in StoredUnder(db, old)
                                          /\ w = MovedTo(db, scan.last[w], nw)
           /\ \A k \in StoredUnder(db, old) \ scan.seen :
                 MovedTo(db, k, nw) \in DOMAIN scan.last
<1> DEFINE found == StoredUnder(db, old)
           targets(S) == {MovedTo(db, k, nw) : k \in S}
<1>1. PICK seen \in SUBSET (Under(old) \intersect targets(found)) :
        scan \in {[seen |-> seen, last |-> f] :
                    f \in {g \in [targets(found \ seen) -> found \ seen] :
                             /\ seen \subseteq DOMAIN g
                             /\ \A w \in DOMAIN g : MovedTo(db, g[w], nw) = w}}
  BY DEF Scans
<1>2. PICK f \in [targets(found \ seen) -> found \ seen] :
        /\ seen \subseteq DOMAIN f
        /\ \A w \in DOMAIN f : MovedTo(db, f[w], nw) = w
        /\ scan = [seen |-> seen, last |-> f]
  BY <1>1
<1>3. scan.seen = seen /\ scan.last = f
  BY <1>2
<1>4. \A w \in DOMAIN f : f[w] \in found
  BY <1>2
<1>5. \A k \in found \ seen : MovedTo(db, k, nw) \in DOMAIN f
  BY <1>2
<1> HIDE DEF targets
<1>6. QED
  BY <1>1, <1>2, <1>3, <1>4, <1>5

\* The record a rename puts under key k.
Put(db, nw, ts, scan, k) ==
    [db.inst[scan.last[k]] EXCEPT !.service = nw, !.updated = ts]

\* The keys a rename deletes.
Gone(db, old, scan) == StoredUnder(db, old) \union scan.seen

\* The record put under key k is that of an instance found under the old name.
MovesRecord(db, old, nw, ts, scan, k) ==
    /\ HasInstance(db, scan.last[k]) /\ scan.last[k] \in Under(old)
    /\ db.inst[scan.last[k]] \in Instance
    /\ k \in Key /\ k = instanceKey(nw, db.inst[scan.last[k]].id)
    /\ Put(db, nw, ts, scan, k) \in Instance /\ Put(db, nw, ts, scan, k) # Absent
    /\ Put(db, nw, ts, scan, k).service = nw
    /\ Put(db, nw, ts, scan, k).id = db.inst[scan.last[k]].id

(* What a rename leaves under each key.                                    *)
LEMMA RenameTxFacts ==
    ASSUME NEW db \in Catalogue, NEW old \in Name, NEW nw \in Name,
           NEW ts \in Nat, NEW scan \in Scans(db, old, nw)
    PROVE  LET new == RenameTx(db, old, nw, ts, scan)
           IN  /\ new = [svc |-> new.svc, inst |-> new.inst]
               /\ new.svc = [db.svc EXCEPT ![old] = Absent, ![nw] = [updated |-> ts]]
               /\ new.inst = [k \in Key |->
                     IF k \in Gone(db, old, scan) THEN Absent
                     ELSE IF k \in DOMAIN scan.last THEN Put(db, nw, ts, scan, k)
                     ELSE db.inst[k]]
               /\ Gone(db, old, scan) \subseteq Under(old)
               /\ \A k \in DOMAIN scan.last : MovesRecord(db, old, nw, ts, scan, k)
<1> DEFINE new == RenameTx(db, old, nw, ts, scan)
<1>1. /\ new = [svc |-> new.svc, inst |-> new.inst]
      /\ new.svc = [db.svc EXCEPT ![old] = Absent, ![nw] = [updated |-> ts]]
      /\ new.inst = [k \in Key |->
                     IF k \in Gone(db, old, scan) THEN Absent
                     ELSE IF k \in DOMAIN scan.last THEN Put(db, nw, ts, scan, k)
                     ELSE db.inst[k]]
  BY DEF RenameTx, Gone, Put
<1>2. /\ Gone(db, old, scan) \subseteq Under(old)
      /\ \A k \in DOMAIN scan.last : /\ scan.last[k] \in StoredUnder(db, old)
                                     /\ k = instanceKey(nw, db.inst[scan.last[k]].id)
  BY ScanFacts DEF StoredUnder, MovedTo, Gone
<1>3. \A k \in StoredUnder(db, old) :
        k \in Under(old) /\ HasInstance(db, k) /\ db.inst[k] \in Instance
  BY DEF StoredUnder, Under, HasInstance, Catalogue, Instances
<1>4. ASSUME NEW k \in DOMAIN scan.last
      PROVE  MovesRecord(db, old, nw, ts, scan, k)
  <2> DEFINE src == db.inst[scan.last[k]]
  <2>1. /\ HasInstance(db, scan.last[k]) /\ scan.last[k] \in Under(old)
        /\ src \in Instance /\ k = instanceKey(nw, src.id)
    BY <1>2, <1>3, <1>4
  <2>2. Put(db, nw, ts, scan, k) = [src EXCEPT !.service = nw, !.updated = ts]
    BY DEF Put
  <2> HIDE DEF src
  <2>3. src.id \in Id
    BY <2>1 DEF Instance
  <2>4. k \in Key
    BY <2>1, <2>3, KeyFacts
  <2>5. LET rec == Put(db, nw, ts, scan, k)
        IN  rec \in Instance /\ rec.service = nw /\ rec.id = src.id
    BY <2>1, <2>2 DEF Instance
  <2>6. Put(db, nw, ts, scan, k) # Absent
    BY <2>5, AbsentAssumption
  <2> QED
    BY <2>1, <2>4, <2>5, <2>6 DEF src, MovesRecord
<1>5. QED
  BY <1>1, <1>2, <1>4

(* RenameService keeps the catalogue sound however the names are nested,   *)
(* and no record of an instance that stays loses its block: what is put is *)
(* of a service that was not stored before.                                *)
LEMMA RenamePreserves ==
    ASSUME NEW db \in Catalogue, NEW old \in Name, NEW nw \in Name,
           RenameAllowed(db, old, nw), Sound(db), NEW ts \in Nat,
           NEW scan \in Scans(db, old, nw)
    PROVE  LET new == RenameTx(db, old, nw, ts, scan)
           IN  /\ new \in Catalogue
               /\ Sound(new)
               /\ KeepsBlocks(db, new)
<1> DEFINE new == RenameTx(db, old, nw, ts, scan)
           gone == Gone(db, old, scan)
           moved == DOMAIN scan.last
           rec(k) == Put(db, nw, ts, scan, k)
<1>1. old # nw /\ HasService(db, old) /\ ~HasService(db, nw)
  BY DEF RenameAllowed
<1>2. /\ new = [svc |-> new.svc, inst |-> new.inst]
      /\ new.svc = [db.svc EXCEPT ![old] = Absent, ![nw] = [updated |-> ts]]
      /\ new.inst = [k \in Key |-> IF k \in gone THEN Absent
                                   ELSE IF k \in moved THEN rec(k) ELSE db.inst[k]]
  BY RenameTxFacts
<1>3. \A k \in moved : /\ rec(k) \in Instance /\ rec(k) # Absent
                       /\ k = instanceKey(nw, rec(k).id) /\ rec(k).service = nw
  <2>1. \A k \in moved : MovesRecord(db, old, nw, ts, scan, k)
    BY RenameTxFacts
  <2> QED
    BY <2>1 DEF MovesRecord
<1>4. StoredUnder(db, old) \subseteq gone
  BY DEF Gone
<1>5. [updated |-> ts] \in Service /\ [updated |-> ts] # Absent
  BY AbsentAssumption DEF Service
<1> HIDE DEF new, rec, gone, moved
<1>6. new \in Catalogue
  <2>1. new.svc \in Services
    BY <1>2, <1>5 DEF Catalogue, Services
  <2>2. new.inst \in Instances
    BY <1>2, <1>3 DEF Catalogue, Instances
  <2>3. QED
    BY <1>2, <2>1, <2>2 DEF Catalogue
<1>7. ASSUME NEW k \in Key, HasInstance(new, k)
      PROVE  \/ k \in moved /\ new.inst[k] = rec(k)
             \/ k \notin gone /\ new.inst[k] = db.inst[k] /\ HasInstance(db, k)
  BY <1>2, <1>7 DEF HasInstance
<1>8. ASSUME NEW k \in Key, HasInstance(db, k)
      PROVE  /\ db.inst[k].service \in Name /\ db.inst[k].id \in Id
             /\ k = instanceKey(db.inst[k].service, db.inst[k].id)
             /\ HasService(db, db.inst[k].service)
             /\ db.inst[k].service # nw
             /\ k \notin gone => db.inst[k].service # old
  <2>1. db.inst[k] \in Instance
    BY <1>8 DEF HasInstance, Catalogue, Instances
  <2>2. db.inst[k].service \in Name /\ db.inst[k].id \in Id
    BY <2>1 DEF Instance
  <2>3. /\ k = instanceKey(db.inst[k].service, db.inst[k].id)
        /\ HasService(db, db.inst[k].service)
    BY <1>8 DEF Sound, Filed, Closed
  <2>4. k \notin gone => db.inst[k].service # old
    BY <1>4, <1>8, <2>2, <2>3, KeyIsUnderItsName DEF StoredUnder
  <2> QED
    BY <1>1, <2>2, <2>3, <2>4
<1>9. Sound(new)
  <2> SUFFICES ASSUME NEW k \in Key, HasInstance(new, k)
               PROVE  /\ k = instanceKey(new.inst[k].service, new.inst[k].id)
                      /\ HasService(new, new.inst[k].service)
    BY DEF Sound, Filed, Closed
  <2>1. CASE k \in moved /\ new.inst[k] = rec(k)
    <3>1. HasService(new, nw)
      BY <1>2, <1>5 DEF HasService, Catalogue, Services
    <3> QED
      BY <1>3, <2>1, <3>1
  <2>2. CASE k \notin gone /\ new.inst[k] = db.inst[k] /\ HasInstance(db, k)
    BY <1>2, <1>8, <2>2 DEF HasService, Catalogue, Services
  <2> QED
    BY <1>7, <2>1, <2>2
<1>10. KeepsBlocks(db, new)
  <2> SUFFICES ASSUME NEW k \in Key, SameInstance(db, new, k), BlockedAt(db, k)
               PROVE  BlockedAt(new, k)
    BY DEF KeepsBlocks
  <2>1. /\ HasInstance(db, k) /\ HasInstance(new, k)
        /\ new.inst[k].service = db.inst[k].service
    BY DEF SameInstance
  <2>2. new.inst[k] = db.inst[k]
    BY <1>3, <1>7, <1>8, <2>1
  <2> QED
    BY <2>1, <2>2 DEF BlockedAt
<1>11. QED
  BY <1>6, <1>9, <1>10 DEF new

\* No stored service has a slash in its name.
AllValid(db) == \A n \in Name : HasService(db, n) => Valid(n)

\* From db to new the record under k stays or moves along with old.
StaysOrMoves(db, new, old, nw, ts, k) ==
    /\ db.inst[k].service # old => new.inst[k] = db.inst[k]
    /\ db.inst[k].service = old =>
          new.inst[MovedTo(db, k, nw)] =
             [db.inst[k] EXCEPT !.service = nw, !.updated = ts]

(* Where no name has a slash, a rename moves the instances of its service  *)
(* and leaves every other record alone.                                    *)
LEMMA RenameMoves ==
    ASSUME NEW db \in Catalogue, NEW old \in Name, NEW nw \in Name,
           RenameAllowed(db, old, nw), Sound(db), NEW ts \in Nat,
           NEW scan \in Scans(db, old, nw), AllValid(db), Valid(nw),
           NEW k \in Key, HasInstance(db, k)
    PROVE  StaysOrMoves(db, RenameTx(db, old, nw, ts, scan), old, nw, ts, k)
<1> DEFINE new == RenameTx(db, old, nw, ts, scan)
           gone == Gone(db, old, scan)
           moved == DOMAIN scan.last
           rec(x) == Put(db, nw, ts, scan, x)
<1>1. /\ old # nw /\ HasService(db, old) /\ ~HasService(db, nw)
      /\ Valid(old) /\ Valid(nw)
  BY DEF RenameAllowed, AllValid
<1>2. old[1] # nw[1]
  BY <1>1, FirstSegment
<1>3. /\ new.inst = [x \in Key |-> IF x \in gone THEN Absent
                                   ELSE IF x \in moved THEN rec(x) ELSE db.inst[x]]
      /\ gone \subseteq Under(old)
      /\ \A x \in moved : /\ HasInstance(db, scan.last[x]) /\ scan.last[x] \in Under(old)
                          /\ db.inst[scan.last[x]] \in Instance
                          /\ x \in Key /\ x = instanceKey(nw, db.inst[scan.last[x]].id)
  <2>1. \A x \in moved : MovesRecord(db, old, nw, ts, scan, x)
    BY RenameTxFacts
  <2>2. \A x \in moved : /\ HasInstance(db, scan.last[x]) /\ scan.last[x] \in Under(old)
                          /\ db.inst[scan.last[x]] \in Instance
                          /\ x \in Key /\ x = instanceKey(nw, db.inst[scan.last[x]].id)
    BY <2>1 DEF MovesRecord
  <2>3. gone \subseteq Under(old)
    BY RenameTxFacts
  <2>4. new.inst = [x \in Key |-> IF x \in gone THEN Absent
                                  ELSE IF x \in moved THEN rec(x) ELSE db.inst[x]]
    BY DEF RenameTx, Gone, Put
  <2> HIDE DEF new, gone, moved, rec
  <2> QED
    BY <2>2, <2>3, <2>4
<1> HIDE DEF new
<1>4. ASSUME NEW x \in Key, HasInstance(db, x)
      PROVE  /\ db.inst[x].service \in Name /\ db.inst[x].id \in Id
             /\ Valid(db.inst[x].service) /\ db.inst[x].service # nw
             /\ x = instanceKey(db.inst[x].service, db.inst[x].id)
             /\ x[1] = db.inst[x].service[1]
  <2>1. db.inst[x] \in Instance
    BY <1>4 DEF HasInstance, Catalogue, Instances
  <2>2. db.inst[x].service \in Name /\ db.inst[x].id \in Id
    BY <2>1 DEF Instance
  <2>3. /\ x = instanceKey(db.inst[x].service, db.inst[x].id)
        /\ HasService(db, db.inst[x].service)
    BY <1>4 DEF Sound, Filed, Closed
  <2> QED
    BY <1>1, <2>2, <2>3, FirstSegment DEF AllValid
<1>5. \A x \in moved : x[1] = nw[1]
  <2> SUFFICES ASSUME NEW x \in moved PROVE x[1] = nw[1]
    OBVIOUS
  <2>1. db.inst[scan.last[x]].id \in Id
    BY <1>3 DEF Instance
  <2> QED
    BY <1>3, <2>1, FirstSegment
<1>6. \A x \in gone : x[1] = old[1]
  BY <1>3, FirstSegment
<1>7. CASE db.inst[k].service # old
  <2>1. k[1] # old[1] /\ k[1] # nw[1]
    BY <1>1, <1>4, <1>7, FirstSegment
  <2>2. new.inst[k] = db.inst[k]
    BY <1>3, <1>5, <1>6, <2>1
  <2> QED
    BY <1>7, <2>2 DEF new, StaysOrMoves
<1>8. CASE db.inst[k].service = old
  <2> DEFINE w == MovedTo(db, k, nw)
  <2>1. db.inst[k].id \in Id /\ k = instanceKey(old, db.inst[k].id)
    BY <1>4, <1>8
  <2>2. w = instanceKey(nw, db.inst[k].id) /\ w \in Key /\ w[1] = nw[1]
    BY <2>1, KeyFacts, FirstSegment DEF MovedTo
  <2>3. w \in moved
    <3>1. k \in StoredUnder(db, old)
      BY <2>1, KeyIsUnderItsName DEF StoredUnder
    <3>2. k[1] = old[1]
      BY <1>4, <1>8
    <3>3. k \notin scan.seen
      BY <1>2, <1>5, <3>2, ScanFacts
    <3> QED
      BY <3>1, <3>3, ScanFacts
  <2>4. w \notin gone
    BY <1>2, <1>6, <2>2
  <2>5. scan.last[w] = k
    <3> DEFINE y == scan.last[w]
    <3>1. /\ HasInstance(db, y) /\ y \in Under(old) /\ y \in Key
          /\ w = instanceKey(nw, db.inst[y].id)
      BY <1>3, <2>3 DEF Under
    <3> HIDE DEF y
    <3>2. y[1] = old[1]
      BY <3>1, FirstSegment
    <3>3. db.inst[y].service = old /\ db.inst[y].id \in Id
      BY <1>1, <1>4, <3>1, <3>2, FirstSegment
    <3>4. db.inst[y].id = db.inst[k].id
      BY <2>1, <2>2, <3>1, <3>3, KeyHasId
    <3>5. y = instanceKey(old, db.inst[y].id)
      BY <1>4, <3>1, <3>3
    <3> QED
      BY <2>1, <3>4, <3>5 DEF y
  <2>6. new.inst[w] = rec(w)
    BY <1>3, <2>2, <2>3, <2>4
  <2>7. rec(w) = [db.inst[k] EXCEPT !.service = nw, !.updated = ts]
    BY <2>5 DEF Put
  <2> QED
    BY <1>8, <2>6, <2>7 DEF new, StaysOrMoves
<1>9. QED
  BY <1>7, <1>8

-----------------------------------------------------------------------------
\* The inductive invariant.
StoreInv == TypeOK /\ NoOrphans /\ Filed(cat)

-----------------------------------------------------------------------------
(* A step to a sound catalogue keeps the invariant.                        *)
LEMMA SoundKeepsInv ==
    ASSUME StoreInv, now' \in Nat, stamped' \subseteq Request,
           cat' \in Catalogue, Sound(cat) => Sound(cat')
    PROVE  StoreInv'
  BY DEF StoreInv, TypeOK, NoOrphans, Sound, Filed, Closed, HasInstance, HasService

(* Initially the catalogue is empty.                                       *)
LEMMA InitInv == Init => StoreInv
<1> SUFFICES ASSUME Init PROVE StoreInv
  OBVIOUS
<1> USE DEF Init, EmptyCatalogue
<1>1. TypeOK
  BY DEF TypeOK, Catalogue, Services, Instances
<1>2. NoOrphans /\ Filed(cat)
  BY DEF NoOrphans, Filed, HasInstance
<1>3. QED
  BY <1>1, <1>2 DEF StoreInv

(* Every operation takes a sound catalogue to a sound one and, but for the *)
(* operator lifting the block of one instance, keeps the blocks.           *)
LEMMA NextKeeps ==
    ASSUME StoreInv, [Next]_vars
    PROVE  /\ StoreInv'
           /\ \/ KeepsBlocks(cat, cat')
              \/ \E k \in Key : /\ SetBlocked(k, FALSE)
                                /\ \A x \in Key \ {k} : cat'.inst[x] = cat.inst[x]
<1>a. /\ cat \in Catalogue /\ now \in Nat /\ stamped \subseteq Request
      /\ Sound(cat)
  BY DEF StoreInv, TypeOK, NoOrphans, Sound, Closed
<1>b. KeepsBlocks(cat, cat)
  BY DEF KeepsBlocks
<1>c. Sends \subseteq StatusInput
  BY BoundsAssumption
<1> DEFINE Kept == StoreInv' /\ KeepsBlocks(cat, cat')
<1>1. CASE Tick
  BY <1>1, <1>a, <1>b, SoundKeepsInv DEF Tick
<1>2. ASSUME NEW n \in Name, StampPutService(n) PROVE Kept
  <2>1. [op |-> "putService", name |-> n, ts |-> now] \in Request
    BY <1>a DEF Request, ServiceRequest
  <2>2. QED
    BY <1>2, <1>a, <1>b, <2>1, SoundKeepsInv DEF StampPutService, Stamp
<1>3. ASSUME NEW n \in Name, NEW i \in Id, NEW status \in Sends,
             StampPutInstance(n, i, status)
      PROVE  Kept
  <2>1. [op |-> "putInstance", name |-> n, id |-> i, status |-> status, ts |-> now]
           \in Request
    BY <1>a, <1>c DEF Request, InstanceRequest
  <2>2. QED
    BY <1>3, <1>a, <1>b, <2>1, SoundKeepsInv DEF StampPutInstance, Stamp
<1>4. ASSUME NEW req \in stamped, PutService(req) PROVE Kept
  <2>1. req.name \in Name /\ req.ts \in Nat
    BY <1>4, <1>a DEF PutService, Request, ServiceRequest, InstanceRequest
  <2>2. QED
    BY <1>4, <1>a, <2>1, PutServicePreserves, SoundKeepsInv DEF PutService
<1>5. ASSUME NEW req \in stamped, PutInstance(req) PROVE Kept
  <2>1. /\ req.name \in Name /\ req.id \in Id
        /\ req.status \in StatusInput /\ req.ts \in Nat
    BY <1>5, <1>a DEF PutInstance, Request, ServiceRequest, InstanceRequest
  <2>2. QED
    BY <1>5, <1>a, <2>1, PutInstancePreserves, SoundKeepsInv DEF PutInstance
<1>6. ASSUME NEW n \in Name, DeleteService(n) PROVE Kept
  BY <1>6, <1>a, DeleteServicePreserves, SoundKeepsInv DEF DeleteService
<1>7. ASSUME NEW k \in Key, NEW status \in Sends, Heartbeat(k, status)
      PROVE  Kept
  BY <1>7, <1>a, <1>c, HeartbeatPreserves, SoundKeepsInv DEF Heartbeat
<1>8. ASSUME NEW k \in Key, NEW status \in {"up", "down"}, SetStatus(k, status)
      PROVE  Kept
  <2>1. status \in Status
    BY DEF Status
  <2>2. QED
    BY <1>8, <1>a, <2>1, SetStatusPreserves, SoundKeepsInv DEF SetStatus
<1>9. ASSUME NEW k \in Key, NEW blocked \in BOOLEAN, SetBlocked(k, blocked)
      PROVE  /\ StoreInv'
             /\ \/ KeepsBlocks(cat, cat')
                \/ /\ SetBlocked(k, FALSE)
                   /\ \A x \in Key \ {k} : cat'.inst[x] = cat.inst[x]
  <2>1. /\ cat' \in Catalogue
        /\ Sound(cat')
        /\ HasInstance(cat', k) /\ cat'.inst[k].blocked = blocked
        /\ \A x \in Key \ {k} : cat'.inst[x] = cat.inst[x]
    BY <1>9, <1>a, SetBlockedPreserves DEF SetBlocked
  <2>2. StoreInv'
    BY <1>9, <1>a, <2>1, SoundKeepsInv DEF SetBlocked
  <2>3. CASE blocked = TRUE
    <3>1. KeepsBlocks(cat, cat')
      BY <2>1, <2>3 DEF KeepsBlocks, SameInstance, BlockedAt
    <3> QED
      BY <2>2, <3>1
  <2>4. CASE blocked = FALSE
    BY <1>9, <2>1, <2>2, <2>4
  <2>5. QED
    BY <2>3, <2>4
<1>10. ASSUME NEW k \in Key, DeleteInstance(k) PROVE Kept
  BY <1>10, <1>a, DeleteInstancePreserves, SoundKeepsInv DEF DeleteInstance
<1>11. ASSUME NEW old \in Name, NEW new \in Name, RenameService(old, new)
       PROVE  Kept
  <2>1. PICK scan \in Scans(cat, old, new) :
          cat' = RenameTx(cat, old, new, now, scan)
    BY <1>11 DEF RenameService
  <2>2. cat' \in Catalogue /\ Sound(cat') /\ KeepsBlocks(cat, cat')
    BY <1>11, <1>a, <2>1, RenamePreserves DEF RenameService
  <2>3. QED
    BY <1>11, <1>a, <2>2, SoundKeepsInv DEF RenameService
<1>12. CASE UNCHANGED vars
  BY <1>12, <1>a, <1>b, SoundKeepsInv DEF vars
<1>13. QED
  BY <1>1, <1>2, <1>3, <1>4, <1>5, <1>6, <1>7, <1>8, <1>9, <1>10, <1>11, <1>12
  DEF Next

(* The invariant holds in every reachable state.                           *)
THEOREM StoreInvariant == Spec => []StoreInv
<1>1. StoreInv /\ [Next]_vars => StoreInv'
  BY NextKeeps
<1>2. QED
  BY <1>1, InitInv, PTL DEF Spec

(* Type correctness of the catalogue under every handler.                  *)
THEOREM TypeCorrect == Spec => []TypeOK
<1>1. StoreInv => TypeOK
  BY DEF StoreInv
<1>2. QED
  BY <1>1, StoreInvariant, PTL

(* No interleaving of registrations, cascading deletes and renames leaves  *)
(* an instance whose service is not in the catalogue, slashes in names and *)
(* ids or not.                                                             *)
THEOREM NoOrphansEver == Spec => []NoOrphans
<1>1. StoreInv => NoOrphans
  BY DEF StoreInv
<1>2. QED
  BY <1>1, StoreInvariant, PTL

(* While neither the new name nor a stored one has a slash, RenameService  *)
(* takes every instance of its service along, with id and block, and       *)
(* touches no other: that it consults the services bucket alone is enough. *)
(* Ids may contain slashes.                                                *)
THEOREM RenameIsSafe == Spec => RenameMovesItsInstances
<1> DEFINE Step == \A old, new \in Name :
                      NoSlashes /\ Valid(new) /\ RenameService(old, new) =>
                         OthersStay(old) /\ AllMove(old, new)
<1>1. StoreInv /\ [Next]_vars => [Step]_vars
  <2> SUFFICES ASSUME StoreInv, NEW old \in Name, NEW new \in Name,
                      NoSlashes, Valid(new), RenameService(old, new)
               PROVE  OthersStay(old) /\ AllMove(old, new)
    OBVIOUS
  <2>1. cat \in Catalogue /\ now \in Nat /\ Sound(cat) /\ RenameAllowed(cat, old, new)
    BY DEF StoreInv, TypeOK, NoOrphans, Sound, Closed, RenameService
  <2>2. PICK scan \in Scans(cat, old, new) :
          cat' = RenameTx(cat, old, new, now, scan)
    BY DEF RenameService
  <2>3. AllValid(cat)
    BY DEF NoSlashes, AllValid
  <2>4. ASSUME NEW k \in Key, HasInstance(cat, k)
        PROVE  StaysOrMoves(cat, cat', old, new, now, k)
    BY <2>1, <2>2, <2>3, <2>4, RenameMoves
  <2>5. QED
    BY <2>4 DEF OthersStay, AllMove, StaysOrMoves
<1>2. QED
  BY <1>1, StoreInvariant, PTL DEF Spec, RenameMovesItsInstances

(* Only the operator lifts a block from an instance that stays.            *)
THEOREM OnlyOperatorUnblocks == Spec => UnblockOnlyByOperator
<1> DEFINE Step == \A k \in Key :
          /\ BlockedAt(cat, k) /\ HasInstance(cat, k)' /\ ~BlockedAt(cat, k)'
          /\ cat'.inst[k].service = cat.inst[k].service
          /\ cat'.inst[k].id = cat.inst[k].id
          => SetBlocked(k, FALSE)
<1>1. StoreInv /\ [Next]_vars => [Step]_vars
  <2> SUFFICES ASSUME StoreInv, [Next]_vars, NEW k \in Key,
                      BlockedAt(cat, k), HasInstance(cat', k), ~BlockedAt(cat', k),
                      cat'.inst[k].service = cat.inst[k].service,
                      cat'.inst[k].id = cat.inst[k].id
               PROVE  SetBlocked(k, FALSE)
    BY DEF BlockedAt, HasInstance
  <2>1. ~KeepsBlocks(cat, cat')
    BY DEF KeepsBlocks, SameInstance, BlockedAt
  <2>2. PICK x \in Key : /\ SetBlocked(x, FALSE)
                         /\ \A y \in Key \ {x} : cat'.inst[y] = cat.inst[y]
    BY <2>1, NextKeeps
  <2>3. x = k
    BY <2>2 DEF BlockedAt, HasInstance
  <2>4. QED
    BY <2>2, <2>3
<1>2. QED
  BY <1>1, StoreInvariant, PTL DEF Spec, UnblockOnlyByOperator
=============================================================================
