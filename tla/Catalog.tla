------------------------------ MODULE Catalog ------------------------------
(***************************************************************************)
(* The catalogue one node keeps in its bbolt file: the services bucket and *)
(* the instances bucket.  Every read-write transaction of                  *)
(* internal/store/bolt.go and rename.go is an operator from the catalogue  *)
(* before the transaction to the catalogue after it; bbolt runs them one   *)
(* at a time, so each is atomic.                                           *)
(*                                                                         *)
(* Of a record the model keeps what replication, health checking and       *)
(* discovery look at: whose it is, Status, Blocked and UpdatedAt.          *)
(*                                                                         *)
(* A name, an id or a bucket key is the sequence of the segments that      *)
(* slashes separate in its text: only PutService refuses a name with a slash, and  *)
(* ids are free, so one key may be that of two instances and a scan of     *)
(* "name/" may meet instances of other services.                           *)
(***************************************************************************)
EXTENDS Integers, Sequences

CONSTANTS Segment,  \* what stands between slashes
          Name,     \* service names
          Id,       \* instance ids
          Absent    \* no record under this key

ASSUME TextAssumption == /\ Name \subseteq Seq(Segment) \ {<<>>}
                         /\ Id \subseteq Seq(Segment) \ {<<>>}

\* "starting" and any free-form status behave as "draining" does.
Status == {"up", "down", "draining"}

\* The status of a request body; "" is a request that leaves it out.
StatusInput == Status \union {""}

\* Service.Validate: no slash in the name.
Valid(n) == Len(n) = 1

\* The text name/id.
instanceKey(n, i) == n \o i

Key == {instanceKey(n, i) : n \in Name, i \in Id}

\* The keys with the prefix "name/".
Under(n) == {k \in Key : Len(n) < Len(k) /\ SubSeq(k, 1, Len(n)) = n}

Service  == [updated : Nat]
Instance == [service : Name, id : Id,
             status : Status, blocked : BOOLEAN, updated : Nat]

Services  == [Name -> Service \union {Absent}]
Instances == [Key -> Instance \union {Absent}]
Catalogue == [svc : Services, inst : Instances]

ASSUME AbsentAssumption == Absent \notin Service \union Instance

EmptyCatalogue == [svc  |-> [n \in Name |-> Absent],
                   inst |-> [k \in Key |-> Absent]]

HasService(db, n)  == db.svc[n] # Absent
HasInstance(db, k) == db.inst[k] # Absent

-----------------------------------------------------------------------------
(* Local transactions: ts is the wall-clock reading the call stamps.       *)

PutServiceTx(db, n, ts) == [db EXCEPT !.svc[n] = [updated |-> ts]]

\* Mutant of DeleteServiceTx: no cascade.
DeleteServiceTxNoCascade(db, n) == [db EXCEPT !.svc[n] = Absent]

\* The service goes, and every instance key under "name/" with it.
DeleteServiceTx(db, n) ==
    [svc  |-> [db.svc EXCEPT ![n] = Absent],
     inst |-> [k \in Key |-> IF k \in Under(n) THEN Absent ELSE db.inst[k]]]

\* Instance.Validate turns "" into "up".
Validated(status) == IF status = "" THEN "up" ELSE status

\* The operator's Blocked flag under the key of a registration.
BlockedAt(db, k) == HasInstance(db, k) /\ db.inst[k].blocked

\* A missing service gets a stub, whatever its name.
WithStub(svc, n, ts) ==
    IF svc[n] # Absent THEN svc ELSE [svc EXCEPT ![n] = [updated |-> ts]]

\* Mutant of PutInstanceTx: the default status is left out.
PutInstanceTxNoDefault(db, n, i, status, ts) ==
    [svc  |-> WithStub(db.svc, n, ts),
     inst |-> [db.inst EXCEPT ![instanceKey(n, i)] =
                 [service |-> n, id |-> i, status |-> status,
                  blocked |-> BlockedAt(db, instanceKey(n, i)), updated |-> ts]]]

\* Mutant of PutInstanceTx: the operator's block is not carried over.
PutInstanceTxForgetsBlock(db, n, i, status, ts) ==
    [svc  |-> WithStub(db.svc, n, ts),
     inst |-> [db.inst EXCEPT ![instanceKey(n, i)] =
                 [service |-> n, id |-> i, status |-> Validated(status),
                  blocked |-> FALSE, updated |-> ts]]]

\* The registration replaces the record under its key, be it another
\* service's, all but for the Blocked flag.
PutInstanceTx(db, n, i, status, ts) ==
    [svc  |-> WithStub(db.svc, n, ts),
     inst |-> [db.inst EXCEPT ![instanceKey(n, i)] =
                 [service |-> n, id |-> i, status |-> Validated(status),
                  blocked |-> BlockedAt(db, instanceKey(n, i)), updated |-> ts]]]

Rewrite(db, k, rec) == [db EXCEPT !.inst[k] = rec]

\* An explicit status wins; a bare heartbeat only lifts "down".
HeartbeatTx(db, k, status, ts) ==
    Rewrite(db, k, [db.inst[k] EXCEPT
        !.status  = IF status # "" THEN status
                    ELSE IF @ = "down" THEN "up" ELSE @,
        !.updated = ts])

SetStatusTx(db, k, status, ts) ==
    IF db.inst[k].status = status THEN db
    ELSE Rewrite(db, k, [db.inst[k] EXCEPT !.status = status, !.updated = ts])

\* Mutant of SetBlockedTx: UpdatedAt is not bumped.
SetBlockedTxNoBump(db, k, blocked, ts) ==
    Rewrite(db, k, [db.inst[k] EXCEPT !.blocked = blocked])

SetBlockedTx(db, k, blocked, ts) ==
    Rewrite(db, k, [db.inst[k] EXCEPT !.blocked = blocked, !.updated = ts])

DeleteInstanceTx(db, k) == [db EXCEPT !.inst[k] = Absent]

StoredUnder(db, n) == {k \in Under(n) : HasInstance(db, k)}
MovedTo(db, k, new) == instanceKey(new, db.inst[k].id)

\* How RenameService's cursor may go over the keys under the old name.  It puts
\* while it scans, and what the cursor then meets is bbolt's affair: seen are
\* the keys under the old name it meets only after they were written.  Of the
\* records moved to one key, last is the one whose put comes last.
Scans(db, old, new) ==
    LET found      == StoredUnder(db, old)
        targets(S) == {MovedTo(db, k, new) : k \in S}
    IN  UNION {{[seen |-> seen, last |-> f] :
                  f \in {g \in [targets(found \ seen) -> found \ seen] :
                           /\ seen \subseteq DOMAIN g
                           /\ \A w \in DOMAIN g : MovedTo(db, g[w], new) = w}} :
               seen \in SUBSET (Under(old) \intersect targets(found))}

\* Guarded by RenameAllowed.  Every record under the old name is put under the
\* new one with its id; then all keys the cursor met are deleted.
RenameTx(db, old, new, ts, scan) ==
    [svc  |-> [db.svc EXCEPT ![old] = Absent, ![new] = [updated |-> ts]],
     inst |-> [k \in Key |->
                 IF k \in StoredUnder(db, old) \union scan.seen THEN Absent
                 ELSE IF k \in DOMAIN scan.last
                      THEN [db.inst[scan.last[k]] EXCEPT !.service = new,
                                                         !.updated = ts]
                      ELSE db.inst[k]]]

\* Mutant of RenameAllowed: no ErrConflict.
RenameAllowedNoConflict(db, old, new) == old # new /\ HasService(db, old)

\* ErrNotFound, ErrConflict and the no-op rename of a name to itself.  Only
\* the services bucket is consulted, and the new name is not validated.
RenameAllowed(db, old, new) ==
    old # new /\ HasService(db, old) /\ ~HasService(db, new)

-----------------------------------------------------------------------------
(* The raw writes ApplyRemote makes: no stamp, no stub and no cascade.     *)

PutServiceRaw(db, n, rec)  == [db EXCEPT !.svc[n] = rec]
DeleteServiceRaw(db, n)    == [db EXCEPT !.svc[n] = Absent]
PutInstanceRaw(db, k, rec) == [db EXCEPT !.inst[k] = rec]
DeleteInstanceRaw(db, k)   == [db EXCEPT !.inst[k] = Absent]
=============================================================================
