------------------------------- MODULE Store -------------------------------
(***************************************************************************)
(* One discovery node, not clustered: its catalogue and the API handlers   *)
(* of internal/server that change it, called concurrently by service       *)
(* clients, operators and the health checker.                              *)
(*                                                                         *)
(* PutService and PutInstance read the wall clock before they open the     *)
(* write transaction, so a request may commit a stamp that is older than   *)
(* what another request committed meanwhile: a request is first Stamped    *)
(* and later committed.  The other operations stamp inside the             *)
(* transaction.  Who may call an operation (roles, ACL, managed instances) *)
(* is left open here: any caller may make any call.                        *)
(***************************************************************************)
EXTENDS Catalog, FiniteSets

CONSTANTS Sends,        \* the statuses clients send
          MaxTime,      \* bound on the wall clock
          MaxStamped,   \* bound on the requests between stamp and commit
          MaxStored     \* bound on the stored instances

ASSUME BoundsAssumption == /\ Sends \subseteq StatusInput
                           /\ MaxTime \in Nat /\ MaxStamped \in Nat
                           /\ MaxStored \in Nat

VARIABLES cat,       \* the catalogue
          now,       \* the wall clock
          stamped    \* requests stamped and not yet committed

vars == <<cat, now, stamped>>

ServiceRequest  == [op : {"putService"}, name : Name, ts : Nat]
InstanceRequest == [op : {"putInstance"}, name : Name, id : Id,
                    status : StatusInput, ts : Nat]
Request == ServiceRequest \union InstanceRequest

TypeOK == /\ cat \in Catalogue
          /\ now \in Nat
          /\ stamped \subseteq Request

Init == /\ cat = EmptyCatalogue
        /\ now = 0
        /\ stamped = {}

Tick == /\ now < MaxTime
        /\ now' = now + 1
        /\ UNCHANGED <<cat, stamped>>

Stamp(req) == /\ Cardinality(stamped) < MaxStamped
              /\ stamped' = stamped \union {req}
              /\ UNCHANGED <<cat, now>>

\* Validate comes before the stamp.
StampPutService(n) ==
    /\ Valid(n)
    /\ Stamp([op |-> "putService", name |-> n, ts |-> now])

StampPutInstance(n, i, status) ==
    Stamp([op |-> "putInstance", name |-> n, id |-> i,
           status |-> status, ts |-> now])

PutService(req) ==
    /\ req.op = "putService"
    /\ cat' = PutServiceTx(cat, req.name, req.ts)
    /\ stamped' = stamped \ {req}
    /\ UNCHANGED now

PutInstance(req) ==
    /\ req.op = "putInstance"
    /\ \/ HasInstance(cat, instanceKey(req.name, req.id))
       \/ Cardinality({k \in Key : HasInstance(cat, k)}) < MaxStored
    /\ cat' = PutInstanceTx(cat, req.name, req.id, req.status, req.ts)
    /\ stamped' = stamped \ {req}
    /\ UNCHANGED now

DeleteService(n) ==
    /\ HasService(cat, n)
    /\ cat' = DeleteServiceTx(cat, n)
    /\ UNCHANGED <<now, stamped>>

Heartbeat(k, status) ==
    /\ HasInstance(cat, k)
    /\ cat' = HeartbeatTx(cat, k, status, now)
    /\ UNCHANGED <<now, stamped>>

\* The health checker's only verdicts are up and down.
SetStatus(k, status) ==
    /\ HasInstance(cat, k)
    /\ cat' = SetStatusTx(cat, k, status, now)
    /\ UNCHANGED <<now, stamped>>

SetBlocked(k, blocked) ==
    /\ HasInstance(cat, k)
    /\ cat' = SetBlockedTx(cat, k, blocked, now)
    /\ UNCHANGED <<now, stamped>>

DeleteInstance(k) ==
    /\ HasInstance(cat, k)
    /\ cat' = DeleteInstanceTx(cat, k)
    /\ UNCHANGED <<now, stamped>>

RenameService(old, new) ==
    /\ RenameAllowed(cat, old, new)
    /\ \E scan \in Scans(cat, old, new) :
          cat' = RenameTx(cat, old, new, now, scan)
    /\ UNCHANGED <<now, stamped>>

Next ==
    \/ Tick
    \/ \E n \in Name : StampPutService(n)
    \/ \E n \in Name, i \in Id, status \in Sends : StampPutInstance(n, i, status)
    \/ \E req \in stamped : PutService(req) \/ PutInstance(req)
    \/ \E n \in Name : DeleteService(n)
    \/ \E k \in Key, status \in Sends : Heartbeat(k, status)
    \/ \E k \in Key, status \in {"up", "down"} : SetStatus(k, status)
    \/ \E k \in Key, blocked \in BOOLEAN : SetBlocked(k, blocked)
    \/ \E k \in Key : DeleteInstance(k)
    \/ \E old, new \in Name : RenameService(old, new)

Spec == Init /\ [][Next]_vars

-----------------------------------------------------------------------------
(* An instance's service is always in the services bucket: PutInstance     *)
(* creates the missing service, DeleteService cascades, RenameService      *)
(* moves the instances along, whatever the order in which concurrent       *)
(* requests commit and however the names are nested.                       *)
NoOrphans == \A k \in Key : HasInstance(cat, k) =>
                            HasService(cat, cat.inst[k].service)

\* The stored instances of other services are left as they are.
OthersStay(old) ==
    \A k \in Key : HasInstance(cat, k) /\ cat.inst[k].service # old =>
                   cat'.inst[k] = cat.inst[k]

\* Every stored instance of old is under the new name, with its block.
AllMove(old, new) ==
    \A k \in Key : HasInstance(cat, k) /\ cat.inst[k].service = old =>
        cat'.inst[MovedTo(cat, k, new)] =
            [cat.inst[k] EXCEPT !.service = new, !.updated = now]

\* No stored service has a slash in its name.
NoSlashes == \A n \in Name : HasService(cat, n) => Valid(n)

(* RenameService looks for a conflict in the services bucket only and puts *)
(* records while it scans, yet as long as neither the new name nor a       *)
(* stored one has a slash, every instance of the service arrives under the *)
(* new name with its id and its block, and no other instance is moved,     *)
(* overwritten or lost.                                                    *)
RenameMovesItsInstances ==
    [][\A old, new \in Name :
          NoSlashes /\ Valid(new) /\ RenameService(old, new) =>
             OthersStay(old) /\ AllMove(old, new)]_vars

(* The Blocked flag of an instance that stays in the catalogue falls only  *)
(* in the step in which the operator lifts the block: no registration,     *)
(* heartbeat, health verdict or rename clears it.                          *)
UnblockOnlyByOperator ==
    [][\A k \in Key :
          /\ BlockedAt(cat, k) /\ HasInstance(cat, k)' /\ ~BlockedAt(cat, k)'
          /\ cat'.inst[k].service = cat.inst[k].service
          /\ cat'.inst[k].id = cat.inst[k].id
          => SetBlocked(k, FALSE)]_vars
=============================================================================
