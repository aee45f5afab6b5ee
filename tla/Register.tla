------------------------------ MODULE Register ------------------------------
(***************************************************************************)
(* What a scope's configuration promises its clients: every node shows     *)
(* them one active revision or none.  A node publishes the successor of    *)
(* the revision it shows under a stamp of its own, takes over a published  *)
(* revision only if it is newer than the one it shows, and may stop        *)
(* showing one.  Which revisions a node hears of, when and how often is    *)
(* left open.                                                              *)
(***************************************************************************)
EXTENDS Integers

CONSTANTS Node, Revision, Absent

VARIABLES active,     \* per node: the revision it shows
          published   \* the revisions published so far

vars == <<active, published>>

Init == active = [n \in Node |-> Absent] /\ published = {}

Newer(r, old) == \/ old = Absent
                 \/ r.rev > old.rev
                 \/ r.rev = old.rev /\ r.stamp > old.stamp

Show(n, r) == active' = [active EXCEPT ![n] = r]

Publish(n) == \E r \in Revision :
                 /\ r.rev = IF active[n] = Absent THEN 1 ELSE active[n].rev + 1
                 /\ \A q \in published : q.stamp # r.stamp
                 /\ published' = published \union {r}
                 /\ Show(n, r)

TakeOver(n) == \E r \in published : /\ Newer(r, active[n])
                                    /\ Show(n, r)
                                    /\ UNCHANGED published

Withdraw(n) == Show(n, Absent) /\ UNCHANGED published

Next == \E n \in Node : Publish(n) \/ TakeOver(n) \/ Withdraw(n)

Spec == Init /\ [][Next]_vars
=============================================================================
