------------------------------ MODULE Affinity ------------------------------
(***************************************************************************)
(* Sticky picks on one node: GET /discover/{name}/pick?token=...           *)
(* (internal/server/discover_pick.go), the binding it keeps                *)
(* (internal/store/affinity.go) and the sweeper of main.go, for one        *)
(* service and one token.                                                  *)
(*                                                                         *)
(* A pick lists the candidates, reads the binding, may delete it as        *)
(* expired and may write it, each in a transaction of its own; the sweeper *)
(* collects expired keys in one transaction and deletes them in another.   *)
(* Replication of bindings is ApplyRemote's, as in Cluster.                *)
(***************************************************************************)
EXTENDS Integers

CONSTANTS Inst,      \* instances of the service
          Request,   \* picks that may be in progress at the same time
          TTL,       \* affinityTTL
          MaxTime,   \* bound on the wall clock
          Absent

VARIABLES up,        \* instances that are up and not blocked
          now,       \* wall clock
          bind,      \* the stored binding
          req,       \* per request: where it is
          sweeping,  \* has the sweeper collected the key?
          last       \* history: the last answer, while its instance stays up

vars == <<up, now, bind, req, sweeping, last>>

Time    == 0..MaxTime
Binding == [inst : Inst, seen : Time, exp : 0..MaxTime + TTL]

\* A request past discoverPick's listing: its candidates, its clock reading
\* and, once it has to write, the binding to write.
Stage == [at : {"get", "expired", "choose"}, cand : SUBSET Inst, now : Time]
         \union [at : {"put"}, bind : Binding, now : Time]

\* The last answer.
Answered == [inst : Inst, at : Time]

ASSUME AffinityAssumption == /\ TTL \in Nat \ {0} /\ MaxTime \in Nat
                             /\ Absent \notin Binding \union Stage \union Answered

TypeOK == /\ up \subseteq Inst
          /\ now \in Time
          /\ bind \in Binding \union {Absent}
          /\ req \in [Request -> Stage \union {Absent}]
          /\ sweeping \in BOOLEAN
          /\ last \in Answered \union {Absent}

Init == /\ up = Inst
        /\ now = 0
        /\ bind = Absent
        /\ req = [q \in Request |-> Absent]
        /\ sweeping = FALSE
        /\ last = Absent

Tick == /\ now < MaxTime
        /\ now' = now + 1
        /\ UNCHANGED <<up, bind, req, sweeping, last>>

GoDown(i) == /\ i \in up
             /\ up' = up \ {i}
             /\ last' = IF last # Absent /\ last.inst = i THEN Absent ELSE last
             /\ UNCHANGED <<now, bind, req, sweeping>>

ComeUp(i) == /\ i \notin up
             /\ up' = up \union {i}
             /\ UNCHANGED <<now, bind, req, sweeping, last>>

-----------------------------------------------------------------------------
(* A pick.                                                                 *)

\* upInstances; without a candidate the answer is 503.
ListCandidates(q) ==
    /\ req[q] = Absent
    /\ up # {}
    /\ req' = [req EXCEPT ![q] = [at |-> "get", cand |-> up, now |-> now]]
    /\ UNCHANGED <<up, now, bind, sweeping, last>>

\* The answer leaves; the window is counted from the request's own reading.
Answer(q, i) ==
    /\ req' = [req EXCEPT ![q] = Absent]
    /\ last' = IF i \in up THEN [inst |-> i, at |-> req[q].now] ELSE Absent

Window(t) == t + TTL

Expired(b) == b.exp < now

\* Mutant of Due: the window slides only in its last quarter.
DueLate(b, t) == t - b.seen > (3 * TTL) \div 4

\* Is a refresh of the binding due?
Due(b, t) == t - b.seen > TTL \div 4

\* GetAffinity: missing, expired, or live; a live binding is honoured when its
\* instance is a candidate, and written back when a refresh is due.
GetAffinity(q) ==
    LET r == req[q]
        refreshed == [bind EXCEPT !.seen = r.now, !.exp = Window(r.now)]
    IN  /\ r # Absent
        /\ r.at = "get"
        /\ \/ /\ bind # Absent => ~Expired(bind) /\ bind.inst \notin r.cand
              /\ req' = [req EXCEPT ![q].at = "choose"]
              /\ UNCHANGED last
           \/ /\ bind # Absent /\ Expired(bind)
              /\ req' = [req EXCEPT ![q].at = "expired"]
              /\ UNCHANGED last
           \/ /\ bind # Absent /\ ~Expired(bind) /\ bind.inst \in r.cand
              /\ IF Due(bind, r.now)
                 THEN /\ req' = [req EXCEPT ![q] =
                                   [at |-> "put", bind |-> refreshed, now |-> r.now]]
                      /\ UNCHANGED last
                 ELSE Answer(q, bind.inst)
        /\ UNCHANGED <<up, now, bind, sweeping>>

\* The expired binding, or whatever is there by now, is deleted.
DeleteAffinity(q) ==
    /\ req[q] # Absent
    /\ req[q].at = "expired"
    /\ bind' = Absent
    /\ req' = [req EXCEPT ![q].at = "choose"]
    /\ UNCHANGED <<up, now, sweeping, last>>

\* weightedPick may return any candidate.
WeightedPick(q, i) ==
    LET r == req[q]
        new == [inst |-> i, seen |-> r.now, exp |-> Window(r.now)]
    IN  /\ r # Absent
        /\ r.at = "choose"
        /\ i \in r.cand
        /\ req' = [req EXCEPT ![q] = [at |-> "put", bind |-> new, now |-> r.now]]
        /\ UNCHANGED <<up, now, bind, sweeping, last>>

PutAffinity(q) ==
    /\ req[q] # Absent
    /\ req[q].at = "put"
    /\ bind' = req[q].bind
    /\ Answer(q, req[q].bind.inst)
    /\ UNCHANGED <<up, now, sweeping>>

-----------------------------------------------------------------------------
(* SweepExpiredAffinity.                                                   *)

SweepCollect == /\ ~sweeping
                /\ bind # Absent /\ Expired(bind)
                /\ sweeping' = TRUE
                /\ UNCHANGED <<up, now, bind, req, last>>

\* The key is deleted, whatever is stored under it by now.
SweepDelete == /\ sweeping
               /\ bind' = Absent
               /\ sweeping' = FALSE
               /\ last' = IF bind # Absent /\ ~Expired(bind) THEN Absent ELSE last
               /\ UNCHANGED <<up, now, req>>

Next == \/ Tick
        \/ \E i \in Inst : GoDown(i) \/ ComeUp(i)
        \/ \E q \in Request : \/ ListCandidates(q) \/ GetAffinity(q)
                              \/ DeleteAffinity(q) \/ PutAffinity(q)
                              \/ \E i \in Inst : WeightedPick(q, i)
        \/ SweepCollect \/ SweepDelete

Spec == Init /\ [][Next]_vars

-----------------------------------------------------------------------------
\* A pick that is answered within the given time of the previous one, whose
\* instance has been up since, gets the same instance.
StickyFor(window) ==
    last # Absent /\ last' # Absent /\ last' # last /\ now - last.at <= window
       => last'.inst = last.inst

(* The window that refreshing only every quarter of the TTL leaves: a      *)
(* client whose picks follow each other within three quarters of the TTL   *)
(* keeps its instance, however the instances come and go meanwhile.  The   *)
(* sweeper's deletion of a binding it found expired and that was renewed   *)
(* since (SweepDelete) is the one exception.                               *)
StickyThreeQuarters == [][StickyFor(TTL - TTL \div 4)]_vars
=============================================================================
