---------------------------- MODULE AffinityProofs --------------------------
(***************************************************************************)
(* Sticky picks, for any instances, TTL and clock: a client whose picks    *)
(* follow each other keeps its instance for three quarters of the TTL.     *)
(*                                                                         *)
(* The stored binding alone does not say that: a pick works on candidates  *)
(* and a clock reading of its own, and may be about to delete the binding  *)
(* or to write one.  The invariant says what a pick under way knows of the *)
(* last answer.                                                            *)
(***************************************************************************)
EXTENDS Affinity, TLAPS

\* The picks of one client follow each other.
OneAtATime == \A q, r \in Request : q = r

\* For how long after the last answer its instance is promised.
Promised == TTL - TTL \div 4

InWindow == last # Absent /\ now - last.at <= Promised

\* Within the window the stored binding is that of the last answer, and it
\* outlives the window.
Bound == InWindow => /\ bind # Absent /\ bind.inst = last.inst
                     /\ last.at + Promised <= bind.exp

\* What a pick under way knows of the last answer.
Informed(r) ==
    /\ r.now <= now
    /\ r.at # "put" /\ last # Absent => last.inst \in r.cand
    /\ r.at = "expired" /\ bind # Absent => Expired(bind)
    /\ r.at = "choose" => ~InWindow
    /\ r.at = "put" => /\ r.bind.seen = r.now /\ r.bind.exp = r.now + TTL
                       /\ InWindow => r.bind.inst = last.inst

PickInv ==
    /\ TypeOK
    /\ bind # Absent => bind.exp = bind.seen + TTL
    /\ last # Absent => last.inst \in up /\ last.at <= now
    /\ Bound
    /\ \A q \in Request : req[q] # Absent => Informed(req[q])

-----------------------------------------------------------------------------
(* A quarter of the TTL is a natural number.                               *)
LEMMA Quarter == TTL \div 4 \in Nat /\ Promised \in Int
BY AffinityAssumption DEF Promised

(* Initially nothing is bound.                                             *)
LEMMA PickInit == ASSUME Init PROVE PickInv
<1> USE DEF Init
<1>1. TypeOK
  <2>1. now \in Time
    BY AffinityAssumption DEF Time
  <2>2. req \in [Request -> Stage \union {Absent}]
    OBVIOUS
  <2> QED
    BY <2>1, <2>2 DEF TypeOK
<1> QED
  BY <1>1 DEF PickInv, Bound, InWindow

(* A request moves on; nothing else that the invariant looks at changes.   *)
LEMMA PickMoves ==
    ASSUME PickInv, OneAtATime, NEW q \in Request,
           NEW r \in Stage \union {Absent}, req' = [req EXCEPT ![q] = r],
           TypeOK', bind' # Absent => bind'.exp = bind'.seen + TTL,
           last' # Absent => last'.inst \in up' /\ last'.at <= now',
           Bound', r # Absent => Informed(r)'
    PROVE  PickInv'
<1>1. \A p \in Request : req'[p] = r
  BY DEF OneAtATime, PickInv, TypeOK
<1> QED
  BY <1>1 DEF PickInv

(* A step that leaves the requests alone.                                  *)
LEMMA PickStays ==
    ASSUME PickInv, TypeOK', req' = req,
           bind' # Absent => bind'.exp = bind'.seen + TTL,
           last' # Absent => last'.inst \in up' /\ last'.at <= now',
           Bound',
           \A q \in Request : req[q] # Absent => Informed(req[q])'
    PROVE  PickInv'
BY DEF PickInv

(* What the type invariant says of the parts.                              *)
LEMMA PickTypes ==
    ASSUME PickInv
    PROVE  /\ now \in Time /\ now \in Nat
           /\ bind # Absent => /\ bind \in Binding /\ bind.inst \in Inst
                              /\ bind.seen \in Nat /\ bind.exp \in Nat
           /\ last # Absent => last.inst \in Inst /\ last.at \in Nat
<1>1. TTL \in Nat /\ MaxTime \in Nat
  BY AffinityAssumption
<1>2. /\ now \in Time /\ bind \in Binding \union {Absent}
      /\ last \in Answered \union {Absent}
  BY DEF PickInv, TypeOK
<1> QED
  BY <1>1, <1>2 DEF Time, Binding, Answered

(* Time only advances: what is outside the window stays outside.           *)
LEMMA PickTick ==
    ASSUME PickInv, Tick
    PROVE  PickInv'
<1> USE DEF Tick
<1>1. TypeOK'
  BY AffinityAssumption DEF PickInv, TypeOK, Time
<1>2. now \in Nat /\ now' = now + 1 /\ (last # Absent => last.at \in Nat)
  BY PickTypes
<1>3. InWindow' => InWindow
  BY <1>2, Quarter DEF InWindow, Promised
<1>4. ASSUME NEW q \in Request, req[q] # Absent PROVE Informed(req[q])'
  <2>1. Informed(req[q]) /\ req[q].now \in Nat
    BY <1>4 DEF PickInv, TypeOK, Stage, Time
  <2>2. bind # Absent /\ Expired(bind) => Expired(bind)'
    <3>1. bind # Absent => bind.exp \in Int
      BY PickTypes
    <3> QED
      BY <1>2, <3>1 DEF Expired
  <2>3. req[q].now <= now'
    BY <1>2, <2>1 DEF Informed
  <2> QED
    BY <1>3, <2>1, <2>2, <2>3 DEF Informed
<1>5. Bound'
  BY <1>3 DEF PickInv, Bound
<1>6. last' # Absent => last'.inst \in up' /\ last'.at <= now'
  BY <1>2 DEF PickInv
<1> QED
  BY <1>1, <1>4, <1>5, <1>6, PickStays DEF PickInv

(* Instances come and go.                                                  *)
LEMMA PickUpDown ==
    ASSUME PickInv, NEW i \in Inst, GoDown(i) \/ ComeUp(i)
    PROVE  PickInv'
<1> USE DEF GoDown, ComeUp
<1>1. TypeOK'
  BY DEF PickInv, TypeOK
<1>2. UNCHANGED <<now, bind, req>> /\ (last' = last \/ last' = Absent)
  OBVIOUS
<1>3. last' # Absent => last' = last /\ last'.inst \in up'
  BY DEF PickInv
<1>4. InWindow' => InWindow
  BY <1>2 DEF InWindow
<1>5. ASSUME NEW q \in Request, req[q] # Absent PROVE Informed(req[q])'
  BY <1>2, <1>4, <1>5 DEF PickInv, Informed, Expired, InWindow
<1>6. Bound'
  BY <1>2, <1>4 DEF PickInv, Bound, InWindow
<1>7. last' # Absent => last'.at <= now'
  BY <1>2, <1>3 DEF PickInv
<1> QED
  BY <1>1, <1>2, <1>3, <1>5, <1>6, <1>7, PickStays DEF PickInv

(* What the steps below need to know of a request under way.               *)
LEMMA PickFacts ==
    ASSUME PickInv, NEW q \in Request, req[q] # Absent
    PROVE  /\ req[q] \in Stage /\ Informed(req[q])
           /\ req[q].now \in Time /\ req[q].now \in Nat /\ now \in Nat
           /\ req[q].at # "put" => req[q].cand \subseteq Inst
           /\ req[q].at = "put" => /\ req[q].bind \in Binding
                                   /\ req[q].bind.inst \in Inst
           /\ \A st \in {"get", "expired", "choose"} :
                 req[q].at # "put" => /\ [req[q] EXCEPT !.at = st] \in Stage
                                      /\ [req[q] EXCEPT !.at = st].at = st
                                      /\ [req[q] EXCEPT !.at = st].now = req[q].now
                                      /\ [req[q] EXCEPT !.at = st].cand = req[q].cand
<1>1. req[q] \in Stage /\ Informed(req[q]) /\ now \in Nat
  BY DEF PickInv, TypeOK, Time
<1> QED
  BY <1>1 DEF Stage, Time, Binding

(* The answer to a pick: its instance is promised if it is up and its      *)
(* binding is stored for long enough.                                      *)
LEMMA PickAnswers ==
    ASSUME PickInv, OneAtATime, NEW q \in Request,
           req[q] # Absent, NEW i \in Inst, Answer(q, i),
           UNCHANGED <<up, now, sweeping>>, bind' \in Binding,
           bind'.inst = i, bind'.exp = bind'.seen + TTL,
           req[q].now + Promised <= bind'.exp
    PROVE  PickInv'
<1> USE DEF Answer
<1>1. /\ req[q].now \in Time /\ req[q].now \in Nat /\ req[q].now <= now
      /\ now \in Nat
  BY PickFacts DEF Informed
<1>2. TypeOK'
  <2>1. last' \in Answered \union {Absent}
    BY <1>1 DEF Answered
  <2>2. req' \in [Request -> Stage \union {Absent}]
    BY DEF PickInv, TypeOK
  <2>3. up' \subseteq Inst /\ now' \in Time /\ sweeping' \in BOOLEAN
    BY DEF PickInv, TypeOK
  <2> HIDE DEF Answer
  <2> QED
    BY <2>1, <2>2, <2>3 DEF TypeOK
<1>3. last' # Absent => last'.inst \in up' /\ last'.at <= now'
  BY <1>1
<1>4. Bound'
  <2>1. bind' # Absent
    BY AffinityAssumption
  <2>2. last' # Absent => last'.inst = i /\ last'.at = req[q].now
    OBVIOUS
  <2> HIDE DEF Answer
  <2> QED
    BY <2>1, <2>2 DEF Bound, InWindow, Promised
<1> QED
  BY <1>2, <1>3, <1>4, PickMoves

(* A pick begins: the last answer's instance, still up, is a candidate.    *)
LEMMA PickBegins ==
    ASSUME PickInv, OneAtATime, NEW q \in Request,
           ListCandidates(q)
    PROVE  PickInv'
<1>1. /\ req' = [req EXCEPT ![q] = [at |-> "get", cand |-> up, now |-> now]]
      /\ UNCHANGED <<up, now, bind, sweeping, last>>
  BY DEF ListCandidates
<1>a. PICK r : r = [at |-> "get", cand |-> up, now |-> now]
  OBVIOUS
<1>2. /\ r \in Stage /\ r.at = "get" /\ r.cand = up /\ r.now = now
      /\ now \in Nat /\ req' = [req EXCEPT ![q] = r]
  <2>1. up \subseteq Inst /\ now \in Time /\ now \in Nat
    BY PickTypes DEF PickInv, TypeOK
  <2> QED
    BY <1>a, <1>1, <2>1 DEF Stage
<1>3. Informed(r)'
  <2>1. last' # Absent => last'.inst \in up
    BY <1>1 DEF PickInv
  <2> QED
    BY <1>1, <1>2, <2>1 DEF Informed
<1>4. TypeOK'
  BY <1>1, <1>2 DEF PickInv, TypeOK
<1>5. Bound'
  BY <1>1 DEF PickInv, Bound, InWindow
<1> QED
  BY <1>1, <1>2, <1>3, <1>4, <1>5, PickMoves DEF PickInv

(* A pick goes on to another stage, the binding and the last answer being  *)
(* what they were.                                                         *)
LEMMA PickGoesOn ==
    ASSUME PickInv, OneAtATime, NEW q \in Request,
           NEW r \in Stage, req' = [req EXCEPT ![q] = r], Informed(r)',
           UNCHANGED <<up, now, sweeping, last>>, bind' = bind
    PROVE  PickInv'
<1>1. TypeOK'
  BY DEF PickInv, TypeOK
<1>2. Bound'
  BY DEF PickInv, Bound, InWindow
<1> QED
  BY <1>1, <1>2, PickMoves DEF PickInv

(* GetAffinity: a binding that is missing or unusable is not that of an    *)
(* answer within the window; one that is used is.                          *)
LEMMA PickGets ==
    ASSUME PickInv, OneAtATime, NEW q \in Request,
           GetAffinity(q)
    PROVE  PickInv'
<1> DEFINE r == req[q]
<1>1. /\ r # Absent /\ r.at = "get" /\ UNCHANGED <<up, now, bind, sweeping>>
      /\ UNCHANGED last \/ bind # Absent
  BY DEF GetAffinity
<1>2. /\ Informed(r) /\ r \in Stage /\ r.now \in Time /\ r.now \in Nat
      /\ r.now <= now /\ now \in Nat
  BY <1>1, PickFacts DEF Informed
<1>3. CASE /\ bind # Absent => ~Expired(bind) /\ bind.inst \notin r.cand
           /\ req' = [req EXCEPT ![q].at = "choose"] /\ UNCHANGED last
  <2>1. ~InWindow
    BY <1>1, <1>2, <1>3 DEF PickInv, Bound, Informed, InWindow
  <2>2. PICK k \in Stage :
           /\ k = [r EXCEPT !.at = "choose"] /\ req' = [req EXCEPT ![q] = k]
           /\ k.at = "choose" /\ k.now = r.now
    BY <1>1, <1>3, PickFacts DEF PickInv, TypeOK
  <2>3. Informed(k)'
    BY <1>1, <1>2, <1>3, <2>1, <2>2, PickFacts DEF Informed, InWindow
  <2> QED
    BY <1>1, <1>3, <2>2, <2>3, PickGoesOn
<1>4. CASE /\ bind # Absent /\ Expired(bind)
           /\ req' = [req EXCEPT ![q].at = "expired"] /\ UNCHANGED last
  <2>2. PICK k \in Stage :
           /\ k = [r EXCEPT !.at = "expired"] /\ req' = [req EXCEPT ![q] = k]
           /\ k.at = "expired" /\ k.now = r.now /\ k.cand = r.cand
    BY <1>1, <1>4, PickFacts DEF PickInv, TypeOK
  <2>3. Informed(k)'
    BY <1>1, <1>2, <1>4, <2>2 DEF Informed, Expired
  <2> QED
    BY <1>1, <1>4, <2>2, <2>3, PickGoesOn
<1>5. CASE /\ bind # Absent /\ ~Expired(bind) /\ bind.inst \in r.cand
           /\ Due(bind, r.now) /\ UNCHANGED last
           /\ req' = [req EXCEPT ![q] =
                        [at |-> "put", now |-> r.now,
                         bind |-> [bind EXCEPT !.seen = r.now, !.exp = Window(r.now)]]]
  <2>1. PICK b : b = [bind EXCEPT !.seen = r.now, !.exp = Window(r.now)]
    OBVIOUS
  <2>2. bind \in Binding
    BY <1>5, PickTypes
  <2>3. b.inst = bind.inst /\ b.seen = r.now /\ b.exp = r.now + TTL
    BY <2>1, <2>2 DEF Binding, Window
  <2>4. r.now + TTL \in 0..MaxTime + TTL
    BY <1>2, AffinityAssumption DEF Time
  <2>5. b \in Binding
    BY <1>2, <2>1, <2>2, <2>4 DEF Binding, Window
  <2>6. PICK k : k = [at |-> "put", bind |-> b, now |-> r.now]
    OBVIOUS
  <2>7. /\ k \in Stage /\ k.at = "put" /\ k.bind = b /\ k.now = r.now
        /\ req' = [req EXCEPT ![q] = k]
    BY <1>2, <1>5, <2>1, <2>5, <2>6 DEF Stage
  <2>8. InWindow => bind.inst = last.inst
    BY DEF PickInv, Bound
  <2>9. Informed(k)'
    <3>1. InWindow' => InWindow
      BY <1>1, <1>5 DEF InWindow
    <3>2. last' = last /\ r.now <= now'
      BY <1>1, <1>2, <1>5
    <3> QED
      BY <2>3, <2>7, <2>8, <3>1, <3>2 DEF Informed
  <2> QED
    BY <1>1, <1>5, <2>7, <2>9, PickGoesOn
<1>6. CASE /\ bind # Absent /\ ~Expired(bind) /\ bind.inst \in r.cand
           /\ ~Due(bind, r.now) /\ Answer(q, bind.inst)
  <2>1. bind' = bind /\ bind \in Binding /\ bind.inst \in Inst
    BY <1>1, <1>6, PickTypes
  <2>2. bind.exp = bind.seen + TTL /\ bind.seen \in Nat
    BY <1>6, PickTypes DEF PickInv
  <2>3. r.now + Promised <= bind.exp
    BY <1>2, <1>6, <2>2, Quarter, AffinityAssumption DEF Due, Promised
  <2> QED
    BY <1>1, <1>6, <2>1, <2>2, <2>3, PickAnswers
<1> QED
  BY <1>1, <1>3, <1>4, <1>5, <1>6 DEF GetAffinity

(* DeleteAffinity: what a pick deletes as expired is not the binding of an *)
(* answer within the window.                                               *)
LEMMA PickDeletes ==
    ASSUME PickInv, OneAtATime, NEW q \in Request,
           DeleteAffinity(q)
    PROVE  PickInv'
<1> DEFINE r == req[q]
<1>1. /\ r # Absent /\ r.at = "expired" /\ bind' = Absent
      /\ UNCHANGED <<up, now, sweeping, last>>
  BY DEF DeleteAffinity
<1>2. Informed(r) /\ r.now \in Nat /\ r.now <= now /\ now \in Nat
  BY <1>1, PickFacts DEF Informed
<1>3. PICK k \in Stage :
         /\ k = [r EXCEPT !.at = "choose"] /\ req' = [req EXCEPT ![q] = k]
         /\ k.at = "choose" /\ k.now = r.now /\ k.cand = r.cand
  BY <1>1, PickFacts DEF DeleteAffinity, PickInv, TypeOK
<1>4. ~InWindow
  <2>1. bind # Absent => Expired(bind) /\ bind.exp \in Nat
    BY <1>1, <1>2, PickTypes DEF Informed
  <2>2. last # Absent => last.at \in Nat
    BY PickTypes
  <2>3. ASSUME InWindow PROVE FALSE
    <3>1. last # Absent /\ bind # Absent /\ last.at + Promised <= bind.exp
      BY <2>3 DEF InWindow, PickInv, Bound
    <3>2. now <= last.at + Promised /\ bind.exp < now
      BY <1>2, <2>1, <2>2, <2>3, <3>1, Quarter DEF InWindow, Expired
    <3> QED
      BY <1>2, <2>1, <2>2, <3>1, <3>2, Quarter
  <2> QED
    BY <2>3
<1>5. ~InWindow'
  BY <1>1, <1>4 DEF InWindow
<1>6. Informed(k)'
  <2>1. last' = last /\ k.now <= now' /\ (last # Absent => last.inst \in k.cand)
    BY <1>1, <1>2, <1>3 DEF Informed
  <2> QED
    BY <1>3, <1>5, <2>1 DEF Informed
<1>7. TypeOK'
  BY <1>1, <1>3 DEF PickInv, TypeOK
<1>8. Bound'
  BY <1>5 DEF Bound
<1> QED
  BY <1>1, <1>3, <1>6, <1>7, <1>8, PickMoves DEF PickInv

(* WeightedPick: a new instance is chosen only outside the window.         *)
LEMMA PickChooses ==
    ASSUME PickInv, OneAtATime, NEW q \in Request,
           NEW i \in Inst, WeightedPick(q, i)
    PROVE  PickInv'
<1> DEFINE r == req[q]
<1>1. /\ r # Absent /\ r.at = "choose" /\ UNCHANGED <<up, now, bind, sweeping, last>>
  BY DEF WeightedPick
<1>2. /\ Informed(r) /\ r.now \in Time /\ r.now \in Nat /\ r.now <= now
      /\ now \in Nat
  BY <1>1, PickFacts DEF Informed
<1>3. PICK b : b = [inst |-> i, seen |-> r.now, exp |-> Window(r.now)]
  OBVIOUS
<1>4. b \in Binding /\ b.seen = r.now /\ b.exp = r.now + TTL
  <2>1. r.now + TTL \in 0..MaxTime + TTL
    BY <1>2, AffinityAssumption DEF Time
  <2> QED
    BY <1>2, <1>3, <2>1 DEF Binding, Window
<1>5. PICK k : k = [at |-> "put", bind |-> b, now |-> r.now]
  OBVIOUS
<1>6. /\ k \in Stage /\ k.at = "put" /\ k.bind = b /\ k.now = r.now
      /\ req' = [req EXCEPT ![q] = k]
  BY <1>2, <1>3, <1>4, <1>5 DEF Stage, WeightedPick
<1>7. ~InWindow'
  BY <1>1, <1>2 DEF Informed, InWindow
<1>8. Informed(k)'
  <2>1. k.now <= now'
    BY <1>1, <1>2, <1>6
  <2> QED
    BY <1>4, <1>6, <1>7, <2>1 DEF Informed
<1> QED
  BY <1>1, <1>6, <1>8, PickGoesOn

(* PutAffinity: the binding written is that of the answer.                 *)
LEMMA PickPuts ==
    ASSUME PickInv, OneAtATime, NEW q \in Request,
           PutAffinity(q)
    PROVE  PickInv'
<1> DEFINE r == req[q]
<1>1. /\ r # Absent /\ r.at = "put" /\ bind' = r.bind /\ UNCHANGED <<up, now, sweeping>>
      /\ Answer(q, r.bind.inst)
  BY DEF PutAffinity
<1>2. /\ Informed(r) /\ r.now \in Nat /\ r.bind \in Binding /\ r.bind.inst \in Inst
  BY <1>1, PickFacts
<1>3. r.bind.seen = r.now /\ r.bind.exp = r.now + TTL
  BY <1>1, <1>2 DEF Informed
<1>4. r.now + Promised <= bind'.exp
  BY <1>1, <1>2, <1>3, Quarter, AffinityAssumption DEF Promised
<1> QED
  BY <1>1, <1>2, <1>3, <1>4, PickAnswers

(* The sweeper deletes a binding that has not expired only by ending the   *)
(* promise with it.                                                        *)
LEMMA PickSweeps ==
    ASSUME PickInv, SweepCollect \/ SweepDelete
    PROVE  PickInv'
<1>1. UNCHANGED <<up, now, req>> /\ (last' = last \/ last' = Absent)
  BY DEF SweepCollect, SweepDelete
<1>2. TypeOK'
  BY DEF PickInv, TypeOK, SweepCollect, SweepDelete
<1>3. InWindow' => InWindow /\ last' = last
  BY <1>1 DEF InWindow
<1>4. bind' = bind \/ (bind' = Absent /\ (bind # Absent => Expired(bind) \/ last' = Absent))
  BY DEF SweepCollect, SweepDelete
<1>5. InWindow' => bind # Absent /\ ~Expired(bind)
  <2>1. ASSUME InWindow', Expired(bind) PROVE FALSE
    <3>1. InWindow /\ last # Absent /\ bind # Absent /\ last.at + Promised <= bind.exp
      BY <1>3, <2>1 DEF InWindow, PickInv, Bound
    <3>2. now \in Nat /\ last.at \in Nat /\ bind.exp \in Nat
      BY <3>1, PickTypes
    <3> QED
      BY <2>1, <3>1, <3>2, Quarter DEF InWindow, Expired
  <2> QED
    BY <1>3, <2>1 DEF PickInv, Bound
<1>6. InWindow' => bind' = bind
  BY <1>4, <1>5 DEF InWindow
<1>7. Bound'
  BY <1>3, <1>6 DEF PickInv, Bound
<1>8. bind' # Absent => bind' = bind
  BY <1>4
<1>9. ASSUME NEW q \in Request, req[q] # Absent PROVE Informed(req[q])'
  BY <1>1, <1>3, <1>8, <1>9 DEF PickInv, Informed, Expired, InWindow
<1>10. last' # Absent => last'.inst \in up' /\ last'.at <= now'
  BY <1>1 DEF PickInv
<1> QED
  BY <1>1, <1>2, <1>7, <1>8, <1>9, <1>10, PickStays DEF PickInv

(* The invariant is preserved by every step.                               *)
LEMMA PickStep ==
    ASSUME OneAtATime, PickInv, [Next]_vars
    PROVE  PickInv'
<1>1. CASE Tick
  BY <1>1, PickTick
<1>2. ASSUME NEW i \in Inst, GoDown(i) \/ ComeUp(i) PROVE PickInv'
  BY <1>2, PickUpDown
<1>3. ASSUME NEW q \in Request, ListCandidates(q) PROVE PickInv'
  BY <1>3, PickBegins
<1>4. ASSUME NEW q \in Request, GetAffinity(q) PROVE PickInv'
  BY <1>4, PickGets
<1>5. ASSUME NEW q \in Request, DeleteAffinity(q) PROVE PickInv'
  BY <1>5, PickDeletes
<1>6. ASSUME NEW q \in Request, PutAffinity(q) PROVE PickInv'
  BY <1>6, PickPuts
<1>7. ASSUME NEW q \in Request, NEW i \in Inst, WeightedPick(q, i) PROVE PickInv'
  BY <1>7, PickChooses
<1>8. CASE SweepCollect \/ SweepDelete
  BY <1>8, PickSweeps
<1>9. CASE UNCHANGED vars
  BY <1>9 DEF vars, PickInv, TypeOK, Bound, InWindow, Informed, Expired
<1> QED
  BY <1>1, <1>2, <1>3, <1>4, <1>5, <1>6, <1>7, <1>8, <1>9 DEF Next

(* Only an answer starts a promise, and within the window it is that of    *)
(* the same instance.                                                      *)
LEMMA PickSticks ==
    ASSUME PickInv, Next
    PROVE  StickyFor(TTL - TTL \div 4)
<1> SUFFICES ASSUME last # Absent, last' # Absent, last' # last,
                    now - last.at <= Promised
             PROVE  last'.inst = last.inst
  BY DEF StickyFor, Promised
<1>1. InWindow
  BY DEF InWindow
<1>2. Bound /\ bind.inst = last.inst
  BY <1>1 DEF PickInv, Bound
<1>3. ASSUME NEW q \in Request, NEW i \in Inst, Answer(q, i) PROVE last'.inst = i
  BY <1>3 DEF Answer
<1>4. PICK q \in Request : GetAffinity(q) \/ PutAffinity(q)
  BY DEF Next, Tick, GoDown, ComeUp, ListCandidates,
         DeleteAffinity, WeightedPick, SweepCollect, SweepDelete
<1>5. CASE GetAffinity(q)
  <2>1. bind # Absent /\ Answer(q, bind.inst)
    BY <1>5 DEF GetAffinity
  <2> QED
    BY <1>2, <1>3, <2>1, PickTypes
<1>6. CASE PutAffinity(q)
  <2>1. /\ req[q] # Absent /\ req[q].at = "put" /\ Answer(q, req[q].bind.inst)
    BY <1>6 DEF PutAffinity
  <2>2. req[q].bind.inst \in Inst /\ Informed(req[q])
    BY <2>1, PickFacts
  <2>3. req[q].bind.inst = last.inst
    BY <1>1, <2>1, <2>2 DEF Informed
  <2> QED
    BY <1>3, <2>1, <2>2, <2>3
<1> QED
  BY <1>4, <1>5, <1>6

(* discover_pick.go: picks that follow each other keep their instance for  *)
(* three quarters of the TTL.                                              *)
THEOREM KeepsItsInstance ==
    ASSUME OneAtATime
    PROVE  Spec => StickyThreeQuarters
<1>1. Init => PickInv
  BY PickInit
<1>2. PickInv /\ [Next]_vars => PickInv'
  BY PickStep
<1>3. PickInv /\ [Next]_vars => [StickyFor(TTL - TTL \div 4)]_vars
  BY PickSticks
<1> QED
  BY <1>1, <1>2, <1>3, PTL DEF Spec, StickyThreeQuarters

(* The bindings and requests of every step are of their types, picks       *)
(* overlapping or not.                                                     *)
LEMMA PickTyped ==
    ASSUME TypeOK, [Next]_vars
    PROVE  TypeOK'
<1> USE DEF TypeOK
<1>1. TTL \in Nat \ {0} /\ MaxTime \in Nat
  BY AffinityAssumption
<1>2. ASSUME NEW q \in Request, req[q] # Absent
      PROVE  /\ req[q] \in Stage /\ req[q].now \in Time
             /\ Window(req[q].now) \in 0..MaxTime + TTL
             /\ req[q].at # "put" =>
                   /\ req[q].cand \subseteq Inst
                   /\ \A st \in {"get", "expired", "choose"} :
                         [req[q] EXCEPT !.at = st] \in Stage
             /\ req[q].at = "put" => req[q].bind \in Binding
  <2>1. req[q] \in Stage
    BY <1>2
  <2> QED
    BY <1>1, <2>1 DEF Stage, Time, Window
<1>3. ASSUME NEW q \in Request, NEW i \in Inst, req[q] # Absent, Answer(q, i)
      PROVE  /\ req' \in [Request -> Stage \union {Absent}]
             /\ last' \in Answered \union {Absent}
  BY <1>2, <1>3 DEF Answer, Answered
<1>4. CASE Tick
  BY <1>1, <1>4 DEF Tick, Time
<1>5. ASSUME NEW i \in Inst, GoDown(i) \/ ComeUp(i) PROVE TypeOK'
  BY <1>5 DEF GoDown, ComeUp
<1>6. ASSUME NEW q \in Request, ListCandidates(q) PROVE TypeOK'
  BY <1>6 DEF ListCandidates, Stage
<1>7. ASSUME NEW q \in Request, GetAffinity(q) PROVE TypeOK'
  <2>1. /\ req[q] # Absent /\ req[q].at = "get" /\ UNCHANGED <<up, now, bind, sweeping>>
    BY <1>7 DEF GetAffinity
  <2>2. CASE req' = [req EXCEPT ![q].at = "choose"] /\ UNCHANGED last
    BY <1>2, <2>1, <2>2
  <2>3. CASE req' = [req EXCEPT ![q].at = "expired"] /\ UNCHANGED last
    BY <1>2, <2>1, <2>3
  <2>4. CASE bind # Absent /\ Answer(q, bind.inst)
    <3>1. bind.inst \in Inst
      BY <2>4 DEF Binding
    <3> QED
      BY <1>3, <2>1, <2>4, <3>1
  <2>5. ASSUME NEW b, NEW k, bind # Absent,
               b = [bind EXCEPT !.seen = req[q].now, !.exp = Window(req[q].now)],
               k = [at |-> "put", now |-> req[q].now, bind |-> b],
               req' = [req EXCEPT ![q] = k], UNCHANGED last
        PROVE  TypeOK'
    <3>1. b \in Binding
      BY <1>2, <2>1, <2>5 DEF Binding
    <3>2. k \in Stage
      BY <1>2, <2>1, <2>5, <3>1 DEF Stage
    <3> QED
      BY <2>1, <2>5, <3>2
  <2> QED
    BY <1>7, <2>2, <2>3, <2>4, <2>5 DEF GetAffinity
<1>8. ASSUME NEW q \in Request, DeleteAffinity(q) PROVE TypeOK'
  BY <1>2, <1>8 DEF DeleteAffinity
<1>9. ASSUME NEW q \in Request, PutAffinity(q) PROVE TypeOK'
  <2>1. req[q].bind \in Binding /\ req[q].bind.inst \in Inst
    BY <1>2, <1>9 DEF PutAffinity, Binding
  <2> QED
    BY <1>3, <1>9, <2>1 DEF PutAffinity
<1>10. ASSUME NEW q \in Request, NEW i \in Inst, WeightedPick(q, i)
       PROVE  TypeOK'
  <2>1. PICK b : b = [inst |-> i, seen |-> req[q].now, exp |-> Window(req[q].now)]
    OBVIOUS
  <2>2. b \in Binding
    BY <1>2, <1>10, <2>1 DEF Binding, WeightedPick
  <2>3. [at |-> "put", bind |-> b, now |-> req[q].now] \in Stage
    BY <1>2, <1>10, <2>2 DEF Stage, WeightedPick
  <2> QED
    BY <1>10, <2>1, <2>3 DEF WeightedPick
<1>11. CASE SweepCollect \/ SweepDelete
  BY <1>11 DEF SweepCollect, SweepDelete
<1>12. CASE UNCHANGED vars
  BY <1>12 DEF vars
<1> QED
  BY <1>4, <1>5, <1>6, <1>7, <1>8, <1>9, <1>10, <1>11, <1>12 DEF Next

(* discover_pick.go, affinity.go: the types of every reachable state.      *)
THEOREM PickTypeCorrect == Spec => []TypeOK
<1>1. Init => TypeOK
  BY PickInit DEF PickInv
<1>2. TypeOK /\ [Next]_vars => TypeOK'
  BY PickTyped
<1> QED
  BY <1>1, <1>2, PTL DEF Spec
=============================================================================
