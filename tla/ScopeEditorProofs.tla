------------------------- MODULE ScopeEditorProofs -------------------------
(***************************************************************************)
(* The config editor, for any scopes, variables and other operators, any   *)
(* number of requests under way and any number of editors mounted: which   *)
(* scope it shows, what a rollback publishes, what a clean editor has on   *)
(* the screen and which row the dialog writes into.                        *)
(*                                                                         *)
(* The first two rest on what the copies say that are under way or on the  *)
(* screen (Inv): the history in a copy is part of the server's, unless the *)
(* scope was deleted or a revision replaced since, and an answer reaches   *)
(* only the editor that asked, which shows one scope all its life.  The    *)
(* last two rest on the rows (EditInv): they have ids of their own, come   *)
(* from the copy shown, and values that are not null survive the way into  *)
(* rows and back.                                                          *)
(***************************************************************************)
EXTENDS ScopeEditor, SequenceTheorems, FiniteSetTheorems, WellFoundedInduction, TLAPS

IsSequence(h) == h \in Seq(Range(h))

\* The records have their fields and no others.
IsAnswer(a) == a = [scope |-> a.scope, active |-> a.active, vars |-> a.vars,
                    draft |-> a.draft, hist |-> a.hist, gen |-> a.gen]

IsJob(j) == j = [kind |-> j.kind, scope |-> j.scope, mount |-> j.mount, why |-> j.why,
                 posted |-> j.posted, rev |-> j.rev, ans |-> j.ans, st |-> j.st]

\* Revisions by number, finitely many.
IsHistory(h) == /\ h = [n \in DOMAIN h |-> h[n]]
                /\ \E b \in Nat : DOMAIN h \subseteq 1..b

\* g has the revisions of h, and perhaps others.
Within(h, g) == /\ DOMAIN h \subseteq DOMAIN g
                /\ \A n \in DOMAIN h : g[n] = h[n]

-----------------------------------------------------------------------------
(* Sorting.                                                                *)

(* Every set of numbers that is not empty has a least element: how the     *)
(* facts about all lengths and sizes below are proved.                     *)
LEMMA LeastElement ==
    ASSUME NEW T \in SUBSET Nat, T # {}
    PROVE  \E x \in T : \A y \in T : x <= y
<1> DEFINE R == OpToRel(<, Nat)
<1>1. IsWellFoundedOn(R, Nat)
  BY NatLessThanWellFounded, Zenon
<1>2. \A x, y \in Nat : <<y, x>> \in R <=> y < x
  BY DEF OpToRel
<1> HIDE DEF R
<1>3. \E x \in T : \A y \in T : ~(<<y, x>> \in R)
  BY <1>1, WFMin
<1>4. PICK x \in T : \A y \in T : ~(<<y, x>> \in R)
  BY <1>3
<1>5. ASSUME NEW y \in T PROVE x <= y
  <2>1. x \in Nat /\ y \in Nat
    OBVIOUS
  <2>2. ~(<<y, x>> \in R)
    BY <1>4
  <2>3. ~(y < x)
    BY <1>2, <2>1, <2>2
  <2> QED
    BY <2>1, <2>3
<1> QED
  BY <1>5

(* A set of positive numbers that has a bound is finite.                   *)
LEMMA BoundedIsFinite ==
    ASSUME NEW b \in Nat, NEW S \in SUBSET (1..b)
    PROVE  IsFiniteSet(S) /\ Cardinality(S) \in Nat
<1>1. IsFiniteSet(1..b)
  BY FS_Interval
<1>2. IsFiniteSet(S)
  BY <1>1, FS_Subset
<1> QED
  BY <1>2, FS_CardinalityType

\* q lists the numbers of S in increasing order.
Sorts(q, S) == /\ q \in [1..Cardinality(S) -> S]
               /\ Range(q) = S
               /\ \A i, j \in DOMAIN q : i < j => q[i] < q[j]

\* Every set of positive numbers up to b can be sorted.
Sortable(b) == \A S \in SUBSET (1..b) : \E q : Sorts(q, S)

(* The greatest number goes last.                                          *)
LEMMA SortsOneMore ==
    ASSUME NEW b \in Nat, NEW S \in SUBSET (1..b), NEW q, Sorts(q, S)
    PROVE  \E r : Sorts(r, S \union {b + 1})
<1> DEFINE n == Cardinality(S)
           T == S \union {b + 1}
           r == [i \in 1..(n + 1) |-> IF i = n + 1 THEN b + 1 ELSE q[i]]
<1>1. IsFiniteSet(S) /\ n \in Nat /\ b + 1 \notin S
  <2>1. b + 1 \notin 1..b
    OBVIOUS
  <2> QED
    BY <2>1, BoundedIsFinite
<1>2. Cardinality(T) = n + 1
  BY <1>1, FS_AddElement
<1>3. q \in [1..n -> S] /\ Range(q) = S /\ \A i, j \in 1..n : i < j => q[i] < q[j]
  BY DEF Sorts
<1> HIDE DEF n
<1>4. r \in [1..(n + 1) -> T]
  BY <1>1, <1>3
<1>5. Range(r) = T
  <2>1. ASSUME NEW x \in T PROVE \E i \in 1..(n + 1) : r[i] = x
    <3>1. CASE x = b + 1
      <4>1. n + 1 \in 1..(n + 1)
        BY <1>1
      <4> QED BY <3>1, <4>1
    <3>2. CASE x \in S
      <4>1. PICK i \in 1..n : q[i] = x
        BY <1>3, <3>2 DEF Range
      <4>2. i \in 1..(n + 1) /\ i # n + 1
        BY <1>1
      <4> QED BY <4>1, <4>2
    <3> QED BY <3>1, <3>2
  <2> QED BY <1>4, <2>1 DEF Range
<1>6. ASSUME NEW i \in 1..(n + 1), NEW j \in 1..(n + 1), i < j PROVE r[i] < r[j]
  <2>1. i \in 1..n /\ r[i] = q[i] /\ q[i] \in 1..b
    <3>1. n \in Nat /\ i \in 1..n /\ i # n + 1
      BY <1>1, <1>6
    <3> QED
      BY <1>3, <3>1
  <2>2. CASE j = n + 1
    BY <2>1, <2>2
  <2>3. CASE j # n + 1
    BY <1>1, <1>3, <1>6, <2>1, <2>3
  <2> QED BY <2>2, <2>3
<1>7. DOMAIN r = 1..(n + 1)
  OBVIOUS
<1> HIDE DEF r, T
<1>8. Sorts(r, T)
  BY <1>2, <1>4, <1>5, <1>6, <1>7 DEF Sorts
<1> QED
  BY <1>8 DEF T

(* So every set of positive numbers with a bound can be sorted.            *)
LEMMA AllSortable == \A b \in Nat : Sortable(b)
<1> DEFINE T == {b \in Nat : ~Sortable(b)}
<1> SUFFICES ASSUME T # {} PROVE FALSE
  OBVIOUS
<1>1. PICK b \in T : \A y \in T : b <= y
  BY LeastElement
<1>2. b \in Nat /\ ~Sortable(b)
  OBVIOUS
<1>3. CASE b = 0
  <2>1. ASSUME NEW S \in SUBSET (1..b) PROVE \E q : Sorts(q, S)
    <3>1. S = {} /\ Cardinality(S) = 0
      <4>1. 1..b = {}
        BY <1>3
      <4>2. S = {}
        BY <4>1
      <4> QED
        BY <4>2, FS_EmptySet
    <3> DEFINE q == [i \in {} |-> 0]
    <3>2. q \in [1..0 -> S] /\ DOMAIN q = {} /\ Range(q) = {}
      BY DEF Range
    <3> HIDE DEF q
    <3>3. Sorts(q, S)
      BY <3>1, <3>2 DEF Sorts
    <3> QED BY <3>3
  <2> QED BY <1>2, <2>1 DEF Sortable
<1>4. CASE b # 0
  <2>1. b - 1 \in Nat /\ ~(b <= b - 1)
    BY <1>2, <1>4
  <2>2. Sortable(b - 1)
    BY <1>1, <2>1
  <2>3. ASSUME NEW S \in SUBSET (1..b) PROVE \E q : Sorts(q, S)
    <3> DEFINE U == S \ {b}
    <3>1. U \in SUBSET (1..(b - 1))
      BY <1>2
    <3>2. PICK q : Sorts(q, U)
      BY <2>2, <3>1 DEF Sortable
    <3>3. CASE b \in S
      <4>1. U \union {(b - 1) + 1} = S
        BY <1>2, <3>3
      <4> QED BY <2>1, <3>1, <3>2, <4>1, SortsOneMore
    <3>4. CASE b \notin S
      <4>1. U = S
        BY <3>4
      <4> QED BY <3>2, <4>1
    <3> QED BY <3>3, <3>4
  <2> QED BY <1>2, <2>3 DEF Sortable
<1> QED
  BY <1>3, <1>4

(* What Sorted chooses.                                                    *)
LEMMA SortedSorts ==
    ASSUME NEW b \in Nat, NEW S \in SUBSET (1..b)
    PROVE  Sorts(Sorted(S), S) /\ Cardinality(S) \in Nat
<1>1. \E q : Sorts(q, S)
  BY AllSortable DEF Sortable
<1>2. Sorts(Sorted(S), S)
  BY <1>1 DEF Sorts, Sorted
<1>3. Cardinality(S) \in Nat
  BY BoundedIsFinite
<1> QED
  BY <1>2, <1>3

-----------------------------------------------------------------------------
(* The invariant.                                                          *)

ServerInv ==
    /\ DOMAIN hist = Scope
    /\ \A s \in Scope : IsHistory(hist[s])
    /\ gen \in [Scope -> Nat]

\* A copy has the history of its scope as it was; new revisions apart, it is
\* the same still, unless gen says that it was rewritten.
CopyOK(a) ==
    /\ IsAnswer(a)
    /\ a.scope \in Scope
    /\ IsHistory(a.hist)
    /\ a.gen \in Nat /\ a.gen <= gen[a.scope]
    /\ a.gen = gen[a.scope] => Within(a.hist, hist[a.scope])

\* A rollback knows the copy it was chosen on.
Chosen(j) == j.kind = "rollback" => /\ j.rev \in DOMAIN j.ans.hist
                                    /\ j.posted = j.ans.hist[j.rev]

\* What the mounted editor asked is about the scope it shows.
JobOK(j) ==
    /\ IsJob(j)
    /\ CopyOK(j.ans) /\ j.ans.scope = j.scope
    /\ j.mount \in Nat \ {0} /\ j.mount <= mount
    /\ j.mount = mount => j.scope = selected
    /\ Chosen(j)

PageInv ==
    /\ selected \in Scope
    /\ mount \in Nat \ {0}
    /\ data # None => CopyOK(data) /\ data.scope = selected
    /\ historyOpen => data # None

Inv == /\ ServerInv
       /\ PageInv
       /\ \A j \in jobs : JobOK(j)

-----------------------------------------------------------------------------
(* Records and sequences.                                                  *)

(* An answer is not None: it has a scope.                                  *)
LEMMA AnswerIsSome == \A a : IsAnswer(a) => a # None
<1> SUFFICES ASSUME NEW a, IsAnswer(a), a = None PROVE FALSE
  OBVIOUS
<1>1. "scope" \in DOMAIN a
  BY DEF IsAnswer
<1>2. DOMAIN None = {"none"}
  BY DEF None
<1> QED
  BY <1>1, <1>2

(* A sequence has a range of its own.                                      *)
LEMMA SequenceOf ==
    ASSUME NEW S, NEW h \in Seq(S)
    PROVE  IsSequence(h)
<1>1. Len(h) \in Nat /\ DOMAIN h = 1..Len(h) /\ h = [i \in 1..Len(h) |-> h[i]]
  OBVIOUS
<1>2. \A i \in 1..Len(h) : h[i] \in Range(h)
  BY <1>1 DEF Range
<1>3. h \in [1..Len(h) -> Range(h)]
  BY <1>1, <1>2
<1> QED
  BY <1>1, <1>3, SeqDef DEF IsSequence

(* No rows.                                                                *)
LEMMA EmptySequence == IsSequence(<<>>) /\ Len(<<>>) = 0
  BY EmptySeq DEF IsSequence

(* No revisions.                                                           *)
LEMMA EmptyHistory == IsHistory(<<>>) /\ DOMAIN <<>> = {}
<1>1. DOMAIN <<>> = {} /\ <<>> = [n \in {} |-> <<>>[n]]
  OBVIOUS
<1>2. {} \subseteq 1..0 /\ 0 \in Nat
  OBVIOUS
<1> QED
  BY <1>1, <1>2 DEF IsHistory

(* Revisions numbered from 1 on, without a gap.                            *)
LEMMA SequenceIsHistory ==
    ASSUME NEW S, NEW h \in Seq(S)
    PROVE  IsHistory(h)
<1>1. Len(h) \in Nat /\ DOMAIN h = 1..Len(h) /\ h = [i \in 1..Len(h) |-> h[i]]
  OBVIOUS
<1> QED
  BY <1>1 DEF IsHistory

(* The newest revision is there, if any is, and no other is newer.         *)
LEMMA NewestNumber ==
    ASSUME NEW h, IsHistory(h)
    PROVE  /\ Newest(h) \in Nat
           /\ \A n \in DOMAIN h : n \in Nat \ {0} /\ n <= Newest(h)
           /\ DOMAIN h # {} => Newest(h) \in DOMAIN h
<1>1. PICK b \in Nat : DOMAIN h \subseteq 1..b
  BY DEF IsHistory
<1>2. CASE DOMAIN h = {}
  BY <1>2 DEF Newest
<1>3. CASE DOMAIN h # {}
  <2> DEFINE T == {c \in Nat : \A n \in DOMAIN h : n <= c}
  <2>1. b \in T
    BY <1>1
  <2>2. PICK c \in T : \A d \in T : c <= d
    BY <2>1, LeastElement
  <2>3. c \in DOMAIN h
    <3> SUFFICES ASSUME c \notin DOMAIN h PROVE FALSE
      OBVIOUS
    <3>1. \A n \in DOMAIN h : n \in Nat \ {0} /\ n <= c /\ n # c
      BY <1>1
    <3>2. c \in Nat \ {0}
      BY <1>3, <3>1
    <3>3. c - 1 \in T
      BY <3>1, <3>2
    <3> QED
      BY <2>2, <3>2, <3>3
  <2>4. c \in DOMAIN h /\ \A n \in DOMAIN h : c >= n
    BY <1>1, <2>3
  <2>5. Newest(h) = CHOOSE x \in DOMAIN h : \A n \in DOMAIN h : x >= n
    BY <1>3 DEF Newest, Max
  <2>6. Newest(h) \in DOMAIN h /\ \A n \in DOMAIN h : Newest(h) >= n
    BY <2>4, <2>5
  <2> QED
    BY <1>1, <2>6
<1> QED
  BY <1>2, <1>3

(* A number that no other exceeds is the newest.                           *)
LEMMA NewestIs ==
    ASSUME NEW h, IsHistory(h), NEW n \in DOMAIN h, \A m \in DOMAIN h : m <= n
    PROVE  Newest(h) = n
<1>1. Newest(h) \in DOMAIN h /\ Newest(h) \in Nat /\ n \in Nat /\ n <= Newest(h)
  BY NewestNumber
<1>2. Newest(h) <= n
  BY <1>1
<1> QED
  BY <1>1, <1>2

(* A revision is put: a new one leaves the others as they are.             *)
LEMMA PutHistory ==
    ASSUME NEW h, IsHistory(h), NEW n \in Nat \ {0}, NEW v
    PROVE  /\ IsHistory(Put(h, n, v))
           /\ DOMAIN Put(h, n, v) = DOMAIN h \union {n}
           /\ Put(h, n, v)[n] = v
           /\ \A m \in DOMAIN h : m # n => Put(h, n, v)[m] = h[m]
           /\ n \notin DOMAIN h => Within(h, Put(h, n, v))
<1> DEFINE g == Put(h, n, v)
<1>1. g = [k \in DOMAIN h \union {n} |-> IF k = n THEN v ELSE h[k]]
  BY DEF Put
<1> HIDE DEF g
<1>2. /\ DOMAIN g = DOMAIN h \union {n} /\ g[n] = v
      /\ \A m \in DOMAIN h : m # n => g[m] = h[m]
      /\ g = [k \in DOMAIN g |-> g[k]]
  BY <1>1
<1>3. PICK b \in Nat : DOMAIN h \subseteq 1..b
  BY DEF IsHistory
<1>4. b + n \in Nat /\ DOMAIN g \subseteq 1..(b + n)
  BY <1>2, <1>3
<1>5. IsHistory(g)
  BY <1>2, <1>4 DEF IsHistory
<1>6. n \notin DOMAIN h => Within(h, g)
  BY <1>2 DEF Within
<1> QED
  BY <1>2, <1>5, <1>6 DEF g

(* A publication takes the next number: the others stay.                   *)
LEMMA NextRevision ==
    ASSUME NEW h, IsHistory(h), NEW v
    PROVE  LET n == Newest(h) + 1
               g == Put(h, n, v)
           IN  /\ n \in Nat \ {0} /\ IsHistory(g) /\ Within(h, g)
               /\ g[Newest(g)] = v
<1> DEFINE n == Newest(h) + 1
           g == Put(h, n, v)
<1>1. n \in Nat \ {0} /\ \A m \in DOMAIN h : m \in Nat /\ m <= n /\ m # n
  BY NewestNumber
<1> HIDE DEF n
<1>2. /\ IsHistory(g) /\ DOMAIN g = DOMAIN h \union {n} /\ g[n] = v
      /\ n \notin DOMAIN h => Within(h, g)
  BY <1>1, PutHistory
<1> HIDE DEF g
<1>3. n \in DOMAIN g /\ n \notin DOMAIN h /\ \A m \in DOMAIN g : m <= n
  BY <1>1, <1>2
<1>4. Newest(g) = n
  BY <1>2, <1>3, NewestIs
<1> QED
  BY <1>1, <1>2, <1>3, <1>4 DEF n, g

(* A part of a part.                                                       *)
LEMMA WithinTwice ==
    ASSUME NEW f, NEW g, NEW h, Within(f, g), Within(g, h)
    PROVE  Within(f, h)
  BY DEF Within

-----------------------------------------------------------------------------
(* Steps that write nothing.                                               *)

JobsOK == \A j \in jobs' : j \in jobs \/ JobOK(j)

CopiesStay == \A a : CopyOK(a) => CopyOK(a)'

(* The editor stays, and what copies say of the server stays true.         *)
LEMMA EditorStays ==
    ASSUME Inv, ServerInv', CopiesStay, UNCHANGED <<selected, mount, data>>,
           historyOpen' => data # None, JobsOK
    PROVE  Inv'
<1>1. \A j : JobOK(j) => JobOK(j)'
  BY DEF JobOK, CopiesStay
<1>2. \A j \in jobs' : JobOK(j)'
  BY <1>1 DEF Inv, JobsOK
<1>3. PageInv'
  BY DEF Inv, PageInv, CopiesStay
<1> QED
  BY <1>2, <1>3 DEF Inv

(* Nothing is written.                                                     *)
LEMMA PageStep ==
    ASSUME Inv, UNCHANGED <<server, selected, mount, data>>,
           historyOpen' => data # None, JobsOK
    PROVE  Inv'
<1>1. CopiesStay
  BY DEF CopiesStay, CopyOK, server
<1>2. ServerInv'
  BY DEF Inv, ServerInv, server
<1> QED
  BY <1>1, <1>2, EditorStays

(* The answer that a request starts with, to be filled in.                 *)
LEMMA EmptyAnswer ==
    ASSUME ServerInv, NEW s \in Scope
    PROVE  CopyOK(Answer(s)) /\ Answer(s).scope = s
<1> DEFINE a == Answer(s)
<1>1. /\ IsAnswer(a) /\ a.scope = s /\ a.gen = 0
      /\ IsHistory(a.hist) /\ DOMAIN a.hist = {}
  BY EmptyHistory DEF Answer, IsAnswer
<1> HIDE DEF a
<1>2. gen[s] \in Nat
  BY DEF ServerInv
<1>3. Within(a.hist, hist[s])
  BY <1>1 DEF Within
<1>4. CopyOK(a)
  BY <1>1, <1>2, <1>3 DEF CopyOK
<1> QED
  BY <1>1, <1>4 DEF a

(* What the mounted editor asks.                                           *)
LEMMA NewJob ==
    ASSUME Inv, NEW kind, kind # "rollback", NEW why, NEW posted, NEW rev
    PROVE  JobOK(Job(kind, selected, mount, why, posted, rev))
<1> DEFINE j == Job(kind, selected, mount, why, posted, rev)
<1>1. CopyOK(Answer(selected)) /\ Answer(selected).scope = selected
  BY EmptyAnswer DEF Inv, PageInv
<1> HIDE DEF Answer
<1>2. /\ IsJob(j) /\ j.ans = Answer(selected) /\ j.scope = selected /\ j.mount = mount
      /\ j.kind = kind
  BY DEF Job, IsJob
<1> HIDE DEF j
<1>3. mount \in Nat \ {0} /\ mount <= mount
  BY DEF Inv, PageInv
<1>4. JobOK(j)
  BY <1>1, <1>2, <1>3 DEF JobOK, Chosen
<1> QED
  BY <1>4 DEF j

(* Initially the page shows Global and one load is under way.              *)
LEMMA InitHolds == Init => Inv
<1> SUFFICES ASSUME Init PROVE Inv
  OBVIOUS
<1>1. ServerInv
  <2>1. Before \in [Scope -> Seq(Variables)]
    BY ScopeEditorAssumption
  <2> HIDE DEF Variables
  <2>2. \A s \in Scope : IsHistory(Before[s])
    BY <2>1, SequenceIsHistory
  <2> QED
    BY <2>1, <2>2 DEF Init, ServerInv
<1>2. PageInv
  <2>1. selected = Global /\ mount = 1 /\ data = None /\ ~historyOpen
    BY DEF Init
  <2>2. Global \in Scope
    BY ScopeEditorAssumption
  <2> QED
    BY <2>1, <2>2 DEF PageInv
<1>3. \A j \in jobs : JobOK(j)
  <2> DEFINE j == Load(Global, 1, "self")
  <2>1. CopyOK(Answer(Global)) /\ Answer(Global).scope = Global
    BY <1>1, EmptyAnswer, ScopeEditorAssumption
  <2> HIDE DEF Answer
  <2>2. /\ IsJob(j) /\ j.ans = Answer(Global) /\ j.scope = Global /\ j.mount = 1
        /\ j.kind = "load"
    BY DEF Load, Job, IsJob
  <2> HIDE DEF j
  <2>3. JobOK(j)
    BY <2>1, <2>2 DEF JobOK, Chosen, Init
  <2> QED
    BY <2>3 DEF Init, j
<1> QED
  BY <1>1, <1>2, <1>3 DEF Inv

(* The revisions that the dialog offers are revisions of the copy.         *)
LEMMA Offered ==
    ASSUME IsHistory(data.hist)
    PROVE  /\ Range(recent) \subseteq DOMAIN data.hist
           /\ DOMAIN data.hist # {} => Head(recent) \in DOMAIN data.hist
           /\ DOMAIN data.hist \subseteq Nat
<1> DEFINE D == DOMAIN data.hist
           n == Cardinality(D)
           q == Sorted(D)
           m == IF n < Recent THEN n ELSE Recent
<1>1. PICK b \in Nat : D \in SUBSET (1..b)
  BY DEF IsHistory
<1>2. Sorts(q, D) /\ n \in Nat
  BY <1>1, SortedSorts
<1>3. recent = [i \in 1..m |-> q[n + 1 - i]]
  BY DEF recent
<1>4. q \in [1..n -> D] /\ Range(q) = D
  BY <1>2 DEF Sorts
<1>5. D # {} => n # 0
  <2> SUFFICES ASSUME NEW x \in D PROVE n # 0
    OBVIOUS
  <2>1. PICK i \in 1..n : q[i] = x
    BY <1>4 DEF Range
  <2> QED
    BY <1>2, <2>1
<1> HIDE DEF D, n, q
<1>6. m \in Nat /\ m <= n /\ (n # 0 => m # 0)
  <2>1. Recent \in Nat \ {0}
    BY ScopeEditorAssumption
  <2> QED
    BY <1>2, <2>1
<1> HIDE DEF m
<1>7. \A i \in 1..m : n + 1 - i \in 1..n
  BY <1>2, <1>6
<1>8. \A i \in 1..m : recent[i] \in D
  BY <1>3, <1>4, <1>7
<1>9. Range(recent) \subseteq D
  BY <1>3, <1>8 DEF Range
<1>10. D # {} => Head(recent) \in D
  <2> SUFFICES ASSUME D # {} PROVE Head(recent) \in D
    OBVIOUS
  <2>1. recent \in Seq(D) /\ Len(recent) = m
    BY <1>3, <1>6, <1>8
  <2>2. Head(recent) = recent[1] /\ 1 \in 1..m
    BY <1>5, <1>6, <2>1
  <2> QED
    BY <1>8, <2>2
<1> QED
  BY <1>1, <1>9, <1>10 DEF D

(* What is picked, by hand or by default.                                  *)
LEMMA Picked ==
    ASSUME IsHistory(data.hist), data.hist # <<>>
    PROVE  selectedRev \in DOMAIN data.hist
<1>1. DOMAIN data.hist # {}
  <2> SUFFICES ASSUME DOMAIN data.hist = {} PROVE FALSE
    OBVIOUS
  <2>1. data.hist = [n \in {} |-> data.hist[n]]
    BY DEF IsHistory
  <2>2. <<>> = [n \in {} |-> data.hist[n]]
    OBVIOUS
  <2> QED
    BY <2>1, <2>2
<1> QED
  BY <1>1, Offered DEF selectedRev

-----------------------------------------------------------------------------
(* Steps of the operator.                                                  *)

(* The page keys the editor by the scope: what the old editor asked has no *)
(* claim on the new one.                                                   *)
LEMMA MountKeeps ==
    ASSUME Inv, NEW s \in Scope, Mount(s), UNCHANGED server, NEW J \in SUBSET jobs,
           jobs' = J \union {Load(s, mount + 1, "self")}
    PROVE  Inv'
<1>1. /\ mount \in Nat \ {0} /\ mount' = mount + 1
      /\ selected' = s /\ data' = None /\ ~historyOpen'
  BY DEF Inv, PageInv, Mount
<1>2. CopiesStay
  BY DEF CopiesStay, CopyOK, server
<1>3. ServerInv'
  BY DEF Inv, ServerInv, server
<1>4. PageInv'
  BY <1>1 DEF PageInv
<1>5. \A j \in J : JobOK(j)'
  <2> SUFFICES ASSUME NEW j \in J PROVE JobOK(j)'
    OBVIOUS
  <2>1. JobOK(j)
    BY DEF Inv
  <2>2. j.mount \in Nat \ {0} /\ j.mount <= mount' /\ j.mount # mount'
    BY <1>1, <2>1 DEF JobOK
  <2> QED
    BY <1>2, <2>1, <2>2 DEF JobOK, Chosen, CopiesStay
<1>6. ASSUME NEW l, l = Load(s, mount + 1, "self") PROVE JobOK(l)'
  <2>1. CopyOK(Answer(s)) /\ Answer(s).scope = s
    BY EmptyAnswer DEF Inv
  <2> HIDE DEF Answer
  <2>2. /\ IsJob(l) /\ l.ans = Answer(s) /\ l.scope = s /\ l.mount = mount + 1
        /\ l.kind = "load"
    BY <1>6 DEF Load, Job, IsJob
  <2>3. CopyOK(l.ans)'
    BY <1>2, <2>1, <2>2 DEF CopiesStay
  <2>4. l.mount \in Nat \ {0} /\ l.mount <= mount'
    BY <1>1, <2>2
  <2> QED
    BY <1>1, <2>1, <2>2, <2>3, <2>4 DEF JobOK, Chosen
<1>7. \A j \in jobs' : JobOK(j)'
  BY <1>5, <1>6
<1> QED
  BY <1>3, <1>4, <1>7 DEF Inv

(* A click on another scope.                                               *)
LEMMA SelectKeeps ==
    ASSUME Inv, NEW s \in Scope, Select(s)
    PROVE  Inv'
<1>1. Mount(s) /\ jobs' = Remaining(jobs) \union {Load(s, mount + 1, "self")}
  BY DEF Select, setSelected
<1>2. Remaining(jobs) \in SUBSET jobs
  BY DEF Remaining
<1>3. UNCHANGED server
  BY DEF Select
<1> QED
  BY <1>1, <1>2, <1>3, MountKeeps

(* Edits, dialogs, and a step of nobody.                                   *)
LEMMA LookKeeps ==
    ASSUME Inv, UNCHANGED <<server, selected, mount, data, jobs>>,
           historyOpen' => data # None
    PROVE  Inv'
<1>1. JobsOK
  BY DEF JobsOK
<1> QED
  BY <1>1, PageStep

(* A command; all but the rollback start with an empty answer.             *)
LEMMA CommandKeeps ==
    ASSUME Inv, NEW j, JobOK(j), Command(j)
    PROVE  Inv'
<1>1. JobsOK
  BY DEF JobsOK, Command
<1>2. UNCHANGED <<server, selected, mount, data, historyOpen>>
  BY DEF Command, editor
<1>3. historyOpen' => data # None
  BY <1>2 DEF Inv, PageInv
<1> QED
  BY <1>1, <1>2, <1>3, PageStep

(* The rollback carries the copy it was chosen on.                         *)
LEMMA RollbackKeeps ==
    ASSUME Inv, rollback
    PROVE  Inv'
<1>1. PICK j : /\ j = [Job("rollback", selected, mount, "", data.hist[selectedRev],
                           selectedRev) EXCEPT !.ans = data]
               /\ Command(j)
  BY DEF rollback
<1>2. data # None /\ CopyOK(data) /\ data.scope = selected /\ data.hist # <<>>
  BY DEF rollback, Inv, PageInv
<1>3. selectedRev \in DOMAIN data.hist
  BY <1>2, Picked DEF CopyOK
<1> DEFINE v == data.hist[selectedRev]
           r == selectedRev
<1>4. j = [Job("rollback", selected, mount, "", v, r) EXCEPT !.ans = data]
  BY <1>1
<1>5. r \in DOMAIN data.hist /\ v = data.hist[r]
  BY <1>3
<1> HIDE DEF v, r
<1>6. /\ IsJob(j) /\ j.ans = data /\ j.scope = selected /\ j.mount = mount
      /\ j.kind = "rollback" /\ j.rev = r /\ j.posted = v
  BY <1>4 DEF Job, IsJob
<1>7. mount \in Nat \ {0} /\ mount <= mount
  BY DEF Inv, PageInv
<1>8. JobOK(j)
  BY <1>2, <1>5, <1>6, <1>7 DEF JobOK, Chosen
<1> QED
  BY <1>1, <1>8, CommandKeeps

-----------------------------------------------------------------------------
(* Steps of the server.                                                    *)

(* A history is written: it gains revisions, or gen tells.                 *)
LEMMA HistoryWritten ==
    ASSUME ServerInv, NEW s \in Scope, NEW h, IsHistory(h),
           hist' = [hist EXCEPT ![s] = h],
           \/ gen' = gen /\ Within(hist[s], h)
           \/ gen' = [gen EXCEPT ![s] = @ + 1]
    PROVE  ServerInv' /\ CopiesStay
<1>1. ServerInv'
  BY DEF ServerInv
<1>2. ASSUME NEW a, CopyOK(a) PROVE CopyOK(a)'
  <2>1. a.scope \in Scope /\ gen[a.scope] \in Nat /\ a.gen \in Nat
    BY <1>2 DEF CopyOK, ServerInv
  <2>2. CASE a.scope # s
    <3>1. gen'[a.scope] = gen[a.scope] /\ hist'[a.scope] = hist[a.scope]
      BY <2>1, <2>2 DEF ServerInv
    <3> QED
      BY <1>2, <3>1 DEF CopyOK
  <2>3. CASE a.scope = s
    <3>1. hist'[a.scope] = h
      BY <2>1, <2>3 DEF ServerInv
    <3>2. CASE gen' = gen /\ Within(hist[s], h)
      BY <1>2, <2>3, <3>1, <3>2, WithinTwice DEF CopyOK
    <3>3. CASE gen' = [gen EXCEPT ![s] = @ + 1]
      <4>1. gen'[a.scope] = gen[a.scope] + 1
        BY <2>1, <2>3, <3>3 DEF ServerInv
      <4>2. a.gen <= gen'[a.scope] /\ a.gen # gen'[a.scope]
        BY <1>2, <2>1, <4>1 DEF CopyOK
      <4> QED
        BY <1>2, <4>2 DEF CopyOK
    <3> QED
      BY <3>2, <3>3
  <2> QED
    BY <2>2, <2>3
<1> QED
  BY <1>1, <1>2 DEF CopiesStay

\* What putConfigRevisionRaw does to the history.
Replicated(s, n, v) ==
    /\ hist' = [hist EXCEPT ![s] = Put(@, n, v)]
    /\ gen' = [gen EXCEPT ![s] = IF n \in DOMAIN hist[s] THEN @ + 1 ELSE @]

(* A publication takes a new number; a deletion, and a peer's revision     *)
(* that replaces one, end the generation.                                  *)
LEMMA ServerWrites ==
    ASSUME ServerInv, NEW s \in Scope,
           \/ \E v : ApplyTx(s, v)
           \/ DeleteTx(s)
           \/ \E n \in Nat \ {0} : \E v : Replicated(s, n, v)
    PROVE  ServerInv' /\ CopiesStay
<1>1. IsHistory(hist[s])
  BY DEF ServerInv
<1>2. ASSUME NEW v, ApplyTx(s, v) PROVE ServerInv' /\ CopiesStay
  <2> DEFINE h == Put(hist[s], Newest(hist[s]) + 1, v)
  <2>1. IsHistory(h) /\ Within(hist[s], h)
    BY <1>1, NextRevision
  <2>2. hist' = [hist EXCEPT ![s] = h] /\ gen' = gen
    BY <1>2 DEF ApplyTx
  <2> HIDE DEF h
  <2> QED
    BY <2>1, <2>2, HistoryWritten
<1>3. ASSUME DeleteTx(s) PROVE ServerInv' /\ CopiesStay
  BY <1>3, EmptyHistory, HistoryWritten DEF DeleteTx
<1>4. ASSUME NEW n \in Nat \ {0}, NEW v, Replicated(s, n, v) PROVE ServerInv' /\ CopiesStay
  <2> DEFINE h == Put(hist[s], n, v)
  <2>1. IsHistory(h) /\ (n \notin DOMAIN hist[s] => Within(hist[s], h))
    BY <1>1, PutHistory
  <2>2. hist' = [hist EXCEPT ![s] = h]
    BY <1>4 DEF Replicated
  <2>3. CASE n \in DOMAIN hist[s]
    <3>1. gen' = [gen EXCEPT ![s] = @ + 1]
      BY <1>4, <2>3 DEF Replicated
    <3> HIDE DEF h
    <3> QED
      BY <2>1, <2>2, <3>1, HistoryWritten
  <2>4. CASE n \notin DOMAIN hist[s]
    <3>1. gen' = gen
      BY <1>4, <2>4 DEF Replicated, ServerInv
    <3> HIDE DEF h
    <3> QED
      BY <2>1, <2>2, <2>4, <3>1, HistoryWritten
  <2> QED
    BY <2>3, <2>4
<1> QED
  BY <1>2, <1>3, <1>4

(* A request moves on to its next stage.                                   *)
LEMMA StageChanged ==
    ASSUME NEW j, JobOK(j), NEW st
    PROVE  JobOK([j EXCEPT !.st = st])
<1> DEFINE k == [j EXCEPT !.st = st]
<1>1. /\ IsJob(k) /\ k.ans = j.ans /\ k.scope = j.scope /\ k.mount = j.mount
      /\ k.kind = j.kind /\ k.rev = j.rev /\ k.posted = j.posted
  BY DEF JobOK, IsJob
<1> HIDE DEF k
<1>2. JobOK(k)
  BY <1>1 DEF JobOK, Chosen
<1> QED
  BY <1>2 DEF k

(* A load reads the active revision, then the draft, then the history.     *)
LEMMA ServeLoadKeeps ==
    ASSUME Inv, NEW j \in jobs, ServeLoad(j)
    PROVE  Inv'
<1>1. JobOK(j) /\ IsJob(j) /\ CopyOK(j.ans) /\ IsAnswer(j.ans) /\ j.kind = "load"
  BY DEF Inv, JobOK, CopyOK, ServeLoad
<1>2. UNCHANGED <<server, selected, mount, data, historyOpen>>
  BY DEF ServeLoad, editor
<1>3. ASSUME NEW k, NEW a, CopyOK(a), a.scope = j.scope, NEW st,
             k = [j EXCEPT !.st = st, !.ans = a]
      PROVE  JobOK(k)
  <2>1. /\ IsJob(k) /\ k.ans = a /\ k.scope = j.scope /\ k.mount = j.mount
        /\ k.kind = "load"
    BY <1>1, <1>3 DEF IsJob
  <2> QED
    BY <1>1, <1>3, <2>1 DEF JobOK, Chosen
<1>4. j.ans.scope = j.scope /\ j.scope \in Scope
  BY <1>1 DEF JobOK, CopyOK
<1>5. ASSUME NEW a, IsAnswer(a), a.scope = j.scope, a.hist = j.ans.hist, a.gen = j.ans.gen
      PROVE  CopyOK(a)
  BY <1>1, <1>4, <1>5 DEF CopyOK
<1>6. ASSUME NEW k, NEW n, NEW v, k = [j EXCEPT !.st = "active", !.ans.active = n, !.ans.vars = v]
      PROVE  JobOK(k)
  <2>1. PICK a : a = [j.ans EXCEPT !.active = n, !.vars = v]
    OBVIOUS
  <2>2. k = [j EXCEPT !.st = "active", !.ans = a]
    BY <1>1, <1>6, <2>1 DEF IsJob, IsAnswer
  <2>3. /\ IsAnswer(a) /\ a.scope = j.ans.scope /\ a.hist = j.ans.hist
        /\ a.gen = j.ans.gen
    BY <1>1, <2>1 DEF IsAnswer
  <2> QED
    BY <1>3, <1>4, <1>5, <2>2, <2>3
<1>7. ASSUME NEW k, NEW v, k = [j EXCEPT !.st = "draft", !.ans.draft = v]
      PROVE  JobOK(k)
  <2>1. PICK a : a = [j.ans EXCEPT !.draft = v]
    OBVIOUS
  <2>2. k = [j EXCEPT !.st = "draft", !.ans = a]
    BY <1>1, <1>7, <2>1 DEF IsJob, IsAnswer
  <2>3. /\ IsAnswer(a) /\ a.scope = j.ans.scope /\ a.hist = j.ans.hist
        /\ a.gen = j.ans.gen
    BY <1>1, <2>1 DEF IsAnswer
  <2> QED
    BY <1>3, <1>4, <1>5, <2>2, <2>3
<1>8. ASSUME NEW k, k = [j EXCEPT !.st = "served", !.ans.hist = hist[j.scope],
                                  !.ans.gen = gen[j.scope]]
      PROVE  JobOK(k)
  <2>1. PICK a : a = [j.ans EXCEPT !.hist = hist[j.scope], !.gen = gen[j.scope]]
    OBVIOUS
  <2>2. k = [j EXCEPT !.st = "served", !.ans = a]
    BY <1>1, <1>8, <2>1 DEF IsJob, IsAnswer
  <2>3. /\ IsAnswer(a) /\ a.scope = j.scope /\ a.hist = hist[j.scope]
        /\ a.gen = gen[j.scope]
    BY <1>1, <1>4, <2>1 DEF IsAnswer
  <2>4. IsHistory(hist[j.scope]) /\ gen[j.scope] \in Nat
    BY <1>4 DEF Inv, ServerInv
  <2>5. CopyOK(a)
    BY <1>4, <2>3, <2>4 DEF CopyOK, Within
  <2> QED
    BY <1>3, <2>2, <2>3, <2>5
<1>9. JobsOK
  <2>1. ASSUME NEW k, JobOK(k), jobs' = (jobs \ {j}) \union {k} PROVE JobsOK
    BY <2>1 DEF JobsOK
  <2>2. CASE j.st = "sent"
    <3> DEFINE n == Newest(hist[j.scope])
               v == IF n = 0 THEN <<>> ELSE hist[j.scope][n]
    <3>1. jobs' = (jobs \ {j}) \union
                      {[j EXCEPT !.st = "active", !.ans.active = n, !.ans.vars = v]}
      BY <2>2 DEF ServeLoad
    <3> HIDE DEF n, v
    <3> QED
      BY <1>6, <2>1, <3>1
  <2>3. CASE j.st = "active"
    <3>1. jobs' = (jobs \ {j}) \union {[j EXCEPT !.st = "draft", !.ans.draft = draft[j.scope]]}
      BY <2>3 DEF ServeLoad
    <3> QED
      BY <1>7, <2>1, <3>1
  <2>4. CASE j.st = "draft"
    <3>1. jobs' = (jobs \ {j}) \union
                      {[j EXCEPT !.st = "served", !.ans.hist = hist[j.scope],
                                 !.ans.gen = gen[j.scope]]}
      BY <2>4 DEF ServeLoad
    <3> QED
      BY <1>8, <2>1, <3>1
  <2> QED
    BY <2>2, <2>3, <2>4 DEF ServeLoad
<1>10. historyOpen' => data # None
  BY <1>2 DEF Inv, PageInv
<1> QED
  BY <1>2, <1>9, <1>10, PageStep

(* The writing handlers.                                                   *)
LEMMA ServeWriteKeeps ==
    ASSUME Inv, NEW j \in jobs, ServeWrite(j)
    PROVE  Inv'
<1>1. JobOK(j) /\ j.scope \in Scope
  BY DEF Inv, JobOK, CopyOK
<1>2. ServerInv' /\ CopiesStay
  <2>1. CASE UNCHANGED <<hist, gen>>
    BY <2>1 DEF Inv, ServerInv, CopiesStay, CopyOK
  <2>2. CASE (\E v : ApplyTx(j.scope, v)) \/ DeleteTx(j.scope)
    BY <1>1, <2>2, ServerWrites DEF Inv
  <2> QED
    BY <2>1, <2>2 DEF ServeWrite
<1>3. UNCHANGED <<selected, mount, data, historyOpen>>
  BY DEF ServeWrite, Write, editor
<1>4. jobs' = (jobs \ {j}) \union {[j EXCEPT !.st = "served"]}
  BY DEF ServeWrite
<1>5. JobOK([j EXCEPT !.st = "served"])
  BY <1>1, StageChanged
<1>6. JobsOK
  BY <1>4, <1>5 DEF JobsOK
<1>7. historyOpen' => data # None
  BY <1>3 DEF Inv, PageInv
<1> QED
  BY <1>2, <1>3, <1>6, <1>7, EditorStays

(* A peer's revision, as a step of the server.                             *)
LEMMA PeerWrites ==
    ASSUME ServerInv, NEW s \in Scope, putConfigRevisionRaw(s)
    PROVE  \E n \in Nat \ {0}, v \in Published : Replicated(s, n, v)
<1>1. PICK n \in 1..(Newest(hist[s]) + Ahead), v \in Published : Replicated(s, n, v)
  BY DEF putConfigRevisionRaw, Replicated
<1>2. n \in Nat \ {0}
  OBVIOUS
<1> QED
  BY <1>1, <1>2

(* Other operators, and peers.                                             *)
LEMMA OtherKeeps ==
    ASSUME Inv, NEW s \in Scope, Other(s) \/ putConfigRevisionRaw(s)
    PROVE  Inv'
<1>1. ServerInv' /\ CopiesStay
  <2>1. CASE UNCHANGED <<hist, gen>>
    BY <2>1 DEF Inv, ServerInv, CopiesStay, CopyOK
  <2>2. CASE (\E v : ApplyTx(s, v)) \/ DeleteTx(s)
    BY <2>2, ServerWrites DEF Inv
  <2>3. CASE putConfigRevisionRaw(s)
    BY <2>3, PeerWrites, ServerWrites DEF Inv
  <2> QED
    BY <2>1, <2>2, <2>3 DEF Other
<1>2. UNCHANGED <<selected, mount, data, historyOpen>> /\ JobsOK
  BY DEF Other, putConfigRevisionRaw, Write, editor, JobsOK
<1>3. historyOpen' => data # None
  BY <1>2 DEF Inv, PageInv
<1> QED
  BY <1>1, <1>2, <1>3, EditorStays

-----------------------------------------------------------------------------
(* Answers and events.                                                     *)

(* An answer is lost, or the server refused.                               *)
LEMMA FailKeeps ==
    ASSUME Inv, NEW j \in jobs, Fail(j)
    PROVE  Inv'
<1>1. UNCHANGED <<server, selected, mount, data, historyOpen>> /\ JobsOK
  BY DEF Fail, editor, JobsOK
<1>2. historyOpen' => data # None
  BY <1>1 DEF Inv, PageInv
<1> QED
  BY <1>1, <1>2, PageStep

(* An event makes the editor load the scope it shows.                      *)
LEMMA EventKeeps ==
    ASSUME Inv, NEW s \in Scope, onEvent(s)
    PROVE  Inv'
<1>1. UNCHANGED <<server, selected, mount, data, historyOpen>>
  BY DEF onEvent, editor
<1>2. JobsOK
  <2>1. JobOK(Load(selected, mount, "event"))
    BY NewJob DEF Load
  <2>2. jobs' = jobs \/ jobs' = jobs \union {Load(selected, mount, "event")}
    BY DEF onEvent
  <2> HIDE DEF Load
  <2> QED
    BY <2>1, <2>2 DEF JobsOK
<1>3. historyOpen' => data # None
  BY <1>1 DEF Inv, PageInv
<1> QED
  BY <1>1, <1>2, <1>3, PageStep

(* The answer to a load reaches the editor that asked, or nobody.          *)
LEMMA LoadKeeps ==
    ASSUME Inv, NEW j \in jobs, j.kind = "load", Finish(j)
    PROVE  Inv'
<1>1. JobOK(j) /\ CopyOK(j.ans)
  BY DEF Inv, JobOK
<1>2. /\ UNCHANGED <<server, selected, mount, historyOpen>>
      /\ jobs' = jobs \ {j}
      /\ IF j.mount = mount THEN data' = j.ans ELSE data' = data
  BY DEF Finish, Loaded
<1>3. CopiesStay
  BY <1>2 DEF CopiesStay, CopyOK, server
<1>4. ServerInv'
  BY <1>2 DEF Inv, ServerInv, server
<1>5. \A k \in jobs' : JobOK(k)'
  BY <1>2, <1>3 DEF Inv, JobOK, CopiesStay
<1>6. PageInv'
  <2>1. CASE j.mount = mount
    <3>1. data' = j.ans /\ j.ans.scope = selected
      BY <1>1, <1>2, <2>1 DEF JobOK
    <3>2. j.ans # None
      BY <1>1, AnswerIsSome DEF CopyOK
    <3>3. CopyOK(j.ans)'
      BY <1>1, <1>3 DEF CopiesStay
    <3> QED
      BY <1>2, <3>1, <3>2, <3>3 DEF Inv, PageInv, CopyOK
  <2>2. CASE j.mount # mount
    BY <1>2, <1>3, <2>2 DEF Inv, PageInv, CopiesStay
  <2> QED
    BY <2>1, <2>2
<1> QED
  BY <1>4, <1>5, <1>6 DEF Inv

(* A command that is done makes its own editor load again.                 *)
LEMMA ReloadKeeps ==
    ASSUME Inv, NEW j \in jobs, j.kind \in {"apply", "draft", "discard", "rollback"},
           Finish(j)
    PROVE  Inv'
<1>1. JobOK(j)
  BY DEF Inv
<1>2. /\ UNCHANGED <<server, selected, mount, data>>
      /\ historyOpen' => historyOpen
      /\ jobs' = (jobs \ {j}) \union
                     (IF j.mount = mount THEN {Load(j.scope, mount, "self")} ELSE {})
  <2> HIDE DEF Load
  <2>1. CASE j.kind = "rollback"
    <3>1. historyOpen' = (historyOpen /\ j.mount # mount)
      BY <2>1 DEF Finish
    <3> QED
      BY <2>1, <3>1 DEF Finish
  <2>2. CASE j.kind \in {"apply", "draft", "discard"}
    <3>1. UNCHANGED editor
      BY <2>2 DEF Finish
    <3> QED
      BY <2>2, <3>1 DEF Finish, editor
  <2> QED
    BY <2>1, <2>2
<1>3. j.mount = mount => JobOK(Load(j.scope, mount, "self"))
  <2>1. j.mount = mount => j.scope = selected
    BY <1>1 DEF JobOK
  <2>2. JobOK(Load(selected, mount, "self"))
    BY NewJob DEF Load
  <2> QED
    BY <2>1, <2>2
<1>4. JobsOK
  <2> HIDE DEF Load
  <2> QED
    BY <1>2, <1>3 DEF JobsOK
<1>5. historyOpen' => data # None
  BY <1>2 DEF Inv, PageInv
<1> QED
  BY <1>2, <1>4, <1>5, PageStep

(* A deletion that is done takes the page back to Global.                  *)
LEMMA DeletedKeeps ==
    ASSUME Inv, NEW j \in jobs, j.kind = "delete", Finish(j)
    PROVE  Inv'
<1>1. UNCHANGED server
  BY DEF Finish
<1>2. CASE selected = Global
  <2>1. /\ UNCHANGED <<selected, mount, data, historyOpen>>
        /\ JobsOK
    BY <1>2 DEF Finish, editor, JobsOK
  <2>2. historyOpen' => data # None
    BY <2>1 DEF Inv, PageInv
  <2> QED
    BY <1>1, <2>1, <2>2, PageStep
<1>3. CASE selected # Global
  <2>1. /\ Mount(Global)
        /\ jobs' = Remaining(jobs \ {j}) \union {Load(Global, mount + 1, "self")}
    BY <1>3 DEF Finish
  <2>2. Remaining(jobs \ {j}) \in SUBSET jobs
    BY DEF Remaining
  <2>3. Global \in Scope
    BY ScopeEditorAssumption
  <2> QED
    BY <1>1, <2>1, <2>2, <2>3, MountKeeps
<1> QED
  BY <1>2, <1>3

-----------------------------------------------------------------------------
(* The theorems.                                                           *)

(* Every step keeps the invariant.                                         *)
LEMMA NextKeeps == Inv /\ [Next]_vars => Inv'
<1> SUFFICES ASSUME Inv, [Next]_vars PROVE Inv'
  OBVIOUS
<1>1. historyOpen => data # None
  BY DEF Inv, PageInv
<1>2. ASSUME NEW s \in Scope, Select(s) \/ Other(s) \/ putConfigRevisionRaw(s) \/ onEvent(s)
      PROVE  Inv'
  BY <1>2, SelectKeeps, OtherKeeps, EventKeeps
<1>3. ASSUME NEW r, Type(r) \/ removeRow(r) \/ Expand(r) PROVE Inv'
  BY <1>1, <1>3, LookKeeps DEF Type, removeRow, Expand, Edit, server
<1>4. ASSUME addRow \/ reset \/ Done \/ Close \/ \E v \in Typed : TypeBig(v) PROVE Inv'
  <2>1. CASE addRow \/ reset
    <3>1. UNCHANGED <<server, selected, mount, data, jobs, historyOpen>>
      BY <2>1 DEF addRow, reset, Edit
    <3> QED
      BY <1>1, <3>1, LookKeeps
  <2>2. CASE Done \/ Close
    <3>1. UNCHANGED <<server, selected, mount, data, jobs, historyOpen>>
      BY <2>2 DEF Done, Close
    <3> QED
      BY <1>1, <3>1, LookKeeps
  <2>3. CASE \E v \in Typed : TypeBig(v)
    <3>1. UNCHANGED <<server, selected, mount, data, jobs, historyOpen>>
      BY <2>3 DEF TypeBig
    <3> QED
      BY <1>1, <3>1, LookKeeps
  <2> QED
    BY <1>4, <2>1, <2>2, <2>3
<1>5. ASSUME NEW k, k # "rollback", NEW posted, NEW rev,
             Command(Job(k, selected, mount, "", posted, rev))
      PROVE  Inv'
  <2>1. JobOK(Job(k, selected, mount, "", posted, rev))
    BY <1>5, NewJob
  <2> HIDE DEF Job
  <2> QED
    BY <1>5, <2>1, CommandKeeps
<1>6. ASSUME apply \/ saveDraft \/ discardDraft \/ deleteScope PROVE Inv'
  <2> HIDE DEF Job
  <2> QED
    BY <1>5, <1>6 DEF apply, saveDraft, discardDraft, deleteScope
<1>7. ASSUME rollback PROVE Inv'
  BY <1>7, RollbackKeeps
<1>8. ASSUME History \/ Pick PROVE Inv'
  BY <1>1, <1>8, LookKeeps DEF History, Pick, server
<1>9. ASSUME NEW j \in jobs, ServeLoad(j) \/ ServeWrite(j) \/ Finish(j) \/ Fail(j)
      PROVE  Inv'
  <2>1. CASE Finish(j)
    <3>1. j.kind \in {"load", "apply", "draft", "discard", "rollback", "delete"}
      BY <2>1 DEF Finish
    <3> QED
      BY <2>1, <3>1, LoadKeeps, ReloadKeeps, DeletedKeeps
  <2> QED
    BY <1>9, <2>1, ServeLoadKeeps, ServeWriteKeeps, FailKeeps
<1>10. ASSUME UNCHANGED vars PROVE Inv'
  BY <1>1, <1>10, LookKeeps DEF vars, editor
<1> QED
  BY <1>2, <1>3, <1>4, <1>6, <1>7, <1>8, <1>9, <1>10 DEF Next

(* What the copies on the screen and under way say, always.                *)
THEOREM ScopeEditorInvariant == Spec => []Inv
<1>1. Init => Inv
  BY InitHolds
<1>2. Inv /\ [Next]_vars => Inv'
  BY NextKeeps
<1> QED
  BY <1>1, <1>2, PTL DEF Spec

(* However late the answers for other scopes come, the editor never shows  *)
(* one of them under the scope selected.                                   *)
THEOREM ShowsTheRightScope == Spec => []ShowsSelectedScope
<1>1. Inv => ShowsSelectedScope
  BY DEF Inv, PageInv, ShowsSelectedScope
<1> QED
  BY <1>1, ScopeEditorInvariant, PTL

(* A rollback is by number on the server, by sight in the dialog: unless   *)
(* the scope was deleted or one of its revisions replaced in between, both *)
(* mean the same variables, whatever else was published or arrived.        *)
THEOREM RollbackIsWhatWasShown == Spec => RollbackPublishesWhatWasShown
<1> DEFINE A == \A j \in jobs : j.kind = "rollback" /\ j.ans.gen = gen[j.scope]
                                    /\ ServeWrite(j)
                                 => LET h == hist'[j.scope] IN h[Newest(h)] = j.posted
<1>1. ASSUME Inv, NEW j \in jobs, j.kind = "rollback", j.ans.gen = gen[j.scope],
             ServeWrite(j)
      PROVE  LET h == hist'[j.scope] IN h[Newest(h)] = j.posted
  <2> DEFINE s == j.scope
  <2>1. JobOK(j) /\ s \in Scope
    BY <1>1 DEF Inv, JobOK, CopyOK
  <2>2. Within(j.ans.hist, hist[s]) /\ j.rev \in DOMAIN j.ans.hist
        /\ j.posted = j.ans.hist[j.rev]
    BY <1>1, <2>1 DEF JobOK, CopyOK, Chosen
  <2>3. hist[s][j.rev] = j.posted
    BY <2>2 DEF Within
  <2> DEFINE h == Put(hist[s], Newest(hist[s]) + 1, j.posted)
  <2>4. hist' = [hist EXCEPT ![s] = Put(@, Newest(@) + 1, hist[s][j.rev])]
    BY <1>1 DEF ServeWrite, ApplyTx
  <2>5. DOMAIN hist = Scope /\ IsHistory(hist[s])
    BY <1>1, <2>1 DEF Inv, ServerInv
  <2>6. hist'[s] = h
    BY <2>1, <2>3, <2>4, <2>5
  <2>7. h[Newest(h)] = j.posted
    BY <2>5, NextRevision
  <2> QED
    BY <2>6, <2>7
<1>2. Inv /\ [Next]_vars => [A]_vars
  BY <1>1
<1> QED
  BY <1>2, ScopeEditorInvariant, PTL DEF Spec, RollbackPublishesWhatWasShown

-----------------------------------------------------------------------------
(* Picking.                                                                *)

\* r has the elements of s at the places P, each once.
Selects(r, s, P) ==
    /\ IsSequence(r) /\ Len(r) \in Nat
    /\ \E q \in [1..Len(r) -> P] :
          /\ \A i \in 1..Len(r) : r[i] = s[q[i]]
          /\ \A i, j \in 1..Len(r) : i # j => q[i] # q[j]
          /\ \A p \in P : \E i \in 1..Len(r) : q[i] = p

(* A function on 1..n is a sequence.                                       *)
LEMMA FunctionIsSequence ==
    ASSUME NEW n \in Nat, NEW f, f = [i \in 1..n |-> f[i]]
    PROVE  IsSequence(f) /\ Len(f) = n /\ DOMAIN f = 1..n
<1>1. DOMAIN f = 1..n
  OBVIOUS
<1>2. \A i \in 1..n : f[i] \in Range(f)
  BY <1>1 DEF Range
<1>3. f \in [1..n -> Range(f)]
  BY <1>2
<1>4. f \in Seq(Range(f))
  BY <1>3, SeqDef
<1>5. Len(f) = n
  BY <1>1, <1>4
<1> QED
  BY <1>1, <1>4, <1>5 DEF IsSequence

(* What At yields.                                                         *)
LEMMA AtSelects ==
    ASSUME NEW s, NEW n \in Nat, NEW P \in SUBSET (1..n)
    PROVE  Selects(At(s, P), s, P)
<1> DEFINE c == Cardinality(P)
           q == Sorted(P)
           r == At(s, P)
<1>1. Sorts(q, P) /\ c \in Nat
  BY SortedSorts
<1> HIDE DEF q
<1>2. /\ q \in [1..c -> P] /\ Range(q) = P
      /\ \A i, j \in 1..c : i < j => q[i] < q[j]
  BY <1>1 DEF Sorts
<1> HIDE DEF c
<1>3. r = [i \in 1..c |-> s[q[i]]]
  BY DEF At, c, q
<1> HIDE DEF r
<1>4. IsSequence(r) /\ Len(r) = c
  <2>1. r = [i \in 1..c |-> r[i]]
    BY <1>3
  <2> QED
    BY <1>1, <2>1, FunctionIsSequence
<1>5. ASSUME NEW i \in 1..c, NEW j \in 1..c, i # j PROVE q[i] # q[j]
  <2>1. q[i] \in 1..n /\ q[j] \in 1..n
    BY <1>2
  <2>2. i < j \/ j < i
    BY <1>1, <1>5
  <2> QED
    BY <1>2, <2>1, <2>2
<1>6. \A p \in P : \E i \in 1..c : q[i] = p
  BY <1>2 DEF Range
<1>7. Selects(r, s, P)
  BY <1>1, <1>2, <1>3, <1>4, <1>5, <1>6 DEF Selects
<1> QED
  BY <1>7 DEF r

-----------------------------------------------------------------------------
(* Values, variables and rows.                                             *)

\* A value that the editor shows and, unless it is null, reads back.
IsValue(tv) == /\ tv = [type |-> tv.type, value |-> tv.value]
               /\ tvToStr(tv) \in Text
               /\ tv.value # Null => /\ Accepts(tv.type, tvToStr(tv))
                                     /\ strToTypedValue(tv.type, tvToStr(tv)) = tv

(* A null is shown as blank.                                               *)
LEMMA NullIsValue == \A type : IsValue([type |-> type, value |-> Null])
<1> SUFFICES ASSUME NEW type PROVE IsValue([type |-> type, value |-> Null])
  OBVIOUS
<1> DEFINE tv == [type |-> type, value |-> Null]
<1>1. tv = [type |-> tv.type, value |-> tv.value] /\ tv.value = Null
  OBVIOUS
<1> HIDE DEF tv
<1>2. tvToStr(tv) \in Text
  BY <1>1, Zenon DEF tvToStr, Text
<1>3. IsValue(tv)
  BY <1>1, <1>2 DEF IsValue
<1> QED
  BY <1>3 DEF tv

(* What the editor reads and the server gets it could show and, unless it  *)
(* is null, read again.                                                    *)
LEMMA ReadBack ==
    ASSUME NEW type, NEW s \in Text, Accepts(type, s)
    PROVE  IsValue(Wire(strToTypedValue(type, s)))
<1> DEFINE x == strToTypedValue(type, s).value
           tv == [type |-> type, value |-> x]
<1>1. strToTypedValue(type, s) = tv
  BY DEF strToTypedValue
<1>2. CASE x = Infinity
  <2>1. CASE type = "json"
    <3>1. Wire(tv) = [type |-> type, value |-> "null"]
      BY <1>2, <2>1 DEF Wire
    <3>2. /\ "null" # Null /\ "null" \in Text /\ Accepts("json", "null")
          /\ strToTypedValue("json", "null") = [type |-> "json", value |-> "null"]
      BY DEF Null, Text, Accepts, strToTypedValue, Huge
    <3> QED
      <4> DEFINE w == [type |-> "json", value |-> "null"]
      <4>1. w = [type |-> w.type, value |-> w.value] /\ w.type = "json" /\ w.value = "null"
        OBVIOUS
      <4>2. strToTypedValue("json", "null") = w
        BY <3>2
      <4> HIDE DEF w
      <4>3. tvToStr(w) = "null"
        BY <3>2, <4>1, Zenon DEF tvToStr
      <4>4. IsValue(w)
        BY <3>2, <4>1, <4>2, <4>3 DEF IsValue
      <4> QED
        BY <1>1, <2>1, <3>1, <4>4 DEF w
  <2>2. CASE type # "json"
    <3>1. Wire(tv) = [type |-> type, value |-> Null]
      BY <1>2, <2>2 DEF Wire
    <3> QED
      BY <1>1, <3>1, NullIsValue
  <2> QED
    BY <2>1, <2>2
<1>3. CASE x # Infinity
  <2>1. Wire(tv) = tv
    <3> HIDE DEF x
    <3>1. tv.value = x
      OBVIOUS
    <3> QED
      BY <1>3, <3>1 DEF Wire
  <2>2. x \in Text /\ x # Null /\ Accepts(type, x) /\ strToTypedValue(type, x) = tv
    <3>1. CASE type \in {"int", "float"}
      <4>1. x = Number(s) /\ Number(s) \in {"0", "1"}
        <5>1. x = Number(s)
          BY <3>1 DEF strToTypedValue
        <5>2. Number(s) # NaN
          BY <3>1 DEF Accepts, Number, NaN, Infinity, Huge
        <5> HIDE DEF x
        <5> QED
          BY <1>3, <5>1, <5>2 DEF Number, Huge
      <4>2. Number(Number(s)) = Number(s)
        <5>1. Number("0") = "0" /\ Number("1") = "1"
          BY DEF Number, Huge
        <5> QED
          BY <4>1, <5>1
      <4>3. Accepts(type, Number(s)) /\ Number(s) \in Text /\ Number(s) # Null
        BY <3>1, <4>1, <4>2 DEF Accepts, NaN, Text, Null
      <4>4. strToTypedValue(type, Number(s)) = [type |-> type, value |-> Number(s)]
        BY <3>1, <4>2 DEF strToTypedValue
      <4> HIDE DEF x
      <4> QED
        BY <4>1, <4>3, <4>4
    <3>2. CASE type = "bool"
      <4>1. x \in {"true", "false"} /\ (x = "true" <=> s = "true")
        BY <3>2 DEF strToTypedValue
      <4> HIDE DEF x
      <4> QED
        BY <3>2, <4>1 DEF Accepts, Text, Null, strToTypedValue
    <3>3. CASE type = "json"
      <4>1. x = s /\ s # Huge
        BY <1>3, <3>3 DEF strToTypedValue
      <4>2. s # Null
        BY DEF Text, Null, Huge
      <4> HIDE DEF x
      <4> QED
        BY <3>3, <4>1, <4>2 DEF strToTypedValue
    <3>4. CASE type \notin {"int", "float", "bool", "json"}
      <4>1. x = s
        BY <3>4 DEF strToTypedValue
      <4>2. s # Null
        BY DEF Text, Null, Huge
      <4> HIDE DEF x
      <4> QED
        BY <3>4, <4>1, <4>2 DEF strToTypedValue
    <3> QED
      BY <3>1, <3>2, <3>3, <3>4
  <2> HIDE DEF x
  <2>3. tvToStr(tv) = x
    BY <2>2 DEF tvToStr
  <2>4. IsValue(tv)
    BY <2>2, <2>3 DEF IsValue
  <2> QED
    BY <1>1, <2>1, <2>4
<1> QED
  BY <1>2, <1>3

\* Variables: values, named by numbers of 1..m (0 stands for blank).
IsVars(v, m) == /\ v = [k \in DOMAIN v |-> v[k]]
                /\ DOMAIN v \subseteq 1..m
                /\ \A k \in DOMAIN v : IsValue(v[k])

IsRow(r, m) == /\ r = [id |-> r.id, key |-> r.key, type |-> r.type, val |-> r.val]
               /\ r.id \in Nat \ {0}
               /\ r.key \in 0..m
               /\ r.val \in Text

\* The rows of an editor; their ids tell them apart.
IsRows(rs, m) == /\ IsSequence(rs) /\ Len(rs) \in Nat
                 /\ \A i \in 1..Len(rs) : IsRow(rs[i], m)
                 /\ \A i, j \in 1..Len(rs) : i # j => rs[i].id # rs[j].id

Places(rs, k) == {i \in 1..Len(rs) : rs[i].key = k}

(* The rows with a key, in their order: none of another key, none missing, *)
(* and some if the key is among the keys.                                  *)
LEMMA OwnRows ==
    ASSUME NEW m, NEW rs, IsRows(rs, m), NEW k
    PROVE  /\ Selects(Own(rs, k), rs, Places(rs, k))
           /\ Len(Own(rs, k)) \in Nat
           /\ \A i \in 1..Len(Own(rs, k)) : \E p \in 1..Len(rs) :
                 rs[p].key = k /\ Own(rs, k)[i] = rs[p]
           /\ \A p \in 1..Len(rs) : rs[p].key = k =>
                 \E i \in 1..Len(Own(rs, k)) : Own(rs, k)[i] = rs[p]
           /\ k \in Keys(rs) => Len(Own(rs, k)) # 0 /\ k # Blank
<1> DEFINE P == Places(rs, k)
           r == Own(rs, k)
<1>1. P \in SUBSET (1..Len(rs)) /\ Len(rs) \in Nat
  BY DEF Places, IsRows
<1>2. Selects(r, rs, P)
  BY <1>1, AtSelects DEF Own, Places
<1>3. \A p \in P : p \in 1..Len(rs) /\ rs[p].key = k
  BY DEF Places
<1>4. \A p \in 1..Len(rs) : rs[p].key = k => p \in P
  BY DEF Places
<1>5. k \in Keys(rs) => P # {} /\ k # Blank
  BY DEF Places, Keys
<1> HIDE DEF P, r
<1>6. PICK q \in [1..Len(r) -> P] :
          /\ \A i \in 1..Len(r) : r[i] = rs[q[i]]
          /\ \A p \in P : \E i \in 1..Len(r) : q[i] = p
  BY <1>2 DEF Selects
<1>7. Len(r) \in Nat
  BY <1>2 DEF Selects
<1>8. \A i \in 1..Len(r) : \E p \in 1..Len(rs) : rs[p].key = k /\ r[i] = rs[p]
  BY <1>3, <1>6
<1>9. \A p \in 1..Len(rs) : rs[p].key = k => \E i \in 1..Len(r) : r[i] = rs[p]
  BY <1>4, <1>6
<1>10. k \in Keys(rs) => Len(r) # 0 /\ k # Blank
  BY <1>5, <1>6, <1>7
<1> QED
  BY <1>2, <1>7, <1>8, <1>9, <1>10 DEF P, r

(* A row less: the other rows stay as they are.                            *)
LEMMA RemovedRow ==
    ASSUME NEW m, NEW rs, IsRows(rs, m), NEW P \in SUBSET (1..Len(rs))
    PROVE  /\ IsRows(At(rs, P), m)
           /\ \A i \in 1..Len(At(rs, P)) : \E p \in 1..Len(rs) : At(rs, P)[i] = rs[p]
<1> DEFINE r == At(rs, P)
<1>1. Selects(r, rs, P)
  BY AtSelects DEF IsRows
<1> HIDE DEF r
<1>2. PICK q \in [1..Len(r) -> P] :
          /\ \A i \in 1..Len(r) : r[i] = rs[q[i]]
          /\ \A i, j \in 1..Len(r) : i # j => q[i] # q[j]
  BY <1>1 DEF Selects
<1>3. \A i \in 1..Len(r) : q[i] \in 1..Len(rs) /\ r[i] = rs[q[i]]
  BY <1>2
<1>4. IsRows(r, m)
  <2>1. IsSequence(r) /\ Len(r) \in Nat
    BY <1>1 DEF Selects
  <2>2. \A i \in 1..Len(r) : IsRow(r[i], m)
    BY <1>3 DEF IsRows
  <2>3. ASSUME NEW i \in 1..Len(r), NEW j \in 1..Len(r), i # j PROVE r[i].id # r[j].id
    <3>1. q[i] # q[j] /\ q[i] \in 1..Len(rs) /\ q[j] \in 1..Len(rs)
      BY <1>2, <1>3, <2>3
    <3>2. rs[q[i]].id # rs[q[j]].id
      BY <3>1 DEF IsRows
    <3> QED
      BY <1>3, <3>2
  <2> QED
    BY <2>1, <2>2, <2>3 DEF IsRows
<1>5. \A i \in 1..Len(r) : \E p \in 1..Len(rs) : r[i] = rs[p]
  BY <1>3
<1> QED
  BY <1>4, <1>5 DEF r

(* The rows of variables: one per key, with ids of their own from n on.    *)
LEMMA RowsOfVars ==
    ASSUME NEW m \in Nat, NEW v, IsVars(v, m), NEW n \in Nat \ {0}
    PROVE  LET rs == varsToRows(v, n)
           IN  /\ IsRows(rs, m)
               /\ \A i \in 1..Len(rs) : /\ rs[i].id >= n /\ rs[i].id < n + Len(rs)
                                         /\ rs[i].key \in DOMAIN v
                                         /\ rs[i].type = v[rs[i].key].type
                                         /\ rs[i].val = tvToStr(v[rs[i].key])
               /\ Keys(rs) = DOMAIN v
<1> DEFINE ks == Sorted(DOMAIN v)
           c == Cardinality(DOMAIN v)
           rs == varsToRows(v, n)
<1>1. DOMAIN v \in SUBSET (1..m)
  BY DEF IsVars
<1>2. Sorts(ks, DOMAIN v) /\ c \in Nat
  BY <1>1, SortedSorts
<1> HIDE DEF ks
<1>3. ks \in [1..c -> DOMAIN v] /\ Range(ks) = DOMAIN v
  BY <1>2 DEF Sorts
<1> HIDE DEF c
<1>4. Len(ks) = c
  <2>1. ks = [i \in 1..c |-> ks[i]]
    BY <1>3
  <2> QED
    BY <1>2, <2>1, FunctionIsSequence
<1>5. rs = [i \in 1..c |-> [id |-> n + i - 1, key |-> ks[i],
                             type |-> v[ks[i]].type, val |-> tvToStr(v[ks[i]])]]
  BY <1>4 DEF varsToRows, ks
<1> HIDE DEF rs
<1>6. IsSequence(rs) /\ Len(rs) = c
  <2>1. rs = [i \in 1..c |-> rs[i]]
    BY <1>5
  <2> QED
    BY <1>2, <2>1, FunctionIsSequence
<1>7. ASSUME NEW i \in 1..c
      PROVE  /\ IsRow(rs[i], m) /\ rs[i].key = ks[i] /\ rs[i].key \in DOMAIN v
             /\ rs[i].id = n + i - 1 /\ rs[i].id >= n /\ rs[i].id < n + c
             /\ rs[i].type = v[rs[i].key].type /\ rs[i].val = tvToStr(v[rs[i].key])
  <2>1. /\ ks[i] \in DOMAIN v /\ ks[i] \in 0..m /\ tvToStr(v[ks[i]]) \in Text
    BY <1>1, <1>3 DEF IsVars, IsValue
  <2>2. rs[i] = [id |-> n + i - 1, key |-> ks[i], type |-> v[ks[i]].type,
                 val |-> tvToStr(v[ks[i]])]
    BY <1>5
  <2>3. n + i - 1 \in Nat \ {0} /\ n + i - 1 >= n /\ n + i - 1 < n + c
    BY <1>2
  <2> QED
    BY <2>1, <2>2, <2>3 DEF IsRow
<1>8. ASSUME NEW i \in 1..c, NEW j \in 1..c, i # j PROVE rs[i].id # rs[j].id
  <2>1. n + i - 1 # n + j - 1
    BY <1>8
  <2> QED
    BY <1>7, <2>1
<1>9. Keys(rs) = DOMAIN v
  <2>1. Blank \notin DOMAIN v
    BY <1>1 DEF Blank
  <2>2. \A k \in DOMAIN v : \E i \in 1..c : ks[i] = k
    BY <1>3 DEF Range
  <2>3. \A i \in 1..c : rs[i].key = ks[i] /\ rs[i].key \in DOMAIN v
    BY <1>7
  <2>4. Keys(rs) = {rs[i].key : i \in 1..c} \ {Blank}
    BY <1>6 DEF Keys
  <2>5. \A k \in DOMAIN v : k \in {rs[i].key : i \in 1..c}
    BY <2>2, <2>3
  <2> QED
    BY <2>1, <2>3, <2>4, <2>5
<1>10. IsRows(rs, m)
  BY <1>2, <1>6, <1>7, <1>8 DEF IsRows
<1> QED
  BY <1>6, <1>7, <1>9, <1>10 DEF rs

(* What is posted of rows that all parse.                                  *)
LEMMA VarsOfRows ==
    ASSUME NEW m \in Nat, NEW rs, IsRows(rs, m), ~Throws(rs)
    PROVE  IsVars(Posted(rs), m)
<1> DEFINE v == Posted(rs)
           r(k) == Last(Own(rs, k))
<1>1. v = [k \in Keys(rs) |-> Wire(strToTypedValue(r(k).type, r(k).val))]
  BY DEF Posted, rowsToVars
<1>2. ASSUME NEW k \in Keys(rs) PROVE k \in 1..m /\ IsValue(v[k])
  <2>1. Len(Own(rs, k)) \in Nat \ {0} /\ k # Blank
    BY OwnRows
  <2>2. PICK p \in 1..Len(rs) : rs[p].key = k /\ r(k) = rs[p]
    <3>1. Len(Own(rs, k)) \in 1..Len(Own(rs, k))
      BY <2>1
    <3>2. \A i \in 1..Len(Own(rs, k)) : \E p \in 1..Len(rs) :
             rs[p].key = k /\ Own(rs, k)[i] = rs[p]
      BY OwnRows
    <3> QED
      BY <3>1, <3>2 DEF Last
  <2>3. rs[p].key \in 0..m /\ rs[p].val \in Text
    BY DEF IsRows, IsRow
  <2>4. Accepts(rs[p].type, rs[p].val)
    BY <2>1, <2>2 DEF Throws
  <2>5. IsValue(Wire(strToTypedValue(rs[p].type, rs[p].val)))
    BY <2>3, <2>4, ReadBack
  <2>6. v[k] = Wire(strToTypedValue(rs[p].type, rs[p].val))
    BY <1>1, <2>2
  <2> QED
    BY <2>1, <2>2, <2>3, <2>5, <2>6 DEF Blank
<1> HIDE DEF v, r
<1>3. DOMAIN v = Keys(rs) /\ v = [k \in DOMAIN v |-> v[k]]
  BY <1>1
<1>4. IsVars(v, m)
  BY <1>2, <1>3 DEF IsVars
<1> QED
  BY <1>4 DEF v

(* Rows of the same signature mean the same and parse alike.               *)
LEMMA SignatureTells ==
    ASSUME NEW m, NEW a, NEW b, IsRows(a, m), IsRows(b, m),
           rowsSignature(a) = rowsSignature(b)
    PROVE  /\ rowsToVars(a) = rowsToVars(b) /\ Keys(a) = Keys(b)
           /\ \A p \in 1..Len(a) : a[p].key # Blank =>
                 \E o \in 1..Len(b) : /\ b[o].key = a[p].key /\ b[o].type = a[p].type
                                       /\ b[o].val = a[p].val
<1> DEFINE sig(rs, k) == [i \in 1..Len(Own(rs, k)) |->
                             <<Own(rs, k)[i].type, Own(rs, k)[i].val>>]
<1>1. \A rs : rowsSignature(rs) = [k \in Keys(rs) |-> sig(rs, k)]
  BY DEF rowsSignature
<1>2. Keys(a) = Keys(b) /\ \A k \in Keys(a) : sig(a, k) = sig(b, k)
  BY <1>1
<1>3. ASSUME NEW k \in Keys(a)
      PROVE  /\ Len(Own(a, k)) = Len(Own(b, k)) /\ Len(Own(a, k)) \in Nat \ {0}
             /\ \A i \in 1..Len(Own(a, k)) : /\ Own(a, k)[i].type = Own(b, k)[i].type
                                            /\ Own(a, k)[i].val = Own(b, k)[i].val
  <2> DEFINE x == Own(a, k)
             y == Own(b, k)
             s == [i \in 1..Len(x) |-> <<x[i].type, x[i].val>>]
             t == [i \in 1..Len(y) |-> <<y[i].type, y[i].val>>]
  <2>1. Len(x) \in Nat \ {0} /\ Len(y) \in Nat \ {0}
    BY <1>2, OwnRows
  <2>2. s = t
    BY <1>2
  <2> HIDE DEF x, y
  <2>3. DOMAIN s = 1..Len(x) /\ DOMAIN t = 1..Len(y)
    OBVIOUS
  <2>4. Len(x) = Len(y)
    BY <2>1, <2>2, <2>3
  <2>5. ASSUME NEW i \in 1..Len(x) PROVE x[i].type = y[i].type /\ x[i].val = y[i].val
    <3>1. s[i] = <<x[i].type, x[i].val>> /\ t[i] = <<y[i].type, y[i].val>>
      BY <2>4
    <3> HIDE DEF s, t
    <3> QED
      BY <2>2, <3>1
  <2> QED
    BY <2>1, <2>4, <2>5 DEF x, y
<1> HIDE DEF sig
<1>4. rowsToVars(a) = rowsToVars(b)
  <2>1. ASSUME NEW k \in Keys(a)
        PROVE  strToTypedValue(Last(Own(a, k)).type, Last(Own(a, k)).val)
               = strToTypedValue(Last(Own(b, k)).type, Last(Own(b, k)).val)
    <3>1. Len(Own(a, k)) \in 1..Len(Own(a, k))
      BY <1>3
    <3>2. /\ Last(Own(a, k)).type = Last(Own(b, k)).type
          /\ Last(Own(a, k)).val = Last(Own(b, k)).val
      BY <1>3, <3>1 DEF Last
    <3> QED
      BY <3>2
  <2> QED
    BY <1>2, <2>1 DEF rowsToVars
<1>5. ASSUME NEW p \in 1..Len(a), a[p].key # Blank
      PROVE  \E o \in 1..Len(b) : /\ b[o].key = a[p].key /\ b[o].type = a[p].type
                                    /\ b[o].val = a[p].val
  <2> DEFINE k == a[p].key
  <2>1. k \in Keys(a)
    BY <1>5 DEF Keys
  <2> HIDE DEF k
  <2>2. PICK i \in 1..Len(Own(a, k)) : Own(a, k)[i] = a[p]
    BY OwnRows DEF k
  <2>3. /\ i \in 1..Len(Own(b, k))
        /\ Own(b, k)[i].type = a[p].type /\ Own(b, k)[i].val = a[p].val
    BY <1>3, <2>1, <2>2
  <2>4. PICK o \in 1..Len(b) : b[o].key = k /\ Own(b, k)[i] = b[o]
    BY <2>3, OwnRows
  <2> QED
    BY <2>3, <2>4 DEF k
<1> QED
  BY <1>2, <1>4, <1>5

(* Values that are not null survive the way into rows and back.            *)
LEMMA RoundTrip ==
    ASSUME NEW m \in Nat, NEW v, IsVars(v, m), NEW n \in Nat \ {0}
    PROVE  LET rs == varsToRows(v, n)
           IN  /\ Keys(rs) = DOMAIN v
               /\ \A k \in DOMAIN v : v[k].value # Null => rowsToVars(rs)[k] = v[k]
               /\ \A i \in 1..Len(rs) : /\ rs[i].key \in DOMAIN v
                                        /\ v[rs[i].key].value # Null
                                           => Accepts(rs[i].type, rs[i].val)
<1> DEFINE rs == varsToRows(v, n)
<1>1. /\ IsRows(rs, m) /\ Keys(rs) = DOMAIN v
      /\ \A i \in 1..Len(rs) : /\ rs[i].key \in DOMAIN v
                                /\ rs[i].type = v[rs[i].key].type
                                /\ rs[i].val = tvToStr(v[rs[i].key])
  BY RowsOfVars
<1> HIDE DEF rs
<1>2. \A k \in DOMAIN v : v[k].value # Null =>
                          /\ Accepts(v[k].type, tvToStr(v[k]))
                          /\ strToTypedValue(v[k].type, tvToStr(v[k])) = v[k]
  BY DEF IsVars, IsValue
<1>3. ASSUME NEW k \in DOMAIN v, v[k].value # Null PROVE rowsToVars(rs)[k] = v[k]
  <2>1. Len(Own(rs, k)) \in 1..Len(Own(rs, k))
    BY <1>1, OwnRows
  <2>2. PICK p \in 1..Len(rs) : rs[p].key = k /\ Last(Own(rs, k)) = rs[p]
    <3>1. \A i \in 1..Len(Own(rs, k)) : \E p \in 1..Len(rs) :
             rs[p].key = k /\ Own(rs, k)[i] = rs[p]
      BY <1>1, OwnRows
    <3> QED
      BY <2>1, <3>1 DEF Last
  <2>3. strToTypedValue(Last(Own(rs, k)).type, Last(Own(rs, k)).val) = v[k]
    BY <1>1, <1>2, <1>3, <2>2
  <2> QED
    BY <1>1, <2>3 DEF rowsToVars
<1> QED
  BY <1>1, <1>2, <1>3 DEF rs

-----------------------------------------------------------------------------
(* The rows.  What the editor edits, shows and posts are rows and          *)
(* variables as the lemmas above have them.                                *)

\* The greatest key.
M == Cardinality(Key) - 1

\* As in the variable draft: variables, or none.
IsDraft(d) == d = <<>> \/ (d = <<d[1]>> /\ IsVars(d[1], M))

AnswerVars(a) == IsVars(a.vars, M) /\ IsDraft(a.draft)

JobVars(j) == /\ AnswerVars(j.ans)
              /\ j.kind \in {"apply", "draft"} => IsVars(j.posted, M)

\* Everything stored, on its way or on the screen is variables.
VarsInv ==
    /\ DOMAIN draft = Scope
    /\ \A s \in Scope : /\ \A n \in DOMAIN hist[s] : IsVars(hist[s][n], M)
                        /\ IsDraft(draft[s])
    /\ \A j \in jobs : JobVars(j)
    /\ data # None => AnswerVars(data)

\* What load() makes the rows of.
Shown(a) == IF a.draft # <<>> THEN Head(a.draft) ELSE a.vars

\* Rows numbered by the counter so far.
Numbered(rs) == /\ IsRows(rs, M)
                /\ \A i \in 1..Len(rs) : rs[i].id < nextRowId

\* The open dialog knows the key of its row, if that row is still there.
Dialog(e, rs) == /\ e = [row |-> e.row, text |-> e.text]
                 /\ e.text \in Text
                 /\ e.row.id \in Nat /\ e.row.id < nextRowId
                 /\ \A i \in 1..Len(rs) : rs[i].id = e.row.id => rs[i].key = e.row.key

RowsInv ==
    /\ nextRowId \in Nat \ {0}
    /\ Numbered(rows) /\ Numbered(loaded)
    /\ data # None => \E n \in 1..nextRowId : loaded = varsToRows(Shown(data), n)
    /\ editing # None => Dialog(editing, rows)

\* The parts of the page that the rest does not speak of.
PageTyped ==
    /\ mount \in 1..MaxMounts
    /\ readOnly \in BOOLEAN /\ historyOpen \in BOOLEAN
    /\ sel \in Nat
    /\ events \subseteq Scope

EditInv == VarsInv /\ RowsInv /\ PageTyped

(* Keys are the numbers from the blank one up to M.                        *)
LEMMA KeyNumbers == M \in Nat /\ Key = 0..M
<1>1. IsFiniteSet(Key) /\ 0 \in Key /\ Key = 0..(Cardinality(Key) - 1)
  BY ScopeEditorAssumption DEF Blank
<1>2. Cardinality(Key) \in Nat
  BY <1>1, FS_CardinalityType
<1> QED
  BY <1>1, <1>2 DEF M

(* No variables, and no draft.                                             *)
LEMMA NoVars == IsVars(<<>>, M) /\ IsDraft(<<>>)
<1>1. DOMAIN <<>> = {} /\ <<>> = [k \in {} |-> <<>>[k]]
  OBVIOUS
<1> QED
  BY <1>1 DEF IsVars, IsDraft

(* What is published and what the scopes start with.                       *)
LEMMA VariablesAreVars == \A v \in Variables : IsVars(v, M)
<1> SUFFICES ASSUME NEW v \in Variables PROVE IsVars(v, M)
  OBVIOUS
<1>1. ASSUME NEW tv \in Value PROVE IsValue(tv)
  <2>1. CASE \E t : tv = [type |-> t, value |-> Null]
    BY <2>1, NullIsValue
  <2>2. CASE \E p \in VarType \X Text : /\ Accepts(p[1], p[2])
                                         /\ tv = Wire(strToTypedValue(p[1], p[2]))
    <3>1. PICK p \in VarType \X Text : /\ Accepts(p[1], p[2])
                                       /\ tv = Wire(strToTypedValue(p[1], p[2]))
      BY <2>2
    <3>2. p[2] \in Text
      OBVIOUS
    <3> QED
      BY <3>1, <3>2, ReadBack
  <2> QED
    BY <2>1, <2>2 DEF Value
<1>2. PICK K \in SUBSET (Key \ {Blank}) : v \in [K -> Value]
  BY DEF Variables
<1>3. K \subseteq 1..M
  BY KeyNumbers DEF Blank
<1> HIDE DEF Value
<1> QED
  BY <1>1, <1>2, <1>3 DEF IsVars

-----------------------------------------------------------------------------
(* Variables stay variables.                                               *)

JobsVars == \A j \in jobs' : j \in jobs \/ JobVars(j)

(* Nothing is written and nothing arrives.                                 *)
LEMMA VarsSame ==
    ASSUME VarsInv, UNCHANGED <<hist, draft, data>>, JobsVars
    PROVE  VarsInv'
<1>1. \A j \in jobs' : JobVars(j)
  BY DEF VarsInv, JobsVars
<1> QED
  BY <1>1 DEF VarsInv, JobVars, AnswerVars, IsDraft, M

(* A new request, with an answer to be filled in.                          *)
LEMMA NewJobVars ==
    ASSUME NEW kind, NEW s, NEW m, NEW why, NEW posted, NEW rev,
           kind \in {"apply", "draft"} => IsVars(posted, M)
    PROVE  JobVars(Job(kind, s, m, why, posted, rev))
  BY NoVars DEF JobVars, AnswerVars, Job, Answer

(* A load.                                                                 *)
LEMMA LoadVars == \A s, m, why : JobVars(Load(s, m, why))
<1> SUFFICES ASSUME NEW s, NEW m, NEW why PROVE JobVars(Load(s, m, why))
  OBVIOUS
<1> QED
  BY NewJobVars DEF Load

(* Initially.                                                              *)
LEMMA VarsInit == Init => VarsInv
<1> SUFFICES ASSUME Init PROVE VarsInv
  OBVIOUS
<1>1. /\ Before \in [Scope -> Seq(Variables)] /\ Drafts \in [Scope -> Seq(Variables)]
      /\ \A s \in Scope : Len(Drafts[s]) <= 1
  BY ScopeEditorAssumption
<1>2. hist = Before /\ draft = Drafts /\ data = None /\ jobs = {Load(Global, 1, "self")}
  BY DEF Init
<1> HIDE DEF Variables
<1>3. ASSUME NEW s \in Scope, NEW n \in DOMAIN hist[s] PROVE IsVars(hist[s][n], M)
  BY <1>1, <1>2, VariablesAreVars
<1>4. ASSUME NEW s \in Scope PROVE IsDraft(draft[s])
  <2>1. draft[s] \in Seq(Variables) /\ Len(draft[s]) \in Nat /\ Len(draft[s]) <= 1
    BY <1>1, <1>2
  <2>2. CASE Len(draft[s]) = 0
    BY <2>1, <2>2, EmptySeq DEF IsDraft
  <2>3. CASE Len(draft[s]) = 1
    <3>1. draft[s][1] \in Variables /\ draft[s] = <<draft[s][1]>>
      BY <2>1, <2>3
    <3> QED
      BY <3>1, VariablesAreVars DEF IsDraft
  <2>4. \A l \in Nat : l <= 1 => l = 0 \/ l = 1
    OBVIOUS
  <2> QED
    BY <2>1, <2>2, <2>3, <2>4
<1>5. \A j \in jobs : JobVars(j)
  BY <1>2, LoadVars
<1>6. DOMAIN draft = Scope
  BY <1>1, <1>2
<1> QED
  BY <1>2, <1>3, <1>4, <1>5, <1>6 DEF VarsInv

(* A command posts what the rows mean, after they all parsed.              *)
LEMMA CommandVars ==
    ASSUME Inv, VarsInv, RowsInv,
           apply \/ saveDraft \/ discardDraft \/ deleteScope \/ rollback
    PROVE  VarsInv'
<1>1. ASSUME NEW j, JobVars(j), Command(j) PROVE VarsInv'
  <2>1. JobsVars /\ UNCHANGED <<hist, draft, data>>
    BY <1>1 DEF JobsVars, Command, server, editor
  <2> QED
    BY <2>1, VarsSame
<1>2. ASSUME NEW k, NEW posted, k \in {"apply", "draft"} => IsVars(posted, M),
             Command(Job(k, selected, mount, "", posted, 0))
      PROVE  VarsInv'
  <2>1. JobVars(Job(k, selected, mount, "", posted, 0))
    BY <1>2, NewJobVars
  <2> HIDE DEF Job
  <2> QED
    BY <1>1, <1>2, <2>1
<1>3. ~Throws(rows) => IsVars(Posted(rows), M)
  BY KeyNumbers, VarsOfRows DEF RowsInv, Numbered
<1>4. CASE apply \/ saveDraft
  <2>1. \E k \in {"apply", "draft"} : Command(Job(k, selected, mount, "", Posted(rows), 0))
    BY <1>4 DEF apply, saveDraft
  <2>2. IsVars(Posted(rows), M)
    BY <1>3, <1>4 DEF apply, saveDraft
  <2> QED
    BY <1>2, <2>1, <2>2
<1>5. CASE discardDraft \/ deleteScope
  <2>1. \E k \in {"discard", "delete"} : Command(Job(k, selected, mount, "", <<>>, 0))
    BY <1>5 DEF discardDraft, deleteScope
  <2> QED
    BY <1>2, <2>1
<1>6. CASE rollback
  <2> DEFINE v == data.hist[selectedRev]
             r == selectedRev
             j == [Job("rollback", selected, mount, "", v, r) EXCEPT !.ans = data]
  <2>1. Command(j)
    BY <1>6 DEF rollback
  <2>2. AnswerVars(data)
    BY <1>6 DEF rollback, Inv, PageInv, VarsInv
  <2> HIDE DEF v, r
  <2>3. j.ans = data /\ j.kind = "rollback"
    BY DEF Job
  <2> HIDE DEF j
  <2>4. JobVars(j)
    BY <2>2, <2>3 DEF JobVars
  <2> QED
    BY <1>1, <2>1, <2>4
<1> QED
  BY <1>4, <1>5, <1>6

(* What a load reads is variables.                                         *)
LEMMA ServeLoadVars ==
    ASSUME Inv, VarsInv, NEW j \in jobs, ServeLoad(j)
    PROVE  VarsInv'
<1>1. /\ IsJob(j) /\ IsAnswer(j.ans) /\ j.kind = "load" /\ j.scope \in Scope
      /\ AnswerVars(j.ans)
  BY DEF Inv, JobOK, CopyOK, ServeLoad, VarsInv, JobVars
<1>2. UNCHANGED <<hist, draft, data>>
  BY DEF ServeLoad, server, editor
<1>3. ASSUME NEW a, AnswerVars(a), NEW st,
             jobs' = (jobs \ {j}) \union {[j EXCEPT !.st = st, !.ans = a]}
      PROVE  VarsInv'
  <2> DEFINE k == [j EXCEPT !.st = st, !.ans = a]
  <2>1. k.ans = a /\ k.kind = "load"
    BY <1>1 DEF IsJob
  <2>2. jobs' = (jobs \ {j}) \union {k}
    BY <1>3
  <2> HIDE DEF k
  <2>3. JobsVars
    BY <1>3, <2>1, <2>2 DEF JobsVars, JobVars
  <2> QED
    BY <1>2, <2>3, VarsSame
<1>4. CASE j.st = "sent"
  <2> DEFINE n == Newest(hist[j.scope])
             v == IF n = 0 THEN <<>> ELSE hist[j.scope][n]
  <2>1. IsHistory(hist[j.scope])
    BY <1>1 DEF Inv, ServerInv
  <2>2. IsVars(v, M)
    <3>1. n # 0 => n \in DOMAIN hist[j.scope]
      BY <2>1, NewestNumber DEF Newest
    <3> QED
      BY <1>1, <3>1, NoVars DEF VarsInv
  <2>3. jobs' = (jobs \ {j}) \union
                    {[j EXCEPT !.st = "active", !.ans.active = n, !.ans.vars = v]}
    BY <1>4 DEF ServeLoad
  <2> HIDE DEF n, v
  <2>4. PICK a : a = [j.ans EXCEPT !.active = n, !.vars = v]
    OBVIOUS
  <2>5. jobs' = (jobs \ {j}) \union {[j EXCEPT !.st = "active", !.ans = a]}
    <3>1. ASSUME NEW k, k = [j EXCEPT !.st = "active", !.ans.active = n, !.ans.vars = v]
          PROVE  k = [j EXCEPT !.st = "active", !.ans = a]
      BY <1>1, <2>4, <3>1 DEF IsJob, IsAnswer
    <3> QED
      BY <2>3, <3>1
  <2>6. AnswerVars(a)
    BY <1>1, <2>2, <2>4 DEF AnswerVars, IsAnswer
  <2> QED
    BY <1>3, <2>5, <2>6
<1>5. CASE j.st = "active"
  <2> DEFINE v == draft[j.scope]
  <2>1. IsDraft(v)
    BY <1>1 DEF VarsInv
  <2>2. jobs' = (jobs \ {j}) \union {[j EXCEPT !.st = "draft", !.ans.draft = v]}
    BY <1>5 DEF ServeLoad
  <2> HIDE DEF v
  <2>3. PICK a : a = [j.ans EXCEPT !.draft = v]
    OBVIOUS
  <2>4. jobs' = (jobs \ {j}) \union {[j EXCEPT !.st = "draft", !.ans = a]}
    <3>1. ASSUME NEW k, k = [j EXCEPT !.st = "draft", !.ans.draft = v]
          PROVE  k = [j EXCEPT !.st = "draft", !.ans = a]
      BY <1>1, <2>3, <3>1 DEF IsJob, IsAnswer
    <3> QED
      BY <2>2, <3>1
  <2>5. AnswerVars(a)
    BY <1>1, <2>1, <2>3 DEF AnswerVars, IsAnswer
  <2> QED
    BY <1>3, <2>4, <2>5
<1>6. CASE j.st = "draft"
  <2> DEFINE v == hist[j.scope]
             n == gen[j.scope]
  <2>1. jobs' = (jobs \ {j}) \union
                    {[j EXCEPT !.st = "served", !.ans.hist = v, !.ans.gen = n]}
    BY <1>6 DEF ServeLoad
  <2> HIDE DEF v, n
  <2>2. PICK a : a = [j.ans EXCEPT !.hist = v, !.gen = n]
    OBVIOUS
  <2>3. jobs' = (jobs \ {j}) \union {[j EXCEPT !.st = "served", !.ans = a]}
    <3>1. ASSUME NEW k, k = [j EXCEPT !.st = "served", !.ans.hist = v, !.ans.gen = n]
          PROVE  k = [j EXCEPT !.st = "served", !.ans = a]
      BY <1>1, <2>2, <3>1 DEF IsJob, IsAnswer
    <3> QED
      BY <2>1, <3>1
  <2>4. AnswerVars(a)
    BY <1>1, <2>2 DEF AnswerVars, IsAnswer
  <2> QED
    BY <1>3, <2>3, <2>4
<1> QED
  BY <1>4, <1>5, <1>6 DEF ServeLoad

(* A server transaction: what it stores is variables.                      *)
LEMMA WrittenVars ==
    ASSUME Inv, VarsInv, NEW s \in Scope, UNCHANGED data, JobsVars,
           \/ \E v : IsVars(v, M) /\ ApplyTx(s, v)
           \/ \E v : /\ IsDraft(v)
                     /\ draft' = [draft EXCEPT ![s] = v] /\ UNCHANGED <<hist, gen>>
           \/ DeleteTx(s)
           \/ \E n \in Nat \ {0} : \E v :
                 IsVars(v, M) /\ Replicated(s, n, v) /\ UNCHANGED draft
    PROVE  VarsInv'
<1>1. DOMAIN hist = Scope /\ DOMAIN draft = Scope /\ IsHistory(hist[s])
  BY DEF Inv, ServerInv, VarsInv
<1>2. ASSUME NEW h, \A n \in DOMAIN h : IsVars(h[n], M), NEW d, IsDraft(d),
             hist'[s] = h, \A t \in Scope : t # s => hist'[t] = hist[t],
             draft' = [draft EXCEPT ![s] = d] \/ (d = draft[s] /\ UNCHANGED draft)
      PROVE  VarsInv'
  <2>1. DOMAIN draft' = Scope
    BY <1>1, <1>2
  <2>2. ASSUME NEW t \in Scope
        PROVE  (\A n \in DOMAIN hist'[t] : IsVars(hist'[t][n], M)) /\ IsDraft(draft'[t])
    <3>1. CASE t = s
      <4>1. hist'[t] = h /\ draft'[t] = d
        BY <1>1, <1>2, <3>1
      <4> QED
        BY <1>2, <4>1
    <3>2. CASE t # s
      <4>1. hist'[t] = hist[t] /\ draft'[t] = draft[t]
        BY <1>1, <1>2, <3>2
      <4> QED
        BY <4>1 DEF VarsInv
    <3> QED
      BY <3>1, <3>2
  <2>3. (\A j \in jobs' : JobVars(j)) /\ (data' # None => AnswerVars(data'))
    BY DEF VarsInv, JobsVars
  <2> QED
    BY <2>1, <2>2, <2>3 DEF VarsInv, JobVars, AnswerVars, IsDraft, M
<1>3. ASSUME NEW n \in Nat \ {0}, NEW v, IsVars(v, M), NEW d, IsDraft(d),
             hist' = [hist EXCEPT ![s] = Put(@, n, v)],
             draft' = [draft EXCEPT ![s] = d] \/ (d = draft[s] /\ UNCHANGED draft)
      PROVE  VarsInv'
  <2> DEFINE h == Put(hist[s], n, v)
  <2>1. /\ DOMAIN h = DOMAIN hist[s] \union {n} /\ h[n] = v
        /\ \A m \in DOMAIN hist[s] : m # n => h[m] = hist[s][m]
    <3>1. PICK g : g = hist[s]
      OBVIOUS
    <3>2. IsHistory(g)
      BY <1>1, <3>1
    <3>3. /\ DOMAIN Put(g, n, v) = DOMAIN g \union {n} /\ Put(g, n, v)[n] = v
          /\ \A m \in DOMAIN g : m # n => Put(g, n, v)[m] = g[m]
      BY <3>2, PutHistory
    <3> QED
      BY <3>1, <3>3
  <2>2. hist'[s] = h /\ \A t \in Scope : t # s => hist'[t] = hist[t]
    BY <1>1, <1>3
  <2> HIDE DEF h
  <2>3. \A m \in DOMAIN hist[s] : IsVars(hist[s][m], M)
    BY DEF VarsInv
  <2>4. \A m \in DOMAIN h : IsVars(h[m], M)
    BY <1>3, <2>1, <2>3
  <2> QED
    BY <1>2, <1>3, <2>2, <2>4
<1>4. ASSUME NEW v, IsVars(v, M), ApplyTx(s, v) PROVE VarsInv'
  <2> DEFINE n == Newest(hist[s]) + 1
  <2>1. n \in Nat \ {0}
    BY <1>1, NewestNumber
  <2>2. hist' = [hist EXCEPT ![s] = Put(@, n, v)] /\ draft' = [draft EXCEPT ![s] = <<>>]
    BY <1>4 DEF ApplyTx
  <2> HIDE DEF n
  <2> QED
    BY <1>3, <1>4, <2>1, <2>2, NoVars
<1>5. ASSUME NEW n \in Nat \ {0}, NEW v, IsVars(v, M), Replicated(s, n, v), UNCHANGED draft
      PROVE  VarsInv'
  <2>1. IsDraft(draft[s])
    BY DEF VarsInv
  <2>2. hist' = [hist EXCEPT ![s] = Put(@, n, v)]
    BY <1>5 DEF Replicated
  <2> QED
    BY <1>3, <1>5, <2>1, <2>2
<1>6. ASSUME NEW d, IsDraft(d), draft' = [draft EXCEPT ![s] = d], UNCHANGED hist PROVE VarsInv'
  <2>1. hist'[s] = hist[s] /\ \A t \in Scope : t # s => hist'[t] = hist[t]
    BY <1>6
  <2>2. \A n \in DOMAIN hist[s] : IsVars(hist[s][n], M)
    BY DEF VarsInv
  <2> QED
    BY <1>2, <1>6, <2>1, <2>2
<1>7. ASSUME DeleteTx(s) PROVE VarsInv'
  <2>1. /\ hist'[s] = <<>> /\ \A t \in Scope : t # s => hist'[t] = hist[t]
        /\ draft' = [draft EXCEPT ![s] = <<>>]
    BY <1>1, <1>7 DEF DeleteTx
  <2>2. \A n \in DOMAIN <<>> : IsVars(<<>>[n], M)
    BY EmptyHistory
  <2> QED
    BY <1>2, <2>1, <2>2, NoVars
<1> QED
  BY <1>4, <1>5, <1>6, <1>7

(* The writing handlers.                                                   *)
LEMMA ServeWriteVars ==
    ASSUME Inv, VarsInv, NEW j \in jobs, ServeWrite(j)
    PROVE  VarsInv'
<1> DEFINE s == j.scope
<1>1. IsJob(j) /\ s \in Scope /\ JobVars(j)
  BY DEF Inv, JobOK, CopyOK, VarsInv
<1>2. UNCHANGED data
  BY DEF ServeWrite, Write, editor
<1>3. JobsVars
  <2> DEFINE k == [j EXCEPT !.st = "served"]
  <2>1. k.ans = j.ans /\ k.kind = j.kind /\ k.posted = j.posted
    BY <1>1 DEF IsJob
  <2>2. jobs' = (jobs \ {j}) \union {k}
    BY DEF ServeWrite
  <2> HIDE DEF k
  <2> QED
    BY <1>1, <2>1, <2>2 DEF JobsVars, JobVars
<1>4. CASE j.kind = "apply" /\ ApplyTx(s, j.posted)
  <2>1. IsVars(j.posted, M)
    BY <1>1, <1>4 DEF JobVars
  <2> QED
    BY <1>1, <1>2, <1>3, <1>4, <2>1, WrittenVars
<1>5. CASE /\ j.kind = "draft" /\ draft' = [draft EXCEPT ![s] = <<j.posted>>]
           /\ UNCHANGED <<hist, gen>>
  <2>1. IsDraft(<<j.posted>>)
    BY <1>1, <1>5 DEF JobVars, IsDraft
  <2> QED
    BY <1>1, <1>2, <1>3, <1>5, <2>1, WrittenVars
<1>6. CASE draft' = [draft EXCEPT ![s] = <<>>] /\ UNCHANGED <<hist, gen>>
  BY <1>1, <1>2, <1>3, <1>6, NoVars, WrittenVars
<1>7. CASE DeleteTx(s)
  BY <1>1, <1>2, <1>3, <1>7, WrittenVars
<1>8. CASE j.rev \in DOMAIN hist[s] /\ ApplyTx(s, hist[s][j.rev])
  <2>1. IsVars(hist[s][j.rev], M)
    BY <1>1, <1>8 DEF VarsInv
  <2> QED
    BY <1>1, <1>2, <1>3, <1>8, <2>1, WrittenVars
<1> QED
  BY <1>4, <1>5, <1>6, <1>7, <1>8 DEF ServeWrite

(* Other operators, and peers.                                             *)
LEMMA OtherVars ==
    ASSUME Inv, VarsInv, NEW s \in Scope, Other(s) \/ putConfigRevisionRaw(s)
    PROVE  VarsInv'
<1>1. UNCHANGED data /\ JobsVars
  BY DEF Other, putConfigRevisionRaw, Write, editor, JobsVars
<1>2. ASSUME NEW v \in Published PROVE IsVars(v, M)
  <2>1. v \in Variables
    BY ScopeEditorAssumption
  <2> QED
    BY <2>1, VariablesAreVars
<1>3. CASE (\E v : IsVars(v, M) /\ ApplyTx(s, v)) \/ DeleteTx(s)
  BY <1>1, <1>3, WrittenVars
<1>4. ASSUME NEW v \in Published, draft' = [draft EXCEPT ![s] = <<v>>], UNCHANGED <<hist, gen>>
      PROVE  VarsInv'
  <2>1. IsDraft(<<v>>)
    BY <1>2 DEF IsDraft
  <2> QED
    BY <1>1, <1>4, <2>1, WrittenVars
<1>5. CASE putConfigRevisionRaw(s)
  <2>1. (\E n \in Nat \ {0}, v \in Published : Replicated(s, n, v)) /\ UNCHANGED draft
    BY <1>5, PeerWrites DEF Inv, putConfigRevisionRaw
  <2> QED
    BY <1>1, <1>2, <2>1, WrittenVars
<1> QED
  BY <1>2, <1>3, <1>4, <1>5 DEF Other

(* Answers: what arrives was read from the server.                         *)
LEMMA FinishVars ==
    ASSUME Inv, VarsInv, NEW j \in jobs, Finish(j)
    PROVE  VarsInv'
<1>1. JobVars(j) /\ UNCHANGED <<hist, draft>>
  BY DEF VarsInv, Finish, server
<1>2. data' = None \/ data' = data \/ data' = j.ans
  BY DEF Finish, Loaded, Mount, editor
<1>3. \A k \in jobs' : k \in jobs \/ \E s, m : k = Load(s, m, "self")
  <2> HIDE DEF Load
  <2> QED
    BY DEF Finish, Remaining
<1>4. \A k \in jobs' : JobVars(k)
  BY <1>3, LoadVars DEF VarsInv
<1>5. data' # None => AnswerVars(data')
  BY <1>1, <1>2 DEF VarsInv, JobVars
<1> QED
  BY <1>1, <1>4, <1>5 DEF VarsInv, JobVars, AnswerVars, IsDraft, M

(* Every step keeps them.                                                  *)
LEMMA VarsKept ==
    ASSUME Inv, VarsInv, RowsInv, [Next]_vars
    PROVE  VarsInv'
<1>1. ASSUME UNCHANGED <<hist, draft, data, jobs>> PROVE VarsInv'
  BY <1>1, VarsSame DEF JobsVars
<1>2. ASSUME NEW s \in Scope, Select(s) PROVE VarsInv'
  <2>1. UNCHANGED <<hist, draft>> /\ data' = None
    BY <1>2 DEF Select, setSelected, Mount, server
  <2>2. \A k \in jobs' : k \in jobs \/ k = Load(s, mount + 1, "self")
    <3> HIDE DEF Load
    <3> QED
      BY <1>2 DEF Select, setSelected, Remaining
  <2>3. \A k \in jobs' : JobVars(k)
    BY <2>2, LoadVars DEF VarsInv
  <2> QED
    BY <2>1, <2>3 DEF VarsInv, JobVars, AnswerVars, IsDraft, M
<1>3. ASSUME NEW s \in Scope, onEvent(s) PROVE VarsInv'
  <2>1. UNCHANGED <<hist, draft, data>>
    BY <1>3 DEF onEvent, server, editor
  <2>2. \A k \in jobs' : k \in jobs \/ k = Load(selected, mount, "event")
    <3> HIDE DEF Load
    <3> QED
      BY <1>3 DEF onEvent
  <2> QED
    BY <2>1, <2>2, LoadVars, VarsSame DEF JobsVars
<1>4. ASSUME NEW r, Type(r) \/ removeRow(r) \/ Expand(r) PROVE VarsInv'
  BY <1>1, <1>4 DEF Type, removeRow, Expand, Edit, server
<1>5. ASSUME addRow \/ reset \/ Done \/ Close \/ History \/ Pick PROVE VarsInv'
  BY <1>1, <1>5 DEF addRow, reset, Done, Close, History, Pick, Edit, server
<1>6. ASSUME NEW v, TypeBig(v) PROVE VarsInv'
  BY <1>1, <1>6 DEF TypeBig, server
<1>7. ASSUME NEW j \in jobs, Fail(j) PROVE VarsInv'
  BY <1>7, VarsSame DEF Fail, server, editor, JobsVars
<1>8. ASSUME UNCHANGED vars PROVE VarsInv'
  BY <1>1, <1>8 DEF vars, server, editor
<1> QED
  BY <1>2, <1>3, <1>4, <1>5, <1>6, <1>7, <1>8, CommandVars, OtherVars, ServeLoadVars,
     ServeWriteVars, FinishVars DEF Next

-----------------------------------------------------------------------------
(* Rows stay rows, with ids of their own.                                  *)

(* No rows.                                                                *)
LEMMA NoRows == IsRows(<<>>, M) /\ Len(<<>>) = 0
  BY EmptySequence DEF IsRows

(* Nothing happens to the editor.                                          *)
LEMMA RowsSame ==
    ASSUME RowsInv, UNCHANGED <<data, rows, loaded, nextRowId, editing>>
    PROVE  RowsInv'
  BY DEF RowsInv, Numbered, Dialog, Shown, M

(* A new editor has no rows; the counter of ids goes on.                   *)
LEMMA RowsMounted ==
    ASSUME RowsInv, NEW s, Mount(s)
    PROVE  RowsInv'
<1>1. /\ data' = None /\ rows' = <<>> /\ loaded' = <<>> /\ editing' = None
      /\ nextRowId' = nextRowId
  BY DEF Mount
<1>2. Numbered(rows)' /\ Numbered(loaded)'
  BY <1>1, NoRows DEF Numbered, M
<1> QED
  BY <1>1, <1>2 DEF RowsInv

(* An edit in the table, and the end of one in the dialog.                 *)
LEMMA RowsEdited ==
    ASSUME RowsInv, NEW rs, rows' = rs, IsRows(rs, M), NEW n \in Nat,
           nextRowId' = nextRowId + n, \A i \in 1..Len(rs) : rs[i].id < nextRowId',
           UNCHANGED <<data, loaded>>, editing' = None
    PROVE  RowsInv'
<1>1. nextRowId' \in Nat \ {0} /\ nextRowId <= nextRowId' /\ nextRowId \in Nat
  BY DEF RowsInv
<1>2. Numbered(rows)'
  BY DEF Numbered, M
<1>3. Numbered(loaded)'
  <2>1. ASSUME NEW i \in 1..Len(loaded) PROVE loaded[i].id < nextRowId'
    <3>1. loaded[i].id \in Nat /\ loaded[i].id < nextRowId
      BY DEF RowsInv, Numbered, IsRows, IsRow
    <3> QED
      BY <1>1, <3>1
  <2> QED
    BY <2>1 DEF RowsInv, Numbered, M
<1>4. data # None => \E k \in 1..nextRowId' : loaded = varsToRows(Shown(data), k)
  <2>1. 1..nextRowId \subseteq 1..nextRowId'
    BY <1>1
  <2> QED
    BY <2>1 DEF RowsInv
<1> QED
  BY <1>1, <1>2, <1>3, <1>4 DEF RowsInv, Shown

(* One field of a row changes: it stays a row, with its id.                *)
LEMMA FieldSet ==
    ASSUME NEW r, IsRow(r, M), NEW f, NEW v, NEW q, q = [r EXCEPT ![f] = v],
           \/ f = "key" /\ v \in Key
           \/ f = "type"
           \/ f = "val" /\ v \in Text
    PROVE  IsRow(q, M) /\ q.id = r.id
<1>1. CASE f = "key" /\ v \in Key
  <2>1. v \in 0..M
    BY <1>1, KeyNumbers
  <2>2. q = [r EXCEPT !.key = v]
    BY <1>1
  <2> QED
    BY <2>1, <2>2 DEF IsRow
<1>2. CASE f = "type"
  <2>1. q = [r EXCEPT !.type = v]
    BY <1>2
  <2> QED
    BY <2>1 DEF IsRow
<1>3. CASE f = "val" /\ v \in Text
  <2>1. q = [r EXCEPT !.val = v]
    BY <1>3
  <2> QED
    BY <1>3, <2>1 DEF IsRow
<1> QED
  BY <1>1, <1>2, <1>3

(* One field of the rows with an id changes.                               *)
LEMMA RowSet ==
    ASSUME RowsInv, NEW id, NEW f, NEW v,
           \/ f = "key" /\ v \in Key
           \/ f = "type"
           \/ f = "val" /\ v \in Text
    PROVE  /\ IsRows(setRow(id, f, v), M)
           /\ \A i \in 1..Len(setRow(id, f, v)) : setRow(id, f, v)[i].id < nextRowId
<1> DEFINE rs == setRow(id, f, v)
<1>1. /\ IsRows(rows, M) /\ Len(rows) \in Nat
      /\ \A i \in 1..Len(rows) : IsRow(rows[i], M) /\ rows[i].id < nextRowId
      /\ \A i, j \in 1..Len(rows) : i # j => rows[i].id # rows[j].id
  BY DEF RowsInv, Numbered, IsRows
<1>2. rs = [i \in 1..Len(rows) |-> IF rows[i].id = id THEN [rows[i] EXCEPT ![f] = v] ELSE rows[i]]
  BY DEF setRow
<1> HIDE DEF rs
<1>3. IsSequence(rs) /\ Len(rs) = Len(rows)
  <2>1. rs = [i \in 1..Len(rows) |-> rs[i]]
    BY <1>2
  <2> QED
    BY <1>1, <2>1, FunctionIsSequence
<1>4. ASSUME NEW i \in 1..Len(rows) PROVE IsRow(rs[i], M) /\ rs[i].id = rows[i].id
  <2>1. CASE rows[i].id = id
    <3>1. rs[i] = [rows[i] EXCEPT ![f] = v]
      BY <1>2, <2>1
    <3>2. IsRow(rows[i], M)
      BY <1>1
    <3> QED
      BY <3>1, <3>2, FieldSet
  <2>2. CASE rows[i].id # id
    BY <1>1, <1>2, <2>2
  <2> QED
    BY <2>1, <2>2
<1>5. IsRows(rs, M)
  BY <1>1, <1>3, <1>4 DEF IsRows
<1>6. \A i \in 1..Len(rs) : rs[i].id < nextRowId
  BY <1>1, <1>3, <1>4
<1> QED
  BY <1>5, <1>6 DEF rs

(* Typing in the table.                                                    *)
LEMMA TypeRows ==
    ASSUME RowsInv, NEW r, Type(r)
    PROVE  RowsInv'
<1>1. ASSUME NEW f, NEW v, Edit(setRow(r.id, f, v)),
             \/ f = "key" /\ v \in Key
             \/ f = "type"
             \/ f = "val" /\ v \in Text
      PROVE  RowsInv'
  <2> DEFINE rs == setRow(r.id, f, v)
  <2>1. /\ rows' = rs /\ UNCHANGED <<data, loaded>> /\ nextRowId' = nextRowId + 0
        /\ editing' = None
    BY <1>1 DEF Edit, Type, RowsInv
  <2>2. IsRows(rs, M) /\ \A i \in 1..Len(rs) : rs[i].id < nextRowId
    BY <1>1, RowSet
  <2> HIDE DEF rs
  <2>3. \A i \in 1..Len(rs) : rs[i].id < nextRowId'
    BY <2>1, <2>2 DEF RowsInv
  <2> QED
    BY <2>1, <2>2, <2>3, RowsEdited
<1>2. Typed \subseteq Text
  BY ScopeEditorAssumption
<1>3. \/ \E k \in Key : Edit(setRow(r.id, "key", k))
      \/ \E t \in Types : Edit(setRow(r.id, "type", t))
      \/ \E v \in Typed : Edit(setRow(r.id, "val", v))
  BY DEF Type
<1> HIDE DEF Edit, setRow
<1> QED
  BY <1>1, <1>2, <1>3

(* A new row takes an id from the counter.                                 *)
LEMMA AddRows ==
    ASSUME RowsInv, addRow
    PROVE  RowsInv'
<1> DEFINE r == [id |-> nextRowId, key |-> Blank, type |-> "string", val |-> ""]
           rs == Append(rows, r)
<1>1. /\ rows' = rs /\ UNCHANGED <<data, loaded>> /\ nextRowId' = nextRowId + 1
      /\ editing' = None
  BY DEF addRow, Edit
<1>2. /\ IsSequence(rows) /\ Len(rows) \in Nat /\ nextRowId \in Nat \ {0}
      /\ \A i \in 1..Len(rows) : IsRow(rows[i], M) /\ rows[i].id < nextRowId
      /\ \A i, j \in 1..Len(rows) : i # j => rows[i].id # rows[j].id
  BY DEF RowsInv, Numbered, IsRows
<1>3. IsRow(r, M) /\ r.id = nextRowId
  <2>1. Blank \in 0..M /\ "" \in Text
    BY KeyNumbers DEF Blank, Text
  <2> QED
    BY <1>2, <2>1 DEF IsRow
<1> HIDE DEF r
<1>4. /\ IsSequence(rs) /\ Len(rs) = Len(rows) + 1
      /\ \A i \in 1..Len(rows) : rs[i] = rows[i]
      /\ rs[Len(rows) + 1] = r
  <2>1. rows \in Seq(Range(rows) \union {r})
    <3>1. rows \in Seq(Range(rows))
      BY <1>2 DEF IsSequence
    <3>2. Seq(Range(rows)) \subseteq Seq(Range(rows) \union {r})
      OBVIOUS
    <3> QED
      BY <3>1, <3>2
  <2>2. IsSequence(rs)
    <3>1. rs \in Seq(Range(rows) \union {r})
      BY <2>1
    <3> QED
      BY <3>1, SequenceOf
  <2> QED
    BY <2>1, <2>2
<1> HIDE DEF rs
<1>5. ASSUME NEW i \in 1..Len(rs) PROVE i = Len(rows) + 1 \/ i \in 1..Len(rows)
  BY <1>2, <1>4
<1>6. ASSUME NEW i \in 1..Len(rs)
      PROVE  IsRow(rs[i], M) /\ rs[i].id \in Nat /\ rs[i].id < nextRowId'
  <2>1. CASE i = Len(rows) + 1
    BY <1>1, <1>2, <1>3, <1>4, <2>1 DEF IsRow
  <2>2. CASE i \in 1..Len(rows)
    <3>1. IsRow(rows[i], M) /\ rows[i].id \in Nat /\ rows[i].id < nextRowId /\ rs[i] = rows[i]
      BY <1>2, <1>4, <2>2 DEF IsRow
    <3> QED
      BY <1>1, <1>2, <3>1
  <2> QED
    BY <1>5, <2>1, <2>2
<1>7. ASSUME NEW i \in 1..Len(rs), NEW j \in 1..Len(rs), i # j PROVE rs[i].id # rs[j].id
  <2>1. CASE i \in 1..Len(rows) /\ j \in 1..Len(rows)
    BY <1>2, <1>4, <1>7, <2>1
  <2>2. ASSUME NEW k \in 1..Len(rows) PROVE rs[k].id # r.id
    <3>1. rs[k] = rows[k] /\ rows[k].id \in Nat /\ rows[k].id < nextRowId
      BY <1>2, <1>4 DEF IsRow
    <3> QED
      BY <1>2, <1>3, <3>1
  <2> QED
    BY <1>4, <1>5, <1>7, <2>1, <2>2
<1>8. IsRows(rs, M)
  <2>1. Len(rs) \in Nat
    BY <1>2, <1>4
  <2> QED
    BY <1>4, <1>6, <1>7, <2>1 DEF IsRows
<1> QED
  BY <1>1, <1>6, <1>8, RowsEdited

(* A row is taken out.                                                     *)
LEMMA RemoveRows ==
    ASSUME RowsInv, NEW r, removeRow(r)
    PROVE  RowsInv'
<1> DEFINE P == {i \in 1..Len(rows) : rows[i].id # r.id}
           rs == At(rows, P)
<1>1. /\ rows' = rs /\ UNCHANGED <<data, loaded>> /\ nextRowId' = nextRowId + 0
      /\ nextRowId' = nextRowId /\ editing' = None
  BY DEF removeRow, Edit, RowsInv
<1>2. P \in SUBSET (1..Len(rows))
  OBVIOUS
<1> HIDE DEF P
<1>3. IsRows(rs, M) /\ \A i \in 1..Len(rs) : \E p \in 1..Len(rows) : rs[i] = rows[p]
  BY <1>2, RemovedRow DEF RowsInv, Numbered
<1> HIDE DEF rs
<1>4. \A i \in 1..Len(rs) : rs[i].id < nextRowId'
  BY <1>1, <1>3 DEF RowsInv, Numbered
<1> QED
  BY <1>1, <1>3, <1>4, RowsEdited

(* Back to the rows as loaded.                                             *)
LEMMA ResetRows ==
    ASSUME RowsInv, reset
    PROVE  RowsInv'
<1>1. /\ rows' = loaded /\ UNCHANGED <<data, loaded>> /\ nextRowId' = nextRowId + 0
      /\ nextRowId' = nextRowId /\ editing' = None
  BY DEF reset, Edit, RowsInv
<1>2. IsRows(loaded, M) /\ \A i \in 1..Len(loaded) : loaded[i].id < nextRowId'
  BY <1>1 DEF RowsInv, Numbered
<1> QED
  BY <1>1, <1>2, RowsEdited

(* The dialog: what is typed there is a text, and Done puts it in a row.   *)
LEMMA DialogRows ==
    ASSUME RowsInv, \/ \E i \in 1..Len(rows) : Expand(rows[i])
                    \/ \E v \in Typed : TypeBig(v)
                    \/ Done \/ Close
    PROVE  RowsInv'
<1>1. ASSUME UNCHANGED <<data, rows, loaded, nextRowId>>, NEW e, editing' = e,
             e # None => Dialog(e, rows)
      PROVE  RowsInv'
  BY <1>1 DEF RowsInv, Numbered, Dialog, Shown, M
<1>2. ASSUME NEW i \in 1..Len(rows), Expand(rows[i]) PROVE RowsInv'
  <2> DEFINE e == [row |-> rows[i], text |-> rows[i].val]
  <2>1. UNCHANGED <<data, rows, loaded, nextRowId>> /\ editing' = e
    BY <1>2 DEF Expand
  <2>2. /\ rows[i].val \in Text /\ rows[i].id \in Nat /\ rows[i].id < nextRowId
        /\ \A j \in 1..Len(rows) : rows[j].id = rows[i].id => rows[j].key = rows[i].key
    BY DEF RowsInv, Numbered, IsRows, IsRow
  <2>3. Dialog(e, rows)
    BY <2>2 DEF Dialog
  <2> HIDE DEF e
  <2> QED
    BY <1>1, <2>1, <2>3
<1>3. ASSUME NEW v \in Typed, TypeBig(v) PROVE RowsInv'
  <2> DEFINE e == [editing EXCEPT !.text = v]
  <2>1. UNCHANGED <<data, rows, loaded, nextRowId>> /\ editing' = e /\ Dialog(editing, rows)
    BY <1>3 DEF TypeBig, RowsInv
  <2>2. v \in Text
    BY ScopeEditorAssumption
  <2>3. Dialog(e, rows)
    BY <2>1, <2>2 DEF Dialog
  <2> HIDE DEF e
  <2> QED
    BY <1>1, <2>1, <2>3
<1>4. ASSUME Done PROVE RowsInv'
  <2> DEFINE rs == setRow(editing.row.id, "val", editing.text)
  <2>1. /\ rows' = rs /\ UNCHANGED <<data, loaded>> /\ nextRowId' = nextRowId + 0
        /\ nextRowId' = nextRowId /\ editing' = None /\ editing # None
    BY <1>4 DEF Done, RowsInv
  <2>2. editing.text \in Text
    BY <2>1 DEF RowsInv, Dialog
  <2>3. IsRows(rs, M) /\ \A i \in 1..Len(rs) : rs[i].id < nextRowId
    BY <2>2, RowSet
  <2> HIDE DEF rs
  <2> QED
    BY <2>1, <2>3, RowsEdited
<1>5. ASSUME Close PROVE RowsInv'
  <2>1. UNCHANGED <<data, rows, loaded, nextRowId>> /\ editing' = None
    BY <1>5 DEF Close
  <2> QED
    BY <1>1, <2>1
<1> QED
  BY <1>2, <1>3, <1>4, <1>5

(* What load() makes rows of is variables.                                 *)
LEMMA ShownIsVars == \A a : AnswerVars(a) => IsVars(Shown(a), M)
<1> SUFFICES ASSUME NEW a, AnswerVars(a) PROVE IsVars(Shown(a), M)
  OBVIOUS
<1>1. CASE a.draft = <<>>
  BY <1>1 DEF AnswerVars, Shown
<1>2. CASE a.draft # <<>>
  <2>1. a.draft = <<a.draft[1]>> /\ IsVars(a.draft[1], M)
    BY <1>2 DEF AnswerVars, IsDraft
  <2>2. Head(a.draft) = a.draft[1]
    BY <2>1
  <2> QED
    BY <1>2, <2>1, <2>2 DEF Shown
<1> QED
  BY <1>1, <1>2

(* An answer replaces the rows: their ids are new, so that a dialog that   *)
(* is open finds its row no more.                                          *)
LEMMA LoadedRows ==
    ASSUME RowsInv, NEW a, AnswerVars(a), Loaded(a), UNCHANGED editing
    PROVE  RowsInv'
<1> DEFINE n == nextRowId
           rs == varsToRows(Shown(a), n)
<1>1. /\ data' = a /\ rows' = rs /\ loaded' = rs /\ nextRowId' = n + Len(rs)
  BY DEF Loaded, Rows, Shown
<1>2. n \in Nat \ {0}
  BY DEF RowsInv
<1>3. IsVars(Shown(a), M)
  BY ShownIsVars
<1>4. IsRows(rs, M) /\ \A i \in 1..Len(rs) : rs[i].id >= n /\ rs[i].id < n + Len(rs)
  BY <1>2, <1>3, KeyNumbers, RowsOfVars
<1>5. rs = varsToRows(Shown(a), n)
  OBVIOUS
<1> HIDE DEF rs
<1>6. /\ Len(rs) \in Nat /\ n + Len(rs) \in Nat \ {0} /\ n \in 1..(n + Len(rs))
      /\ n <= n + Len(rs)
  BY <1>2, <1>4 DEF IsRows
<1>7. Numbered(rows)' /\ Numbered(loaded)'
  BY <1>1, <1>4 DEF Numbered, M
<1>8. \E k \in 1..nextRowId' : loaded' = varsToRows(Shown(a), k)
  BY <1>1, <1>5, <1>6
<1>9. editing # None => Dialog(editing, rows)'
  <2> SUFFICES ASSUME editing # None PROVE Dialog(editing, rows)'
    OBVIOUS
  <2>1. Dialog(editing, rows) /\ editing.row.id \in Nat /\ editing.row.id < n
    BY DEF RowsInv, Dialog
  <2>2. ASSUME NEW i \in 1..Len(rs) PROVE rs[i].id # editing.row.id
    <3>1. rs[i].id \in Nat /\ rs[i].id >= n
      BY <1>4 DEF IsRows, IsRow
    <3> QED
      BY <1>2, <2>1, <3>1
  <2>3. editing.row.id < nextRowId'
    BY <1>1, <1>2, <1>6, <2>1
  <2> QED
    BY <1>1, <2>1, <2>2, <2>3 DEF Dialog
<1> QED
  BY <1>1, <1>6, <1>7, <1>8, <1>9 DEF RowsInv, Shown

(* Every step keeps the rows.                                              *)
LEMMA RowsKept ==
    ASSUME VarsInv, RowsInv, [Next]_vars
    PROVE  RowsInv'
<1>1. ASSUME NEW s \in Scope, Select(s) \/ Other(s) \/ putConfigRevisionRaw(s) \/ onEvent(s)
      PROVE  RowsInv'
  <2>1. CASE Select(s)
    BY <2>1, RowsMounted DEF Select, setSelected
  <2>2. CASE Other(s) \/ putConfigRevisionRaw(s) \/ onEvent(s)
    <3>1. UNCHANGED <<data, rows, loaded, nextRowId, editing>>
      BY <2>2 DEF Other, putConfigRevisionRaw, Write, onEvent, editor
    <3> QED
      BY <3>1, RowsSame
  <2> QED
    BY <1>1, <2>1, <2>2
<1>2. ASSUME NEW j, Command(j) PROVE RowsInv'
  BY <1>2, RowsSame DEF Command, editor
<1>3. ASSUME apply \/ saveDraft \/ discardDraft \/ deleteScope \/ rollback PROVE RowsInv'
  <2> HIDE DEF Command, Job
  <2> QED
    BY <1>2, <1>3 DEF apply, saveDraft, discardDraft, deleteScope, rollback
<1>4. ASSUME History \/ Pick PROVE RowsInv'
  BY <1>4, RowsSame DEF History, Pick
<1>5. ASSUME NEW j \in jobs, ServeLoad(j) \/ ServeWrite(j) \/ Fail(j) PROVE RowsInv'
  <2>1. UNCHANGED <<data, rows, loaded, nextRowId, editing>>
    BY <1>5 DEF ServeLoad, ServeWrite, Write, Fail, editor
  <2> QED
    BY <2>1, RowsSame
<1>6. ASSUME NEW j \in jobs, Finish(j) PROVE RowsInv'
  <2>1. \/ UNCHANGED <<data, rows, loaded, nextRowId, editing>>
        \/ Loaded(j.ans) /\ UNCHANGED editing
        \/ Mount(Global)
    <3> HIDE DEF Load, Loaded, Mount
    <3> QED
      BY <1>6 DEF Finish, editor
  <2>2. AnswerVars(j.ans)
    BY DEF VarsInv, JobVars
  <2> QED
    BY <2>1, <2>2, RowsSame, LoadedRows, RowsMounted
<1>7. ASSUME UNCHANGED vars PROVE RowsInv'
  BY <1>7, RowsSame DEF vars, editor
<1> QED
  BY <1>1, <1>3, <1>4, <1>5, <1>6, <1>7, TypeRows, AddRows, RemoveRows, ResetRows,
     DialogRows DEF Next

-----------------------------------------------------------------------------
(* The rest of the page.                                                   *)

(* Nothing happens to it.                                                  *)
LEMMA PageSame ==
    ASSUME PageTyped, UNCHANGED <<mount, readOnly, historyOpen, sel, events>>
    PROVE  PageTyped'
  BY DEF PageTyped

(* A new editor.                                                           *)
LEMMA PageMounted ==
    ASSUME PageTyped, NEW s, mount < MaxMounts, Mount(s), UNCHANGED <<readOnly, events>>
    PROVE  PageTyped'
<1>1. mount' \in 1..MaxMounts
  <2>1. MaxMounts \in Nat /\ mount \in 1..MaxMounts /\ mount' = mount + 1
    BY ScopeEditorAssumption DEF Mount, PageTyped
  <2> QED
    BY <2>1
<1> QED
  BY <1>1 DEF PageTyped, Mount

(* A revision is picked: the numbers in the list are revision numbers.     *)
LEMMA PickTyped ==
    ASSUME Inv, PageTyped, Pick
    PROVE  PageTyped'
<1>1. UNCHANGED <<mount, readOnly, events>>
  BY DEF Pick
<1>2. CASE data.hist # <<>> /\ sel' \in Range(recent) /\ UNCHANGED historyOpen
  <2>1. Range(recent) \subseteq Nat
    BY Offered DEF Pick, Inv, PageInv, CopyOK
  <2> QED
    BY <1>1, <1>2, <2>1 DEF PageTyped
<1>3. CASE historyOpen' = FALSE /\ UNCHANGED sel
  BY <1>1, <1>3 DEF PageTyped
<1> QED
  BY <1>2, <1>3 DEF Pick

(* Every step keeps the page what it is.                                   *)
LEMMA PageKept ==
    ASSUME Inv, PageTyped, [Next]_vars
    PROVE  PageTyped'
<1>1. ASSUME NEW s \in Scope, Select(s) PROVE PageTyped'
  BY <1>1, PageMounted DEF Select, setSelected
<1>2. ASSUME NEW s \in Scope, Write(s) PROVE PageTyped'
  BY <1>2 DEF Write, editor, PageTyped
<1>3. ASSUME NEW s \in Scope, Other(s) \/ putConfigRevisionRaw(s) PROVE PageTyped'
  BY <1>2, <1>3 DEF Other, putConfigRevisionRaw
<1>4. ASSUME NEW s \in Scope, onEvent(s) PROVE PageTyped'
  <2>1. UNCHANGED <<mount, readOnly, historyOpen, sel>> /\ events' = events \ {s}
    BY <1>4 DEF onEvent, editor
  <2> QED
    BY <2>1 DEF PageTyped
<1>5. ASSUME NEW r, Type(r) \/ removeRow(r) \/ Expand(r) PROVE PageTyped'
  <2>1. UNCHANGED <<mount, readOnly, historyOpen, sel, events>>
    BY <1>5 DEF Type, removeRow, Expand, Edit
  <2> QED
    BY <2>1, PageSame
<1>6. ASSUME addRow \/ reset \/ Done \/ Close PROVE PageTyped'
  <2>1. UNCHANGED <<mount, readOnly, historyOpen, sel, events>>
    BY <1>6 DEF addRow, reset, Done, Close, Edit
  <2> QED
    BY <2>1, PageSame
<1>7. ASSUME NEW v, TypeBig(v) PROVE PageTyped'
  BY <1>7, PageSame DEF TypeBig
<1>8. ASSUME NEW j, Command(j) PROVE PageTyped'
  BY <1>8, PageSame DEF Command, editor
<1>9. ASSUME apply \/ saveDraft \/ discardDraft \/ deleteScope \/ rollback PROVE PageTyped'
  <2> HIDE DEF Command, Job
  <2> QED
    BY <1>8, <1>9 DEF apply, saveDraft, discardDraft, deleteScope, rollback
<1>10. ASSUME History PROVE PageTyped'
  BY <1>10 DEF History, PageTyped
<1>11. ASSUME NEW j \in jobs, ServeLoad(j) \/ Fail(j) PROVE PageTyped'
  BY <1>11, PageSame DEF ServeLoad, Fail, editor
<1>12. ASSUME NEW j \in jobs, ServeWrite(j) PROVE PageTyped'
  <2>1. j.scope \in Scope /\ Write(j.scope)
    BY <1>12 DEF ServeWrite, Inv, JobOK, CopyOK
  <2> QED
    BY <1>2, <2>1
<1>13. ASSUME NEW j \in jobs, Finish(j) PROVE PageTyped'
  <2>1. UNCHANGED <<readOnly, events>>
    BY <1>13 DEF Finish
  <2>2. \/ UNCHANGED <<mount, historyOpen, sel>>
        \/ UNCHANGED <<mount, sel>> /\ historyOpen' = (historyOpen /\ j.mount # mount)
        \/ mount < MaxMounts /\ Mount(Global)
    <3> HIDE DEF Load, Loaded, Mount
    <3> QED
      BY <1>13 DEF Finish, editor
  <2>3. CASE UNCHANGED <<mount, historyOpen, sel>>
    BY <2>1, <2>3, PageSame
  <2>4. CASE UNCHANGED <<mount, sel>> /\ historyOpen' = (historyOpen /\ j.mount # mount)
    <3>1. historyOpen' \in BOOLEAN
      BY <2>4
    <3> QED
      BY <2>1, <2>4, <3>1 DEF PageTyped
  <2>5. CASE mount < MaxMounts /\ Mount(Global)
    BY <2>1, <2>5, PageMounted
  <2> QED
    BY <2>2, <2>3, <2>4, <2>5
<1>14. ASSUME UNCHANGED vars PROVE PageTyped'
  BY <1>14, PageSame DEF vars, editor
<1> QED
  BY <1>1, <1>3, <1>4, <1>5, <1>6, <1>7, <1>9, <1>10, <1>11, <1>12, <1>13, <1>14,
     PickTyped DEF Next

-----------------------------------------------------------------------------
(* The theorems about the rows.                                            *)

(* Initially there are none.                                               *)
LEMMA EditInit == Init => EditInv
<1> SUFFICES ASSUME Init PROVE EditInv
  OBVIOUS
<1>1. VarsInv
  BY VarsInit
<1>2. RowsInv
  <2>1. data = None /\ rows = <<>> /\ loaded = <<>> /\ nextRowId = 1 /\ editing = None
    BY DEF Init
  <2> QED
    BY <2>1, NoRows DEF RowsInv, Numbered
<1>3. PageTyped
  <2>1. MaxMounts \in Nat \ {0}
    BY ScopeEditorAssumption
  <2>2. 1 \in 1..MaxMounts
    BY <2>1
  <2> QED
    BY <2>2 DEF Init, PageTyped
<1> QED
  BY <1>1, <1>2, <1>3 DEF EditInv

(* What is stored, posted and shown are variables that, nulls apart, read  *)
(* back as they are; rows have ids of their own and come from the copy     *)
(* shown.                                                                  *)
THEOREM RowsInvariant == Spec => []EditInv
<1>1. Init => EditInv
  BY EditInit
<1>2. Inv /\ EditInv /\ [Next]_vars => EditInv'
  BY VarsKept, RowsKept, PageKept DEF EditInv
<1> QED
  BY <1>1, <1>2, ScopeEditorInvariant, PTL DEF Spec

(* The types, and that no two rows share an id, whatever was added,        *)
(* removed and reloaded before.                                            *)
THEOREM TypeCorrect == Spec => []TypeOK
<1>1. ASSUME Inv, EditInv PROVE TypeOK
  <2>1. /\ selected \in Scope
        /\ data # None => data.scope \in Scope
        /\ \A j \in jobs : j.scope \in Scope /\ j.mount \in 1..mount
    <3>1. ASSUME NEW j \in jobs PROVE j.scope \in Scope /\ j.mount \in 1..mount
      <4>1. j.scope \in Scope /\ j.mount \in Nat \ {0} /\ j.mount <= mount /\ mount \in Nat
        BY <1>1 DEF Inv, PageInv, JobOK, CopyOK
      <4> QED BY <4>1
    <3> QED
      BY <1>1, <3>1 DEF Inv, PageInv, CopyOK
  <2>2. /\ \A i, j \in 1..Len(rows) : i # j => rows[i].id # rows[j].id
        /\ \A i \in 1..Len(rows) : /\ rows[i].id < nextRowId
                                   /\ rows[i].key \in Key
                                   /\ rows[i].val \in Text
    BY <1>1, KeyNumbers DEF EditInv, RowsInv, Numbered, IsRows, IsRow
  <2> QED
    BY <1>1, <2>1, <2>2 DEF EditInv, PageTyped, TypeOK
<1> QED
  BY <1>1, ScopeEditorInvariant, RowsInvariant, PTL

(* The dialog for long values writes into the row it was opened for, or,   *)
(* when the rows were reloaded behind it, into none.                       *)
THEOREM BigEditHits == Spec => BigEditHitsItsRow
<1> DEFINE A == Done => \A i \in 1..Len(rows) : rows'[i] # rows[i]
                                             => rows[i].key = editing.row.key
<1>1. ASSUME EditInv, Done, NEW i \in 1..Len(rows), rows'[i] # rows[i]
      PROVE  rows[i].key = editing.row.key
  <2>1. editing # None /\ rows' = setRow(editing.row.id, "val", editing.text)
    BY <1>1 DEF Done
  <2>2. rows[i].id = editing.row.id
    BY <1>1, <2>1 DEF setRow
  <2> QED
    BY <1>1, <2>1, <2>2 DEF EditInv, RowsInv, Dialog
<1>2. EditInv /\ [Next]_vars => [A]_vars
  BY <1>1
<1> QED
  BY <1>2, RowsInvariant, PTL DEF Spec, BigEditHitsItsRow

(* An editor that takes itself for clean when an event comes has rows that *)
(* parse and mean exactly the variables loaded, row order, ids, blanks and *)
(* nulls aside.                                                            *)
THEOREM CleanIsLoaded == Spec => []CleanMeansLoaded
<1>1. ASSUME EditInv PROVE CleanMeansLoaded
  <2> DEFINE v == Shown(data)
  <2> SUFFICES ASSUME ~dirty, data # None
               PROVE  /\ Keys(rows) = DOMAIN v
                      /\ \A k \in DOMAIN v : v[k].value # Null => rowsToVars(rows)[k] = v[k]
                      /\ \A i \in 1..Len(rows) :
                            rows[i].key \in DOMAIN v /\ v[rows[i].key].value # Null
                            => Accepts(rows[i].type, rows[i].val)
    BY DEF CleanMeansLoaded, Shown
  <2>1. PICK n \in 1..nextRowId : loaded = varsToRows(v, n)
    BY <1>1 DEF EditInv, RowsInv
  <2>2. n \in Nat \ {0}
    BY <1>1 DEF EditInv, RowsInv
  <2>3. IsVars(v, M)
    BY <1>1, ShownIsVars DEF EditInv, VarsInv
  <2> HIDE DEF v
  <2>4. /\ Keys(loaded) = DOMAIN v
        /\ \A k \in DOMAIN v : v[k].value # Null => rowsToVars(loaded)[k] = v[k]
        /\ \A i \in 1..Len(loaded) : v[loaded[i].key].value # Null
                                       => Accepts(loaded[i].type, loaded[i].val)
    <3>1. M \in Nat
      BY KeyNumbers
    <3> DEFINE rs == varsToRows(v, n)
    <3>2. /\ Keys(rs) = DOMAIN v
          /\ \A k \in DOMAIN v : v[k].value # Null => rowsToVars(rs)[k] = v[k]
          /\ \A i \in 1..Len(rs) : /\ rs[i].key \in DOMAIN v
                                   /\ v[rs[i].key].value # Null
                                      => Accepts(rs[i].type, rs[i].val)
      BY <2>2, <2>3, <3>1, RoundTrip
    <3>3. \A i \in 1..Len(rs) : v[rs[i].key].value # Null => Accepts(rs[i].type, rs[i].val)
      BY <3>2, Zenon
    <3>4. loaded = rs
      BY <2>1
    <3> HIDE DEF rs
    <3> QED
      BY <3>2, <3>3, <3>4, Zenon
  <2>5. rowsSignature(rows) = rowsSignature(loaded) /\ IsRows(rows, M) /\ IsRows(loaded, M)
    BY <1>1 DEF dirty, EditInv, RowsInv, Numbered
  <2>6. /\ rowsToVars(rows) = rowsToVars(loaded) /\ Keys(rows) = Keys(loaded)
        /\ \A p \in 1..Len(rows) : rows[p].key # Blank =>
              \E o \in 1..Len(loaded) : /\ loaded[o].key = rows[p].key
                                         /\ loaded[o].type = rows[p].type
                                         /\ loaded[o].val = rows[p].val
    BY <2>5, SignatureTells
  <2>7. Blank \notin DOMAIN v
    BY <2>3, KeyNumbers DEF IsVars, Blank
  <2> QED
    BY <2>4, <2>6, <2>7
<1> QED
  BY <1>1, RowsInvariant, PTL
=============================================================================
