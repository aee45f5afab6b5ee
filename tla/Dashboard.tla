----------------------------- MODULE Dashboard -----------------------------
(***************************************************************************)
(* The dashboard (ui/web/src/pages/Dashboard.tsx).  It polls the instances *)
(* every two seconds and the services after every event, and it draws one  *)
(* card for each service that either list names.  Request statistics are   *)
(* fetched together with the instances and left out: only their failure    *)
(* matters, which fails the poll.  The order of the cards, the five        *)
(* versions that fit on one, and the charts are left out.                  *)
(***************************************************************************)
EXTENDS Pages, Functions, FiniteSetsExt

VARIABLE dash   \* the page's state, None when it is not open

\* useState of the page, and the interval that its effect sets.
DashboardOpen == [services |-> {}, instances |-> [i \in Id |-> None],
                  loading |-> TRUE, timer |-> TRUE]
DashboardFirst == {Fetch("slow"), Fetch("fast")}

-----------------------------------------------------------------------------
(* The cards.                                                              *)

NoVersion == [up |-> 0, total |-> 0, blocked |-> 0, down |-> 0]
NoCard == [up |-> 0, total |-> 0, blocked |-> 0, versions |-> <<>>]

ensure(byName, n) == [m \in DOMAIN byName \union {n} |->
                        IF m \in DOMAIN byName THEN byName[m] ELSE NoCard]

One(b) == IF b THEN 1 ELSE 0
isUp(i) == i.up /\ ~i.blocked

\* One turn of aggregate's loop over the instances.
Count(i, byName) ==
    LET b == ensure(byName, i.service)
        a == b[i.service]
        v == IF i.version \in DOMAIN a.versions THEN a.versions[i.version] ELSE NoVersion
        w == [up |-> v.up + One(isUp(i)), total |-> v.total + 1,
              blocked |-> v.blocked + One(~isUp(i) /\ i.blocked),
              down |-> v.down + One(~isUp(i) /\ ~i.blocked)]
    IN  [b EXCEPT ![i.service] =
            [up |-> a.up + One(isUp(i)), total |-> a.total + 1,
             blocked |-> a.blocked + One(i.blocked),
             versions |-> [k \in DOMAIN a.versions \union {i.version} |->
                             IF k = i.version THEN w ELSE a.versions[k]]]]

\* Mutant of aggregate: only services of the list get a card.
AggregateListed(services, instances) ==
    FoldSet(LAMBDA i, b : IF instances[i].service \in services
                          THEN Count(instances[i], b) ELSE b,
            [n \in services |-> NoCard], Present(instances))

aggregate(services, instances) ==
    FoldSet(LAMBDA i, b : Count(instances[i], b),
            [n \in services |-> NoCard], Present(instances))

aggs == aggregate(dash.services, dash.instances)

totals == [services |-> Cardinality(DOMAIN aggs),
           up |-> Cardinality({i \in Present(dash.instances) : isUp(dash.instances[i])})]

healthTone(up, total) == IF total = 0 THEN "subtle"
                         ELSE IF up = total THEN "success"
                         ELSE IF up = 0 THEN "danger" ELSE "warning"

\* What a card says of one version, and of its service.
VersionRow(v) == [tone |-> healthTone(v.up, v.total), up |-> v.up, total |-> v.total]

SvcCard(a) == [tone |-> healthTone(a.up, a.total),
               rows |-> [k \in DOMAIN a.versions |-> VersionRow(a.versions[k])]]

\* The page says Loading... instead of the cards.
LoadingShown == dash # None /\ dash.loading /\ DOMAIN aggs = {}

Total(f, k) == SumFunction([x \in DOMAIN f |-> f[x][k]])

(* The cards account for every instance the page knows: each counts once,  *)
(* on the card of its service, even when the two lists were read at        *)
(* different times and the services do not name it; a card's versions add  *)
(* up to the card and the cards to the totals strip; a card is green only  *)
(* when it has instances, all up and none blocked; and a card that is      *)
(* green or red has no version in another colour.                          *)
CardsAddUp ==
    dash # None =>
      /\ Total(aggs, "total") = Cardinality(Present(dash.instances))
      /\ Total(aggs, "up") = totals.up
      /\ DOMAIN aggs = dash.services \union
             {dash.instances[i].service : i \in Present(dash.instances)}
      /\ \A n \in DOMAIN aggs :
           LET a == aggs[n]
               card == SvcCard(a)
               mine == {i \in Present(dash.instances) : dash.instances[i].service = n}
           IN  /\ Total(card.rows, "total") = a.total
               /\ Total(card.rows, "up") = a.up
               /\ \A k \in DOMAIN a.versions :
                    LET v == a.versions[k] IN v.up + v.blocked + v.down = v.total
               /\ card.tone = "success" <=>
                    /\ mine # {}
                    /\ \A i \in mine : dash.instances[i].up /\ ~dash.instances[i].blocked
               /\ card.tone \in {"success", "danger"} =>
                    \A k \in DOMAIN card.rows : card.rows[k].tone = card.tone

-----------------------------------------------------------------------------
(* Polling.                                                                *)

\* Mutant of Tick: the timer fires once.
TickOnce == /\ dash # None /\ dash.timer
            /\ Send({Fetch("fast")})
            /\ dash' = [dash EXCEPT !.timer = FALSE]
            /\ UNCHANGED <<catalogue, notices, steps>>

\* The interval calls pollFast.
Tick == /\ dash # None /\ dash.timer
        /\ Send({Fetch("fast")})
        /\ UNCHANGED <<catalogue, notices, steps, dash>>

\* The watch's callback: pollFast and pollSlow.
DashboardEvent == /\ dash # None /\ notices > 0
                  /\ notices' = notices - 1
                  /\ Send({Fetch("fast"), Fetch("slow")})
                  /\ UNCHANGED <<catalogue, steps, dash>>

AnswerFast(j) == /\ j.kind = "fast" /\ j.st = "read"
                 /\ dash' = [dash EXCEPT !.instances = j.got]
                 /\ jobs' = jobs \ {j}
                 /\ UNCHANGED <<catalogue, notices, steps>>

AnswerSlow(j) == /\ j.kind = "slow" /\ j.st = "read"
                 /\ dash' = [dash EXCEPT !.services = j.got, !.loading = FALSE]
                 /\ jobs' = jobs \ {j}
                 /\ UNCHANGED <<catalogue, notices, steps>>

\* The instances or the statistics do not come: the last view stays, and
\* nothing tells the user.
FastFails(j) == /\ j.kind = "fast" /\ Failing(j)
                /\ jobs' = jobs \ {j}
                /\ UNCHANGED <<catalogue, notices, dash>>

\* Mutant of SlowFails: loading ends only with a list.
SlowFailsLoading(j) == /\ j.kind = "slow" /\ Failing(j)
                       /\ jobs' = jobs \ {j}
                       /\ UNCHANGED <<catalogue, notices, dash>>

SlowFails(j) == /\ j.kind = "slow" /\ Failing(j)
                /\ jobs' = jobs \ {j}
                /\ dash' = [dash EXCEPT !.loading = FALSE]
                /\ UNCHANGED <<catalogue, notices>>

DashboardNext == \/ Tick \/ DashboardEvent
                 \/ \E j \in jobs : AnswerFast(j) \/ AnswerSlow(j)
                                    \/ FastFails(j) \/ SlowFails(j)

=============================================================================
