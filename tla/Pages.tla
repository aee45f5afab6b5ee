------------------------------- MODULE Pages -------------------------------
(***************************************************************************)
(* What the pages of the web UI have in common: the catalogue at the       *)
(* server, which other clients change, the requests of the page that is    *)
(* open and the events of its watch.                                       *)
(*                                                                         *)
(* A request is a job: sent, then read at the server, then its answer is   *)
(* handled; answers may overtake each other.  Two jobs that are equal in   *)
(* every respect are one.  Of an instance the pages count its service,     *)
(* version, status and block; "" is no version.  Of the watch (module      *)
(* Watch) only this is left: an event arrives some time later, or never    *)
(* because the watch was not open.  The server refuses who may not read or *)
(* has to be signed in (module Session) and is not.                        *)
(***************************************************************************)
EXTENDS Session, FiniteSets

CONSTANTS Name,     \* names of services
          Id,       \* instance ids
          Version,  \* versions of instances, "" among them
          Registered, \* the services that are there at the beginning
          Reported, \* the instances other clients may register
          MaxJobs, MaxSteps  \* bounds: requests of a page under way; changes
                    \* by others, failed requests and opened dialogs together

Record == [service : Name, version : Version, up : BOOLEAN, blocked : BOOLEAN]

\* Within the bound there is always an id left for a new instance.
ASSUME PagesAssumption == /\ Registered \subseteq Name /\ IsFiniteSet(Registered)
                          /\ "" \in Version /\ Reported \subseteq Record
                          /\ MaxSteps <= Cardinality(Id)

None == [none |-> TRUE]

VARIABLES
    svcs,     \* server: the registered names
    insts,    \* server, per id: the instance, or None
    notices,  \* events on their way to the open page: 0 or 1, since two that
              \* are not yet handled make the page do the same as one
    jobs,     \* requests under way
    steps     \* steps counted for the bound

catalogue == <<svcs, insts>>
pagesVars == <<catalogue, notices, jobs, steps>>

Present(I) == {i \in Id : I[i] # None}

\* An id that is not in use: which one does not matter.
NewId == CHOOSE i \in Id : insts[i] = None

PagesInit == /\ svcs = Registered
             /\ insts = [i \in Id |-> None]
             /\ notices = 0
             /\ jobs = {}
             /\ steps = 0

Step == steps < MaxSteps /\ steps' = steps + 1

\* The server tells its watchers of a change; the page hears of it unless its
\* watch is not open.
Announce == notices' \in {notices, 1}

-----------------------------------------------------------------------------
(* Requests.                                                               *)

Fetch(kind) == [kind |-> kind, st |-> "sent", got |-> None]

Send(J) == /\ Cardinality(jobs \union J) <= MaxJobs
           /\ jobs' = jobs \union J

\* The server answers the list of all instances, or that of the services.
Serve(j) ==
    /\ j.kind \in {"fast", "slow", "refresh"} /\ j.st = "sent"
    /\ jobs' = (jobs \ {j}) \union
               {IF requireRead
                THEN [j EXCEPT !.st = "read", !.got = IF j.kind = "fast" THEN insts ELSE svcs]
                ELSE [j EXCEPT !.st = "refused"]}
    /\ UNCHANGED <<catalogue, notices, steps>>

\* A request fails: it was refused, or it or its answer is lost.
Failing(j) == IF j.st = "refused" THEN UNCHANGED steps ELSE Step

-----------------------------------------------------------------------------
(* Everyone else.                                                          *)

PutService(n) == /\ svcs' = svcs \union {n}
                 /\ UNCHANGED insts

DeleteService(n) ==
    /\ n \in svcs /\ svcs' = svcs \ {n}
    /\ insts' = [i \in Id |-> IF insts[i] # None /\ insts[i].service = n
                              THEN None ELSE insts[i]]

\* Registering an instance registers its service.
PutInstance(i, r) == /\ insts' = [insts EXCEPT ![i] = r]
                     /\ svcs' = svcs \union {r.service}

DeleteInstance(i) == /\ insts[i] # None /\ insts' = [insts EXCEPT ![i] = None]
                     /\ UNCHANGED svcs

Others ==
    /\ Step
    /\ \/ \E n \in Name : PutService(n) \/ DeleteService(n)
       \/ \E i \in Present(insts) : DeleteInstance(i)
       \/ \E i \in Present(insts) \union {NewId}, r \in Reported : PutInstance(i, r)
    /\ Announce
    /\ UNCHANGED jobs

=============================================================================
