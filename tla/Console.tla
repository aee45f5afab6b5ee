------------------------------ MODULE Console ------------------------------
(***************************************************************************)
(* The web UI as a whole: the session with its routes (module Session) and *)
(* the page that the route shows, with the dashboard and the list of       *)
(* services in detail (modules Dashboard and ServicesPage) and the three   *)
(* smaller pages (OtherPages).                                             *)
(*                                                                         *)
(* When the route shows another page the old one is unmounted: its timer   *)
(* and its watch stop, and answers to its requests find nobody.  A request *)
(* that changes something is carried out all the same, and create() of the *)
(* New service dialog goes on, since its later requests are sent by the    *)
(* answers to the earlier ones.                                            *)
(***************************************************************************)
EXTENDS Session, Dashboard, ServicesPage, OtherPages

CONSTANT MaxCounted   \* bound: what Session and Pages count, together

pageVars == <<dash, list, dialog, other>>
consoleVars == <<sessionVars, pagesVars, otherServer, pageVars>>

\* Requests that outlive their page.
Orphans(J) == {[j EXCEPT !.here = FALSE] :
                  j \in {k \in J : k.kind \in {"create", "join", "mint", "revoke"}}}

\* The page at route p appears and runs its effect.
Mounted(p) ==
    /\ dash' = IF p = "/" THEN DashboardOpen ELSE None
    /\ list' = IF p = "services" THEN ServicesOpen ELSE None
    /\ dialog' = IF p = "services" THEN DialogClosed ELSE None
    /\ other' = CASE p = "cluster" -> ClusterOpen [] p = "tokens" -> TokensOpen
                  [] p = "audit" -> AuditOpen [] OTHER -> None
    /\ notices' = 0
    /\ jobs' = Orphans(jobs) \union
               (CASE p = "/" -> DashboardFirst
                  [] p = "services" -> ServicesFirst
                  [] OTHER -> OtherFirst(p))

ConsoleInit == /\ SessionInit /\ PagesInit
               /\ peers = FALSE /\ minted = {}
               /\ dash = None /\ list = None /\ dialog = None /\ other = None

SessionStep == /\ SessionNext
               /\ IF Shown' = Shown THEN UNCHANGED <<pagesVars, pageVars>>
                  ELSE Mounted(Shown') /\ UNCHANGED <<catalogue, steps>>
               /\ UNCHANGED otherServer

PageStep == /\ \/ DashboardNext /\ UNCHANGED <<list, dialog, other, otherServer>>
               \/ ServicesNext /\ UNCHANGED <<dash, other, otherServer>>
               \/ OtherNext /\ UNCHANGED <<dash, list, dialog>>
               \/ /\ \/ Others
                     \/ \E j \in jobs : Serve(j)
                  /\ UNCHANGED <<pageVars, otherServer>>
            /\ (dash' = None /\ list' = None) => notices' = 0   \* no watch
            /\ UNCHANGED sessionVars

ConsoleNext == (SessionStep \/ PageStep) /\ faults' + steps' <= MaxCounted

-----------------------------------------------------------------------------
(* Fairness: the browser's timer fires, the server takes the requests it   *)
(* gets and every request is answered or fails.  Nothing is said of the    *)
(* watch, of the user and of the handshake, which has no time limit.       *)

Poll == /\ \/ Tick /\ UNCHANGED <<list, dialog, other, otherServer>>
           \/ ClusterTick /\ UNCHANGED <<dash, list, dialog>>
        /\ UNCHANGED sessionVars

Taken(K) ==
    \E j \in jobs :
      /\ j.kind \in K
      /\ \/ Serve(j) /\ UNCHANGED <<pageVars, otherServer>>
         \/ /\ ServeCreate(j) \/ \E n \in Name : CountInstances(j, n)
            /\ UNCHANGED <<dash, other, otherServer>>
         \/ ServeOther(j) /\ UNCHANGED <<dash, list, dialog>>
      /\ UNCHANGED sessionVars

Answered(K) ==
    \E j \in jobs :
      /\ j.kind \in K
      /\ \/ /\ AnswerFast(j) \/ AnswerSlow(j)
            /\ UNCHANGED <<list, dialog, other, otherServer>>
         \/ /\ AnswerList(j) \/ AnswerCounts(j) \/ AnswerCreate(j)
            /\ UNCHANGED <<dash, other, otherServer>>
         \/ OtherAnswered(j) /\ UNCHANGED <<dash, list, dialog>>
         \/ /\ j.kind # "counts" /\ j.st = "refused"
            /\ \/ /\ FastFails(j) \/ SlowFails(j)
                  /\ UNCHANGED <<list, dialog, other, otherServer>>
               \/ /\ ListFails(j) \/ CreateFails(j)
                  /\ UNCHANGED <<dash, other, otherServer>>
               \/ OtherFails(j) /\ UNCHANGED <<dash, list, dialog>>
      /\ UNCHANGED sessionVars

\* The requests that a timer repeats, those that the user may repeat as often
\* as he likes, and all others.
Polled == {"fast", "members"}
Clicked == {"create", "log", "join", "mint", "revoke"}
Rest == {"slow", "refresh", "counts", "static", "tokens"}

SessionServed == /\ \E c \in calls : \/ ServeCall(c)
                                     \/ AnswerMe(c) \/ AnswerLogin(c) \/ AnswerLogout(c)
                 /\ SessionStep

ConsoleFairness == /\ WF_consoleVars(Poll)
                   /\ WF_consoleVars(Taken(Polled)) /\ WF_consoleVars(Answered(Polled))
                   /\ WF_consoleVars(Taken(Clicked) \/ Answered(Clicked))
                   /\ WF_consoleVars(Taken(Rest) \/ Answered(Rest))
                   /\ WF_consoleVars(SessionServed)

ConsoleSpec == ConsoleInit /\ [][ConsoleNext]_consoleVars /\ ConsoleFairness

-----------------------------------------------------------------------------

(* The pages that poll catch up: while the dashboard is open and the       *)
(* server lets the browser read, once the catalogue stops changing, the    *)
(* instances it shows are in the end the server's and stay so, whatever    *)
(* events were lost, polls failed or were refused before and answers       *)
(* overtook one another; and so are the members on the Cluster page, which *)
(* are for everyone.  Where anonymous read is off and the session has      *)
(* ended, every poll is refused and the dashboard shows what it had.       *)
PollingCatchesUp ==
    /\ <>[](dash # None /\ requireRead) => <>[](dash # None => dash.instances = insts)
    /\ <>[]Open("cluster") => <>[](Open("cluster") => other.peers = peers)

(* No page makes the user wait for ever: the Loading placeholders, the     *)
(* spinners of Create and Join and that of the login form go, also when a  *)
(* request is refused or fails half way.  There is one exception: the card *)
(* of the client tokens says Loading until a list comes, and a list whose  *)
(* request was lost does not come.  While the request is under way that    *)
(* placeholder goes too, or else the request is lost.                      *)
NothingSpinsForever ==
    /\ LoadingShown ~> ~LoadingShown
    /\ (list # None /\ list.loading) ~> ~(list # None /\ list.loading)
    /\ (dialog # None /\ dialog.saving) ~> ~(dialog # None /\ dialog.saving)
    /\ (Open("tokens") /\ other.static = "loading") ~>
           ~(Open("tokens") /\ other.static = "loading")
    /\ (Card /\ other.listed = "loading") ~> ~(Card /\ other.listed = "loading")
    /\ (Open("cluster") /\ other.joining) ~> ~(Open("cluster") /\ other.joining)
    /\ submitting ~> ~submitting

(* In the host's iframe the UI never throws its token away: signing out    *)
(* there would leave the host's session alive, so no order of handshake,   *)
(* late answers and clicks leads to it.                                    *)
EmbeddedKeepsToken == [][bearer => bearer']_consoleVars

=============================================================================
