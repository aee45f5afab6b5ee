---------------------------- MODULE ServicesPage ----------------------------
(***************************************************************************)
(* The list of services (ui/web/src/pages/Services.tsx): it fetches the    *)
(* services, then the instances of each to count them, again after every   *)
(* event; and the dialog that creates a service from a preset with up to   *)
(* three requests, one after the other.  Search, tags, the descriptive     *)
(* fields and what the cards say are left out: of the list only this is    *)
(* left, whether the page still waits for it.                              *)
(***************************************************************************)
EXTENDS Pages

CONSTANTS Chosen,  \* the names a user may type
          Details  \* what he may type besides, each a subset of
                   \* {"instance", "config"}: an endpoint, credentials

ASSUME ServicesAssumption == /\ Chosen \subseteq Name
                             /\ Details \subseteq SUBSET {"instance", "config"}

VARIABLES list,    \* the page's state, None when it is not open
          dialog   \* the state of the New service dialog on it, or None

\* The presets: the blank one, and those that ask for an endpoint and for
\* credentials.
Preset == {"blank", "database"}

\* asked: has the user typed a host, credentials, or both?
reset == [preset |-> "blank", name |-> "", asked |-> {}]

ServicesOpen == [loading |-> TRUE]
ServicesFirst == {Fetch("refresh")}
DialogClosed == [open |-> FALSE, form |-> reset, saving |-> FALSE]

-----------------------------------------------------------------------------
(* refresh().                                                              *)

ServicesEvent == /\ list # None /\ notices > 0
                 /\ notices' = notices - 1
                 /\ Send({Fetch("refresh")})
                 /\ UNCHANGED <<catalogue, steps, list, dialog>>

\* The list is shown at once, and one request per service goes out; left: the
\* services whose instances have not come.
AnswerList(j) ==
    /\ j.kind = "refresh" /\ j.st = "read"
    /\ jobs' = (jobs \ {j}) \union {[kind |-> "counts", left |-> j.got]}
    /\ UNCHANGED <<catalogue, notices, steps, list, dialog>>

\* The instances of one service come, or the request fails and counts as no
\* instances.
CountInstances(j, n) ==
    /\ j.kind = "counts" /\ n \in j.left
    /\ jobs' = (jobs \ {j}) \union {[j EXCEPT !.left = @ \ {n}]}
    /\ UNCHANGED <<catalogue, notices, steps, list, dialog>>

\* All of them have come.
AnswerCounts(j) ==
    /\ j.kind = "counts" /\ j.left = {}
    /\ list' = [list EXCEPT !.loading = FALSE]
    /\ jobs' = jobs \ {j}
    /\ UNCHANGED <<catalogue, notices, steps, dialog>>

ListFails(j) ==
    /\ j.kind = "refresh" /\ Failing(j)
    /\ list' = [list EXCEPT !.loading = FALSE]
    /\ jobs' = jobs \ {j}
    /\ UNCHANGED <<catalogue, notices, dialog>>

-----------------------------------------------------------------------------
(* NewServiceDialog.                                                       *)

OpenDialog == /\ ~dialog.open /\ Step
              /\ dialog' = [dialog EXCEPT !.open = TRUE]
              /\ UNCHANGED <<catalogue, notices, jobs, list>>

Change(d) == /\ dialog' = d
             /\ UNCHANGED <<catalogue, notices, jobs, steps, list>>

\* A preset fills in its name and empties what it does not know.
pick(p) == /\ dialog.open
           /\ \E n \in IF p = "blank" THEN {""} ELSE Chosen :
                Change([dialog EXCEPT !.form = [reset EXCEPT !.preset = p, !.name = n]])

TypeName(n) == /\ dialog.open
               /\ Change([dialog EXCEPT !.form.name = n])

\* The host of the endpoint, the credentials.
TypeDetails(D) == /\ dialog.open /\ dialog.form.preset = "database"
                  /\ Change([dialog EXCEPT !.form.asked = D])

\* Cancel closes the dialog and keeps the form; closing it any other way
\* empties it.
CancelDialog == dialog.open /\ Change([dialog EXCEPT !.open = FALSE])
CloseDialog == dialog.open /\ Change([dialog EXCEPT !.open = FALSE, !.form = reset])

\* create() takes its values from the form at the click.  at: the request it
\* waits for; here: is the dialog still on the page?
create ==
    /\ dialog.open /\ ~dialog.saving /\ dialog.form.name # ""
    /\ Send({[kind |-> "create", name |-> dialog.form.name, asked |-> dialog.form.asked,
              at |-> "service", st |-> "sent", here |-> TRUE]})
    /\ dialog' = [dialog EXCEPT !.saving = TRUE]
    /\ UNCHANGED <<catalogue, notices, steps, list>>

\* The server takes putService, putInstance under a new id, or configApply.
\* That a user who is signed in may not write is one of the ways to fail.
ServeCreate(j) ==
    /\ j.kind = "create" /\ j.st = "sent"
    /\ CASE ~signedIn -> UNCHANGED catalogue
         [] signedIn /\ j.at = "service" -> PutService(j.name)
         [] signedIn /\ j.at = "instance" ->
              PutInstance(NewId, [service |-> j.name, version |-> "",
                                  up |-> TRUE, blocked |-> FALSE])
         [] OTHER -> UNCHANGED catalogue   \* "config"
    /\ jobs' = (jobs \ {j}) \union {[j EXCEPT !.st = IF signedIn THEN "read" ELSE "refused"]}
    /\ IF signedIn THEN Announce ELSE UNCHANGED notices
    /\ UNCHANGED <<steps, list, dialog>>

\* What is left to do after a request.
Remaining(D, at) == CASE at = "service" -> IF "instance" \in D THEN {"instance"} ELSE D
                      [] at = "instance" -> D \ {"instance"}
                      [] at = "config" -> {}

AnswerCreate(j) ==
    /\ j.kind = "create" /\ j.st = "read"
    /\ LET next == Remaining(j.asked, j.at)
       IN  /\ jobs' = (jobs \ {j}) \union
                      (IF next # {} THEN {[j EXCEPT !.at = a, !.st = "sent"] : a \in next}
                       ELSE IF j.here THEN {Fetch("refresh")} ELSE {})
           /\ dialog' = IF next = {} /\ j.here THEN DialogClosed ELSE dialog
    /\ UNCHANGED <<catalogue, notices, steps, list>>

\* One of the requests fails or is refused; what the earlier ones did stays done.
CreateFails(j) ==
    /\ j.kind = "create" /\ Failing(j)
    /\ jobs' = jobs \ {j}
    /\ dialog' = IF j.here THEN [dialog EXCEPT !.saving = FALSE] ELSE dialog
    /\ UNCHANGED <<catalogue, notices, list>>

CreateNext(j) == ServeCreate(j) \/ AnswerCreate(j) \/ CreateFails(j)

ServicesNext ==
    \/ ServicesEvent
    \/ \E j \in jobs :
         \/ AnswerList(j) \/ AnswerCounts(j) \/ ListFails(j) \/ CreateNext(j)
         \/ \E n \in Name : CountInstances(j, n)
    \/ /\ dialog # None
       /\ \/ OpenDialog \/ CancelDialog \/ CloseDialog \/ create
          \/ \E p \in Preset : pick(p)
          \/ \E n \in Chosen : TypeName(n)
          \/ \E D \in Details : TypeDetails(D)

=============================================================================
