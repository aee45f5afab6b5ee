---------------------------- MODULE ServicePage ----------------------------
(***************************************************************************)
(* A service's page in the web UI (ui/web/src/pages/ServiceDetail.tsx)     *)
(* against the server's handlers for services, grants and instances, with  *)
(* other operators and the service's own client at work on the same        *)
(* records.                                                                *)
(*                                                                         *)
(* The page acts on copies of the records, which it fetches with two       *)
(* requests at a time and which may be old.  A handler of the page runs up *)
(* to its await in one step; the request is then a job, which the server   *)
(* takes in two steps (it reads the service to judge the caller, then it   *)
(* writes) and whose answer arrives in a step of its own, or never.  Two   *)
(* jobs that are equal in every respect are one.  A renamed service keeps  *)
(* the page, under another name.                                           *)
(*                                                                         *)
(* Description, tags and metadata of a service travel with its visibility  *)
(* and are left out; address, version, interfaces, weight, status, check   *)
(* mode and TTL of an instance are one value, its text.  Every instance is *)
(* probed (http or tcp), so that its Check button is there.  The user may  *)
(* write.                                                                  *)
(***************************************************************************)
EXTENDS Integers, FiniteSets

CONSTANTS Name,    \* names of services
          Home,    \* the service whose page is opened
          Id,      \* instance ids; 0 is the id of an instance not yet saved
          User,    \* users
          Me,      \* the user of this page
          First,   \* the instance that is there at the beginning
          Text,    \* values of an instance's fields, Blank among them
          Blank,   \* the fields of a new instance
          MaxJobs, MaxSteps  \* bounds: requests under way; requests sent,
                   \* steps of everyone else and failures together

ASSUME ServicePageAssumption ==
    /\ Home \in Name /\ Me \in User /\ First \in Id /\ Blank \in Text
    /\ 0 \notin Id /\ "" \notin Name \union User

None == [none |-> TRUE]

VARIABLES
    svc,      \* server, per name: the service, or None
    inst,     \* server, per name and id: the instance, or None
    wanted,   \* per name and id: what the latest block request asked for
    isAdmin,  \* the session: is the user an administrator?
    name,     \* the page: the name in its URL, "" when it is not open
    service, insts,   \* the page: its copies
    dialog,   \* the page: the open dialog, or None
    checking, \* the page: instances whose Check button spins
    live,     \* the page: does its watch receive events?
    notice,   \* is an event about the page's service on its way?
    missed,   \* was an event lost, or an answer lost or overtaken?
    jobs,     \* requests under way and answers not yet handled
    steps     \* steps counted for the bound

server == <<svc, inst, wanted>>
copies == <<service, insts>>
channel == <<live, notice, missed>>
vars == <<server, isAdmin, name, copies, dialog, checking, channel, jobs, steps>>

Service == [owner : User \union {""}, grants : SUBSET User, private : BOOLEAN]
Instance == [managed : BOOLEAN, blocked : BOOLEAN, text : Text]
Key == Name \X Id

\* The instances of service n, as listInstances answers.
Instances(n) == [i \in {i \in Id : inst[<<n, i>>] # None} |-> inst[<<n, i>>]]

TypeOK == /\ \A n \in Name : svc[n] = None \/ svc[n] \in Service
          /\ \A k \in Key : \/ inst[k] = None
                            \/ inst[k] \in Instance /\ svc[k[1]] # None
          /\ name \in Name \union {""}
          /\ service # None => service.name \in Name /\ service.rec \in Service
          /\ \A i \in DOMAIN insts : i \in Id /\ insts[i] \in Instance
          /\ checking \subseteq Id
          /\ name = "" => dialog = None /\ ~live

-----------------------------------------------------------------------------
(* Who may do what: the server's rule and the page's copy of it.           *)

CanEdit(s) == \/ isAdmin
              \/ ~s.private
              \/ s.owner = Me
              \/ Me \in s.grants

\* Mutant of canEdit: the visibility is not looked at.
CanEditIfLoggedIn == service # None

canEdit == /\ service # None
           /\ \/ isAdmin
              \/ ~service.rec.private
              \/ service.rec.owner = Me
              \/ Me \in service.rec.grants

CanManageGrants(s) == isAdmin \/ s.owner = Me

canManageGrants == service # None /\ (isAdmin \/ service.rec.owner = Me)

-----------------------------------------------------------------------------
(* Requests.                                                               *)

\* kind, the service and the instance addressed, what is sent; at: the name
\* of the page when it sent the request ("" once the page was left); no: the
\* dialog that sent it; shown: the copy on which the button was offered;
\* seen: the service the server read; st: "sent", "judged", "served", or why
\* it failed: "denied" by the access rule, "managed", "failed".
Job(kind, n, i, arg, no, shown) ==
    [kind |-> kind, name |-> n, id |-> i, arg |-> arg, at |-> name, no |-> no,
     shown |-> shown, seen |-> None, st |-> "sent"]

\* refresh(): getService and listInstances.  got: the answers the server gave
\* so far; late: was a copy put on the page since the first of them?
Refresh(n) == [kind |-> "refresh", name |-> n, at |-> n, st |-> "sent",
               got |-> {}, svc |-> None, insts |-> <<>>, late |-> FALSE]

Init ==
    /\ svc \in [Name -> Service \union {None}]
    /\ \A n \in Name \ {Home} : svc[n] = None
    /\ svc[Home] # None /\ svc[Home].grants = {} /\ svc[Home].owner # ""
    /\ inst = [k \in Key |-> IF k = <<Home, First>>
                  THEN [managed |-> FALSE, blocked |-> FALSE, text |-> Blank] ELSE None]
    /\ wanted = [k \in Key |-> FALSE]
    /\ isAdmin \in BOOLEAN
    /\ isAdmin => svc[Home].owner # Me
    /\ svc[Home].private \/ (svc[Home].owner # Me /\ ~isAdmin)
    /\ name = Home
    /\ service = None /\ insts = <<>>
    /\ dialog = None
    /\ checking = {}
    /\ live = FALSE /\ notice = FALSE /\ missed = FALSE
    /\ jobs = {Refresh(Home)}
    /\ steps = 0

-----------------------------------------------------------------------------
(* The page: its dialogs, which are modal.                                 *)

\* hit: the user whom the search for one to grant access has found; busy: the
\* one it is looking for; refused: does it say that the server would not look?
Dialog(kind, i) == [kind |-> kind, id |-> i, saving |-> FALSE, no |-> steps,
                    shown |-> service, hit |-> "", busy |-> "", refused |-> FALSE]

Open(d) == /\ name # "" /\ dialog = None
           /\ canEdit
           /\ steps < MaxSteps
           /\ dialog' = d
           /\ UNCHANGED <<server, isAdmin, name, copies, checking, channel, jobs, steps>>

Settings == Open(Dialog("meta", 0))
AskDeleteService == Open(Dialog("delService", 0))
NewInstance == Open(Dialog("inst", 0))
EditInstance(i) == ~insts[i].managed /\ Open(Dialog("inst", i))
AskDeleteInstance(i) == ~insts[i].managed /\ Open(Dialog("delInst", i))
copyInstance(i) == Open(Dialog("inst", 0))

Cancel == /\ dialog # None
          /\ dialog' = None
          /\ UNCHANGED <<server, isAdmin, name, copies, checking, channel, jobs, steps>>

-----------------------------------------------------------------------------
(* The page: its requests.                                                 *)

Send(J) == /\ steps < MaxSteps /\ Cardinality(jobs \union J) <= MaxJobs
           /\ steps' = steps + 1
           /\ jobs' = jobs \union J
           /\ UNCHANGED <<server, isAdmin, name, copies, channel>>

Showing(kind) == dialog # None /\ dialog.kind = kind

deleteService ==
    /\ Showing("delService")
    /\ Send({Job("deleteService", name, 0, None, dialog.no, dialog.shown)})
    /\ dialog' = None
    /\ UNCHANGED checking

deleteInstance ==
    /\ Showing("delInst")
    /\ Send({Job("delete", name, dialog.id, None, dialog.no, dialog.shown)})
    /\ dialog' = None
    /\ UNCHANGED checking

\* The buttons of an instance.
Buttons == canEdit /\ dialog = None

toggleBlock(i) ==
    /\ Buttons
    /\ Send({Job("block", name, i, ~insts[i].blocked, steps, service)})
    /\ UNCHANGED <<dialog, checking>>

\* handleSave of ServiceMetaEditor: saveMeta and, beside it, renameService.
\* To bound the model, the operator changes the visibility or the name.
handleSave(p, n) ==
    /\ Showing("meta")
    /\ p = service.rec.private \/ n = service.name
    /\ Send({Job("putService", service.name, 0, p, dialog.no, dialog.shown)} \union
            IF n = service.name THEN {}
            ELSE {Job("rename", service.name, 0, n, dialog.no, dialog.shown)})
    /\ UNCHANGED <<dialog, checking>>

\* The section Owner & access of the settings, with its buttons.
Access == Showing("meta") /\ canManageGrants

Looking(d) == /\ dialog' = d
              /\ UNCHANGED <<server, isAdmin, name, copies, checking, channel, jobs, steps>>

\* Find: one search at a time; the field can be edited meanwhile.
searchCorp(u) == /\ Access /\ dialog.busy = ""
                 /\ steps < MaxSteps
                 /\ Looking([dialog EXCEPT !.busy = u, !.hit = "", !.refused = FALSE])

TypeGrant == /\ Access /\ (dialog.hit # "" \/ dialog.refused)
             /\ Looking([dialog EXCEPT !.hit = "", !.refused = FALSE])

\* searchCorpUsers is for administrators only, whoever may manage the grants.
\* An administrator gets a user the directory knows; there may be none, and
\* the request of anyone may fail.
AnswerSearch(st) ==
    /\ Showing("meta") /\ dialog.busy # ""
    /\ st = "found" => isAdmin
    /\ st = "denied" => ~isAdmin
    /\ Looking([dialog EXCEPT !.busy = "",
                               !.hit = IF st = "found" THEN dialog.busy ELSE "",
                               !.refused = (st = "denied")])

addGrant(u) ==
    /\ Access /\ u = dialog.hit
    /\ Send({Job("addGrant", name, 0, u, dialog.no, service)})
    /\ dialog' = [dialog EXCEPT !.hit = ""]
    /\ UNCHANGED checking

removeGrant(u) ==
    /\ Access /\ u \in service.rec.grants
    /\ Send({Job("removeGrant", name, 0, u, dialog.no, service)})
    /\ UNCHANGED <<dialog, checking>>

checkNow(i) ==
    /\ Buttons /\ i \notin checking
    /\ Send({Job("check", name, i, None, steps, service)})
    /\ checking' = checking \union {i}
    /\ UNCHANGED dialog

\* Ids that some record or request names.
Known == {i \in Id : \/ \E n \in Name : inst[<<n, i>>] # None
                     \/ i \in DOMAIN insts \union checking
                     \/ \E j \in jobs : j.kind # "refresh" /\ j.id = i}

\* How the operator may leave the fields of InstanceEditor.
Fields == Text

\* save() of InstanceEditor.  Every Create draws an id of its own.
save(i, t) ==
    /\ Showing("inst") /\ ~dialog.saving
    /\ IF dialog.id = 0 THEN i \notin Known ELSE i = dialog.id
    /\ Send({Job("put", name, i, t, dialog.no, dialog.shown)})
    /\ dialog' = [dialog EXCEPT !.saving = TRUE]
    /\ UNCHANGED checking

\* React unmounts the page: its copies and its watch go, the requests it sent
\* are carried out all the same.
Unmount == /\ name' = ""
           /\ service' = None /\ insts' = <<>>
           /\ dialog' = None /\ checking' = {}
           /\ live' = FALSE /\ notice' = FALSE

Orphans(J) == {[j EXCEPT !.at = ""] : j \in {j \in J : j.kind # "refresh"}}

Leave == /\ name # "" /\ dialog = None
         /\ Unmount
         /\ jobs' = Orphans(jobs)
         /\ UNCHANGED <<server, isAdmin, missed, steps>>

-----------------------------------------------------------------------------
(* The watch of the page: its socket opens, breaks, delivers an event.     *)

Emit(ns) == /\ notice' = (notice \/ (live /\ name \in ns))
            /\ missed' = (missed \/ (~live /\ name \in ns))
            /\ UNCHANGED live

WatchOpens == /\ name # "" /\ ~live
              /\ live' = TRUE
              /\ UNCHANGED <<server, isAdmin, name, copies, dialog, checking, notice, missed,
                             jobs, steps>>

WatchBreaks == /\ live /\ steps < MaxSteps
               /\ live' = FALSE /\ notice' = FALSE
               /\ missed' = (missed \/ notice)
               /\ steps' = steps + 1
               /\ UNCHANGED <<server, isAdmin, name, copies, dialog, checking, jobs>>

\* Mutant of onEvent: no refresh when one is already under way.
CoalescedEvent ==
    /\ notice /\ Cardinality(jobs) < MaxJobs
    /\ notice' = FALSE
    /\ jobs' = IF \E j \in jobs : j.kind = "refresh" THEN jobs ELSE jobs \union {Refresh(name)}
    /\ UNCHANGED <<server, isAdmin, name, copies, dialog, checking, live, missed, steps>>

onEvent ==
    /\ notice /\ Cardinality(jobs) < MaxJobs
    /\ notice' = FALSE
    /\ jobs' = jobs \union {Refresh(name)}
    /\ UNCHANGED <<server, isAdmin, name, copies, dialog, checking, live, missed, steps>>

-----------------------------------------------------------------------------
(* The server.                                                             *)

Replace(j, k) == (jobs \ {j}) \union {k}

\* getService and listInstances read one after the other, in either order.
ReadService(j) ==
    /\ j.kind = "refresh" /\ "service" \notin j.got
    /\ jobs' = Replace(j, [j EXCEPT !.got = @ \union {"service"}, !.svc = svc[j.name]])
    /\ UNCHANGED <<server, isAdmin, name, copies, dialog, checking, channel, steps>>

ReadInstances(j) ==
    /\ j.kind = "refresh" /\ "instances" \notin j.got
    /\ jobs' = Replace(j, [j EXCEPT !.got = @ \union {"instances"}, !.insts = Instances(j.name)])
    /\ UNCHANGED <<server, isAdmin, name, copies, dialog, checking, channel, steps>>

rejectManagedEdit(j) == /\ j.kind \in {"put", "delete"}
                        /\ inst[<<j.name, j.id>>] # None
                        /\ inst[<<j.name, j.id>>].managed

\* The access rule of the handler.  A service that is missing refuses nobody
\* who would create it or write instances to it.
Permitted(j, s) ==
    /\ j.kind \in {"addGrant", "removeGrant"} => s # None /\ CanManageGrants(s)
    /\ j.kind \in {"deleteService", "rename"} => s # None /\ CanEdit(s)
    /\ j.kind \in {"putService", "put", "delete", "block", "check"} /\ s # None => CanEdit(s)

\* The handlers up to their write: the service is read and the caller judged
\* by it.
Judge(j) ==
    /\ j.kind # "refresh" /\ j.st = "sent"
    /\ jobs' = Replace(j, [j EXCEPT
           !.seen = svc[j.name],
           !.st = IF ~Permitted(j, svc[j.name]) THEN "denied"
                  ELSE IF rejectManagedEdit(j) THEN "managed"
                  ELSE IF j.kind = "check" /\ inst[<<j.name, j.id>>] = None THEN "failed"
                  ELSE "judged"])
    /\ UNCHANGED <<server, isAdmin, name, copies, dialog, checking, channel, steps>>

\* What the job was judged by is of no use any more and is forgotten.
Answered(j, st, ns) ==
    /\ jobs' = Replace(j, [j EXCEPT !.st = st, !.seen = None, !.shown = None])
    /\ Emit(ns)

PutService(j) ==
    /\ j.kind = "putService"
    /\ svc' = [svc EXCEPT ![j.name] =
                  IF j.seen = None THEN [owner |-> Me, grants |-> {}, private |-> j.arg]
                                   ELSE [j.seen EXCEPT !.private = j.arg]]
    /\ Answered(j, "served", {j.name})
    /\ UNCHANGED <<inst, wanted>>

\* The whole record that was read goes back, with the list of grants changed.
PutGrants(j) ==
    /\ j.kind \in {"addGrant", "removeGrant"}
    /\ LET g == IF j.kind = "addGrant" THEN j.seen.grants \union {j.arg}
                                       ELSE j.seen.grants \ {j.arg}
       IN IF g = j.seen.grants
          THEN Answered(j, "served", {}) /\ UNCHANGED svc
          ELSE /\ svc' = [svc EXCEPT ![j.name] = [j.seen EXCEPT !.grants = g]]
               /\ Answered(j, "served", {j.name})
    /\ UNCHANGED <<inst, wanted>>

\* RenameService, in one transaction.  j.arg is the new name.
RenameService(j) ==
    /\ j.kind = "rename"
    /\ IF svc[j.name] = None \/ svc[j.arg] # None
       THEN Answered(j, "failed", {}) /\ UNCHANGED <<svc, inst, wanted>>
       ELSE LET From(k) == IF k[1] = j.arg THEN <<j.name, k[2]>> ELSE k
            IN /\ svc' = [svc EXCEPT ![j.arg] = svc[j.name], ![j.name] = None]
               /\ inst' = [k \in Key |-> IF k[1] = j.name THEN None ELSE inst[From(k)]]
               /\ wanted' = [k \in Key |-> IF k[1] = j.name THEN FALSE ELSE wanted[From(k)]]
               /\ Answered(j, "served", {j.name, j.arg})

Without(n) == /\ svc' = [svc EXCEPT ![n] = None]
              /\ inst' = [k \in Key |-> IF k[1] = n THEN None ELSE inst[k]]
              /\ wanted' = [k \in Key |-> IF k[1] = n THEN FALSE ELSE wanted[k]]

CommitDeleteService(j) ==
    /\ j.kind = "deleteService"
    /\ IF svc[j.name] = None
       THEN Answered(j, "failed", {}) /\ UNCHANGED <<svc, inst, wanted>>
       ELSE Without(j.name) /\ Answered(j, "served", {j.name})

\* Mutant of PutInstance: the registration replaces the whole record.
PutInstanceAsGiven(k, m, t) ==
    /\ svc' = [svc EXCEPT ![k[1]] =
                  IF @ = None THEN [owner |-> "", grants |-> {}, private |-> FALSE] ELSE @]
    /\ inst' = [inst EXCEPT ![k] = [managed |-> m, blocked |-> FALSE, text |-> t]]

\* Mutant of PutInstance: the service is expected to be there.
PutInstanceAlone(k, m, t) ==
    /\ inst' = [inst EXCEPT ![k] =
                   [managed |-> m, blocked |-> @ # None /\ @.blocked, text |-> t]]
    /\ UNCHANGED svc

\* The operator's block survives; a missing service is made up for.
PutInstance(k, m, t) ==
    /\ svc' = [svc EXCEPT ![k[1]] =
                  IF @ = None THEN [owner |-> "", grants |-> {}, private |-> FALSE] ELSE @]
    /\ inst' = [inst EXCEPT ![k] =
                   [managed |-> m, blocked |-> @ # None /\ @.blocked, text |-> t]]

CommitInstance(j) ==
    /\ j.kind = "put"
    /\ PutInstance(<<j.name, j.id>>, FALSE, j.arg)
    /\ Answered(j, "served", {j.name})
    /\ UNCHANGED <<wanted>>

CommitDelete(j) ==
    /\ j.kind = "delete"
    /\ LET k == <<j.name, j.id>>
       IN /\ inst' = [inst EXCEPT ![k] = None]
          /\ wanted' = [wanted EXCEPT ![k] = FALSE]
          /\ Answered(j, "served", IF inst[k] = None THEN {} ELSE {j.name})
    /\ UNCHANGED <<svc>>

SetBlocked(k, b) == /\ inst' = [inst EXCEPT ![k].blocked = b]
                    /\ wanted' = [wanted EXCEPT ![k] = b]

CommitBlock(j) ==
    /\ j.kind = "block"
    /\ IF inst[<<j.name, j.id>>] = None
       THEN Answered(j, "failed", {}) /\ UNCHANGED <<inst, wanted>>
       ELSE SetBlocked(<<j.name, j.id>>, j.arg) /\ Answered(j, "served", {j.name})
    /\ UNCHANGED <<svc>>

\* The probe's verdict becomes the status, a part of the text, if the
\* instance is still there.
CommitCheck(j) ==
    /\ j.kind = "check"
    /\ LET k == <<j.name, j.id>>
       IN IF inst[k] = None
          THEN Answered(j, "served", {}) /\ UNCHANGED inst
          ELSE \E t \in Text :
                  /\ inst' = [inst EXCEPT ![k].text = t]
                  /\ Answered(j, "served", IF inst[k].text = t THEN {} ELSE {j.name})
    /\ UNCHANGED <<svc, wanted>>

Commit(j) ==
    /\ j.st = "judged"
    /\ \/ PutService(j) \/ PutGrants(j) \/ RenameService(j) \/ CommitDeleteService(j)
       \/ CommitInstance(j) \/ CommitDelete(j) \/ CommitBlock(j) \/ CommitCheck(j)
    /\ UNCHANGED <<isAdmin, name, copies, dialog, checking, steps>>

-----------------------------------------------------------------------------
(* The answers.                                                            *)

\* The page shows what it got, unless the service was not found.
FinishRefresh(j) ==
    /\ j.kind = "refresh" /\ j.got = {"service", "instances"}
    /\ IF j.svc = None
       THEN UNCHANGED <<copies, missed>> /\ jobs' = jobs \ {j}
       ELSE /\ service' = [name |-> j.name, rec |-> j.svc]
            /\ insts' = j.insts
            /\ missed' = (missed \/ j.late)
            /\ jobs' = {IF r.kind = "refresh" /\ r.got # {} THEN [r EXCEPT !.late = ~missed']
                                                           ELSE r : r \in jobs \ {j}}
    /\ UNCHANGED <<server, isAdmin, name, dialog, checking, live, notice, steps>>

Refused == {"denied", "managed", "failed"}
Done(j) == j.kind # "refresh" /\ j.st \in Refused \union {"served"}

\* The finally of checkNow.
Spinning(j) == checking \ {j.id}

\* What the answer j does to the open dialog.  A handler that closes a dialog
\* closes the one that is open by then; only a failed save tells its own.
Closing(j) ==
    IF dialog = None \/ /\ j.st = "served"
                        /\ \/ j.kind = "put" /\ dialog.kind = "inst"
                           \/ j.kind = "delete" /\ dialog.kind = "delInst"
                           \/ j.kind \in {"putService", "rename"} /\ dialog.kind = "meta"
    THEN None
    ELSE [dialog EXCEPT !.saving = @ /\ ~(j.st # "served" /\ j.kind = "put" /\ j.no = dialog.no)]

\* The handlers after their await, but for the two that navigate.  A page
\* that was left has no state to change.
Finish(j) ==
    /\ Done(j) /\ j.kind \notin {"rename", "deleteService"}
    /\ IF j.at = "" THEN jobs' = jobs \ {j} /\ UNCHANGED <<dialog, checking>>
       ELSE /\ jobs' = (jobs \ {j}) \union
                   (IF j.st = "served" \/ j.kind = "check" THEN {Refresh(j.at)} ELSE {})
            /\ dialog' = Closing(j)
            /\ checking' = IF j.kind = "check" THEN Spinning(j) ELSE checking
    /\ UNCHANGED <<server, isAdmin, name, copies, channel, steps>>

\* The answer to a rename takes the browser to the new name, where the watch
\* starts anew, even if the user has left the page since.
FinishRename(j) ==
    /\ Done(j) /\ j.kind = "rename"
    /\ IF j.st # "served" \/ name = j.arg
       THEN jobs' = jobs \ {j} /\ UNCHANGED <<name, live, notice>>
       ELSE /\ name' = j.arg
            /\ live' = FALSE /\ notice' = FALSE
            /\ jobs' = (jobs \ {j}) \union {Refresh(j.arg)}
    /\ dialog' = IF j.at = "" THEN dialog ELSE Closing(j)
    /\ UNCHANGED <<server, isAdmin, copies, checking, missed, steps>>

FinishDeleteService(j) ==
    /\ Done(j) /\ j.kind = "deleteService"
    /\ IF j.st = "served" THEN Unmount /\ jobs' = Orphans(jobs \ {j})
       ELSE /\ jobs' = jobs \ {j}
            /\ UNCHANGED <<name, copies, dialog, checking, live, notice>>
    /\ UNCHANGED <<server, isAdmin, missed, steps>>

\* The request or its answer is lost.
Fail(j) ==
    /\ steps < MaxSteps
    /\ steps' = steps + 1
    /\ \/ /\ j.kind = "refresh" /\ j.got = {"service", "instances"}
          /\ jobs' = jobs \ {j}
          /\ missed' = TRUE
       \/ /\ j.kind # "refresh" /\ j.st \in {"sent", "served"}
          /\ jobs' = Replace(j, [j EXCEPT !.st = "failed"])
          /\ UNCHANGED missed
    /\ UNCHANGED <<server, isAdmin, name, copies, dialog, checking, live, notice>>

-----------------------------------------------------------------------------
(* Everyone else.                                                          *)

Other(ns) == /\ steps < MaxSteps
             /\ steps' = steps + 1
             /\ Emit(ns)
             /\ UNCHANGED <<isAdmin, name, copies, dialog, checking, jobs>>

\* The owner or an administrator changes the visibility, or what this user
\* was granted.
OtherPutsService(n) == /\ svc[n] # None
                       /\ \/ svc' = [svc EXCEPT ![n].private = ~@]
                          \/ svc' = [svc EXCEPT ![n].grants = @ \union {Me}]
                          \/ svc' = [svc EXCEPT ![n].grants = @ \ {Me}]
                       /\ Other({n})
                       /\ UNCHANGED <<inst, wanted>>

OtherDeletes(n) == /\ svc[n] # None
                   /\ Without(n)
                   /\ Other({n})

OtherBlocks(k, b) == /\ inst[k] # None
                     /\ SetBlocked(k, b)
                     /\ Other({k[1]})
                     /\ UNCHANGED <<svc>>

\* A client of the service registers itself, under the name it was given.
Registers(i) == /\ PutInstance(<<Home, i>>, TRUE, Blank)
                /\ Other({Home})
                /\ UNCHANGED wanted

Next == \/ Settings \/ AskDeleteService \/ NewInstance \/ Cancel
        \/ \E i \in DOMAIN insts : \/ EditInstance(i) \/ AskDeleteInstance(i)
                                   \/ copyInstance(i) \/ toggleBlock(i) \/ checkNow(i)
        \/ deleteService \/ deleteInstance \/ Leave
        \/ \E p \in BOOLEAN, n \in Name : handleSave(p, n)
        \/ \E u \in User \ {Me} : searchCorp(u) \/ addGrant(u) \/ removeGrant(u)
        \/ TypeGrant \/ \E st \in {"found", "none", "denied"} : AnswerSearch(st)
        \/ \E i \in Id, t \in Fields : save(i, t)
        \/ WatchOpens \/ WatchBreaks \/ onEvent
        \/ \E j \in jobs : \/ ReadService(j) \/ ReadInstances(j) \/ Judge(j) \/ Commit(j)
                           \/ FinishRefresh(j) \/ Finish(j) \/ FinishRename(j)
                           \/ FinishDeleteService(j) \/ Fail(j)
        \/ \E n \in Name : OtherDeletes(n) \/ OtherPutsService(n)
        \/ \E k \in Key, b \in BOOLEAN : OtherBlocks(k, b)
        \/ \E i \in Id : Registers(i)

Spec == Init /\ [][Next]_vars

-----------------------------------------------------------------------------
(* Properties.                                                             *)

\* When nothing is under way, the page shows the service and the instances
\* as the server has them, provided that no event was lost and no answer was
\* lost or overtaken: every write is followed by an event, and every event
\* by reads of both that come after the write.
QuietMeansCurrent ==
    /\ jobs = {} /\ ~notice /\ ~missed
    /\ name # "" /\ svc[name] # None
    /\ service # None /\ service.name = name
    => service.rec = svc[name] /\ insts = Instances(name)

\* The buttons that read or write the service and its instances follow the
\* server's rule: such a request is denied only if the service is no longer
\* what the page showed when it offered the button.  The search for a user to
\* grant access is no such request: the server keeps it to administrators,
\* while the page offers it to every owner.
OfferedIsAllowed ==
    \A j \in jobs : j.kind # "refresh" /\ j.st = "denied" =>
                        j.shown # [name |-> j.name, rec |-> j.seen]

\* An instance is out of rotation exactly when the latest block request
\* carried out for it said so: saving it, renaming its service and its own
\* client's registrations do not put it back, and two operators who press
\* the same button do not undo each other.
BlockHolds == \A k \in Key : inst[k] # None => inst[k].blocked = wanted[k]
=============================================================================
