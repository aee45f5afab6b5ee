---------------------------- MODULE ScopeEditor ----------------------------
(***************************************************************************)
(* Editing configuration in the browser: the Config page                   *)
(* (ui/web/src/pages/Config.tsx) with the editor of the selected scope     *)
(* (components/ConfigScopeEditor.tsx), the server's config handlers and    *)
(* store as one browser meets them, and others who write to the same       *)
(* scopes: operators, and the node's peers through replication.            *)
(*                                                                         *)
(* A handler of the editor runs up to its await in one step; the request   *)
(* is then a job that the server serves and whose answer arrives in steps  *)
(* of their own, in any order, or never.  A job belongs to the mount of    *)
(* the editor that issued it: the page gives the editor the scope's id as  *)
(* its key, so that selecting another scope makes a new editor and leaves  *)
(* the answers of the old one without effect.  Two jobs that are equal in  *)
(* every respect are one.  A watch event says only which scope it is about *)
(* and may be missed.  Left out: the change note, the loading indicator,   *)
(* the differences that the history dialog lists, the highlighting of JSON *)
(* and scopes whose id continues that of another with a slash.             *)
(***************************************************************************)
EXTENDS ConfigVars

CONSTANTS Scope,      \* scope ids
          Global,     \* the scope that always exists
          Service,    \* per scope: its service, "" for Global
          Types,      \* types of variables that the operator chooses
          Typed,      \* texts that the operator types
          Published,  \* variables that others write
          Before,     \* per scope: its revisions when the page is opened,
          Drafts,     \* and its draft, as in the variable draft
          Recent,     \* revisions the history dialog shows (10)
          Key,        \* keys of variables, Blank among them: 0, 1, ...
          Ahead,      \* bound on how far a peer's revisions are ahead
          MaxRows, MaxEdits, MaxWrites, MaxMounts, MaxJobs,  \* bounds
          MaxSteps    \* bound on edits and writes together, a write for two

\* Variables as validateConfigVars lets them pass and editors post them: the
\* keys are trimmed, and none is blank.
Variables == UNION {[K -> Value] : K \in SUBSET (Key \ {Blank})}

ASSUME ScopeEditorAssumption ==
    /\ Global \in Scope /\ Service[Global] = ""
    /\ Types \subseteq VarType /\ Typed \subseteq Text
    /\ IsFiniteSet(Key) /\ Blank \in Key /\ Key = 0..(Cardinality(Key) - 1)
    /\ Before \in [Scope -> Seq(Variables)]
    /\ Drafts \in [Scope -> Seq(Variables)]
    /\ \A s \in Scope : Len(Drafts[s]) <= 1
    /\ Published \subseteq Variables
    /\ Ahead \in Nat
    /\ Recent \in Nat \ {0} /\ MaxMounts \in Nat \ {0}

None == [none |-> TRUE]

VARIABLES
    hist,      \* server, per scope: variables of the revisions, by number
    draft,     \* server, per scope: <<variables of the draft>>, or <<>>
    gen,       \* server, per scope: how often it was deleted, or one of
               \* its revisions replaced
    selected,  \* the page: scope shown
    mount,     \* the page: editors mounted so far
    readOnly,  \* the editor: may the operator only look, as ServiceDetail
               \* has it for a service he may not edit?
    data,      \* the editor: the answer shown, or None
    rows, loaded,       \* the editor: rows as edited, and as loaded
    nextRowId,          \* counter of row ids
    editing,   \* BigValueDialog: its row and text, or None
    historyOpen, sel,   \* HistoryDialog: is it open; the revision picked, or 0
    jobs,      \* requests under way and answers not yet handled
    events,    \* scopes with a watch event on its way to the editor
    edits, writes       \* counters, for the bounds

server == <<hist, draft, gen>>
editor == <<data, rows, loaded, nextRowId, editing, historyOpen, sel>>
vars == <<server, selected, mount, readOnly, editor, jobs, events, edits, writes>>

dirty == rowsSignature(rows) # rowsSignature(loaded)

\* The answer to GET /v1/config/scope: the active revision (0: none), its
\* variables, the draft and the history; gen belongs to the history.
Answer(s) == [scope |-> s, active |-> 0, vars |-> <<>>, draft |-> <<>>,
              hist |-> <<>>, gen |-> 0]

\* A request of the editor that is mount m, about scope s.  why: what made
\* it load.  st: "sent", for a load then "active" and "draft" (what the
\* server has read for it so far), "served".
Job(kind, s, m, why, posted, rev) ==
    [kind |-> kind, scope |-> s, mount |-> m, why |-> why, posted |-> posted,
     rev |-> rev, ans |-> Answer(s), st |-> "sent"]

Load(s, m, why) == Job("load", s, m, why, <<>>, 0)

TypeOK ==
    /\ selected \in Scope
    /\ mount \in 1..MaxMounts
    /\ readOnly \in BOOLEAN
    /\ data # None => data.scope \in Scope
    /\ \A i, j \in 1..Len(rows) : i # j => rows[i].id # rows[j].id
    /\ \A i \in 1..Len(rows) : /\ rows[i].id < nextRowId
                               /\ rows[i].key \in Key
                               /\ rows[i].val \in Text
    /\ sel \in Nat
    /\ historyOpen \in BOOLEAN
    /\ events \subseteq Scope
    /\ \A j \in jobs : j.scope \in Scope /\ j.mount \in 1..mount

Init == /\ hist = Before
        /\ draft = Drafts
        /\ gen = [s \in Scope |-> 0]
        /\ selected = Global
        /\ mount = 1
        /\ readOnly \in BOOLEAN
        /\ data = None /\ rows = <<>> /\ loaded = <<>>
        /\ nextRowId = 1
        /\ editing = None
        /\ historyOpen = FALSE /\ sel = 0
        /\ jobs = {Load(Global, 1, "self")}
        /\ events = {}
        /\ edits = 0 /\ writes = 0

-----------------------------------------------------------------------------
(* The page.                                                               *)

\* What an unmounted editor still waits for: its loads no longer matter.
Remaining(J) == {j \in J : j.kind # "load"}

\* A new key: React throws the old editor away and mounts one that loads.
Mount(s) ==
    /\ selected' = s
    /\ mount' = mount + 1
    /\ data' = None /\ rows' = <<>> /\ loaded' = <<>>
    /\ editing' = None
    /\ historyOpen' = FALSE /\ sel' = 0
    /\ UNCHANGED nextRowId

\* Mutant of setSelected: the editor is not keyed by the scope.
SelectWithoutKey(s) ==
    IF s = selected THEN UNCHANGED <<selected, mount, editor, jobs>>
    ELSE /\ mount < MaxMounts
         /\ selected' = s
         /\ jobs' = jobs \union {Load(s, mount, "self")}
         /\ UNCHANGED <<mount, editor>>

setSelected(s) ==
    IF s = selected THEN UNCHANGED <<selected, mount, editor, jobs>>
    ELSE /\ mount < MaxMounts
         /\ Mount(s)
         /\ jobs' = Remaining(jobs) \union {Load(s, mount + 1, "self")}

\* A click in ScopeList, or Open editor of NewScopeDialog, which takes any
\* scope.  The dialogs of the editor are modal.
Select(s) ==
    /\ ~readOnly
    /\ editing = None /\ ~historyOpen
    /\ s # selected
    /\ setSelected(s)
    /\ UNCHANGED <<server, readOnly, events, edits, writes>>

-----------------------------------------------------------------------------
(* Local edits.                                                            *)

MayEdit == edits < MaxEdits /\ edits + 2 * writes < MaxSteps
MayWrite == writes < MaxWrites /\ edits + 2 * writes < MaxSteps - 1

Editable == ~readOnly /\ ~historyOpen /\ MayEdit

Edit(rs) == /\ rows' = rs
            /\ edits' = edits + 1
            /\ UNCHANGED <<server, selected, mount, readOnly, data, loaded, historyOpen,
                           sel, jobs, events, writes>>

setRow(id, field, v) ==
    [i \in 1..Len(rows) |-> IF rows[i].id = id THEN [rows[i] EXCEPT ![field] = v]
                                               ELSE rows[i]]

\* The key and the type have fields of their own; the value has one unless
\* it is edited in the dialog.
isBig(r) == r.type \in {"json", "bytes"}

Type(r) ==
    /\ Editable /\ editing = None
    /\ \/ \E k \in Key : Edit(setRow(r.id, "key", k))
       \/ \E t \in Types : Edit(setRow(r.id, "type", t))
       \/ ~isBig(r) /\ \E v \in Typed : Edit(setRow(r.id, "val", v))
    /\ UNCHANGED <<nextRowId, editing>>

\* Mutant of addRow: the counter of ids stands still.
AddRowSameId ==
    /\ Editable /\ editing = None
    /\ Len(rows) < MaxRows
    /\ Edit(Append(rows, [id |-> nextRowId, key |-> Blank, type |-> "string", val |-> ""]))
    /\ UNCHANGED <<nextRowId, editing>>

addRow ==
    /\ Editable /\ editing = None
    /\ Len(rows) < MaxRows
    /\ Edit(Append(rows, [id |-> nextRowId, key |-> Blank, type |-> "string", val |-> ""]))
    /\ nextRowId' = nextRowId + 1
    /\ UNCHANGED editing

removeRow(r) ==
    /\ Editable /\ editing = None
    /\ Edit(At(rows, {i \in 1..Len(rows) : rows[i].id # r.id}))
    /\ UNCHANGED <<nextRowId, editing>>

reset ==
    /\ Editable /\ editing = None
    /\ dirty
    /\ Edit(loaded)
    /\ UNCHANGED <<nextRowId, editing>>

\* BigValueDialog keeps a copy of the row it was opened for.
Expand(r) ==
    /\ ~historyOpen /\ editing = None
    /\ isBig(r)
    /\ editing' = [row |-> r, text |-> r.val]
    /\ UNCHANGED <<server, selected, mount, readOnly, data, rows, loaded, nextRowId,
                   historyOpen, sel, jobs, events, edits, writes>>

TypeBig(v) ==
    /\ Editable /\ editing # None
    /\ v # editing.text
    /\ editing' = [editing EXCEPT !.text = v]
    /\ edits' = edits + 1
    /\ UNCHANGED <<server, selected, mount, readOnly, data, rows, loaded, nextRowId,
                   historyOpen, sel, jobs, events, writes>>

\* The error that disables Done; blank JSON is not an error here.
Error(e) == /\ e.row.type = "json"
            /\ e.text # ""
            /\ ~Accepts("json", e.text)

\* Done, which the read-only dialog does not have.
Done ==
    /\ ~readOnly /\ editing # None
    /\ ~Error(editing)
    /\ rows' = setRow(editing.row.id, "val", editing.text)
    /\ editing' = None
    /\ UNCHANGED <<server, selected, mount, readOnly, data, loaded, nextRowId, historyOpen,
                   sel, jobs, events, edits, writes>>

Close ==
    /\ editing # None
    /\ editing' = None
    /\ UNCHANGED <<server, selected, mount, readOnly, data, rows, loaded, nextRowId,
                   historyOpen, sel, jobs, events, edits, writes>>

-----------------------------------------------------------------------------
(* Requests.  A command runs to its request; the rest is in Finish.        *)

Command(job) ==
    /\ ~readOnly
    /\ editing = None
    /\ MayWrite /\ Cardinality(jobs) < MaxJobs
    /\ job \notin jobs
    /\ jobs' = jobs \union {job}
    /\ UNCHANGED <<server, selected, mount, readOnly, editor, events, edits, writes>>

\* A row that does not parse stops the command before its request.
apply == /\ ~historyOpen /\ dirty
         /\ ~Throws(rows)
         /\ Command(Job("apply", selected, mount, "", Posted(rows), 0))

saveDraft == /\ ~historyOpen /\ dirty
             /\ ~Throws(rows)
             /\ Command(Job("draft", selected, mount, "", Posted(rows), 0))

discardDraft == /\ ~historyOpen /\ data # None
                /\ data.draft # <<>>
                /\ Command(Job("discard", selected, mount, "", <<>>, 0))

deleteScope == /\ ~historyOpen /\ selected # Global
               /\ Command(Job("delete", selected, mount, "", <<>>, 0))

-----------------------------------------------------------------------------
(* The history dialog.                                                     *)

\* Revision numbers of the copy shown, newest first, at most Recent.
recent == LET n == Cardinality(DOMAIN data.hist)
          IN [i \in 1..(IF n < Recent THEN n ELSE Recent) |->
                 Sorted(DOMAIN data.hist)[n + 1 - i]]

\* The picked revision if it is among the recent ones, else the newest.
selectedRev == IF sel \in Range(recent) THEN sel ELSE Head(recent)

History ==
    /\ editing = None /\ ~historyOpen
    /\ data # None
    /\ data.hist # <<>>
    /\ historyOpen' = TRUE
    /\ UNCHANGED <<server, selected, mount, readOnly, data, rows, loaded, nextRowId, editing,
                   sel, jobs, events, edits, writes>>

\* A click on a revision, and closing the dialog: the pick is kept.
Pick ==
    /\ historyOpen
    /\ \/ data.hist # <<>> /\ sel' \in Range(recent) /\ UNCHANGED historyOpen
       \/ historyOpen' = FALSE /\ UNCHANGED sel
    /\ UNCHANGED <<server, selected, mount, readOnly, data, rows, loaded, nextRowId, editing,
                   jobs, events, edits, writes>>

\* Mutant of rollback: it names the revision by its place in the list.
RollbackByPlace ==
    /\ historyOpen /\ data.hist # <<>>
    /\ selectedRev # data.active
    /\ Command([Job("rollback", selected, mount, "", data.hist[selectedRev],
                    Cardinality(DOMAIN data.hist) + 1 - selectedRev) EXCEPT !.ans = data])

\* For the property the job remembers the copy and the revision shown.
rollback ==
    /\ historyOpen /\ data.hist # <<>>
    /\ selectedRev # data.active
    /\ Command([Job("rollback", selected, mount, "", data.hist[selectedRev],
                    selectedRev) EXCEPT !.ans = data])

-----------------------------------------------------------------------------
(* The server.                                                             *)

\* The number of the active revision.
Newest(h) == IF DOMAIN h = {} THEN 0 ELSE Max(DOMAIN h)

Put(h, n, v) == [k \in DOMAIN h \union {n} |-> IF k = n THEN v ELSE h[k]]

ApplyTx(s, v) == /\ hist' = [hist EXCEPT ![s] = Put(@, Newest(@) + 1, v)]
                 /\ draft' = [draft EXCEPT ![s] = <<>>]
                 /\ UNCHANGED gen

DeleteTx(s) == /\ hist' = [hist EXCEPT ![s] = <<>>]
               /\ draft' = [draft EXCEPT ![s] = <<>>]
               /\ gen' = [gen EXCEPT ![s] = @ + 1]

Write(s) == /\ MayWrite
            /\ writes' = writes + 1
            /\ events' = events \union {s}
            /\ UNCHANGED <<selected, mount, readOnly, editor, edits>>

\* The store reads the active revision, the draft and the history in three
\* transactions.
ServeLoad(j) ==
    /\ j.kind = "load"
    /\ \/ /\ j.st = "sent"
          /\ LET n == Newest(hist[j.scope])
             IN jobs' = (jobs \ {j}) \union
                    {[j EXCEPT !.st = "active", !.ans.active = n,
                               !.ans.vars = IF n = 0 THEN <<>> ELSE hist[j.scope][n]]}
       \/ /\ j.st = "active"
          /\ jobs' = (jobs \ {j}) \union
                    {[j EXCEPT !.st = "draft", !.ans.draft = draft[j.scope]]}
       \/ /\ j.st = "draft"
          /\ jobs' = (jobs \ {j}) \union
                    {[j EXCEPT !.st = "served", !.ans.hist = hist[j.scope],
                               !.ans.gen = gen[j.scope]]}
    /\ UNCHANGED <<server, selected, mount, readOnly, editor, events, edits, writes>>

\* The writing handlers; a rollback to a revision that is gone fails, and so
\* does what the server refuses (Fail).
ServeWrite(j) ==
    /\ j.kind # "load" /\ j.st = "sent"
    /\ \/ j.kind = "apply" /\ ApplyTx(j.scope, j.posted)
       \/ j.kind = "draft" /\ draft' = [draft EXCEPT ![j.scope] = <<j.posted>>]
                           /\ UNCHANGED <<hist, gen>>
       \/ j.kind = "discard" /\ draft' = [draft EXCEPT ![j.scope] = <<>>]
                             /\ UNCHANGED <<hist, gen>>
       \/ j.kind = "delete" /\ DeleteTx(j.scope)
       \/ /\ j.kind = "rollback" /\ j.rev \in DOMAIN hist[j.scope]
          /\ ApplyTx(j.scope, hist[j.scope][j.rev])
    /\ jobs' = (jobs \ {j}) \union {[j EXCEPT !.st = "served"]}
    /\ Write(j.scope)

\* Another operator publishes to a scope, saves a draft or deletes the scope.
Other(s) ==
    /\ \/ \E v \in Published : ApplyTx(s, v)
       \/ \E v \in Published : /\ draft' = [draft EXCEPT ![s] = <<v>>]
                              /\ UNCHANGED <<hist, gen>>
       \/ s # Global /\ hist[s] # <<>> /\ DeleteTx(s)
    /\ Write(s)
    /\ UNCHANGED jobs

\* A peer's revision: a new one, perhaps before the ones it follows, or one
\* that replaces the revision of the same number, being stamped later.
putConfigRevisionRaw(s) ==
    /\ \E n \in 1..(Newest(hist[s]) + Ahead), v \in Published :
          /\ hist' = [hist EXCEPT ![s] = Put(@, n, v)]
          /\ gen' = [gen EXCEPT ![s] = IF n \in DOMAIN hist[s] THEN @ + 1 ELSE @]
    /\ UNCHANGED draft
    /\ Write(s)
    /\ UNCHANGED jobs

-----------------------------------------------------------------------------
(* Answers and events.                                                     *)

\* Mutant of Rows: a row is named by its place.
RowsByPlace(v) == varsToRows(v, 1)

Rows(v) == varsToRows(v, nextRowId)

\* load(), after its answer: the draft, else the active revision, else
\* nothing becomes the rows, whatever they were.
Loaded(ans) ==
    LET rs == Rows(IF ans.draft # <<>> THEN Head(ans.draft) ELSE ans.vars)
    IN /\ data' = ans
       /\ rows' = rs
       /\ loaded' = rs
       /\ nextRowId' = nextRowId + Len(rs)

\* Where the handler goes on.  An unmounted editor's state is gone, but
\* onDeleted belongs to the page.
Finish(j) ==
    /\ j.st = "served"
    /\ \/ /\ j.kind = "load"
          /\ IF j.mount = mount THEN Loaded(j.ans)
                                ELSE UNCHANGED <<data, rows, loaded, nextRowId>>
          /\ jobs' = jobs \ {j}
          /\ UNCHANGED <<selected, mount, editing, historyOpen, sel>>
       \/ /\ j.kind \in {"apply", "draft", "discard"}
          /\ jobs' = (jobs \ {j}) \union
                 (IF j.mount = mount THEN {Load(j.scope, mount, "self")} ELSE {})
          /\ UNCHANGED <<selected, mount, editor>>
       \/ /\ j.kind = "rollback"
          /\ historyOpen' = (historyOpen /\ j.mount # mount)
          /\ jobs' = (jobs \ {j}) \union
                 (IF j.mount = mount THEN {Load(j.scope, mount, "self")} ELSE {})
          /\ UNCHANGED <<selected, mount, data, rows, loaded, nextRowId, editing, sel>>
       \/ /\ j.kind = "delete"
          /\ IF selected = Global
             THEN jobs' = jobs \ {j} /\ UNCHANGED <<selected, mount, editor>>
             ELSE /\ mount < MaxMounts
                  /\ Mount(Global)
                  /\ jobs' = Remaining(jobs \ {j}) \union {Load(Global, mount + 1, "self")}
    /\ UNCHANGED <<server, readOnly, events, edits, writes>>

\* The request or the answer is lost, or the server refused: a toast.  (When
\* a load that fails does so makes no difference.)
Fail(j) ==
    /\ j.kind = "load" => j.st = "served"
    /\ jobs' = jobs \ {j}
    /\ UNCHANGED <<server, selected, mount, readOnly, editor, events, edits, writes>>

\* The handler given to watch.  An event that is missed stays in events.
onEvent(s) ==
    /\ s \in events
    /\ events' = events \ {s}
    /\ IF \/ /\ Service[s] # "" /\ Service[selected] # ""
             /\ Service[s] # Service[selected]
          \/ dirty
       THEN UNCHANGED jobs
       ELSE /\ Cardinality(jobs) < MaxJobs
            /\ jobs' = jobs \union {Load(selected, mount, "event")}
    /\ UNCHANGED <<server, selected, mount, readOnly, editor, edits, writes>>

Next == \/ \E s \in Scope : \/ Select(s) \/ Other(s) \/ putConfigRevisionRaw(s)
                           \/ onEvent(s)
        \/ \E i \in 1..Len(rows) : Type(rows[i]) \/ removeRow(rows[i]) \/ Expand(rows[i])
        \/ addRow \/ reset \/ Done \/ Close \/ \E v \in Typed : TypeBig(v)
        \/ apply \/ saveDraft \/ discardDraft \/ deleteScope \/ rollback
        \/ History \/ Pick
        \/ \E j \in jobs : ServeLoad(j) \/ ServeWrite(j) \/ Finish(j) \/ Fail(j)

Spec == Init /\ [][Next]_vars

-----------------------------------------------------------------------------
(* Properties.                                                             *)

\* The dialog for long values writes into the row it was opened for, or into
\* none: rows reloaded behind its back have new ids.
BigEditHitsItsRow ==
    [][Done => \A i \in 1..Len(rows) : rows'[i] # rows[i] => rows[i].key = editing.row.key]_vars

\* A rollback publishes the variables that the history dialog showed for the
\* revision, however old the copy is, unless the scope was deleted since or a
\* peer's revision replaced one of its revisions: then the number may stand for
\* other variables.
RollbackPublishesWhatWasShown ==
    [][\A j \in jobs : j.kind = "rollback" /\ j.ans.gen = gen[j.scope] /\ ServeWrite(j)
                      => LET h == hist'[j.scope] IN h[Newest(h)] = j.posted]_vars

\* When the editor takes itself for clean, and so lets events replace the
\* rows, the rows parse and mean exactly the variables of the copy they came
\* from, a null apart: it is shown as blank, which reads as something else.
CleanMeansLoaded ==
    ~dirty /\ data # None =>
        LET v == IF data.draft # <<>> THEN Head(data.draft) ELSE data.vars
            readable == {k \in DOMAIN v : v[k].value # Null}
        IN /\ Keys(rows) = DOMAIN v
           /\ \A k \in readable : rowsToVars(rows)[k] = v[k]
           /\ \A i \in 1..Len(rows) : rows[i].key \in readable
                                        => Accepts(rows[i].type, rows[i].val)

\* The copy shown, and what a command would post, belong to the selected
\* scope, although answers for another scope may still arrive.
ShowsSelectedScope == data # None => data.scope = selected

\* ConfigScopeEditor.tsx:67, "Don't yank the rug out from under unsaved local
\* edits.": a reload that an event asked for never replaces edited rows.
RugStays == [][\A j \in jobs : j.why = "event" /\ Finish(j) => ~dirty]_vars
=============================================================================
