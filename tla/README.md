# Verification of ax-discovery2

TLA+ models of the discovery server (`src/internal`, `src/cmd`) and of its web UI
(`src/ui/web`), TLC runs that check them on small instances, and theorems proved with
TLAPS for all values of the parameters. `PROJECT.json` maps every definition to the
lines it models and lists the runs, the hazards of the code and the theorems.

## 1. The system and its parts

A *node* is one process: a bbolt file, an HTTP API, a health checker, a
WebSocket hub, an affinity sweeper and a memberlist gossip endpoint. Nodes are
peers; every node accepts every write. The *web UI* is a React program in the
browser that talks to one node: it fetches copies of records, acts on them, and
hears of changes through a WebSocket. In the table, `ui/` is `src/ui/web/src`.

| component | source | state | operations |
|---|---|---|---|
| catalogue store | `store/bolt.go`, `store/rename.go`, `model/types.go` | services, instances (status, Blocked, UpdatedAt, LastHeartbeat), subscribers | PutService, PutInstance, Heartbeat, SetStatus, SetBlocked, DeleteInstance, DeleteService (cascades), RenameService, emit |
| cluster replication | `cluster/cluster.go`, `ApplyRemote`, `Snapshot` | subscription, messages, snapshot being applied | broadcast, NotifyMsg, bootstrapSync, runAntiEntropy, pullSnapshot |
| health checker | `health/health.go`, heartbeat and `/check` handlers | lastProbed; works on copies of instances | tick, evalHeartbeat, evalProbe, CheckInstance |
| config store | `store/config.go`, `server/config_handlers.go`, `model/config.go` | per scope: active revision, history, draft | ApplyConfig, RollbackConfig, PutDraft, DeleteDraft, DeleteConfigScope, their remote versions, ResolveConfig |
| sticky picks | `server/discover_pick.go`, `store/affinity.go`, sweeper in `main.go` | bindings token -> instance with expiry | stickyPick, weightedPick, SweepExpiredAffinity |
| watch hub | `server/hub.go`, `watch`, `wsReader`, `wsWriter` | connected clients and their channels | add, remove, broadcast, Run |
| services ACL, grants | `server/grants_handlers.go`, `auth/` | owner, visibility and grants, stored in the service | addGrant, removeGrant, CanEdit |
| sessions, login | `store/sessions.go`, `server/auth_handlers.go` | sessions | login, resolve, expiry |
| client tokens | `store/tokens.go`, `server/client_token_handlers.go` | replicated token records | mint, revoke |
| statistics, metrics | `stats/stats.go`, `server/observability_handlers.go` | in-memory rings and counters | record, snapshot |
| watch client | `ui/lib/api.ts` (`watch`) | socket, pending retry, delay, stopped | connect, onopen, onmessage, onerror, onclose, stop |
| config editor | `ui/components/ConfigScopeEditor.tsx`, `ui/lib/configvars.ts`, `ui/pages/Config.tsx` | selected scope, its copy, rows as loaded and as edited, dialogs | load, edit, apply, saveDraft, discardDraft, rollback, deleteScope |
| service page | `ui/pages/ServiceDetail.tsx` | copies of the service and its instances, open dialog, checks under way | refresh, save, rename, grants, block, check, delete |
| UI session and routes | `ui/lib/auth.tsx`, `ui/lib/corp.ts`, `ui/App.tsx`, `ui/pages/Login.tsx`, `ui/components/AppShell.tsx` | who is signed in, bearer token, mode, route | handshake, refresh, login, logout, navigate |
| dashboard | `ui/pages/Dashboard.tsx` | copies of services and instances, loading | pollFast, pollSlow, aggregate |
| services list | `ui/pages/Services.tsx` | loading, New service dialog | refresh, pick, create |
| cluster, tokens and audit pages | `ui/pages/{Cluster,Tokens,Audit}.tsx` | copies, forms, busy flags | refresh, join, create, revoke, filter |
| semver, audit, process and TLS, UI kit, vendored libraries | | | see "Not modelled" |

**Interactions.** Handlers call store transactions. Each store write emits an
event to in-process subscribers: the cluster's goroutine (buffer 256), which
gossips events of local origin, and the hub (512). A peer applies an event with
`ApplyRemote`, which emits it locally again. Anti-entropy pulls a whole snapshot
of a random peer over HTTP and feeds it to `ApplyRemote` record by record. The
health checker and the `/check` handler list or read instances, probe, and then
call `SetStatus`. Picks read instances and read and write bindings. The pages of
the UI read with one or two requests, answer every event of the hub with another
read, and write with requests whose handlers on the server read the service to
judge the caller before they write.

**What is hard.** Read and write in different transactions (`ApplyRemote`,
rollback, checker, picks, sweeper, grants); last-write-wins on wall clocks of
several machines; no tombstones; messages lost, duplicated, reordered; buffers
that drop; stale copies; two goroutines that may close the same channel. In the
UI: an `await` after which the page, its dialog or its data may be another;
answers that overtake each other; several requests of one click, one of which
fails; sockets that fail, close and open again; timers that outlive their page.

**What makes each part correct.** Catalogue: no instance without a service, no
rename that loses, takes along or overwrites an instance of another service (while
no service name has a slash), the operator's block kept. Replication: agreement in
the end, no echo, a stamp identifies a record. Health: the dead go down, the living
come back, and nobody is called down without cause. Config: clients read the newest
revision of the history (unless that history was deleted with an outer scope) and
never go back. Picks: a token keeps its instance. Hub: no panic, no silent gap, no
leak. Watch: one connection at most, tried again for ever, events in order and none
after stop. Pages: what they show when nothing is under way is what the server has,
what they offer on a service and its instances is allowed (the search for users is
not, to an owner who is no administrator), what they publish is what was on the
screen, a block holds, nothing spins for ever (but the card of the client tokens,
when its list fails). Session: an embedded UI keeps its token.

## 2. Modules

    Catalog --------> Store ------> StoreProofs
        \-----------> Cluster ----> ClusterProofs
    Register <== ConfigStore ---> ConfigProofs       (<== : implements)
    Health, Hub ---> NodeProofs      Affinity ---> AffinityProofs
    Subscription <== Watch ------------------------------------\
    Session ---> Pages ---> Dashboard ------------------------> BrowserProofs
                       \---> Dashboard, ServicesPage, OtherPages ---> Console
    ConfigVars ---> ScopeEditor ---> ScopeEditorProofs
    ServicePage ---> ServicePageProofs
    MC<X>: model values and symmetry for TLC

- **Catalog** has no variables. Each read-write transaction of `bolt.go` and
  `rename.go` is an operator from the catalogue before it to the one after it: bbolt
  serialises them. `Store` and `Cluster` both use these operators, so the lemmas on
  them serve the proofs about both. A record keeps status, service, id, Blocked and
  UpdatedAt; "starting" behaves as "draining" everywhere and shares its value. A
  name, an id and a key are sequences of the segments between slashes, and an
  instance's key is the name followed by the id, so that `c/i` of `b` and `i` of
  `b/c` share one. Only PutService (`Service.Validate`) refuses a slash; the stub
  that PutInstance makes, RenameService and ids do not. `Under` is the prefix scan.
  `Scans` is what bbolt's cursor may meet while RenameService puts records into the
  bucket it is scanning, which bbolt leaves open.
- **Store**: one node, one action per handler. PutService and PutInstance read
  the clock *before* they wait for bbolt's write lock, so such a request is first
  `Stamp`ed and later committed. MaxStored bounds the instances stored at once.
  Callers are not restricted.
- **Cluster** (names without slashes, see `ClusterAssumption`): `cat`, `sub`
  (subscription of `Run`), `net` (gossip per node), `applying` (upserts between the
  two transactions of `ApplyRemote`), `snap` (a snapshot in progress; services and
  instances are read in one transaction each and applied one record at a time).
  `Deliver` keeps or consumes a message, so duplicates and reordering are covered,
  and not delivering is loss. `Crash` empties everything that is not in the bbolt
  file. `instance.status` is handled by the code exactly as `instance.upserted` and
  is not kept apart.
- **Health**: one node. `job` is the copy on which the checker works after
  `tick` listed the instances, `check` the copy of a `/check` request; heartbeats,
  registrations, failures of the process and time pass in between. Time is kept
  as ages with the cap at which `Expired` and `dueForProbe` stop telling them
  apart. http and tcp mode are both "probe". Every registration brings its own TTL;
  with 0 the instance never expires (`types.go:181-183`). `chosen` (the status the
  client last asked for) and `late` (was it ever silent for longer than its TTL, gone
  or out of reach) are history variables.
- **ConfigStore**: one scope on several nodes. Scopes share no keys, but the history
  is deleted by a prefix scan and ids may contain slashes: `DeleteOuterScope` is the
  deletion of a scope whose id is the beginning of this one's (`service:a` of
  `service:a/b`), which takes the history and leaves the active revision; `cut` says
  that it happened, until the next revision becomes active. A remote
  revision is compared and stored in one transaction, so handlers are one step;
  a rollback is two. An emitted event goes straight to `net`. **Register** is what a
  client may rely on: a node shows one revision or none, and changes it only by
  publishing the successor, by taking over a newer publication, or by a deletion.
  ConfigStore implements it with each node's active revision.
- **Affinity**: one token of one service. A pick is a sequence of transactions
  (list, get, delete as expired, choose, put), and so is the sweeper.
- **Hub**: the subscription, Hub.Run, and per connection the channel `send`, the
  reader and the writer. A broadcast runs under the hub's read lock and is one
  step; dropping the slow clients afterwards is one step each. An event is its
  number; `relayed`, `since` and `got` are history variables.

- **Watch**: one call of `watch`. `state` and `queue` are per socket: connecting,
  accepted by the server, open, closing, closed; error and close events are
  steps of the browser. **Subscription** is what a page may rely on: events in
  order, each at most once, none after stop. Watch implements it with
  `active <- ~closed`.
- **ConfigVars** has no variables: the conversions between texts and typed values,
  rows and variables, and signatures. A text is accepted or rejected by a type as
  `strToTypedValue` does it; JavaScript's `Number("")` and NaN are there, and so is
  Infinity, which `Wire` (JSON.stringify) turns into null. Sorting is written as the
  choice of the increasing enumeration, and filtering as picking places, so that
  both can be proved about.
- **ScopeEditor**: the Config page and its editor, the server's config handlers,
  other operators, and a peer whose revisions arrive and replace an entry of the
  history that has the same number (`putConfigRevisionRaw`). `gen` counts, per scope,
  the deletions and replacements: within one generation a number names the same
  variables. `jobs` holds the requests: sent, served, answered, in any
  order, or failed. A job carries the `mount` of the editor that sent it. The
  differences in the history dialog, cut to 140 characters, are left out.
- **ServicePage**: the page of one service. `service` and `insts` are its copies,
  `svc` and `inst` the server's records. A job is judged on the service the
  handler read (`seen`) and committed in a later step, as the handlers do it.
  The search for a user is answered to administrators and refused to others.
  `wanted` (the last block request carried out) and `missed` (an event or an
  answer was lost or overtaken) are history variables.
- **Session**: AuthProvider, the handshake with corp-ui, the guards of the routes,
  the login form and the top bar. `calls` holds its requests. `mayRead` says whom the
  server lets read: a signed-in user by his permissions, an anonymous one if
  DISCOVERY_ALLOW_ANON_READ is on; `requireRead` is the server's test.
- **Pages** has what the pages share (catalogue, requests, events): a request is
  refused when requireRead fails at the time it is served, as after the session
  ended. **Dashboard**, **ServicesPage** and **OtherPages** (Cluster, Tokens, Audit)
  are the pages, and **Console** composes them with Session: when the route changes,
  the old page is unmounted and its answers find nobody, but `create()` goes on.

Each read-only request of the UI is answered from one state of the server; a job
that equals another in every respect is one with it.

Operators named after another with a suffix (`RemoveUnchecked`) are plausible
bugs. They are in no specification: with the original replaced by one of them,
TLC finds the property violated that `PROJECT.json` names.

## 3. Runs

| run | checks | instance | shows |
|---|---|---|---|
| store | TypeOK, NoOrphans, RenameMovesItsInstances, UnblockOnlyByOperator | names a, b, b/c, ids i, c/i, 2 instances stored at once, clock to 1, 1 request between stamp and commit | all handlers of one node, with keys that two instances share |
| cluster_safety | TypeOK, NoEcho, SameStampSameRecord, SettledMeansAgreed | 2 nodes, 2 names, 2 writes of all nine kinds, 1 fault, queue of 1 | replication without echo; nodes with nothing to learn from each other agree |
| cluster_convergence | Convergence | 2 nodes, 2 writes of four kinds, skewed clocks, queue of 1, no crash, gossip that need not arrive | anti-entropy alone is enough, deletions included |
| health_liveness | DownIsDeserved, DeadGoesDown, AliveComesBack, ProbedComesUp | 1 instance, all modes, TTL 2 or 0, interval 2 | verdicts on stale copies are corrected, none comes from nothing, TTL 0 never expires |
| config | ActiveIsNewest, ArrivalOrderIrrelevant, SettledMeansAgreed, IsRegister, Convergence | 2 nodes, 3 operations of all six kinds (deletion of an outer scope included), 2 stamps, 1 fault, skewed clocks | the active revision and the history, by refinement of Register |
| affinity | StickyThreeQuarters | 2 instances, 1 pick at a time, TTL 4, clock to 12 | stickiness |
| hub | TypeOK, HubNeverPanics, NoSilentGap, NoLeak | 2 connections, 3 events, both buffers of size 1 | the fan-out |
| watch | TypeOK, OneConnection, Subscribes, KeepsTrying | 6 sockets, 3 events | reconnecting, by refinement of Subscription |
| scope_editor | TypeOK, CleanMeansLoaded, ShowsSelectedScope, BigEditHitsItsRow, RollbackPublishesWhatWasShown | 2 scopes, one with a draft of a null, one key and the blank one, 2 rows; typed are a text that JSON rejects and a number that becomes null; 2 edits, 2 writes, 4 of both and of others' together, 2 requests at a time, a peer's revisions up to 2 numbers ahead | the editor shows and publishes what the operator means |
| editor_rug | RugStays | the same, other texts and types | *violated*, see findings |
| service_page | TypeOK, QuietMeansCurrent, OfferedIsAllowed, BlockHolds | 2 names, 2 ids, 2 users, 2 requests at a time, 2 steps of requests, others and failures; a save changes the name or the visibility, not both | stale copies against two-step handlers |
| console | CardsAddUp, PollingCatchesUp, NothingSpinsForever, EmbeddedKeepsToken | 2 names, 2 ids, 2 requests at a time, 2 faults, user or administrator, embedded or not, any who may read | session, routes and pages together |

**Why the bounds are enough.** Every conflict in this code is between two writes of
one record, or between a write and a copy read earlier: two nodes, two names (a
rename needs both) and one id give all pairs. Two names of which one continues the
other, and two ids likewise, give every way in which two instances share a key or a
prefix. A buffer of one is full after one event, so dropping happens at once; three
events give a full buffer, a dropped client and a later event. TTL 4 is the least
with an exact quarter, and 12 ticks are three windows, so a binding is made, renewed
and lost. With 2 stamps and skewed clocks the two writes happen in both stamp
orders. The theorems remove the bounds for every safety property of the passing
runs. In the UI every conflict is between two requests, or between a request and a
change by someone else: two requests at a time and two counted steps give all pairs,
in every order of being sent, served and answered (in the editor, an edit or a
publication by someone else comes on top). Six sockets take the retry delay to its
maximum and once beyond.

**Fairness.** Cluster: goroutines run (WF of Broadcast, of the second half of
ApplyRemote, of an anti-entropy round), and SF of pulling from each peer, since
`runAntiEntropy` ranges over a map and Go randomises the order. Nothing is
assumed of gossip. ConfigStore: the same, WF of ApplySnapshot and SF of Pull.
Health: WF of time, of the ticker and of the work on a copy (every probe has a
timeout), and of plain heartbeats of a live instance in heartbeat mode; none for
`/check`. Hub: WF of the broadcaster, of the reader (its deadline is 60 s,
extended only by pongs) and of the writer (10 s per write). In none of them is
the environment (callers, peers, processes) fair. Watch: WF of the timer and of
the close event, which the browser guarantees. Console: WF of the polling timers,
of the server taking and the browser handling the requests of a poll, of the
requests of the pages that are not repeated, and of the session's requests;
nothing of the user, of the watch, and of the handshake, which has no time limit.
The requests are three groups, of the polls, of clicks and the rest, each fair on its
own, since the server and the browser do not let one kind wait for ever behind
another. A refusal is an answer; PollingCatchesUp is about a dashboard that may read.
Deadlock checking is off in `hub`, where the events are used up and all
connections may be closed, and in the runs of the UI, where a page may be left,
a watch stopped, and the user may do nothing more.

## 4. Theorems

All are proved for any sets of names, nodes or connections and any bounds. Every
invariant and every action property that a passing run checks is the statement of
one of them, and so are the two refinements. The type invariants of ConfigStore
and Affinity, and NeverBackwards, which IsRegister implies, are theorems only:
no run repeats them.

- **StoreProofs.** `StoreInv` = TypeOK, NoOrphans and `Filed` (a record is stored
  under the key made of the service and the id it says) is inductive
  (`StoreInvariant`), whatever slashes names and ids have and whatever the cursor of a
  rename meets. Hence `TypeCorrect` and `NoOrphansEver`. `RenameIsSafe`, about names
  without slashes: RenameService looks for a conflict among the services only, which
  is enough because instances never lack one (NoOrphans); and since the first segment
  of a key is then the name of its service, the scan under the old name finds its own
  instances, and meets nothing that it wrote itself. Ids may have slashes.
  `OnlyOperatorUnblocks` holds with shared keys too: a write that finds another
  instance under its key does not clear the block of that instance, it replaces it.
  The steps rest on one lemma per transaction of Catalog.
- **ConfigProofs.** ActiveIsNewest (for a history that was not deleted with an outer
  scope) is not inductive: a late message may carry anything. `ConfigInv` adds that
  every copy, stored or under way in a message or snapshot, is of a published
  revision, and that a stamp identifies a published revision. `ActiveNewest` and
  `TypeCorrect` follow, and `ActiveForward` (an action property) is proved from the
  same invariant. `ArrivalsCommute` says of putConfigRevisionRaw that order and
  repetition of arrivals do not matter: it takes two maxima, of the active revision
  and of the entry of the history (`PutRevisionMaxima`), and maxima commute when no
  two revisions tie, which is what the invariant's "a stamp identifies a revision"
  excludes. By the same exclusion `SettledNodesAgree`: nodes with nothing to learn
  from each other have the same active revision and history, so what keeps them
  apart is only what has not arrived. `ImplementsRegister` maps every step to one of
  Register or to a stutter: a revision that arrives may be taken over because
  somebody published it, which is the invariant, and a rollback is a Publish when it
  commits.
- **NodeProofs**, Hub and Health. `HubInv` adds to HubNeverPanics that a connection
  not yet opened is not in the hub and its channel is open (`NeverPanics`).
  `FlowInv` says where each event is: what was written to a client is a run of the
  broadcast events from where it joined, what is in its channel is the run after
  that, and while it is served the two reach to the end. `NothingMissed` follows by
  lemmas on sequences. `TypeInv` adds to TypeOK an account of the events (those
  relayed and those in the subscription are no more than those emitted), without
  which the number of an event could leave its range; `TypeCorrect` says that no
  buffer exceeds its capacity. Of Health, `HealthInv` adds to DownIsDeserved what
  the copies under way may do: a copy that is silent for longer than its TTL, and a
  verdict against the instance, both imply that it was late. Hence
  `DownOnlyIfDeserved`, for all TTLs, 0 included, and all statuses that clients may
  send.
- **AffinityProofs.** What a pick answers depends on candidates and a clock reading
  it took some steps ago, so the stored binding says too little. `PickInv` adds what
  a pick under way knows: its candidates include the instance of the last answer,
  it deletes only a binding that has expired, and chooses afresh only when the
  window is over. `KeepsItsInstance` follows under the hypothesis OneAtATime, that the
  picks of a token follow each other (the run has one request for this reason; two
  at the same time may get two instances, and the later answer holds).
  `PickTypeCorrect` needs no hypothesis.
- **ClusterProofs.** SameStampSameRecord speaks of stored records only and is not
  inductive: a copy on its way may differ from both. `ClusterInv` has three parts.
  `Agreement`: over *all* copies of a record (stored, in a subscription, in gossip,
  between the two halves of ApplyRemote, in a snapshot) equal stamps mean equal
  records, and every stamp was taken by a write. `Origins`: what an event's origin
  says of its writer, per place. `Typed`: types and capacities. A write takes a
  stamp nobody has, which is why it keeps Agreement; everything else only moves
  copies. `StampIdentifiesRecord`, `OnlyWriterBroadcasts` and `TypeCorrect` follow,
  and with Agreement also `SettledNodesAgree`: if neither of two snapshots would
  change the other node, every record has the same stamp on both and is the same.
- **ServicePageProofs.** QuietMeansCurrent is about quiet states, so the invariant
  has to say what brings the page there: `Following` says that as long as nothing
  was missed, an event is on its way, or a refresh is under way whose parts read so
  far are still what the server has, or only refreshes are left that will notice
  they are late and the page is current. `JobsInv` says that a request was offered
  on a copy that permits it and is denied only if what the server read does not; the
  search for users is no such request, and its refusals are not covered.
  `QuietPageIsCurrent`, `OffersAreAllowed`, `BlocksHold` and `TypeCorrect` follow.
- **ScopeEditorProofs**, in two layers. `Inv` is about copies: the history in a
  copy, on the screen or in an answer, is part of the server's, unless the scope was
  deleted or a peer's revision replaced an entry since (`gen`); and what the mounted
  editor asked is about the scope it shows. Hence `ShowsTheRightScope` and
  `RollbackIsWhatWasShown`; across generations a rollback does name other variables
  than were shown. `EditInv` is about rows: variables are values that read back as
  they are, a null of another type than json apart, rows have ids below the counter
  and of their own, the rows as loaded come from the copy shown, and an open dialog
  knows the key of its row if that row is there. Hence `TypeCorrect`, `BigEditHits`
  (reloaded rows have new ids) and `CleanIsLoaded`, which is the lemmas
  `SignatureTells` (rows with one signature mean the same and parse alike) and
  `RoundTrip` (variables survive the way into rows and back, but for the nulls,
  which come back as blank). Sorting and filtering for every length are proved from
  the least counterexample (`LeastElement`), the one form of induction that names no
  operator.
- **BrowserProofs**, Watch, Session and Dashboard. `Conn` says that there is exactly
  one socket that has not finished closing or one pending retry until the page stops
  watching, and never both; it is inductive with TypeOK. `NeverTwoConnections` and
  `TypeCorrect` follow. `Queues` adds that every queue is ordered and newer than
  what the page has seen; that needs Conn, since handing over an event of one socket
  would break the order of another's queue. With it every step is a step of
  Subscription or a stutter: `ImplementsSubscription`. `TokenInv` is about the
  session: while the handshake is under way nobody has asked who is signed in, so no
  page is shown that has a Sign out button; and a token implies embedded mode, which
  hides it. Hence `TokenKept`. `CardsAlwaysAddUp`: aggregate folds a loop body over
  the instances in some order, and CardsAddUp compares it with sums, which are folds
  too. `AggregateCounts` shows that every order comes to the closed form in which
  each counter is the size of the set it counts, `ClassesAddUp` that the sizes of a
  partition's classes sum up to the whole. The induction is `FoldsAgree`: two
  functions on the subsets of one finite set that agree wherever they agree on one
  element less are equal. `ListsInv` says that all lists, also those under way in
  answers, are finite; that the two lists are of the same time is not needed.

**Assumptions.** The named ASSUMEs of the modules, which TLC evaluates: `Absent` is
no record and no node, bounds are natural numbers, capacities are positive; names of
Cluster have no slash; names and ids of Cluster and the services registered at first
in Pages are finite sets, as a bbolt file is finite and a rename lists what it
moves; the variables of ScopeEditor, those present at first and those other
operators publish, are such as editors post: keys trimmed and not blank
(`validateConfigVars` refuses blank ones) and values as `strToTypedValue` returns
them and JSON carries them, nulls included. Besides: bbolt serialises transactions,
and two writes never carry the same nanosecond.

**Only model-checked.** Everything under fairness, which the prover does not reach:
Convergence of Cluster and of ConfigStore (SettledNodesAgree is its safety half:
that nodes which stop learning agree; that they do stop is TLC's), NoLeak,
DeadGoesDown, AliveComesBack, ProbedComesUp, KeepsTrying, PollingCatchesUp and
NothingSpinsForever. RugStays is false, see below.

## 5. Findings

What a comment of the repository says and the code does not do; the run has the
counterexample.

- *A reload replaces unsaved edits* (`editor_rug`). When a config event arrives,
  the editor reloads only if the rows have no unsaved edits
  (`ConfigScopeEditor.tsx:67`, "Don't yank the rug out from under unsaved local
  edits."). It looks when it sends the request; what is typed before the answer
  arrives is replaced by it, and counts as clean.

## 6. Known limits of the code

Behaviour met while modelling that no property covers, or that a property excludes.
The first eight are at odds with a comment or document, which is quoted; the rest
nothing promises otherwise.

- *Names with slashes.* PutInstance creates a stub for any name and RenameService
  accepts any new one. With the services `b` and `b/c` stored, renaming `b` moves the
  instances of `b/c` too and makes them its own, renaming another service to `b/c`
  writes over the instance `c/i` of `b` (`rename.go:14`, "atomically moves a Service and
  all its Instances to a new name"; `types.go:194`, "service name must not contain
  whitespace or slashes"), registering `i` of `b/c` replaces `c/i` of `b` and inherits
  its block, and deleting `b` deletes the instances of `b/c`. All are behaviours of
  Store; RenameMovesItsInstances is about names without slashes, and Cluster assumes
  them.
- *Scope ids with slashes.* Deleting the scope `service:a` deletes the history of
  `service:a/b` too, whose active revision stays: clients read a revision that no
  rollback can name (`config.go:260`, "removes a scope entirely: active, all history,
  and draft"; `README.md:269`, "you can roll back to any past revision").
  ActiveIsNewest excludes it by `cut`. ConfigHistory lists by the same prefix
  (`config.go:93-113`), so that the history of `service:a` shows revisions of
  `service:a/b`; ScopeEditor assumes that no scope id continues another.
- *Search for users.* The page offers Find to every owner of a service, and
  searchCorpUsers refuses it to everyone but administrators, so that an owner who is
  none can never add a grant (`README.md:226`, "Grants (owner or admin only)";
  `auth_handlers.go:161`, "so the grants editor can autocomplete usernames/emails").
- A client whose instance is deleted and registered again is no longer blocked:
  the block is carried over from the stored record (`types.go:149-150`, "so a
  self-managed client can't un-block itself"). UnblockOnlyByOperator is about
  stored instances.
- ApplyRemote compares in one transaction and writes in another, so an API write
  in between is overwritten by an older record (`bolt.go:502`, "Last-write-wins on
  UpdatedAt timestamps"). Convergence holds all the same.
- After a rename no event removes the instances under the old name on peers, and
  anti-entropy brings them back (`rename.go:18-19`, "never both").
- TTL expiry turns draining into down, and the next plain heartbeat down into up
  (`bolt.go:256-258`, "a heartbeat shouldn't undo them").
- Two nodes give out the same revision number for different contents, and one
  revision leaves the history (`README.md:268-269`, "you can roll back to any past
  revision").

- A TTL of 0 means never: an instance in heartbeat mode that registered with it stays
  up when its process is gone (`Services.tsx:344` relies on it, "ttlSeconds: 0, //
  external endpoint — never TTL-expire"). DeadGoesDown excludes it.
- `deleteServiceRaw` does not cascade, so peers keep the instances of a deleted
  service until they delete them otherwise, and anti-entropy carries them back.
- Blocked is an ordinary field in replication: a re-registration on a node that
  has not seen the block wins with its later stamp.
- The checker decides on a copy, also when the instance was registered anew in
  mode none meanwhile.
- Drafts are replicated without any comparison: a published or discarded draft
  returns from a peer, and two drafts may change places forever.
- Deletions leave no tombstones: a scope, an instance or a token comes back from
  a peer that missed the deletion.
- The affinity sweeper, and GetAffinity, delete a key they found expired without
  looking again, so a binding renewed meanwhile is lost.
- A pick slides the window only when a quarter of the TTL has passed, so the
  guaranteed window is three quarters of it (StickyThreeQuarters); the
  repository's README speaks of the TTL.
- emit drops an event when the hub's subscription (512) is full. All watchers
  then miss it and none can tell: NoSilentGap is about what the hub broadcast.
- After shutdown of the hub the connections stay open until their peers leave.
- Grants: the handlers put back the whole record they read, so two changes at a
  time lose one, and a change of the settings restores a removed grant.
- Service page: Save with a new name sends the PUT and the rename side by side, and
  a PUT that comes second creates the old name again; a Create whose answer is lost
  and that is repeated registers a second instance; the answer to a save closes the
  dialog that is open by then; the user found may be the one typed before, whom the
  page then names; the config editor on the page has no key, so that after a rename
  it is the same editor with another scope.
- `configGetScope` reads active revision, draft and history one after the other, so
  that an answer may mix three states. ScopeEditor reads them in three steps; the
  properties of the editor compare what it shows with what it got, not the three
  parts with each other.
- `TypedValue.Validate` lets a JSON null pass for types other than json, and keys
  may have blanks around them. The editor shows such a null as an empty text, trims
  such a key, and takes itself for clean. No editor posts blanks around a key, but
  it does post nulls: "Infinity", or a numeral too long for a double, passes
  `Number()` (`configvars.ts:27-30`), JSON.stringify writes null, and the reload
  shows an empty row. CleanMeansLoaded is about the values that are not null.
- A rollback goes by number. When a peer's later revision of the same number has
  replaced the entry since the dialog was opened, or the scope was deleted and written
  anew, other variables are published than were shown;
  RollbackPublishesWhatWasShown excludes this by `gen`. The dialog's differences are
  texts cut to 140 characters with blanks collapsed, so that two values may look alike.
- Dashboard: where anonymous read is off and the session has ended, every poll is
  refused, and the page goes on to show what it had, as "live" (`Dashboard.tsx:40`
  takes it for "transient; keep last view"). A signed-in user without the permission
  to read is refused although anonymous read is on.
- Service page: an answer that overtakes a later one leaves an old copy on the screen
  until the next event; QuietMeansCurrent excludes it by `missed`.
- Services list: a repeated create registers the instance again, and the answer to a
  create that was cancelled empties the form opened since. The list counts blocked
  instances as up, the dashboard does not.
- Session: the first answer about the user, when it comes late, signs out who has
  signed in meanwhile; `CorpSDK.ready()` has no time limit.
- Tokens: the card says Loading for ever when its list fails other than with 403, and
  a second click on Create mints a second token. Audit: answers for two filters may
  arrive in the wrong order.

## 7. Not modelled, and why

- *Semver*: a wrapper of a library. *Audit log*: append-only, no decision reads
  it. *Process, TLS, CORS, routing, logging*: plumbing. *Vendored code*: bbolt and
  memberlist appear as assumptions.
- *UI kit* (`ui/components/ui`), About, theming and translations: a component library,
  most of it used by no page, with no state the properties tell apart. Of the pages:
  search and tags, statistics and charts, the Effective dialog, revealing and copying
  static tokens, badges and reports.
- `SetLastCheck`: a report for the UI that nothing reads. Weights, addresses and
  URLs of picks. Membership and join of the cluster.
- Roles: Store, Cluster and Health leave callers unrestricted, which allows more
  behaviours. ServicePage has the access rule, with a user who may write.

## 8. Plan

1. **ClientTokens**: minting limits and replicated revocation, on ConfigStore's
   pattern.
2. **ConfigResolve**: the merge of scopes, filters and ETag as pure operators
   against a reference definition, and the Effective dialog with it; weightedPick
   and the rings of stats.
3. **Health x Cluster**: verdicts and heartbeats that travel. **Affinity** with
   several clients of one token and replicated bindings.
4. Proofs: KeepsItsInstance for several clients of one token, with the weaker
   promise that holds for them.
