# TLA+ verification of cmx-container

This directory holds TLA+ models of the parts of cmx-container in which several
actors act on the same state: the tasks, processes and machines of its Rust
services, and, on its native pages (the web pages shipped as plain JavaScript),
the user, the timers and the answers of services that arrive late, in any order or
not at all. TLC configurations check the models on small instances, and TLAPS
checks proofs about the job manager (one node, and several around one table), the
Redis lock, the queue of the report designer, and sixteen pages of processes,
tasks, the portal and data. Paths are those of
the modelled commit; `manager.rs` is
`src/crates/libs/cmx-job/cmx-job-core/src/manager.rs`, and a page is named by its
file, whose directory stands in the inventory.

1. Inventory
2. Modules
3. Runs
4. Fairness
5. Proofs
6. Not modelled
7. Disagreements between the code and what it says or its users expect
8. Plan

## 1. Inventory

### Services

A container process serves HTTP (axum, `cmx-web-chassis` and the `cmx-apis`),
executes plugins (WebAssembly) and orchestrations over them, and shares
PostgreSQL and Redis with other instances of itself. Nearly everything is
request-scoped code between a handler and a database; the state that outlives a
request is in the components of this table (paths below `src/crates/libs/`).

| component | state | operations | who it meets | what is hard |
|---|---|---|---|---|
| Job manager, `cmx-job/cmx-job-core/src/manager.rs`, `context.rs`, `runtime.rs` | memory table of jobs, `active_singletons`, `controls` (a watch channel per job), semaphore | submit, restart, pause, resume, cancel, archive, recover; the task of each job | HTTP handlers, job handlers (checkpoints), job store | every map is concurrent and no operation is a critical section; one channel value is shared by all requests; database writes are spawned and never awaited |
| Job manager, distributed mode, same file | the rows of `cmx_job`; per node table, channels and permits | three loops per node: claim, heartbeat and reaper, control intents | other nodes through the table only | a claim against a submission, a reaper against a slow owner, intents against claims, crashes |
| Job store, `cmx-job/cmx-job-store-pg/src/lib.rs` | `cmx_job`, `cmx_job_hi` | single statements, one transaction (archive) | PostgreSQL | statements name a job and not its owner; failures are logged only |
| Job event hub, `cmx-job-core/src/event.rs` | lists of subscribers | subscribe, broadcast, clear | SSE handlers | subscribe against clear, snapshot against first event |
| Redis lock, `cmx-infra/cmx-buffer/src/lock/manager.rs` | a Redis key; a flag and a watchdog per guard | lock, try_lock, extend, unlock, drop | Redis, migration runner | the key expires by itself; answers may be lost; late unlocks |
| Migration runner, `cmx-infra/cmx-database-pg/src/migration/runner.rs` | migration table, the lock | run on start | Redis lock, database | the holder dies or its lock expires; "lock free" is read as "finished" |
| Database transactions, `cmx-infra/cmx-database-pg/src/transaction/` | holder and nesting counter per `Dbx`, global registry, connection pool, clean-up channel | begin (propagation), commit, rollback, use by id, drop | orchestrator, code engine, document saver | check-then-act in `do_required`; a failed COMMIT; connections return to the pool as they are |
| Orchestrator, `cmx-service/src/orchestrator/` | active guard, transaction id in the context | enter and leave a transaction box | database transactions | error paths that clear one of two copies |
| Circuit breaker of service RPC, `cmx-infra/cmx-service-rpc/src/guard.rs`, `lib.rs` | failure count, opening time, probing flag per target | check, record_success, record_failure | every outgoing call | the probe that reports nothing; late answers |
| Tokens and sessions, `cmx-infra/cmx-auth/src/` | refresh tokens, sessions and revocations in Redis | login, refresh, logout, kick | Redis, Pub/Sub to other nodes | rotation and storing are two steps; count-then-add |
| Code engine (serial numbers), `cmx-code/` | `cmx_code_seq`, gap table, numbers in business tables | allocate, take a gap, record a gap | transactions of the savers | row locks outside a transaction; first use; width overflow |
| Plugin synchronisation, `cmx-plugin/src/cluster/`, `src/service/plugin_sync.rs` | plugins in memory, versions in the database | install, upgrade, remove, notify | Redis Pub/Sub | lost and reordered notifications |
| AI session registry, `cmx-ai/src/session_registry.rs` | stream lock, pending question, subscribers per session | acquire, release, ask, answer, broadcast | SSE handlers | a slot that is overwritten, a release by whoever ends |

The remaining crates (engines for documents, dictionaries and models, IAM
queries, storage, audit, Nacos, the SDK, developer tools, proxies, macros,
utilities) keep no state that concurrent actors share, or only wrap an external
service.

### Native pages

The pages are single files without a framework: one state object, handlers that
change it, a render that redraws from it, and one fetch function. They make up
most of the implementation lines of the repository. A page is a concurrent
program: a handler runs up to its first `await`, then the user, a timer, an event
of a stream or the answer to another request may run, and the rest of the
handler finds what they left. Pages share no memory; they meet through the
services, which are not part of the page files and are modelled as far as a page
can tell what they do (marked external in the map of `PROJECT.json`).

| page | state | operations | what is hard |
|---|---|---|---|
| Report designer, `src/assets/report/web/ui-native/rpt/designer.js` | bindings of cells, floating regions, formulas and badges; a queue of operations; layout with hash and mark of edits; the ribbon's style | bind, insert and delete rows, undo, redo, reopen; flush and poll operations; load and save a layout; write formulas; format; maintain data routes | positions are keys and shift; batches overlap, fail or are executed without an answer; timers outlive the page; a panel commits after the selection has moved |
| Report filler, `report-applier.js` beside it | period, view, values, floating rows, outline | choose a period, load, edit, compute, save; maintain rows | answers to a view that has been replaced |
| Formula engine, `formula-eval.js` beside it | none | tokenise, parse, evaluate | precedence, empty values, errors, ranges |
| Report workbenches, `consol-workbench.js`, `designer-workbench.js`, `report-app-workbench.js` beside it | selections, details, dialogs, tabs | load, select, run, create, delete, open | chains of requests, busy signs taken back by several answers |
| Process designer, `src/assets/flow/web/ui-native/flow/definition-workbench.js` and `design-workbench.js` | canvas, draft with its time stamp, version shown, channel, variables, marks, navigation into subflows | load, save, publish, import, collaborate, edit properties, lay out, trial run, compare, enter and leave a subflow, activate and delete versions | one canvas for many diagrams; a base that changes between conflict and answer; replay of remote operations |
| To-do centre and task form, `todo-center.js`, `task-form.js` beside it | lists, pages, chosen task, trail; state of each form | claim, transfer, cancel, approve, reject, return, start | a task answered twice; the trail inferred from what is left behind |
| Data sources, `src/assets/portal/data/native-pages/sources/portal/datasource/cluster-datasource.js` | list, state of a database, plan under review, streams | choose, initialise, deploy, agree, stop | two-phase plan while everything around it may change |
| Job monitor, `.../portal/job/job-monitor.js` | live rows, chosen job with its stream, history | follow, control, page | stream, snapshot and answers overtake each other |
| Registry, directory, help, `.../portal/system/registry-editor.js`, `.../portal/dam/registry-center.js`, `.../portal/help/center.js` | trees, drafts, history | rename, merge, import, save; select; back and forward | windows over one storage; selection that outlives its record |
| Dictionary data, `src/assets/model/web/ui-native/portal/dct/data-editor.js` | rows, edits, baseline, tree with cached children | edit, save, delete, import, switch dictionary | partial refusals, optimistic lock, chain of loads |
| Ontology, `src/assets/onto/web/ui-native/onto/designer.js` | manifest, graph, detail, rows, ticks | edit, save, create, delete, relate, publish, try | a detail that answers late; keys with objects under them |
| Change request, `src/assets/mdm/web/ui-native/portal/mdm/cr-form.js` | steps, head, lines, deletions, status | look for duplicates, save, submit, review, withdraw | creation by the first of several requests |

`PROJECT.json` lists all components with the reason where one is not modelled,
and under `hazards` the places where the code can go wrong in a way a test would
hardly reach.

What makes each component correct:

* jobs, one node: a job moves through the documented life cycle; at most
  `max_concurrency` are active; no permit is lost; an ended job stays ended and
  its handler is not at work; a stop takes effect; the row follows the job;
  recovery treats every unfinished row; one instance of a singleton kind;
* jobs, several nodes: a job is not at work twice; an active row has an owner
  that beats; Pending rows are claimed; rows of dead owners come back;
* lock: whoever holds a guard without a lease holds the key; only the owner
  ends a lock; a lock that was left behind goes away;
* migrations: each is applied once, and no node serves before they are done;
* transactions: what was rolled back is not committed, and no connection with
  an open transaction is handed to somebody else;
* breaker: after a cooldown a healthy target is called again;
* tokens: one live refresh token per session, and a used one is refused;
* serial numbers: never issued twice;
* plugins: every node ends with the version in the database;
* report pages: no edit is lost or doubled, a binding stays with its cell, a
  formula is computed as it is written, a value is stored where it was typed;
* process pages: nobody's newer work is replaced unseen, a definition stays
  whole, pages on one draft agree in the end, a task is answered once;
* portal pages: only what was agreed to is executed, what is shown is of what is
  chosen, trees stay trees;
* every page: each wait ends, and a late answer changes nothing it was not
  asked for.

## 2. Modules

| module | models |
|---|---|
| `JobModel` | statuses, their classes, control values (`model.rs`, `context.rs`) |
| `JobLifecycle` | abstract specification: the state machine of `JobStatus` and the concurrency bound |
| `JobCenter` | the manager of one process with its store and crash recovery |
| `MCJobCenter` | instances of `JobCenter` |
| `JobCenterProofs` | theorems about `JobCenter` for all values of its constants |
| `JobCluster` | managers of several nodes around one table |
| `JobLease` | abstract specification: a job has one holder at a time |
| `JobClusterProofs` | theorems about `JobCluster`, and that it implements `JobLease` |
| `DistributedLock` | the Redis lock with its watchdog, and theorems about it |
| `PageRequests` | what the pages have in common: requests, their states, answers; lemmas about them |
| `ReportDesigner` | keys that shift; bindings, regions, snapshots, undo and reopening |
| `ReportSync` | the queue of operations, batches, polling, the timers of open reports; theorems about it |
| `ReportLayout` | opening, editing and saving a layout with its hash |
| `ReportPanels`, `ReportFormat`, `ReportRoutes` | formula bar, editor, wizard and badges; the ribbon; the dialog of data routes |
| `ReportApplier`, `ReportFloat` | filling a report; its floating rows, columns and outline |
| `FormulaEval` | grammar, values and functions of the formula engine |
| `ReportConsol`, `ReportCatalog`, `ReportTasks` | the three workbenches |
| `FlowDraft`, `FlowCollab` | drafts, conflicts, publication, import; the channel of a draft |
| `FlowProperty`, `FlowVars`, `FlowViews`, `FlowLayout` | property panel; declared variables; outline, map, trial and comparison; the generated diagram |
| `FlowVersions`, `FlowSubflow` | list, versions and activation; subflows edited in place |
| `FlowTodo`, `FlowTask`, `FlowTrail` | to-do centre; task and start form; the trail both compute |
| `PortalDeploy`, `PortalJobs`, `PortalRegistry`, `PortalDam`, `PortalHelp` | the portal's pages |
| `DctEditor`, `DctTree`, `OntoDesigner`, `MdmRequest` | dictionary rows and tree; ontology; change request |
| `PortalProofs` | theorems about `FlowDraft`, `FlowTask`, `FlowCollab`, `FlowSubflow`, `FlowTodo`, `FlowVars`, `FlowProperty`, `PortalJobs`, `PortalHelp`, `PortalDam` |
| `DataProofs` | theorems about `MdmRequest`, `PortalRegistry`, `PortalDeploy`, `DctEditor`, `DctTree`, `OntoDesigner` |
| `MCReportPages` | the report pages on small instances |
| `MCPortalPages` | all other pages on small instances, and theorems about what is followed |

In `PROJECT.json` a definition has the lines of the code it stands for; one
without a row there translates part of the lines of the definition that uses it.

### JobCenter

The manager runs on a multi-threaded tokio runtime, so another task can run
between any two accesses to its concurrent maps, not only at an `.await`. Every
operation is therefore cut at each access to shared state that others can see,
and the position of an actor is a variable:

| variable | code |
|---|---|
| `table` | `inner.table`, the status of each job; Absent when there is no entry |
| `lock` | `inner.active_singletons` |
| `open`, `signal` | `inner.controls` and the value of each watch channel |
| `free` | the permits of `inner.sem` |
| `sub[j]` | how far `submit()` has come: checked, listed, locked, done |
| `task[j]` | how far `run_job`, `execute_core` and the handler have come |
| `result[j]` | how the handler ended, then the status `execute_core` makes of it |
| `client[c]` | the request a caller of pause, resume, cancel or archive is in |
| `writes` | spawned statements that have not reached the database |
| `db`, `hist` | the rows in `cmx_job` and `cmx_job_hi` |
| `orphans`, `up` | what `recover()` still has to treat; the manager is published |

Actions carry the names of the functions: `Submit*` for the steps of
`submit()`, `Task*`, `TryStart`, `Enter`, `Checkpoint*`, `Wake`,
`HandlerReturn`, `Judge` for the task of a job, `*Send`, `MarkCancelling`,
`CancelQueued*`, `Archive*` for the callers, `Land` and `Lose` for the
database, `CrashRestart` and `Recover*` for a crash. A handler is any program
that works, reaches checkpoints and ends: at a checkpoint that reads Cancel it
may hand the error on, return Ok or an error of its own, or panic.

Abstractions: a job id is used once; kind and business key are one value
(`KindOf`); progress, parameters, results, log rows and events are left out;
a checkpoint reads the channel and updates the status in one step (nothing
else happens to that pair in between that a later read would not see);
identical writes under way are one element of `writes`; the map removals at the
end of `finish()` are one step after the write of the row.

### JobCluster

The distributed mode (`spawn_distributed_loops`, `run_claimed`, the routed
requests, and the six statements of the store). A row has status, owner,
heartbeat (none, fresh or stale) and intent. What one node does between two
database statements is one step here, because `JobCenter` already has the finer
cut and the questions are about the table; `archive()`, which waits for the
database, is cut there (`ArchiveRead`, `ArchiveStore`, `ArchiveDrop`). A query
that fails answers no rows, even when it was executed (`ClaimFails`). A claim
makes an execution (`run`); `tuned` are the executions that still listen to the
channel in `controls`, which `run_claimed` replaces and the end of an execution
removes. Time is `Expire`: a fresh heartbeat becomes stale. `Timely = TRUE` says
that happens only to rows whose owner does not beat and about which nothing is on
its way; `FALSE` lets it happen at any time, as the code does (an owner whose
heartbeat is held up for `owner_timeout_ms` is reaped, `cmx-job-store-pg/src/lib.rs:505`).
`InWindow` says whether a claim
or a request may meet a job between the commit of its INSERT and the end of
`submit()`; `submit_race` opens that window, the passing runs close it, so that
they show what holds beside the defect found there. `ArchiveFails` says in the same
way whether the transaction of `archive()` may be rolled back; `archive_race`
lets it. The constants are bounds of the runs only: the theorems speak of the
steps themselves (`Undisturbed`, section 5) and hold with the constants at either value.

`JobLease` says what the nodes may rely on, whichever of them asks: a job is
taken only while its row waits and nobody holds it, and its row goes back to
waiting, or ends, only after the holder has let go. In the mapping the holder is the
node that has claimed the job or shows it as active (`Holder`), and the phase is
read off the row (`Phase`): new before the INSERT, waiting, taken, ended, gone.
The writes, the requests on the way, the channels, the heartbeats and the intents
are hidden.

### DistributedLock

One Redis key with its TTL in seconds, and guards, each for one call of `lock`
or `try_lock` with or without a lease and a wait. `Interval` is the sleep of
the watchdog (`expire_seconds / 2`), `Threshold` is `expire_seconds *
renew_threshold`. The watchdog's TTL and EVAL are two steps (another guard can
act between them), and so are the flag set by `unlock` or drop and the script that
follows. `AskFails`, `UnlockFails` and `DogFails` are error answers, after the
command was executed or without it; the first of them ends the watchdog, also when the
renewal had been executed. A second passes (`Tick`) only when no
watchdog is due: a machine that stalls for a second is outside the model.

### The modules of the pages

Every page module has the same shape. `page` is a record with what the page's
state object holds, field by field where the names allow it; `wire` is the set
of requests on the way; `srv` is what the services hold as far as the page can
tell. (`ReportSync` and `ReportDesigner` have a variable for each part instead,
because their parts are read by different timers and stacks.) `PageRequests`
gives a request its life: the page asks (`status = "asked"`), the service serves
or refuses it in any order, the answer comes back in any order. An
action of the page is a handler from an event to its next `await`, or from the
`await` on: everything in one step reads the state as it is then and not as it
was when the request left, and that is the difference most properties are about.
A request carries what the closure of the handler remembers (`of`, `n`,
`period`, ...) and only that. A render that decides nothing has no step of its
own; one that starts a request, or forgets a choice, is part of the action that
ends in it. Debounced saves, animation frames and polls are timers: a value in
`page` that a separate action takes up.

Data are reduced to what the questions tell apart: a text is a version
number, a diagram the set of elements with a mark each, a plan the
pair of database and version it was made for, a formula a tree over a few
functions. A stored value is often known by where it came from (the period it
was typed for, the record a draft was made from), so that "the wrong one" can be
said.

`MCReportPages` composes the pages of the reports and `MCPortalPages` those of the
process designer, the to-do centre and the portal: a page is an INSTANCE with
small constants, the variable `focus` says which one a behaviour follows, and
`Followed` which may be followed. `PortalProofs` and `DataProofs` hold an INSTANCE
of each of their pages, with constants for its constants; `MCPortalPages` takes these
pages from there, so that the theorems come with them. The constants of its first
instances (`Portal`, `Data`) have their values in the `.cfg`; the others (`Narrow`,
`Ended`, `Saved`) replace some of them. The modules' names for the parts of a page
(`page`, `wire`, `srv`) are shared, as only one of them is followed at a time; two
pages have no state in common that they could disturb. A page whose behaviours
come in two kinds that would multiply each other has a second instance with other
bounds: `copy` (a draft copied and imported over), `desks` (designers opened in
tabs), `picks` (reports picked and opened for several organisations), `steps`
(what jobs do by themselves), `past` (the history of jobs), `saved` (several saves
of one object).

A property of a page is stated in its module, and the properties the composed
runs check (`EditsSurvive`, `WorkIsKept`,
`WritesAreAllowed`, ...) are conjunctions by theme of those of the pages. At
the end of most page modules stands a section *Wanted of the page, and not met by
the code*: formulas for what a user or a comment would expect and TLC refutes;
section 7 tells the stories.

Points of single modules:

* `ReportDesigner`: the spreadsheet engine is external: a column of cells with
  identities, so that "the cell a binding was made for" has a meaning after any
  insertions, deletions and undos.
* `FlowDraft`: `Stored` and `Began` are the drafts there are when the page is
  opened, and the stamp the service gives next; a page may be opened on any.
* `ReportDesigner`, further: a cell of the engine may have a formula of its own
  (`Native`), which `deriveProjection` saves as the formula of the semantic layer
  (2567). `UndoOf` says which structural changes are undone; in `report_pages` they are
  the insertions, as an undone deletion puts bindings where they do not belong
  (`UndoRestores`, section 7). `RemoteKinds` says which operations of others arrive.
* `ReportLayout`: the service is not in the repository. It is taken to refuse a hash
  that is not that of the stored layout; of a save without a hash (`contentHash: null`,
  2670) nothing is assumed.
* `ReportSync`: an operation is its number, and the log of the service says how
  often it holds each; an operation is logged once, by its identity; a batch may fail
  before or after it was executed. Structural operations may be rejected (2813-2816):
  they are answered and taken off the queue, and are not in the log (`refused`).
* `FlowDraft`, `FlowSubflow`: which keys are free is decided by the list on the page,
  not by the service. The list leaves out what may not be started (`Unlisted`;
  design-workbench.js 3775) and is empty after a request that failed (3777), so a key
  may be taken for free that has a draft.
* `FlowSubflow`: a binding may name the process it stands in, as any process can be
  chosen (design-workbench.js 1771-1776); saving the subflow is then aimed at the
  draft of the main process.
* `FormulaEval`: `Init` takes a tree of the grammar and writes it as tokens the
  way its author would; the steps are the two halves of the engine, reading and
  evaluating. `ReadAsMeant` compares what was read with what was meant; `Laws` are
  equations between formulas, errors included (De Morgan for AND, OR and NOT; AND
  and `&&` agree; a range is the same from any of its corners). Parser and
  evaluator are recursive operators, so this module carries no theorem.
* `FlowCollab`: two pages and the channel between them, with the echo of a page's
  own operations; `MayLose` lets an operation get lost.
* `FlowTrail`: a small engine moves tokens through one of three processes, and
  the trail is computed from what the pages see; the two copies of the code are
  two operators (`CopiesAgree`).
* `FlowLayout`: four nodes of several kinds, with every set of flows between
  them and one flow to a node that is not there; one step takes a node from the
  queue of the walk.
* `PortalDeploy`: a stream is a request with messages; stopping one leaves the
  service at work.

## 3. Runs

| run | instance | shows | size |
|---|---|---|---|
| `job_control` | 2 jobs of a singleton kind, 1 permit, 2 callers, no database | `PermitAccounting`, `SingletonAlive`, `TerminalIsFinal`, `ImplementsLifecycle` | 971,000 states |
| `job_store` | 1 job, 1 caller, database, 2 crashes, fairness | `IndInv`, `RowNeverRequeued`, `EndedStaysEnded`, `CancelTakesEffect` | 39,000 |
| `job_recover` | an idempotent and another job submitted together, 1 crash, 1 failed statement | `TypeOK`, `NoOrphanLeft` | 20,000 |
| `job_cluster` | 2 nodes, 1 job, 2 executions, 1 caller with 2 requests, 1 failed statement | `OwnerKnown`, `ActiveRowIsOwned`, `IndInv`, `ArchivedStaysGone` | 1.1 million |
| `job_cluster_crash` | 2 nodes, 1 job, 3 executions, 1 crash, 1 failed statement, 1 local request, fairness | `OneActiveOwner`, `NoDoubleExecution`, `ImplementsLease`, `OrphansReclaimed` | 147,000 |
| `submit_race` | the same with the window of `submit()` open | a violation of `NoDoubleExecution`, section 7 | seconds |
| `archive_race` | 2 nodes, 1 job, 3 executions, 1 caller, 1 failed statement, which may be that of an archive | a violation of `NoDoubleExecution`, section 7 | seconds |
| `redis_lock` | 2 guards, lifetime 4 s, threshold 3 s, leases of 0, 1 and 3 s, extensions of 3 and 6 s, waits up to 2 s, 1 failed answer, fairness | `TypeOK`, `LostStaysLost`, `OnlyOwnRelease`, `LeftLockExpires` | 126,000 |
| `report_pages` | the fourteen instances of `MCReportPages` | `PagesTyped`, `EditsSurvive`, `SignsAreTrue`, `FormulasMean`, `StepsStayInBounds` | 1.2 million |
| `report_waits` | operations and task page, fairness | `WaitsEnd` | 75,000 |
| `lww_converges` | two pages on one draft, no operation lost | a violation of `PagesConverge`, section 7 | seconds |
| `portal_pages` | the twenty-four instances of `MCPortalPages`; the channel of a draft may lose operations | `PagesTyped`, `SignsAreTrue`, `DefinitionsAreSound`, `TasksHandledOnce`, `WorkIsKept`, `StepsAreAsked`, `WritesAreAllowed`, `ShownIsChosen`, `RegistryIsWhole`, `StepsAreMeant` | 2.4 million |

What the properties of the services say:

* `EndedStaysEnded`: once the task of a job is over, its row has ended and no write of
  it is on the way, neither a caller that has read an older status, nor a crash, nor the
  recovery makes the job or its row live again.
* `LostStaysLost`: a guard that has lost the key, by expiry or by the unlock of its own
  that overtook it, does not get it back from its watchdog or from an extension.
* The others have their statement at the definition; those about two nodes hold in
  executions in which none of the four steps of `Undisturbed` is taken, which the
  constants `Timely`, `InWindow` and `ArchiveFails` see to, and `submit_race` and
  `archive_race` show what two of these steps do.

What the composed properties say, page by page:

* `EditsSurvive`: every operation the open report has recorded is in its queue, in
  a batch or in the log, and in the log once, unless the page was told that it is
  rejected (`sync`); an element stays with the
  cell it was bound to through insertions, deletions, and undone and redone insertions
  (`sheet`).
* `SignsAreTrue` (reports): with no redraw pending, the badges tell which cells
  have formulas (`panels`); the groups of the outline nest (`float`); two
  consolidations never run at a time, and the buttons wait for what a run loads
  (`consol`); the page says it loads while its overview is on the way (`catalog`).
* `FormulasMean`: what is read is the tree that was written, and the laws hold.
* `StepsStayInBounds`: a save with a hash never replaces a layout the page has not had
  on the screen (`layout`); the formula editor writes to the cell under its label, in
  both layers (`panels`); nothing but the fill command fills (`format`); a
  binding goes when its own deletion was confirmed (`routes`); a late answer to a
  view that was replaced does not reach its successor (`applier`); a refreshed tree
  holds the chosen organisation (`tasks`).
* `SignsAreTrue` (process): no empty page is shown while there are definitions
  (`versions`); boxes do not overlap (`layout`); outline and map show the canvas once the frames have run, and the
  trial's button is busy while its request is under way (`views`); the offered
  paths are those declared (`vars`); a step is shown as done only if the flow went
  through it and was not sent back over it, and both copies of the computation
  agree (`trail`); what is shown as under way is under way (`todo`).
* `DefinitionsAreSound`: a line has its ends on every page and a replay is not posted again (`collab`); a binding leads
  to a stored draft (`subflow`); a declaration holds nothing its type does not
  have (`vars`).
* `TasksHandledOnce`: one answer to a task is on the way at a time, a form that
  says it is handled is right, and outside the workspace it closes its tab.
* `WorkIsKept`: once the page has a base it replaces a draft only when it has
  loaded, stored or been told of the newest (`draft`, `copy`). Saves without a base are
  not meant: see `FlowSubflow!MainKeepsItsDraft` and `FlowDraft!CopyKeepsOthers` in
  section 7.
* `StepsAreAsked`: after a write of the panel a task has one kind of handler, the
  one shown (`property`); a cancellation, withdrawal or transfer comes from a
  dialog that named it (`todo`); a rejection or return carries a reason (`task`).
* `WritesAreAllowed`: nothing is executed that was not agreed to (`deploy`); the
  baseline of an edit is that of the row shown, and rows of the system are not
  deleted (`rows`); an entry of the page creates one document at most, and saving,
  submitting and calling off exclude each other (`mdm`).
* `ShownIsChosen`: the page does not stop loading (`deploy`); the open stream is of
  the chosen job, and the pager stands on a page of its list if that has any (`jobs`,
  `steps`, `past`); the
  chosen keys are those of the filter (`dam`); back and forward behave like a
  browser's (`help`); an open arrow has children or waits for them (`tree`); the
  inspector holds the element selected (`onto`, `saved`).
* `RegistryIsWhole`: the path on the page exists, and every key has its parents.
* `StepsAreMeant`: a save refused as a whole keeps every edit (`rows`); rows are
  asked for the node that is highlighted (`tree`); one bubble makes one relation
  (`onto`); a document is a draft again only by a withdrawal (`mdm`).

Why the bounds are enough. Jobs meet only through the semaphore and the
singleton table, both of which two jobs and one permit saturate; a third job
would wait like the second. Races on one job are between its task and two
callers (a third caller finds a state one of the two could have left, since all
of them read one status and write one channel). Two crashes cover a crash
during the recovery of a crash. In the cluster, nodes meet only in the row of
one job; two nodes are owner and successor, and the third execution of
`job_cluster_crash` lets a job that ran twice be claimed again. One lost
statement is a lost write, a lost claim answer or a lost archive at any point.

For the lock, two guards are holder and competitor. Lifetime 4 and threshold 3
have the relation of the values the repository's own test of the watchdog sets: with
the shipped ratio of 30 % the watchdog never renews (section 7), and `LeftLockExpires`
would not meet the renewals that could keep a left lock alive. `LostStaysLost` and
`OnlyOwnRelease` are proved for every lifetime and threshold. A
lease of less than a second (which Redis gets as 0), one shorter and one longer
than the sleep of the watchdog, and extensions shorter and longer than the default lifetime
are all the cases the code tells apart.

For the pages, what can overtake is what is on the way at the same time:
`MaxWire = 2` gives every pair of requests in every order; a third request is
answered into a state two could have left. The history of jobs has 3, because a
page of it is asked for by a control, a filter and the pager. `MaxWire = 1` is a
real limit of an instance: an answer may still come after whatever the user did
meanwhile, so late answers happen, but no request overtakes another. It is 1
where the rest of the page's state is large, and for some of these pages a second
instance of the same module, with a smaller state, has the pairs (the saved draft
in `FlowDraft` is one); for the others, which the composers show, overtaking
is not checked. `MaxChanges`
bounds the user's edits, or the others': two or three are an edit, an edit while
the first is on the way, and one after the answer; four where a change has to be
prepared. Two keys (definitions, periods, databases, windows of a form) are the
one that is shown and the one the late answer is for. Rows and cells are two
where a neighbour matters. `MaxVersions`, `MaxStamp`, `MaxTabs`, `MaxRows`,
`MaxDepth` and `MaxSessions` stop what the page numbers itself, one above what
it takes for a conflict. Where a page is bound in one respect, another instance of it
is not: `draft` has pairs of requests and one draft stored after the page was
opened, `copy` has two of those and single requests (and `DraftNeverBlind` has
neither bound; it begins with no stamp given); `jobs` has pairs of requests about jobs that move only when told to,
`steps` has jobs that go on by themselves.

The proofs of section 5 remove the bounds for `JobCenter`, `JobCluster`,
`DistributedLock`, `ReportSync` and sixteen of the pages of `portal_pages`: they hold
for any number of nodes, jobs, callers, guards, operations, tasks, drafts, people,
windows, rows and documents, and for any number of requests on the way.

`CHECK_DEADLOCK FALSE` is set everywhere: each system may stop, when all its
jobs or guards are used up, or when the user leaves the page alone.

Each property of a passing run has a mutant in `PROJECT.json`: a definition of
the model replaced by the form a plausible bug would give it (a permit not
given back in the early return, DEL without comparing the value, a claim without
a heartbeat, a save that clears edits made after it left, an answer that is not
compared with the choice, a dialog that asks about rows it may not delete),
under which TLC finds the property violated.

## 4. Fairness

`JobCenter`: weak fairness of every step of a task that does not depend on a
decision of the handler, since tokio polls what can run and PostgreSQL answers;
strong fairness of `TaskAcquire`, since the tokio semaphore is first come first
served. A working handler reaches its next checkpoint (the contract of
`checkpoint()`), but is not obliged to end. Callers finish a request they have
begun and never have to begin one. `CancelTakesEffect` is checked for one
caller; with two it fails, see `PauseOverCancel` in section 7.

`JobCluster`: the ticks of the claim and reaper loops, the end of `submit()`,
and the passing of `owner_timeout_ms` for a row nobody beats. Nothing is asked
of handlers, of heartbeats or of crashed nodes: a node need not come back.

`DistributedLock`: time passes, and a watchdog that is due runs. No caller has
to unlock, and an unlock need not reach Redis; `LeftLockExpires` holds even so.

Pages, in `report_waits`: a timer that is set fires (`PollStops`, `FlushOps`), a
request is answered in the end, with data or with an error, as a fetch settles
when its connection does, and the browser runs the handler of the answer. Nothing is
asked of the user. `WaitsEnd` says that a closed report leaves no polling timer
behind, and that both busy signs of the task page go although several answers set
and take them back. The other page runs check safety and assume no fairness.

## 5. Proofs

TLAPS checks 16 136 obligations: 77 theorems and the 352 lemmas they rest on. They
hold for all values of the constants that meet the assumptions of the modules.
Each component has an inductive invariant, of named parts; the proof that a step
keeps it has one lemma per action, or per action and part where an action disturbs
several. A handler that ends in a request is split in two: what it does to the
page, and that the request fits the page it was sent by.

### Services

`JobCenterProofs`. None of the safety properties is inductive: that a permit is
free when `TaskClose` gives one back, or that `finish()` gets a terminal status,
depends on where the other actors are. `IndInv` collects what is needed:

* `TypeOK`, `ResultOK`: types, and that a handler that has returned has left
  an end, after `Judge` a terminal status;
* `PermitAccounting`: free permits and holders add up to `MaxConcurrency`;
* `Fresh`: nothing of a job exists before `submit()` has listed it;
* `OrphansApart`, `Recovering`: an orphan lives in the database only, and while
  recovery works no request is served and every other unfinished row has its
  job in memory;
* `StatusFollowsTask`: an active status is backed by a task that executes, and
  a task that has started never sees Pending again;
* `ClientsRight`: what a caller has read stays true enough for its next step;
* `UpdatesAfterStart`: no spawned UPDATE says Pending.

`InvInit` and `InvStep` show that it is inductive, part by part and action by
action; TLC checks the same formula in `job_store`. From it follow
`TypeCorrectness`, `PermitsAccounted`, `EndIsFinal`, `RowsNeverRequeued`,
`SettledForGood` (what is over in memory and in the database stays over), `OrphansTreated` and `LifecycleImplemented`: every step of the
manager is a step of `JobLifecycle` with `status <- table`, or stutters. The
concurrency bound in that refinement is the one place where counting is needed:
the active jobs are among the permit holders without the job that is about to
start, hence fewer than `MaxConcurrency` (`RoomToStart`). `SingletonsAlone` is about
executions in which two steps are not taken (`SingletonsApart`): a submission of a
singleton kind beside another of the kind (`manager.rs:254`), and the recovery of an
orphan of such a kind (`:864`). The code takes both, and section 7 tells what then
happens; the theorem says that there is no third way to two live jobs of the kind,
with any number of callers and crashes. Its strengthening is `LockCovers` (the singleton
entry names the live job of its kind from `SubmitLock` on, and before that the
admission still stands).

`JobClusterProofs`. That two nodes never run a job at a time is a statement about
memories that cannot see each other; what ties them together is the row, and
what may be on its way to it. `IndInv` says of every job:

* `NotBeforeSubmitted`: until `submit()` is over nobody works at the job, and only
  the submitting node shows it, as Pending;
* `WritesAreOfOwner`: an UPDATE on its way is of the node that owns the row, whose
  heartbeat is fresh, and an end is on its way only when nobody works at the job
  any more;
* `RowShape`: a waiting row has no owner, an active one has an owner and a heartbeat;
* `WorkerIsOwner`: a node that has claimed the job, or shows it as active, is alive
  and alone in that, and owns the row, which is active with a fresh heartbeat, unless
  the row has been archived;
* `RunsAreBacked`: an execution at work is the only one of its job, nobody has
  claimed the job again, and its node shows it as active;
* `ArchivesAreOfEnded`: the row is gone for good when an archive drops the entry.

TLC checks the same formula in `job_cluster`. `Invariance`, and `OneOwner`,
`OwnersAreKnown`, `ActiveRowsAreOwned`, `NoDoubleRun` and `LeaseImplemented`, which
follow from it, are not promises of the code for all its executions, and it breaks them
(`submit_race`, `archive_race`, the reaped owner of section 7). They are
`Spec /\ [][Undisturbed]_vars => ...`: `Undisturbed` excludes four steps, each of which the
code does take, namely the expiry of a heartbeat whose owner is alive or about whose job
something is on its way (`lib.rs:505`), a request or a claim that meets a job whose
`submit()` has not ended (`manager.rs:329`), and the rollback of an archive
(`manager.rs:774`). What is proved is that there is no other way to two owners, two
handlers or an active row without an owner: whoever repairs these places has
repaired the property, and crashes, lost writes, claims whose answer is lost and any
number of nodes, jobs and callers need no further care. Two theorems need no such
condition: `TypeCorrectness`, and `ArchivedForGood`, which rests on
`InsertsAreAwaited` alone (late writes are UPDATEs, and an UPDATE does not bring a row
back).

`LeaseImplemented` shows that every step of the cluster is a step of `JobLease` under
the mapping of section 2. As one statement of the database moves several rows, the
step lemmas are about one job each, and a step of `JobLease` moves every job in its
own way. `IndInv` makes `Holder` unique, and gives the abstract guards: that a row
the reaper takes back, or a claim finds, is one nobody holds.

`DistributedLock`. `TypeCorrectness` and `LostForGood` need no assumption beyond the
types of the constants: no configuration, no lease and no failed answer lets a guard come
back to a key it has lost, as every script compares the value first. `OwnReleaseOnly`
assumes that nobody extends by less than a second (section 7). That a lock outlives the
work done under it is not proved, because the shipped configuration does not keep
it (`LockLasts`, section 7).

### Pages

A page is a theorem's subject with any constants; `PortalProofs` and `DataProofs`
keep one section for each. Most of the invariants relate what the page holds to what
its requests carry, because an answer brings back what a request took along. Where a
property is about the requests a step sends, the invariant is small (the
form of the page and of its requests) and the work is in the step: one lemma per
handler says what it may send.

| page | invariant, and why the property alone is not inductive | theorems |
|---|---|---|
| `FlowDraft` | `DraftInv`: a draft that still has the stamp of a base, on the page or in a save however late, is one the page has loaded, stored or chosen to overwrite (`Told`, `Fits`); no two definitions have a draft of the same stamp. A base that is only compared by the service says nothing of what the page has seen | `DraftTyped`, `DraftNeverBlind` |
| `FlowTask` | `TaskInv`: the form is busy exactly while one answer to its task is on the way, and handled only after the service took it (`TaskOneAnswer`); a form that is done has closed its tab or is about to (`TaskClosing`). `TaskCloses` is about forms outside the workspace: a workspace is opened as a tab of another name than the form closes | `TaskTyped`, `TaskHandled`, `TaskCloses`, `TaskReasons` |
| `FlowCollab` | `CollabInv`: on every canvas and in the draft a line has its ends; numbered operations and those on the way are no more than the elements each change of a user tells of. The count is what forbids an echo: a replay that posted again would exceed it | `CollabTyped`, `CollabLines`, `CollabNoEcho` |
| `FlowSubflow` | `SubInv`: what is asked to be bound is stored already, and a save that was answered has stored its draft (`SubAsks`), in whatever order saves and navigation end | `SubTyped`, `SubBindings` |
| `FlowProperty` | `PropertyInv`: every state of the diagram, also those undo goes back to, has at most one handler slot in use | `PropertyOneHandler`, `PropertyKindStays` |
| `FlowVars` | `VarsInv`: declarations are sound in the editor, in the diagram, in requests and in what is stored | `VarsNoLeftovers` |
| `FlowTodo` | a dialog for handing over is the one with users to choose from; a request for a cancellation, withdrawal or transfer leaves only in the step that confirms it | `TodoConfirmedFirst` |
| `PortalJobs` | `JobsInv`: a stream that is open is that of the chosen job; a page of the history that is asked for is one (`AsksPage`), and the pager stands on one of its list, or of an empty one (`PagerIs`) | `JobsShowChosen` |
| `PortalHelp` | `HelpInv`: the history is a sequence of topics without equal neighbours, and the place in it is the topic chosen (`Read`) | `HelpTellsTopic` |
| `PortalDam` | `DamInv`: the chosen keys are those of the filter (`Follow`), kept through the three functions that set them, as one corrects what another left: a record that is gone is dropped with what stands below it | `DamFollows` |
| `MdmRequest` | `MdmInv`: documents not there are blank (`Shelf`); the lock `S.saving` is held by one question or one request of any entry of the page (`Lock`); no more documents have been created than there were entries, and one less while the present one may still create its own (`Count`) | `MdmOneWrite`, `MdmInsertedOnce`, `MdmDraftByWithdrawal` |
| `PortalRegistry` | `RegistryInv`: the keys of every window and of the storage contain what leads to them (`Rooted`), values hang on keys and differ in name (`Hung`). Renaming and importing move whole subtrees, which keep this because a path below another goes on below it; a deletion takes the path on the page with it | `RegistryWhole` |
| `PortalDeploy` | `DeployInv`: what is approved, and what is on the way to be executed, is among what the user agreed to, for this database and this version (`AgreedTo`); an empty panel has a request for its state (`Served`) | `DeployTyped`, `DeploysTheApproved`, `DeployGoesOn` |
| `DctEditor` | `EditorInv`: an id stands once in the grid, among the edits and in the answers (`Sole`); remembered update times are those of the rows shown (`OfShown`); what a question, or a request, deletes is not of the system | `EditorTyped`, `EditorBaseline`, `EditorDeletes`, `EditorRefusal` |
| `DctTree` | `TreeInv`: the node highlighted is the one new requests are for; for the arrows, `Held`: an open arrow has its children on the page or a request for them, which a redraw may not forget | `TreeHighlightIsAskedFor`, `TreeArrows` |
| `OntoDesigner` | `OntoInv`; for the inspector `DetailInv`: while another element is shown than selected, a live request for the selected one is on the way (`Follows`), a live request is for the element selected, and its answer is of it (`Right`) | `OntoLinkedOnce`, `OntoDetail` |

`ReportSync`. `SyncInv` follows the number of an operation from the edit on: it is
in the queue, in a batch on the way, in the log, or rejected to the page's knowledge
(`Kept`), never in the queue and a
batch or in two batches (`Separate`), and nothing has a number that was not given
(`Numbered`). An operation whose answer was lost is sent again under its identity,
which the log knows. From it follow `SyncTyped` and `NoOperationLost`.

`MCPortalPages`. A behaviour that follows a page is a behaviour of that page
(`PageFollowed`: the initial state is one of the page, every step is a step of the page or
leaves it alone, and a page that is not followed never will be). With that
the theorems of the pages give the composed properties: `TaskAnsweredOnce`,
`SoundDefinitions`, `AllowedWrites`, `ChosenShown`, `WholeRegistry`, `KeptWork`,
`AskedSteps` and `MeantSteps` (`TaskAnsweredOnce` with what the form's own close is worth:
outside the workspace). The assumption `Instances` collects the assumptions of
the pages, and TLC evaluates it for the values of `portal_pages`.

`PageRequests` has the lemmas on what sending and serving do to a set of requests.

In the modules with proofs the alternatives of a CASE exclude each other: TLC takes
the first that holds, the prover any.

### Checked by TLC only

* Liveness (`CancelTakesEffect`, `OrphansReclaimed`,
  `LeftLockExpires`, `WaitsEnd`): it needs fairness and ENABLED, which the installed
  provers do not have.
* `FormulasMean`: parser and evaluator are recursive, and what they compute is an
  induction over the expression; the induction theorems of the library cannot be
  instantiated.
* The composed properties of `MCReportPages` (`PagesTyped`, `EditsSurvive`,
  `SignsAreTrue`, `StepsStayInBounds`): its pages use recursive operators, and no
  theorem may stand in a module that reaches one. Of `EditsSurvive` the part about
  operations is `NoOperationLost`.
* `PagesTyped` of `MCPortalPages`: where the properties of a page did not need
  the whole type invariant, the inductive invariant has only the part they need
  (the form of the record, the types of the fields they read).
* `SignsAreTrue` of `MCPortalPages`: what a trail shows is computed over the paths of a
  graph and where a box stands is a sum over the boxes before it, both inductions over
  data; the other signs (`versions`, `views`, `vars`, `todo`) have no proof yet.
* `lww_converges` and the other counterexamples are runs.

## 6. Not modelled

* Services: transactions, orchestrator boxes, migration runner, circuit breaker,
  tokens, serial numbers, plugin synchronisation, AI sessions and the event hub
  have control worth a model each and have none yet. Query engines, chassis,
  adapters and tools have data and no control (`PROJECT.json` gives each reason).
* Of the modelled services: contents of progress, logs and results; restart and
  the singleton guard in the distributed mode; nodes that do not know a kind;
  a stalled machine for the lock.
* Of the pages: everything that only draws (tables, charts, canvas geometry but
  the generated layout, highlighting), texts and their wording, formats of dates
  and the date and text functions of formulas, drag and drop, printing,
  attachments and exports, fields of business forms. `PROJECT.json` says for each
  page what it leaves out.
* The XML of a process is the set of its elements and attributes the questions
  are about; that the library writes what it read is assumed.
* The services behind the pages are what the pages expect of them. Where a
  service could be stricter or laxer the model takes the weaker promise: it may
  refuse any request, and an operation may be executed although its answer is an
  error. Two refusals are counted on: of a draft and of a layout whose base or hash is
  given and not the stored one. Of a save without one nothing is. That the service
  keeps the version in force from being deleted is its stipulation in `FlowVersions`;
  no property rests on it (`ActiveExists` is not checked).
* The smaller pages (rules, ontology explorer, lists of master data,
  subscriptions, operation consoles, demonstrations) use the patterns of
  `PageRequests` and have no module.

## 7. Disagreements between the code and what it says or its users expect

Each was met while modelling, and TLC gives a behaviour for every one that names a
formula (the formula stands in the named module; it is not among the properties
of a passing run). The three with a run are kept as counterexamples to look at.

### Job manager and lock

* **`submit_race`** (run; `manager.rs:328`). In the distributed mode `submit()`
  removes the memory entry after the awaited INSERT. When the claim loop of
  the same node has been faster, it removes the entry of a running job; the
  heartbeat stops, the reaper takes the row, and another node runs the job a
  second time.
* **`archive_race`** (run; `manager.rs:774`). `archive()` reads an ended row, and
  the statement that moves it to the history is rolled back, which is only logged
  (`cmx-job-store-pg/src/lib.rs:284`, `:317`); it then removes the memory entry all
  the same. When meanwhile a late Running write has revived the row, the reaper has
  taken it back and the same node has claimed it again, that is the entry of a
  running job. The heartbeat stops, and a second node executes the job beside
  the first.
* `TerminalMeansStopped` (`manager.rs:602`). A stop reads Pending, the job
  starts, and the stop then ends it as Cancelled while its handler begins to
  work. Terminal jobs are said to make no more progress and to be safe to
  remove (`model.rs:34`); when the caller goes on to archive it, the next
  reporter call panics (`runtime.rs:73`).
* `CancellingIsSignalled` (`manager.rs:572`), called PauseOverCancel in section 4.
  A pause that read Running before another caller's stop overwrites the Cancel in
  the channel. The job is Cancelling for good: pause, resume and cancel are
  refused in that status, and the permit is not given back before the process ends.
* `RowConverges` (`manager.rs:527`). Writes of a status are spawned and not
  ordered. After all of them have landed the row may say Running for a job
  that has ended, and the next start treats it as an orphan: it is run again,
  or written off.
* `SingletonAlive` after a crash (`manager.rs:864`): recovery restarts the orphan
  of a singleton kind without its entry in `active_singletons`. With
  `MaxSubmitters = 2` (`manager.rs:254`, registered at `:314`): two submissions
  at the same time both pass the check, where a 409 is promised.
* The watchdog with its defaults (`lock/manager.rs:691`): lifetime 30 s and
  threshold 30 % make it look after 15 s (15 is not below 9) and after 30 s (the
  key is gone): a lock is never renewed, and one without a lease expires under work
  of more than 30 s, where the head of the file says it does not (`LockLasts`, :14).
  With a threshold above half of the lifetime the formula holds.
* A job that waits for a node may wait for good: a claim needs a free permit
  (`run_claimed`), and nothing makes a handler end. With more jobs than permits a
  handler that never returns keeps the Pending rows behind it, and no timeout is
  configured.
* `extend()` by less than a second deletes the lock and answers Ok
  (`lock/manager.rs:443`).
* A resume changes the channel and then the status (`manager.rs:587`, `:588`); with
  a pause in between, the job shows Running while its handler is suspended, and
  resume is refused.
* `archive()` of a job whose insert or last write is still under way: the
  history keeps the status it found, and an insert brings the row back.
* A reaped owner that was only slow works on, and its unguarded UPDATE
  (`cmx-job-store-pg/src/lib.rs:241`, `:258`) can turn the Pending row into an
  active one without owner and heartbeat, which nobody claims or reaps
  (`Timely = FALSE`).
* A Pending orphan that is not idempotent is written off (`manager.rs:831`),
  where the comment says pending jobs are queued again (`:809`).
* Read, not modelled: the migration runner takes a free lock for a finished
  migration (`runner.rs:397`) and runs nothing without a lock manager (`:352`);
  the probe of the circuit breaker can end without reporting, after which every
  call is refused (`cmx-service-rpc/src/lib.rs:178`).

### Report designer (`designer.js`)

* `ReportDesigner!UndoRestores` (1391-1402). The snapshots a deletion takes are a
  stack of their own, popped by any undone deletion (the comment at 1392 says the
  most recent snapshot); the undo of an insertion is a deletion too and pushes one
  (1389). After insert, delete, undo, undo, redo a snapshot of another row comes
  back.
  An undone deletion also moves what it brings back once too often: the entries are taken
  from the snapshot under their old keys, and shifted like those that had stayed
  (1391-1394), so the binding comes back one row below its cell.
* `ReportDesigner!ReopenKeeps` (2567): a cell with a formula of the spreadsheet gets
  that as its fetching formula when the layout is saved, whether or not anything was
  bound to it; reopened, the designer shows a formula nobody entered there, which goes on
  living when the one on the sheet is changed.
* `ReportLayout!NoSaveUnseen` (2670): when bundle and layout cannot be loaded the
  skeleton stays on the screen and can be edited, and saving it sends a null hash. Whether
  a layout that exists is replaced then depends on the service, which is not in the
  repository (`src/` has its proxy and routes only).
* `ReportDesigner!FloatKept` (1400-1407, 1880): the template row of a floating region
  shifts with the rows, and a layout that is saved and opened again comes without it.
* `ReportFormat!BoldKeepsDecimals` (2284-2302, 2304-2326). The ribbon reads a
  format it has no name for as "general" and every command writes the whole
  style: bold on a cell with three decimals takes them away.
* `ReportPanels!BarTakes` (1912-1934, 3256-3265). The formula bar shows the
  report's own formula of a cell and writes to the canvas only: what was typed is
  replaced by the old formula when the cell is selected again.
* `ReportRoutes!EditKeepsRest` (4849-4857). The form is filled from the columns of
  the list, which lack priority and remark; saving an edit resets both.
* `ReportLayout!CleanMeansSaved`: the mark of unsaved edits is cleared after the
  answer to a save, edits made meanwhile included.
* `enqueueOp` merges an edit into an earlier one of the same cell (2762-2763), also
  when a structural operation lies between them, so that the merged edit is replayed
  before the rows move. A batch that failed is put back without a timer (2818-2821)
  and waits for the next edit. The answer to a batch sets `opSeq` to the end of the
  log (2812), so that what others recorded in between is never fetched. Edits in
  the 300 ms after loading are not queued (2760).
* `pollOps` replays others' formulas and refreshes the property page only: the
  badges stay as they were.

### Report filler, formulas and workbenches

* `ReportApplier!SaveStaysInPeriod` (69; 1277). The period of an open report is part
  of its shared state; choosing another one in the explorer leaves the values on the
  sheet, and saving stores them under the new period. Answers that come late clear the
  mark of edits made since (1020, 1089, 1196), and a change of the period drops
  unsaved edits without a question.
* `ReportFloat!PanelKeepsPeriod`: the panel of floating rows saves what it loaded for
  one period under the one chosen since. `ReportFloat!NoLeftRows`: a layout with
  fewer rows leaves the rows of the last one on the sheet.
* `FormulaEval!ErrorsPropagate` (286-301, 320-325): an error in an argument of a
  fetching function or of REF becomes an empty text or 0; the head of the file says
  that errors propagate through every level (12).
  `&&` and `||` return an error they find on their left, and do not look at their
  right when the left decides (266-267): `0 && #REF!` is false and `1 || #REF!` is true.
* `ReportConsol!TableIsSelected`: the answer for a node that was left fills the
  tables of the one selected. `ReportConsol!DrillEnds` (215, against the comment at
  844): a reconciliation changes the tab without clearing the filter of the journal.
* `ReportCatalog!DetailIsCurrent`, `!DeletedIsGone` (332): a forced reload is dropped
  while another is on the way, which may have read the state before the change. A
  detail that cannot be loaded is asked for again by every render (494), without
  end. An error that comes after its dialog was closed opens it again (770-773).
* `ReportCatalog!DesignerIsOfChosen`, `ReportTasks!TabIsOfChosen`: the identity of a
  tab collapses all other characters to `_` (designer-workbench.js 114-116,
  report-app-workbench.js 114-116, 203); two versions or organisations named in
  Chinese share a tab, and the second opens the first one's.
* `ReportTasks!ChosenOrgIsShown`: after a reload the chosen organisation may be
  missing from the tree, while reports are still opened for it.
  `ReportTasks!ViewStays` (798-808): timers of 60 and 180 ms activate the
  organisation's view again after the user has turned to the report's.

### Process designer

* **`lww_converges`** (run; definition-workbench.js 4278-4291). A page compares
  the numbers of others' operations with each other, and ignores its own echo.
  When both change the same property, each ends with the other's value.
* `FlowDraft!CopyKeepsOthers` (3774-3785, 3960-3967): the id of a copy is free of those in
  the page's list, which is empty after a failed load; a copy may then replace a
  definition.
* `FlowVersions!ActiveExists`: the button to delete is left out for the version in force
  as the page knows it, which may be that of yesterday; the rest is up to the service.
* A conflict offers "cancel: give up and load the latest", and `loadDef(key)` without a
  version loads the version in force (4021-4023, 3826).
* `FlowDraft!CollabOnDraftOnly` (comments 125, 3842): `newDiagram` and `doImport`
  leave the channel, its heartbeat and the base of the previous draft in place
  (3861-3870, 3899-3920). `FlowDraft!ImportKeepsOthers`: an imported process is saved
  under the id in the file, where the comment promises not to cover an existing
  definition (3899).
* The question about unsaved work comes before the `await` (3822); edits made while
  the detail is on the way are lost, and a save clears the mark of edits made while it
  was under way (4028). A second save sent before the first is answered conflicts
  with its own predecessor. Building the canvas anew in another container loads the
  stored draft over unsaved work (3132-3138).
* `FlowVars!NoSilentLoss` (2747-2763): the dialog changes the declarations themselves
  and marks them as unsaved when their check succeeds; closed before, they are
  neither saved nor marked, and go without a question. A label that holds `$1` is
  expanded by the replacement that writes the declarations (1857).
* `FlowViews!TrialIsOfCanvas`, `!MarksAreOwned`, `!DiffMarksAreListed` (3121-3127): an
  edit takes back the marks that are there, not those of an answer that comes after
  it; opening the comparison again, or choosing other sides, forgets its result and
  leaves its marks.
* `FlowLayout!FlowsGoDown` (3348-3354): the branch that would put a node into the
  queue again when its layer grows cannot be reached, so its successors stay where
  they are, level with it or above.
* `FlowCollab`, without a formula: changes of handler, approval, mapping and default
  flow are not posted; updates are replayed into whatever canvas is open, also a
  subflow's; loading the draft again on others' notice drops operations not saved.
* `FlowProperty!RowsTellCondition`, `!RowIsAdded`, `!OneTarget`, `!UndoRestores`:
  the rows of a condition are kept beside the condition; the row a button adds is
  empty, and empty rows are dropped when it is written; a fixed key and a logical
  name may be set together; one change is several commands, of which undo takes
  back one. The remembered kind of handler (98) is of an element id and survives
  the diagram. The listener that waits for a saved form (2166) takes the next
  save, whoever made it.
* `FlowVersions!ChosenExists` (420-433): a version chosen in the list is remembered
  after it has been deleted.
* `FlowSubflow!NeverItself` (design-workbench.js 1771-1776): the list of processes
  to bind holds the one being edited; saving such a subflow writes over the draft of
  the main process. `!MainKeepsItsDraft`, `!SaveKeepsOthers` (2623-2624, 3775-3777): the
  key of a diagram that is saved in a subflow is compared with the page's list, which
  leaves out what may not be started and is empty after a failed load; as
  `openSubflow` waits for the subflow with the main process still on the canvas
  (2531-2533), a save then stores the main process over its own draft, without a base, or
  a variant over another definition. `!MainStaysDirty`, `!SelectedIsCanvas`, `!TemplateReplacesNothing`,
  `!OverwriteAsked` (design-workbench.js 2507-2600): loads of a subflow and of a
  variant that overtake each other leave one selected and the other on the canvas; a
  template shown because a draft could not be loaded is saved over that draft; a
  binding is replaced without a look; returning while a subflow is still being
  saved restores the mark of edits of the wrong diagram. A binding that fails after
  the save is not tried again, although the message says it follows (2585), and
  `openSubflow` goes on with a navigation record that is gone.

### To-do centre and task form

* `FlowTrail!ForwardKeepsDone` (todo-center.js 447-450): "upstream" is reachability,
  so that a branch that has joined, or a loop, makes a completed task look returned;
  the comment says forward moves cannot hit by mistake (448).
* `FlowTodo!ViewIsReadOnly` (946-954 against 1070-1077): when the workspace of a
  read-only view cannot be loaded, the fall-back opens the form to act on.
* `FlowTodo!ListIsOfCategory` (778-813): the list of the category that was left fills
  the one chosen. `FlowTodo!TrailIsOfChosen` (859-891): the same for the trail.
  `FlowTodo!PagerLeadsBack` (207-223, 744-760): when the total shrinks under the
  page, the buttons are computed from the corrected page and the handler compares
  with the old one; with one page left all are disabled beside an empty list.
* `FlowTask!StartsWhatItShows`, `!StartIsReady` (109-141, 558-586): start forms have
  no instance and no task and share one state; the second tab changes what the first
  one starts, and a form that has started stays busy for the next one.
  The id it closes by (581) is not the one it was opened under (886-889).
* `FlowTask!RequiredIsThere` (682 against 801-805): a return to a chosen node is
  marked as needing an opinion and sent without one. `FlowTask!ReturnsWhereItSays`
  (663, 792-797): choosing another node does not draw the button
  again, which goes on naming the one before.

### Portal and data pages

* cluster-datasource.js: `PortalDeploy!StateIsSelected` (146-153 against 1646-1650
  and 748): the end of a deployment writes the state of its database over that of
  the one chosen since. `!OneStream`, `!PlanIsReviewed`: leaving a database ends the
  running flag and not its stream, whose plan then stands for review under another
  choice. `!ListIsFiltered`: a late list is shown under a new filter. Stopping on
  the tab of initialisation calls off a deployment.
* job-monitor.js: `PortalJobs!DetailIsChosen` (333-343, 819-858): the detail of the
  job chosen before arrives and the controls act on it. `!EmptyListIsOnePage`
  (285-290, 300-306, 985): the step back from a page that is gone is only taken while
  the list has pages; of a list that has become empty the page stands on page 2, and
  shows "2 / 1". `!RowsCatchUp` (134-151
  against 353-391): a snapshot that was read before an event replaces what the
  event had told.
* registry-editor.js: `PortalRegistry!KeysAreSeen` (33): a name that begins with two
  underscores is accepted and hidden. `!ReopenKeeps` (195-208, 1059-1061): a page
  opened within 300 ms after an edit reads the storage without it, and the pending
  write then stores that. `!StoredIsShown`: two windows write whole registries over
  each other. `!TypesStay` (288-298, 676-703): a "new" value with an existing name
  replaces it.
* registry-center.js: `PortalDam!SavesWhatWasShown` (206-216, 345-385): a record
  chosen while the list is on the way is saved with the draft of another.
* center.js: `PortalHelp!DocIsChosen` (185-204): the slower answer wins.
  `!ContextWhileOpen` (207-209, 721-728): it also publishes its context when the page
  is gone. `!OnlyThatFolder` (138-145): the first click turns "all open" into the set of
  folders in the tree, and a search has taken some out of it, which come back closed.
* data-editor.js: `DctEditor!NoLostEdit` (841-857): an edit made while a save is under
  way is cleared by its answer. `!InsertedOnce` (774): pressing save twice inserts
  twice. `!NoBlindOverwrite` (850-855): after a save the baselines just received are
  cleared, and an edit before the list is back has no lock. `!SavesWhatIsShown`,
  `!NewRowsStay` (634-655): a reload keeps the record of edits and new rows and
  drops them from the grid, which the comment at 1412-1413 wants to prevent for one
  of its causes. `!DeletesAreStored` (712-720): a temporary row that was saved
  meanwhile is asked to be deleted under its temporary id. `!OneDatabase` (1065
  against 944-946): the import does not send the database.
  `DctTree!MetaIsOfDict`, `!TreeIsOfDict` (1283-1341): of two switches the slower one
  wins. `!ArrowTellsChildren` (1218-1239): a collapse during the load leaves the
  children shown under a closed arrow.
* onto/designer.js: `OntoDesigner!KeyChangeIsAsked` (1252-1265, 1331): a count
  that could not be read is taken for none, and the key is changed without a
  question. `!NothingDangles` (1357-1359): a relation that could not be deleted is
  skipped and its object deleted. `!CreatesOnlyNew` (874, 879, 1150): creating
  under an existing name replaces it. `!CanvasShowsManifest` (135-153, 346):
  events of the drawn graph write back an older one. `!KindIsOfSelected` (1275):
  after a save the element selected by then is selected as an object.
  `!TicksAreRows` (915): ticks are row numbers and are cleared when an object is
  selected, not when anything else is. `!ResultIsOfSelected` (643-670): the result
  of a trial appears under the action chosen since. `!EditKeepsRest` (829):
  collecting the rows from the form drops what the form does not show. The first
  load, when it fails, is never tried again (165-174); the sign of unsaved work
  (291) is never set; rows can be dragged in the first render only (1000, 1061).
* cr-form.js: `MdmRequest!FieldsAreOfShown`, `!HeadIsOfDoc`, `!SavesTheShown` (68-70,
  1311-1312): a token ends the old chain of loads at its checks, but not what it has
  set between two of them, nor the answer to a save. `!DeletedLinesGo` (1034-1035):
  lines deleted during a save are forgotten by its answer. Review, withdrawal and
  confirmation have no lock against a second press (1213-1268).

## 8. Plan

1. A run of `LockLasts` with the shipped configuration, and of the slow owner
   (`Timely = FALSE`), as counterexamples beside `submit_race` and `archive_race`.
   Theorems for what is left of `portal_pages`: the type invariants of the pages whose
   proofs needed less (`PagesTyped`), and `SignsAreTrue` (`FlowViews`: the frames that
   are due tell what may differ; `FlowTodo`: a busy sign has its request). For the
   report pages `ReportLayout` and `ReportTasks` come next: they have the optimistic
   lock of `FlowDraft` and the chains of `DctTree`.
2. Liveness of the services stays with TLC; what can still be proved of it is its
   safety half, that the awaited step is enabled as long as it is awaited.
3. `DbTransaction` (propagation, nesting, registry, clean-up channel, pool) composed
   with the orchestrator's boxes; `MigrationRun` on `DistributedLock`;
   `CircuitBreaker`, whose abstract specification is the documented machine of
   three states; `TokenRotation`, `SerialNumbers`, `PluginSync`, `JobEvents`,
   `AiSessions`. Each joins the runs as an instance beside those it is composed with.
4. Abstract specifications for the pages: an optimistic lock (draft, layout and
   dictionary row are three of them) that `FlowDraft`, `ReportLayout` and
   `DctEditor` refine.

Abstract specifications stay small and are refined by `INSTANCE ... WITH`, as
`JobLifecycle` is. Recursive definitions are avoided in every module that gets
proofs.
