# Verification of Local AI SQL Tool

TLA+ models of the parts of this program where several things happen at once:
the row-level data synchronisation, the background jobs of the web server, its
transaction sessions, the statements, connections and cached schemas of the
workbench, the files the server keeps, and the screens of the web client that
talk to all of these. TLC checks the models on small instances; TLAPS proves the
main theorems for every value of the constants. `PROJECT.json` maps each
definition to the lines it models and lists runs, mutants, hazards, findings and
theorems.

## 1. The system

A Rust library (`core_lib`), an Axum server (`web-server`) and a React client
(`web-ui`, also packaged with Tauri) let one user work on MySQL, PostgreSQL and
SQLite databases. All state of the server lives in `AppState`
(`web-server/src/state.rs:307`): maps behind `RwLock`s, a semaphore, and files
for configuration, history, rules and policy. Handlers run concurrently on a
multi-threaded tokio runtime; a handler may spawn a task that outlives its
answer. The client keeps everything it shows in React state, some of it in
`localStorage`; a handler of the client works with the state of the render in
which it was made, whatever has changed when its answer comes.

The routes of the web server are handled by `web-server/src/main.rs` and
`handlers/*.rs`. Where `core_lib` has a second copy of a service (workbench,
schema, context), no mounted route reaches it: `service_handlers.rs` and
`routes.rs` are compiled but never called, and the desktop shell repeats the
handlers on its own.
`web-ui/src/stores/*.ts` is not imported by any screen. The models follow what
the routes and screens run.

| component | state | operations | what is hard | what makes it correct |
|---|---|---|---|---|
| Row sync engine (`sync/mysql_engine.rs`) | none of its own: two tables, the ranges of a compare, the rows of a preview | compare, preview, deploy | one query at a time, no snapshot; LIMITs; hash-map order; commit timeouts | nothing untouched is skipped, judged wrongly or deleted; a deploy converges |
| Row sync jobs (`handlers/sync.rs`) | `sync_jobs`, `job_semaphore` | start compare / preview / deploy, status | tasks overlap on one job, detached progress writes, early returns | permits conserved, reports true, polling ends |
| Tool jobs (`handlers/go_live.rs`) | `tool_jobs`, `tool_job_handles`, files in `temp_dir` | start export / import / SQL import / go-live, status, cancel | abort at any await, quota checked before the file grows | permits conserved, overrun bounded, results final |
| Transaction sessions (`main.rs:800-860`, `1874-1947`, sweep `1064-1093`; statements in `perf.rs:997-1420`) | `transaction_sessions` | begin, statement, commit, rollback, idle sweep | check-then-insert, statements after commit, sweep | one transaction per id, nothing lost silently |
| Statements and connections (`perf.rs`, `state.rs:320-380`) | `active_queries`, the pool of a client | execute, cancel, time out | a cancel copies the connection and kills it later; connections are reused | a kill hits its own statement; nobody waits for ever |
| Schema cache (`main.rs:1540-1640`) | `schema_cache`, `table_schema_cache` | lookup, fetch, clear, expire | fetch and clear overlap | no older than the last answered change |
| Configuration and client (`main.rs:1340-1420`, `core_lib/src/config.rs`) | `config`, `db_client`, `db_client_cache` | save, connect, switch | several locks, closing the old pool | the client belongs to the stored configuration |
| Table view and grid (`TableDataView.tsx`, `DataTable/index.tsx`) | page, bounds, filters; pending edits, drafts, the report of a save; layout of the columns | page, sort, filter; edit, save, review conflicts | late answers, edits keyed by row index, partial saves | no row passed over, no change lost, no conflict left |
| Query tabs and results (`App/index.tsx`, `QueryResultsPanel.tsx`, `SimpleDataTable.tsx`) | tabs with run, transaction and results | run, cancel, commit, close, load more | each answer patches what its tab is by then | no open transaction without a tab |
| Configuration screens (`App`, `SettingsPanel.tsx`, `DbExplorerSidebar.tsx`) | two copies of the configuration | edit, duplicate, delete, switch | each edit posts the whole copy | an edit keeps the rest; copies agree |
| Job screens (`PerfSync.tsx`, `GoLive.tsx`, `ImportWizard.tsx`, `WizardModal.tsx`, `DataTransfer.tsx`) | job id, job, timer | start, poll, resume, cancel | an interval does not wait for the answer before | a watch never stops without a word |
| Plan screens (`VisualSyncWizard.tsx`, `StructureSync.tsx`, `TableDesigner.tsx`, `DataTransfer.tsx`) | choices, comparison, script | compare, preview, execute | choices change under a request | executes what is shown |
| Performance suites (`PerfDiagnosticsPanel.tsx`, the archive in `perf.rs`) | list, baseline, pairs, in three places | run, select, pin, compare, archive | effects and handlers ask at once | what is listed belongs to what is shown |
| Explorer tree (`DbExplorerSidebar.tsx`) | a schema per connection | switch, expand, refresh | the active connection changes before its schema | a schema stands under its own connection |
| Data sync wizard (`DataSync.tsx`) | job id, shown SQL, poll timer | compare, generate, execute | polls a status that belongs to the job, not the stage | announces only what happened |
| Performance sync, go-live on the server | `perf_sync_jobs`, report and audit files | long pipelines in one task | abort half way, several files | passed only if every verify passed |
| History, rules, knowledge, AI policy (`sql/history.rs`, `ai/policy_store.rs`, ...) | JSON files and their copies in memory | append, save, load, roll back | saved without a lock through one temporary file; stops half way | a restart finds what the memory holds |
| AI agent, SSH tunnels, file formats, SQL helpers, crypto, adapters, load generators, desktop shell | - | - | - | see `components` in PROJECT.json |

Interactions: the screens call the handlers over HTTP and poll; row sync jobs,
performance sync and the tool jobs draw permits from one `job_semaphore`; a sync
task calls the engine, the engine the two databases; tool jobs share one
temporary directory; statements, transactions, schema reads and the save of a
configuration share one client with its pool, and meet in the locks of the
session, the cache and the client.

## 2. The modules

| module | models | proofs |
|---|---|---|
| `RowSync` | the engine on one table with an integer key: `compare`, `preview`, `deploy`, and a second compare as verification | `RowSyncProofs` |
| `JobPool` | abstract: at most `MaxJobs` requests at work, one is turned away only then | |
| `SyncJobs` | the three sync handlers, their tasks and the progress writes; implements `JobPool` | `SyncJobsProofs` |
| `SyncWizard` | composes the client's wizard with `SyncJobs` | |
| `ToolJobs` | export / import jobs, quota and cancel; implements `JobPool` | `ServerProofs` |
| `TxSessions` | transaction sessions, the requests that use them, the idle sweep | `TxSessionsProofs` |
| `QueryServer` | statements and the registry a cancel looks into, the pool, the schema cache, the save that replaces the client | `QueryServerProofs` |
| `JsonStores` | the rules, the history or the policy, in memory and in a file | `ServerProofs` |
| `TablePages` | the paging of the table view | `GridProofs` |
| `GridEdits` | the grid's pending changes, their save and recovery | `GridProofs` |
| `ConflictReview` | the review of the changes whose row was no longer found | `GridProofs` |
| `GridValues` | the values of cells: conversion, check, what an insert sends | `ScreensProofs` |
| `GridLayout` | order, visibility and width of the grid's columns | `GridProofs` |
| `Ranks` | sorting a finite set of integers and filtering a list, by counting; used by `TablePages`, `GridEdits`, `ConflictReview` and `GridLayout` | `GridProofs` |
| `QueryTabs` | tabs of the workbench, their runs and transactions | `WorkbenchProofs` |
| `ResultGrid` | the results of a run and the grid that shows one | `WorkbenchProofs` |
| `ConfigEdits` | the two copies of the configuration and the server's merge | `ScreensProofs` |
| `JobWatch` | the screens that start and poll a job | `ScreensProofs` |
| `PlanWizards` | the screens that preview and execute a script | `ScreensProofs` |
| `PerfSuites` | the suites of the diagnostics tab and their archive | `ScreensProofs` |
| `SchemaViews` | the schema of each connection as the client shows it | `ScreensProofs` |
| `MCServer` | `ToolJobs`, `QueryServer` and `JsonStores`, each a view of one run | |
| `MCWebClient` | the twelve modules of the client, each a view of one run | |
| `MCRowSync`, `MCSyncJobs`, `MCSyncWizard`, `MCTxSessions` | model values and symmetry for TLC | |

Operators under a comment "Mutant:" are the broken variants that the
`mutants` of PROJECT.json put in place of the definition after them.
`MCServer` and `MCWebClient` choose a view in the initial state and leave the
variables of the others alone: the modules share no state, so the states of the
views add up and do not multiply.

The properties of the client are about overlap and lateness, and the code does
lose things to both. Where it does, a variable of the model marks the case
(`gdMoved`: rows were moved under pending changes; `gdSpliced`: a draft was deleted by hand
under the report; `qtExcused`: a transaction lost in one of the ways that the comment of
`EveryTransactionHasItsTab` lists; `cfDoubt`: an error or an older answer came last;
`jwMixed`: two jobs polled at once, or an answer after the last one; `pwLate`: the input changed under a
comparison or a preview, or a load or the AI's indexes replaced it under an open preview;
`psLate`: a pair archived after another one was shown; `svMixed`: overlapping, failed or
foreign loads; `rgResorted`: a load sorted rows in, or the sort panel replaced them,
under an open menu; `rgPageOf` = 0: the sort panel replaced the result whose page was chosen;
`orphan`: a reader in the gap of a save; `outwaited`: a cancel token waited longer than the
idle age for its first lock) and the property is stated without it. Section 4 lists these cases as behaviour of the code. Marks are read by
properties only, never by a guard.

### RowSync

The tables are functions from keys to contents. `phase` says which query comes
next: bounds of the source, bounds of the target, one page of keys after the
other, then for each range the source rows and the target rows. Every query is
one action, because the engine holds no transaction between two of them;
`OtherWrite` changes either table in between, `Fail` is the `?` of any query
and its timeout. `PreviewTarget` includes the two loops over the hash maps: they
visit rows in any order and stop at `max_rows`, so `Take` is the set of possible
outcomes, with the flag `truncated` set exactly as the check before each row sets
it. `EndPreview` applies the action filter after counting, as the code does.
`DeployCommit` is the whole transaction: its statements are deletes (mirror
only) and then upserts, which overwrite whatever row is there; a commit that
times out may have taken effect. A row set's checksum is the row set itself:
collisions of the CRC are left out, and so is the text of keys and values
(`compare_pk_str` compares integers as integers; keys of other types are not
modelled).

### SyncJobs

A request goes idle -> handler -> spawned -> running -> (committed) -> ending ->
over, or from the handler to over on an early return. A job's record keeps, in
place of a result, the number of the request that produced it. `Cleared` and
`Published` are the first and the last write of a task, `FailTask` the last
write of one that failed. `plan` is the copy of the earlier stage's result that
the handler takes with it; `ExecuteStatement` spawns a progress write
(`ticks`) that `WriteProgress` runs at any later time. The engine is reduced to
whether a task succeeds and, for a deploy, whether its transaction committed.
Panics in a task are not modelled.

### SyncWizard

Adds the client to `SyncJobs`: `Post` sends a stage's request, `Answered`
receives the job id, `Poll` reads the record and acts on the first final status
as `handleCompare`, `handleGenerateDml` and `handleExecute` do.

### ToolJobs

One start handler with its task and its cancel per request. The task's label
says whether a thread is polling it (`beginning`, `ending`) or it is suspended
at an await (`waiting`): an abort stops the second at once, the first only at its
next await (`Drop`). `file` is the export's file in chunks; the kinds without a
file are "import". Left out: the manifest of an export and the report of go-live
(small files with quota checks of their own), several cancels of one job.

### TxSessions

A request goes arrived -> touching (it has found
the session and waits for its Mutex with the map's read guard held: the guard of
an `if let` lives to the end of its block) -> waiting -> running -> ran ->
removing -> replying -> done. An `execute` with a cancel token goes from touching through
`peeking` and `registering`: it locks the session once more for its connection id
(`perf.rs:1126`), outside `db_query` and without refreshing the access time, and lets it
go before the statement locks it for good. Commit and rollback skip `touching` and pass
through `fetched`, without the guard. A session is named by its connection:
`InPool` says that nobody holds an Arc of it. `open` and `fate` are the database's
side; a transaction is named by the begin that started it, and `tx` keeps in which
one a statement ran, or which one an end found. `Age` makes a session 600 s old
where that much time can pass. A Mutex is handed to a waiting request before a
`try_lock` can take it, as tokio's fair queue does; the map's RwLock is left
unfair, which allows more orders than tokio does. Left out: a lost connection, a
handler dropped because its client went away, what a cancel token does beyond its first
lock (`QueryServer`), the text of statements (`ddl` stands for any
statement that commits implicitly, `COMMIT` and `ROLLBACK` for the four spellings
the handler recognises), and the database id as data (`Touch` and `CheckDb` may
refuse).

### QueryServer

The requests that share one client: statements with a cancel token, alone or in
the open transaction, DDL without one, a begin, the read of a schema, the save of
the configuration. Each `await` that can let another request in is a step. A
client is numbered by the save that made it and has connections of its own;
`busy` is the database's side, so a statement runs on after its handler gave up
until it ends or is killed. A cancel is two steps, as in `cancel_active_query`:
`CancelFinds` copies the connection, `CancelKills` kills what runs there then,
through another connection of the pool. `Drop` is a client that goes away, as after its own
timeout: axum drops the future of the handler where it waits, its locks and its
connection are given back, and a token that is registered stays. `Lock` keeps the write lock of the cache for the
queries of `Fetch`. A save stores, clears, connects, takes the old client out
under the lock of `db_client` and holds that lock until every connection is back
(`CloseEnds`), then installs the new one. `due` remembers which changes had been
answered when a reader arrived. Left out: several transactions (`TxSessions`),
changes made inside one, the clients of other connections, the cache of single
tables (the same code), overlapping saves.

### JsonStores

One store at a time: the rules (the knowledge base is saved the same way), the
SQL history or the policy override. An operation of the first two changes and
clones the memory under its lock, then saves the clone; `get_history` reads the
file and puts it into the memory; the operations of the policy change the file
first and load the memory from it. A save is `Open`, `Write` and `Rename`, each
an `await` at which another request goes on; the two names stand for inodes, so
that a writer keeps the one it opened when another save renames it. `Fail` is an
I/O error, or a request dropped between two operations on the file. `Drop` is one dropped in
the middle of an operation: `tokio::fs` runs it on a thread of its own, so the write,
the rename or the removal goes on to its end, may overlap the next save, and what the handler
would have done after it is not done (`Abandoned`). `Restart` is a stop of the
process at any step. `lone` and `mixed` say whether operations overlapped or a
save failed since the last operation that was alone, `single` and `overlapped` the
same of the saves. Left out: a stop of the machine (the history is not synced
to disk before its rename), the limit of 100 entries, the files of the snapshots.

### TablePages, GridEdits, ConflictReview, GridValues, GridLayout

The table view and its grid. `TablePages`: pages are asked for by the bounds of
a unique key when there is one, by OFFSET when not; every answer is applied as it
comes; a new filter is loaded on the old page first and after 300 ms on page 1;
other sessions insert and delete rows. `GridEdits`: edits and deletes are
keyed by the index of a row (of a table with a primary key, or of one without, whose rows can be
alike: then a request may hit several, and a recovery that does not find the row takes the only
one with the same unchanged columns, as `findRecoveryRowIndex` does), drafts by their place in a list; `confirmSave` sends
one request after the other, takes successes out of its copies and stores the
copies at the end, with a report of what failed; a stale change leaves the
pending sets, the page is loaded again and the change goes back to the row that
has its key, or stays in the report. `ConflictReview` is the dialog over that
report: a scope, a current conflict, "& Next" and the recovery of whole groups.
`GridValues` runs every way to fill a cell (typed, null, default, pasted,
imported, duplicated) for every kind of column through the two coercions, the
validation and the payload of the insert; numerals come in and beyond the range of each
type, which the pattern of the validation does not know. `GridLayout` is the layout in memory
and in `localStorage`, through changes of the schema.

### QueryTabs, ResultGrid

`QueryTabs`: each run, commit, rollback and load of more rows is a request with
what its handler knew at the click; its answer patches the tab that has its id by
then, or recreates the entry of one that is gone, as `patchTabState` does. The
server's side is the set of open transactions. `ResultGrid`: the results of a run, which
one is selected, the page and sort of its grid, the menu of a cell, chunks of
further rows that arrive under them, and the sort panel, whose answer replaces all results
under the grid.

### ConfigEdits, JobWatch, PlanWizards, PerfSuites, SchemaViews

`ConfigEdits`: App and the settings panel each hold a copy without secrets; an
edit changes the copy it knows and posts the whole; `merge_secrets_from` puts the
secrets back by id, if the user is the same. `JobWatch`: five screens, each with
its own rules for starting, polling, resuming, canceling and for an id that the
server does not know. `PlanWizards`: four screens whose comparisons, previews
and executions are answered in any order while the choices may change; in the table designer
the AI's answer adds indexes to the edits whenever it comes.
`PerfSuites`: the list of suites, the baseline and the archived pairs in React
state, `localStorage` and the server's archive, with the effects that ask for
what belongs to the suite shown. `SchemaViews`: the active connection, the
schema of App, the tree with one schema per connection and the tables offered by
the diagnostics tab.

## 3. The runs

| run | constants | shows |
|---|---|---|
| `RowSyncQuiet` | 4 keys, 2 contents, chunks of 2, LIMIT 2, `max_rows` 3, no other writer | no preview deletes a row the source has |
| `RowSyncConcurrent` | 3 keys, chunks of 1, one foreign write, `max_rows` 2 | coverage, sound verdicts, convergence, verification, end of the listing |
| `RowSyncGap` (violation) | chunks of 1, nobody else writes | a verified mirror is not identical |
| `RowSyncLimit` (violation) | chunks of 2, LIMIT 1 | a mirror preview deletes a source row |
| `SyncJobs` | 2 jobs, 4 requests, 2 permits, 2 statements | six properties of the jobs: workers, plans, reports, the pool, a compare that stays; no call and no poll waits for ever |
| `SyncWizard` (violation) | 1 job, 3 requests | announces a deploy that has not run |
| `ToolJobsCancel` (violation) | 1 request | a status written over "canceled" |
| `Server` | tools: 3 requests, 2 permits, file and quota of 1 chunk, 1 cancel; queries: 3 requests, 2 connections, 1 save, 1 dropped request, 1 cancel under way at a time; stores: 2 tasks, 3 operations, 2 evolutions to the floor | the pool, the bounded overrun; kills, fresh schemas; a store survives a restart; nobody waits for ever |
| `TxSerial` | 5 requests of every kind, 1 id, 2 connections, a client that waits for answers | answered transactions stay reachable, statements run inside them, a rollback undoes |
| `TxOverlap` | 3 overlapping requests, 2 ids, 2 connections | the sweep spares statements, but one that was outwaited; every request is answered; idle sessions end |
| `TxCommit` (violation) | 3 requests, 1 connection | a commit is answered after the sweep has rolled back |
| `WebClient` | see below | sixteen properties of the screens |

`WebClient`, by view:

| view | bounds | properties |
|---|---|---|
| pages | 5 keys, pages of 2, 2 loads under way, 1 change of sort or filter, 2 pages, 1 foreign write | `WalkSkipsNothing` |
| grid | 3 rows, two of them alike but for the edited column when there is no primary key, 2 drafts, 2 edits, 1 reload, 1 foreign write | `SaveLosesNothing`, `FailuresNameTheirDrafts`, `EditsStayOnTheirRows`, `WaitingEnds` |
| conflicts | 2 stale updates, 1 stale delete, 1 reload | `AndNextFinishesTheScope` |
| values | every kind of column and text the module lists | `AcceptedIsStorable` |
| layout | 3 columns | `SomeColumnStaysVisible` |
| tabs | 2 tabs, 2 runs, 2 transactions, 2 clicks on commit, close and the like | `EveryTransactionHasItsTab` |
| config | 2 items, 2 posts | `EditsKeepTheRest`, `CopiesAgreeWhenQuiet` |
| jobs | 2 jobs, 2 questions under way, 1 start | `NoSilentStop`, `WaitingEnds` |
| plans | 2 choices, 2 requests under way | `ExecutesWhatIsShown` |
| suites | 4 suites, lists of 2, 2 clicks | `ListedIsOfTheSuite` |
| schemas | 2 connections, 3 clicks | `ListsAreOfTheirConnection` |
| results | results of 0, 4 or 7 rows, chunks of 1 row, pages of 2, 5 clicks | `LookedAtStays` |

Why the bounds are enough. Ranges come in four kinds (head, chunk, tail,
whole), and a key can lie before, in, between and after chunks: four keys with
two-row chunks and three keys with one-row chunks give each of them, with
tables of every shape including the empty ones. LIMIT 2 with two-row chunks lets
head and tail ranges hit the limit; `max_rows` 2 and 3 cut previews at every
point. One foreign write between any two queries is enough to move a key from
one side of the cursor to the other; what needs no write (`MaxWrites = 0`) is
checked on the larger instance. For the jobs, three tasks can overlap on one job
while a request is turned away only with two at work; four requests allow
compare, two previews and a deploy on one job. For the sessions, five requests
allow begin, statement, a failed end, its retry and a statement of the pool, and
three that overlap on one session are a holder, a waiter under the read guard and
one that wants the write guard: every way to wait. Two begins of one id, or a
remove that meets a newer session, need clients that do not wait: `Reachable` and
`ActiveIsInside` fail with `Overlap = TRUE`, as section 4 says. For the queries,
three requests on two connections are a canceled statement, a stranger that gets
its connection and the one who holds the other; or a change, a reader with the
lock of the cache and a save: the pool, the lock of the cache and the lock of the
client can each be what everybody waits for. For the stores, two tasks that
overlap and one more operation are a save that renames the file of another, and
an operation that is alone after it. For the screens the races are
between two: two loads, two runs, two posts, two questions, two requests of one
screen, together with one step of somebody else; five keys in pages of two leave
a full page, a half page and a page by key between them, and a list of three out
of five suites has one that fell out and one that comes in. The theorems below
lift the bounds for the properties they state.

Fairness. `RowSync`: weak fairness of compare and preview, because the server
polls the task and every query of the engine is wrapped in
`timeout(policy.db_query)`; nothing is assumed of deploys, later requests or
other sessions. `SyncJobs`: weak fairness of each handler and task for the same
reason; none of the client or the progress writes. `TxSessions`: weak fairness of each
request once it has arrived (statements of `/execute`, commits and begins have
timeouts; of the CRUD statements it is assumed that the database answers) and of
the sweep, whose interval never stops. `MCServer`: one weak fairness for the tools and
the queries, on what goes on by itself; none for the stores. For the tools that is handlers, the task while a thread
polls it or once it is aborted, and a cancel that has begun, but not `Poll` and
`WriteChunk`: the queries of these jobs have no timeout, so a waiting task may
wait for ever, and a canceled one gives its permit back all the same. For the
queries it is the handlers, whose acquires and queries have timeouts, the database
that ends a statement, and the sweep that ends an idle transaction; no cancel is
assumed, and no new request. One condition on the disjunction is enough here
because every step of it brings some request nearer to its end and requests are
bounded. `MCWebClient`: the
page the grid waits for arrives or fails, the interval of a job screen fires, its
questions are answered and jobs end; nothing is assumed of the user.
`CHECK_DEADLOCK FALSE` throughout: every behaviour is a bounded session that ends.

## 4. Findings

Five violation runs show where the code disagrees with what it or its tests say;
`findings` in PROJECT.json quotes the lines. In short: (1) target rows with keys
between two chunks survive a verified mirror sync; (2) a chunk size above the
row limit makes a mirror preview delete rows the source has; (3) the wizard can
announce a deploy on the status the preview left behind; (4) a cancel can be
overwritten by the task it aborts, which then is dropped and stays "running";
(5) a commit that meets the idle sweep is answered as committed after its
transaction was rolled back.

Behaviour that no line of the repository rules out, so no finding, but worth
knowing. On the server:

- Two begins of one id both open: the replaced session gives its connection back
  to the pool with the transaction open, and later statements of the pool run
  inside it. A CRUD statement that found its session before a commit runs after
  it, outside any transaction, and is answered "active" (TLC shows both with
  `Overlap = TRUE` on the properties of `TxSerial`).
- A CRUD statement of any length holds up all sessions once a second request for
  its id waits with the read guard held: begins, ends and the sweep need the
  write guard.
- A cancel kills after it has looked: when the statement has left the registry
  in between, the kill can stop a stranger on the same connection. A statement
  that times out while it waits for the session's Mutex kills the other statement
  of its transaction. Both kills need a second connection of the pool.
- A handler that is dropped because its client went away (axios gives up before the
  server does) leaves its token in `active_queries`: only three lines unregister one
  (`perf.rs:1206`, `1316`, `1327`), and no guard does. Its connection goes back to the pool, so a
  later cancel with that token kills the statement of whoever has the connection then.
  A save that is dropped between `take` and the new client leaves the server without one.
- A statement with a cancel token that waits longer than 600 s for its first lock of the session
  (`perf.rs:1126`), behind a CRUD statement that has no timeout, finds the lock free and the
  access time old; the sweep can roll back before the statement locks again, and it then runs
  outside the transaction. `SweepSparesStatements` leaves out just this statement.
- The job that imports a .sql file (`go_live.rs:2216-2296`) may change tables and clears no
  cache, so a schema from before it is served until it expires. It is not modelled;
  `ServedIsFresh` is about the statements that do clear.
- A request dropped in the middle of a save does not stop the save: the file changes
  while the memory stays as it was, or the write overlaps the next save.
- The comments of the stores call their saves atomic (`rule_engine.rs:74`). They
  are to a reader, a failure and a restart, but not to each other: a second
  save truncates the temporary file that the first is about to rename, so the file
  can be empty or torn until the next save; an older copy can be saved last; and
  `get_history` can put a file read before a change into the memory after it.
- Every save of the configuration connects again and closes the old pool
  (`main.rs:1397` says "Re-init DB if url changed"; the code does not look at the
  url), and holds the lock of `db_client` until every connection has come back.
- A reader between the clear and the replacement of the client puts the old
  database's schema into the cleared cache. A DDL statement that times out may
  have taken effect and clears nothing.

In the client:

- Table view: the last answer wins, also an older one; the debounce's reset says
  there is no next page until something loads.
- Grid: a reload under pending edits, possible through a refresh elsewhere, puts
  them on other rows; without a primary key the recovery of a stale edit takes the only row
  whose unchanged columns match, which can be another row; a draft deleted by hand shifts the failures of later ones; an
  insert whose answer was lost is sent again and may be there twice.
- Values: a number is checked by its form only. One beyond the range of its column, and an
  object of pasted JSON in a column of text, are accepted and left to the database.
- Tabs: closing a tab while it runs or ends, a closed tab whose silent rollback fails
  (`App/index.tsx:1041`), overlapping runs of one tab, a begin whose answer is lost or that
  meets an older answer still due, and the dialog for dangerous SQL leave a transaction open
  on the server, with no tab that shows it, until the sweep takes it.
- Configuration: an edit made on an older copy undoes the newer one; a duplicated
  connection has no password; the posts of the onboarding screen replace all
  connections when the first load failed.
- Jobs: with two questions under way an older "running" can come after the final
  answer, and then nobody asks again; the poll of a resumed job may stop the timer
  of another.
- Plans: the selects are not disabled, so an answer can bring the script of an
  older choice; the transfer keeps its script through every change; a suggestion of the AI
  (`TableDesigner.tsx:119`) or a reload replaces the edits under an open preview, which then executes
  a script that was not made of them.
- Suites: the list a run writes back is the one of its click; the server cuts
  the list of pairs before it looks for the ids.
- Tree: while a switch is under way the old schema stands under the new
  connection, and stays when the new one cannot be read.
- Results: more rows of an older run are added to the result at their index. The
  page of a longer result stays when a shorter one is selected: Previous then goes
  back one page at a time through empty ones ("Page 3 of 2"). The same happens when the
  answer of the sort panel (`App/index.tsx:2596`) replaces the result, and a menu that is open
  then names another row.

## 5. The proofs

Eight proof modules state all 28 invariants and all six action properties and
refinements for every value of the constants; the six other properties are
liveness. The assumptions are
the named ASSUMEs, which TLC evaluates on every run: `RowSync` (a finite set of
integer keys, positive chunk size and limits, the values that stand for no row or no
key are none), `SyncJobs` and `ToolJobs` (a positive number of permits, requests are
numbers; in `SyncJobs` the null values are distinct from the records), `TxSessions`
(the kinds are among those listed, `None` is no request, connection or kind,
`Overlap` is a Boolean), `MCServer` (requests are numbers, there is a connection,
the tasks of a store are finitely many, what stands for no or a broken file is no
number), `MCWebClient` (the ids of connections are integers other than 0 and -1,
query-1 is a tab, suites are positive numbers and more than one of them is kept;
the keys of a table, the keys and drafts of the grid, the rows of the conflicts and
the columns are finite sets of integers, there is a column, a page holds a row, and
0, which stands for no key, is no draft).

Two groups of theorems suppose more, and say so in their ASSUME. What the engine of
`RowSync` reads in a range is complete only if no query for a range is cut by the
row limit. `Roomy` says so with the constants: no table has more keys than the
limit, or the limit is at least the chunk size and the number of rows other
sessions may insert into a chunk while the job works. The defaults, chunks of 1000
rows and a limit of 100000, are of the second kind; both are settable, and what
happens without `Roomy` is the run `RowSyncLimit`. Three theorems
on `TxSessions` suppose `~Overlap`: a client that sends the next request of a
transaction before the last one was answered can lose it, and section 4 says so.

`SyncJobsProofs` proves `Spec => []IInv` for
`IInv == TypeOK /\ PermitInv /\ TasksHaveJobs /\ ResultsProduced /\
PlansArePublished /\ ReportedDeployCommitted`. None of the properties is
inductive alone. The type of `permits` needs that a permit given back is one
that was counted (`PermitInv`, which also carries that the holders are a finite
set, since `Request` may be infinite). That a plan names a successful request
needs that the record it is copied from does (`ResultsProduced`), and both need
that requests at work have a job that is in the map (`TasksHaveJobs`). From
`IInv` follow the permits, plans and reports, and the refinement of `JobPool`:
each step of a job maps to admit, turn away, leave or a stutter.
`CompareStaysPublished` needs one more invariant, `CompareAlone`: a job has one
compare and no published result before it ends. `BusyJobHasWorker` is proved
beside `IInv` over the first and last writes of the tasks.

`RowSyncProofs` proves that the listing covers what it must. Between two pages
every untouched source row up to the cursor lies in a range (`CoverInv`), and the
chunks listed so far are in order and end at or before the cursor (`ChunkInv`).
The step of `ListChunk` rests on `PageOfKeys`: the first n keys after the cursor
skip none before their last. `MinExists` and `MaxExists` get the extremes of a
finite set of integers by well-founded induction on its subsets.

On top of the listing it proves the four properties of what is then done with the
ranges. That no query is cut is a count: a chunk is listed with at most
`ChunkSize` rows, every foreign write adds at most one (`RangeFits`; `EndsFit` for
the two ranges outside the bounds). So what the engine holds between its two
reads of a range is all the source has there on the keys nobody else wrote
(`ReadInv`), what a preview collected leads from target to source (`CollectInv`), and
a visited range is settled (`SettledInv`): each of its keys is as in the source or
will be after the deploy. `Paired` keeps the loops over ranges and verdicts in step.
Together they are `EngineInv`, from which `EqualIsEqual`, `DeletesAreGone` and
`DeployReachesSource` follow. `VerificationPasses` needs that the second compare
lists the very ranges of the first although the deploy wrote only the target:
the listing is a function of the source (`Cuts`, the smallest set of cursors closed
under taking the next page; `PagesInv`), so a key between two chunks, which neither
looks at, cannot make it fail (`Examined`, `ExaminedInv`).

`ServerProofs` proves, for the specification of the `Server` run, that permits
and holders add up to `MaxJobs` and that `ToolJobs` implements `JobPool`. The
permit belongs to the handler until it spawns and to the task from then on
(`TasksFollowHandlers`), also when a cancel drops the task half way; the holders
are a finite set because each took one of `MaxJobs` permits. What the directory
holds is a count of pairs of an export and a chunk, so `OverrunIsBounded` needs no
sum. The invariant (`OverrunInv`) counts, beside the chunks written, all those that
an export which passed the check may still write (`Reserved`): the next one to pass
finds at most `MaxJobs - 1` others that may write, and its own file fits what it saw.

It also proves `StoresSurvive`, for any number of tasks and operations.
That the file is whole rests on `SaverIsAlone`: a save that is alone, also one whose request
is gone, has the
temporary file to itself, which is never the file, and it holds the content when it is renamed.
That memory and file agree needs to know where an operation is: `LoneIsRight`
says what one that is alone will leave behind, `MemoryAgrees` how far memory and
file differ at each of its places. That an unused inode is left for a new
temporary file is a count of those in use (`TmpInodeIsOwn`).

`TxSessionsProofs` proves `SweepSparesStatements` whatever the clients overlap.
A statement with a session is either still reading the map, which keeps
the sweep out, or has refreshed the session; from then on it waits for the Mutex or
has it (`RunnersHaveTheLock`), or it waits for the first lock of its cancel token, and then the
session stays fresh unless that wait was too long (`PeekersStayFresh`); and the sweep's
list of expired sessions holds none that somebody still works with
(`SweepIsAlone`). `RequestsAreOnTheirWay` says how far a request that has, or has
not, a session can be.

For clients that wait for their answers it proves `Reachable`, `ActiveIsInside` and
`RollbackMeansUndone`, from `Serial`: an id has one request at a time
(`OneAtATime`), so a session's connection has one name and one user (`NotShared`); an
open transaction is open on one connection, that of its begin or the one its id
names (`OpensAreKnown`); nobody is there to wait for, so no first lock is outwaited (`NoneOutwaits`); a session in the map is inside a transaction, unless the
database ended it unseen or its end is about to remove it (`SessionsAreInside`).

`QueryServerProofs` proves `KillsHitTheirOwn` and `ServedIsFresh`. The first needs
that a registered statement keeps its connection while its handler lives, and that connections at work have
one owner (`ConnectionsAreOwn`). The second is an argument about the
lock: a change is answered only after the cache was cleared
(`ChangesAreCounted`), nobody clears while a reader fetches (`FetchIsFresh`), so
what is in the cache has seen all that was answered, and is of no older database
than anybody's client, unless a save still has to clear it (`CacheIsFresh`).
`EarlyIsEmpty` says that requests have nothing before they start, and `SavesInTurn`
that saves do not overlap, a bound of the model.

`ScreensProofs` proves the properties of six modules of the client, each for any
number of clicks and requests under way.
- `SchemaViews`: a schema that stands under another connection has a request under
  way that will bring the right one (`OwnSchemaComes`), the question for tables is
  the one for the chosen connection (`AskedForThePick`), and so are the tables
  offered (`OfferedAreThePicks`).
- `PlanWizards`: script and comparison are made of the input that is shown as long
  as no input changed under a request (`MadeOfTheInput`, `DiffIsOfTheInput`).
- `JobWatch`: with one job at a time every question and answer names it, and a
  screen that shows it unended has a timer, a question under way or an error.
- `PerfSuites`: what is asked for the shown suite or pair and comes in time is of it.
- `ConfigEdits`: what is on its way and not late is the newest configuration, and a
  client without it waits for an answer (`NewestComes`); a post that waits is the
  edit of a copy a client had, by one of the edits a screen offers (`IsPost`).
- `GridValues`: a cell is filled only with what a conversion can make (`Made`), and
  of that Save accepts nothing a column cannot hold, but for what nobody checks (`Unchecked`).

`WorkbenchProofs` proves `EveryTransactionHasItsTab`, the promise that no
transaction is left open behind the user's back except in the ways the module
names. Its invariant says of a transaction that is not excused: an open one is
shown, used by a run, or being closed (`OpenIsHome`); a run is alone in the tab
that shows its transaction, finds it closed when it is to begin it, and its loop
knows whether it is open (`RunIsHome`); an answer that says it is gone is right
(`GoneIsGone`); and the answers its tab still waits for are about it
(`AnswersAreOfIt`), so a late answer cannot mark it idle. An id is known in one tab
only (`OneTab`), so each step is argued in its own tab and `TabStepKeeps` carries the
rest; only closing several tabs at once is argued by itself.
It also proves `LookedAtStays` of `ResultGrid`: without a grid no page, sort or menu
is kept (`NothingKept`); the page is one of the result it was chosen for, which only
grows (`PageOfItsResult`, `PagesGrow`); and an open menu names the row at its place
(`MenuOnItsRow`), which a load cannot move unless it sorts (`UnsortedRow`).

`GridProofs` proves the properties of the table view. What the modules sort or
filter they state by rank (`Ranks`): the n-th of a set is the element with n at or
below it, so `Ordered`, `KeptOnes` and `KeptList` are facts about cardinalities and
no induction is needed.
- `GridLayout`: the columns have one place each and one of them is visible, in
  memory and in what is stored (`LayoutInv`), also when the schema that comes shares
  no column with it.
- `ConflictReview`: while the dialog shows a conflict, that one is of its scope and
  of the report, and what is left of the conflicts it began with is in the scope
  (`ConflictsInv`). So the last one it shows is the last one left, and "& Next" opens
  another of them.
- `GridEdits`: `GridInv` says of a pending edit, of what a save still has to send, of
  what it reports and of what a recovery holds back that the row is the one it was
  made on, or without a primary key one with the same unchanged columns (`OnTheirRows`); of inserts that each is of a draft of its own, and moves up
  with it when drafts before it were saved (`NameTheirDrafts`, an argument about
  ranks, `MovesUp`); and of a save under way that every pending change is in the copies
  it will store or was written (`SaveInv`). From the last `SaveLosesNothing`
  follows; drafts with the same key are told apart by counting their places.
- `TablePages`: `WalkSkipsNothing` is about a page at rest, the invariant about loads
  under way (`Walks`). Either a timer runs that will leave the page; or the load
  issued last is the first page as things are now, or ends the walk whatever it
  brings; or nothing is under way and the bounds of every page up to the shown one
  were reached (`Sound`); or the one load under way goes on by key from a row that
  was reached (`Continues`). `AnswerIs` says that a load by key brings every row
  up to its last one. How the pages fit each other is not needed: what others
  delete or insert moves rows between pages, and only the rows they touched are
  excused. The theorem has no bound on the pages, so it covers the turn back from a
  third page that the run with two pages does not reach.

Only model-checked, because out of the prover's reach: the six liveness properties.

## 6. Not modelled, and what is left

`components` in PROJECT.json gives the reason for each part left out.

- The pipelines of performance sync and go-live on the server, on top of `RowSync`
  and `ToolJobs`: their screens are `JobWatch`.
- The chunked preview of a statement (pure arithmetic; at the row cap its
  `has_more` looks at another size than its limit), virtual schemas, the clients of
  other connections, several transactions together with cancels.
- In the client: the switch of the table under the grid (`useResetTableState`),
  drafts of dialogs, the column layout of `SimpleDataTable` (the same code as
  `GridLayout`), charts and exports, the history of single probes.
- The AI agent depends on the answers of a language model; SSH tunnels, adapters,
  file formats, crypto and SQL text are input and output or string work.
