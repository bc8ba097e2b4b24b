# Etiquetta in TLA+

Etiquetta is a self-hosted web analytics server: one Go process over one DuckDB
file (or a DuckLake catalog), with a React front end. Requests come in by HTTP;
rows are collected in memory, written to parquet files and loaded into DuckDB;
background jobs summarise, score, compact, retain, alert and synchronise.

Visited sites run three scripts of it (tracker, consent, recorder) or report from their
own server through the Node client; the dashboard is a React application.

Modules are translated from the Go, TypeScript and JavaScript source. PROJECT.json names the source lines
behind every definition (`map`), the hazards each property is for (`hazards`),
the places where code and documentation disagree (`findings`), and for every
property a plausible bug that breaks it (`mutants`).

## 1. Inventory

State is in the process (P), in files (F) or in the database (D).

| Component | State it keeps | Operations | What makes it correct |
|---|---|---|---|
| Ingestion buffer (`internal/buffer`) | P: four table buffers, `flushCh`, wait groups, `accepting`; F: `.tmp`, `.parquet`, `.parquet.failed` | AddEvent and siblings, threshold flush, ticker, Flush, FlushAndWait, writer, recovery, Close | no row vanishes unlogged, none is loaded twice by a process, shutdown terminates and panics nowhere, a barrier covers what it says |
| `dbMu` and compaction (`buffer/compaction.go`, `api/handlers.go`) | P: one RWMutex | RLock by most requests, jobs and the writer; Lock by the compactor | CHECKPOINT keeps out everyone who takes the lock; everybody gets a turn |
| Import jobs (`internal/migrate`) | P: running map; D: `import_jobs`, imported events | start, progress, cancel, rollback, shutdown | a rolled-back import leaves no rows; statuses follow the job |
| Daily rollup (`internal/rollup`) | D: `rollup_daily` | backfill, refresh, read | "every stored metric is EXACT for that day" |
| Bot batch (`bot/batch.go`) | D: scores in events, `visitor_sessions` | seven analyzers, MaterializeSessions | scores only rise; sessions agree with events |
| Alerts (`internal/alerts`) | D: alerts, fires | tick, evaluate, dispatch, record | at most one fire per cooldown |
| Replay (`internal/replay`, `handlers_replay.go`) | F: gzip per session and day; D: recordings | ingest, read, delete, retention | metadata and files agree |
| DuckLake (`internal/ducklake`) | D: main and lake catalogs | attach, Lakeify, migrate, compact | a crash at any step loses and doubles nothing |
| SQLite migration (`database/migrate_sqlite.go`) | F: three files; D: all tables | detect, copy, rename | everything is copied before the source is put away |
| Settings (`internal/settings`) | P: caches; D: settings, domain_settings | Get, Set, SetMany, per-domain variants | the cache ends up equal to the row |
| Ad connections (`internal/connections`) | D: connections, tokens, spend | sync, connect, disconnect, delete | no spend without connection, newest token wins |
| Licensing (`internal/licensing`) | P: current licence; F: licence file | load, upload, remove | tier follows the file and the clock |
| Privacy and retention (`handlers_privacy.go`, `serve.go`) | D, F | erase, export, retention | erased rows do not come back |
| Server life cycle (`cmd/etiquetta/serve.go`) | P: all of the above | start in order, stop in order | nobody uses the database after it is closed |
| Tag manager (`handlers_tagmanager.go`) | D: containers, drafts, snapshots; P: `containerCache` | edit, import, publish, roll back, serve, delete | a published version has its snapshot; the served script is that of the published version |
| Live streams, rate limiter | P: windows, streams | subscribe, limit | bounded, released at shutdown |
| Tracker, consent script, recorder (`tracker.js`, `consent.js`, `recorder.js`) | page: queue, timers, consent, identity, recording; browser: decision cookie, visitor id | load, track, flush, compress, ask, answer, hide, unload, restore | no event twice or forgotten; after a denial nothing is kept; consent reaches each script |
| Node client, Next middleware (`sdks/`) | site's process: queue, timer, requests | track, flush, requeue, close | events are tried until stored or dropped knowingly |
| Dashboard queries and screens (`ui/src/hooks`, `pages`, `components`) | tab: the query cache, the open screen, the selected property | load, mark, mutate, poll, select | what is shown as valid is what the server has |
| Dashboard session (`useAuth.tsx`, `Login.tsx`) | tab: user, loading, setupRequired; browser: cookie | refresh, log in, set up, log out | a signed-in user reaches the dashboard |
| Remaining authentication, administration, statistics, ad fraud, enrichment, mailer, CLI, backup, widgets, WordPress plugin | mostly D, or none | CRUD, queries, rendering | see section 7 |

Interactions: handlers and import jobs call the buffer; the buffer's writer, the
requests behind `dbReadLockMiddleware` and the rollup, alert, batch and retention jobs share `dbMu` with the
compactor, while public and authentication routes, the synchronisation of connections and
imports use the database without it; an import rollback runs inside a request and waits for the buffer;
`serve.go` stops everything in an order that has to keep the buffer and the
database open until their last user is gone.

The scripts of a page speak to each other by two window events and two globals, and to the
server by beacons that nobody answers. The dashboard speaks to the server by requests only;
its screens share the query cache and the selected property, and the server announces
new events to the overview by a stream. The tag manager's script is served to visited
pages from a cache that publishing and rolling back clear.

Hard to test are the interleavings of producers, ticker, barrier and shutdown;
crashes between a file operation and the database statement that belongs to it;
waits of one lock's holder for another's; caches filled from rows read earlier;
windows of time cut in the middle of a day or a session; in the browser, the order of
scripts, answers, timers and unload events, and answers that arrive after the screen, the
property or the session they were asked for has changed.

## 2. Modules

| Module | Models | Composes |
|---|---|---|
| `RowStore` | what the buffer promises about a row: accepted, volatile, durable, stored, quarantined, lost | |
| `BufferPipeline` | all of `buffer.go` and `parquet.go` that changes state | `RowStore` (INSTANCE) |
| `BufferPipelineProofs` | theorems about `BufferPipeline` | `BufferPipeline`, TLAPS |
| `DatabaseLock` | `dbMu`: middleware, jobs, writer, compactor, import rollback; and the users of the database that do not take it | |
| `DatabaseLockProofs` | theorems about `DatabaseLock` | `DatabaseLock`, TLAPS |
| `ImportJobs` | `JobManager`, `executeJob`, the migrate handlers, shutdown as far as it orders them | |
| `ImportJobsProofs` | theorems about `ImportJobs` | `ImportJobs`, TLAPS |
| `PageScripts` | `tracker.js`, `consent.js`, `recorder.js` in one page | |
| `PageScriptsProofs` | theorems about `PageScripts`, and the types of `MCPageScripts` | `MCPageScripts`, `NodeClientProofs`, TLAPS |
| `NodeClient` | class Etiquetta of `sdks/node`, the middleware of `sdks/next` | |
| `NodeClientProofs` | theorems about `NodeClient` | `NodeClient`, TLAPS |
| `Hooks` | every query of the dashboard with the tables its handler reads, every mutation with the tables its handler writes and the keys it marks | |
| `Screens` | what each screen reads and sends, and when | `Hooks` |
| `QueryCache` | what happens to the cached entries of one query | |
| `Session` | `useAuth.tsx`, the forms that end in a refresh, `handlers_auth.go` | |
| `TagContainer` | the tag manager's handlers, its cache, PublishBar and VersionHistory | |
| `TagContainerProofs` | theorems about `TagContainer` | `TagContainer`, TLAPS |
| `DashboardProofs` | theorems about `Session` and `QueryCache`, and the types of `MCDashboard` | `MCDashboard`, `TagContainerProofs`, TLAPS |
| `EventStore` | what the server promises about the event tables across its starts | |
| `Storage` | the start of the server and `ducklake-migrate`, as far as the event tables are concerned | `EventStore` (INSTANCE) |
| `StorageProofs` | theorems about `Storage`, and the types of `MCDatabase` | `MCDatabase`, `DatabaseLockProofs`, TLAPS |
| `MCBufferPipeline`, `MCImportJobs` | instances for TLC | |
| `MCDatabase` | instance of the database's surroundings | `DatabaseLock`, `Storage` |
| `MCPageScripts` | instance of both sides of a visited site | `PageScripts`, `NodeClient` |
| `MCDashboard` | instance of the dashboard | `QueryCache` with the queries of `Screens`, `Session`, `TagContainer` |

### BufferPipeline

* A parquet file is the set of rows in it. Rows are distinct and added once, so
  this identifies files; the names the code makes from the clock are assumed
  not to collide.
* `mem` stands for the four `TableBuffer.rows`; `Order` gives the order
  in which flushAll and the ticker visit them. `held`, `stage` and `pos` are the
  local variables of whichever goroutine swapped a batch out: a threshold batch
  is first "parked" (swapped, goroutine not yet registered), then created, published
  by the rename, and sent.
* `adder[r]` is the call that adds row r: `beginOperation`, `TableBuffer.Add`,
  and the registration of its goroutine are separate steps. `OperationsDone` and
  `ProducersDone` are the two wait groups, computed from this state.
* `call` holds the Flush and FlushAndWait calls, `before` and `covered` are
  history variables: the rows added before the call, and the rows that were queued
  then or that the call queues itself.
* The writer's `load` is one INSERT that succeeds or fails; `Keyed` are the tables
  where it says ON CONFLICT DO NOTHING. A failed load backs off once; the error that
  is still in `err` then ends the loop (finding `buffer_retry`).
* `loads` counts the loads of a row by the process that runs, `copies` by all of them: a crash between the INSERT and
  the removal of its file, or a removal that fails, makes the next process load the file again.
* `Stop` ends the process at any step, by a crash or after Close, and with it every call that
  has not been answered; `Start`
  is `NewBufferManager`, whose directory scan decides what recovery queues.
* `DiskFaults` lets creating, renaming, removing and listing files fail.
* Not modelled: statistics, the column list of the INSERT, file names, a failed
  probe of `tableSupportsOnConflict` (see the hazards).

`RowStore` is the contract: a row is published, lost, set aside or retired together
with its batch, a load inserts each row of a published batch, and a batch is only
retired once the database holds all of it. `Fate` is the refinement mapping.

### DatabaseLock

`RLock` needs the write lock to be neither held nor pending, which is Go's
RWMutex: a Lock that waits keeps new readers out. Clients are requests behind
`dbReadLockMiddleware` and the jobs that take the read lock (alerts, batch, rollup,
retention, domain access). `Unguarded` are the users that never take the lock (`Enter` and `Leave` without it): the public routes, which are the scripts
`/s.js`, `/c.js` and `/tm/…`, the ingest of events, replays and consent (`router.go:120-155`), the authentication routes and
the lookup of every request's session or key, the event stream (`router.go:167-194`), the synchronisation of connections
and the goroutine of an import. A rollback is a request that, inside, queues a file, queues a
barrier, waits for the answer and deletes. The channel is kept with its capacity,
the rest of the buffer is `Produce`. In DuckLake mode there is no compactor; these are
the behaviours in which `CompactionDue` never happens.

### ImportJobs

Requests and rollbacks arrive before they act, so one that has arrived may still act
while the server shuts down. `status` is the column of `import_jobs`; `request`, `task` and `ctxDone` are the
request that starts a job, its goroutine and its context. `executeJob` logs or
ignores a failed UPDATE of the status, so `Update` may leave it as it was. `place` says where a
row is between its file and the database; the buffer is reduced to this, with what
a rollback can meet in it: a batch in some goroutine's hands
("flying"), a parquet file that could not be removed and is loaded again by the next
process ("left", "leftover"), a file that recovery has found and not sent yet ("pending"), one that it did not find ("onDisk"),
and the barrier (`awaited`). After a restart `Recover` sends the files one by one
(`queuePendingParquet` runs in a goroutine of its own), so a rollback's barrier may overtake them. `stage` is how far `runServe`
has come: serving, draining (`server.Shutdown`), joining (`JobManager.Shutdown`),
buffer (`Close`), closed (the database). `late` is the expired `shutdownCtx`.
`settled` is a history variable: the conditions under which a rollback finds all rows. It must have met no goroutine of the
job that is still to add rows, no batch in another goroutine's hands, no file that recovery had still to send,
and no expired deadline; and
no file of the job may be left behind: neither by a failed removal before this rollback, nor by one
before an earlier rollback of the job, after which the rows are deleted but the file is still there. That two
requests may roll the same job back at once (nothing in the code keeps them apart) is part of the model.
`dbMu` is left to `DatabaseLock`; an import's goroutine does not take it.

### Storage

`phase` follows `runServe` from the check for an SQLite file to the server, and `i` the table it is
at. `main` and `lake` say what each event table's name stands for in the DuckDB file and in the lake's catalog: nothing,
a table with its rows, or a view that an older build left. Each statement is a step and is
committed when it is done, so `End`, which ends the process at any step, is a crash, an error that is fatal and a stop at once.
The next `Start` may ask for the other storage. `ducklake-migrate` runs while the server is
down, fills the lake from the file and may be cut off too.

`Home` is the `search_path`: a name is the table of the DuckDB file where there is one, and else that of the
lake. In duckdb storage the lake is not attached; tables that were moved there stay there, and a
statement on them fails (`Rewrite`) until the lake is used again. `EventStore` calls these rows the server's all the same: they are not lost.
Its contract is that the rows of each table change only while a server serves (`era`), except that the first start of a new install may add
those that an older database holds (`older`), and no others; so a copy that Lakeify or the tool made earlier is never taken for
the table, however the rows have changed since.

An INSERT of the import may fail (`ImportTable`), and always does on a table of the lake. External are three facts: CREATE TABLE AS
SELECT is atomic, ON CONFLICT needs a constraint, which the lake's tables do not have (buffer.go:594 says so), and one process at a time opens a
DuckDB file. Not modelled: the migrations after the first, the write-ahead log, `Compact`, which merges and expires files but
leaves the rows, and the way back by hand that the documentation describes. The snapshot copies the DuckDB file without the
log a crash may have left beside it; the model takes the file to hold every committed row.

### PageScripts

`page` is a record of what the scripts of one page hold, and a script's function is an operator
from the page to the page it leaves (`flush`, `queueEvent`, `handleConsentChange`): the
single thread of a page makes a handler with all it calls one step. Events are numbered; `sent`,
`dropped` and `coding` say where they went, `coding` being the batches whose compression is a
pending promise. The listeners of `visibilitychange`, `beforeunload` and `pagehide`
are applied in the order in which the scripts added them, because the order decides which
flush still compresses. `Elsewhere` is the visitor's answer in another tab, `PublishConsent`
a new version of the configuration, which makes stored answers void. A hidden page may
be discarded at any time; a frozen one comes back with its memory. `PageHide` needs no `beforeunload` before it, and a recorder
that has been stopped keeps its listeners (`onUnload`).

### NodeClient

The server is in the module as far as the client sees it: `Receive` is `Ingest` of handlers.go taking charge of a batch (lines it skips
are answered like the others). A request (`flights`) may be stored by the server (`Receive`) before it is answered or fails, so
a retry may store an event again: the code promises delivery at least once, and the model
keeps to that. The process may end at any time; its timers keep nothing alive.

### Hooks, Screens, QueryCache

`Hooks` and `Screens` are data. `Hooks` says of each hook its key, of each mutation the tables its handler writes and the
prefixes its hook marks, and of each table the queries whose handlers read it (`Readers`). A mutation changes every query that reads a table
it writes (`Changes`); `Audited` ones write the audit log as well. `Screens` says of each component what it reads (`Shows`), reads in a panel
(`Opens`), sends (`Once` when the button is disabled meanwhile, `Often` when not),
reloads or is told of. `About(q)` turns them into what `QueryCache` needs to know of one
query. `RefreshAssumption`, which TLC evaluates, is the check that every mutation marks what it
changes (`ButtonsAssumption` says that a screen's buttons are those of the query's mutations), except for the audit log and for `Gaps`, which names
for each table the mutations whose hooks leave some of its readers unmarked. These are the code's; an entry
that a gap has changed stays on screen as valid. In words:

* every handler that calls `logAudit` leaves the audit log as it is on screen (only the erasure of a visitor marks it);
* saving or switching the consent banner, a new or deleted property and a new or removed licence leave the privacy audit; a property
  leaves the tag containers and what is scoped by its host name as well;
* starting and rolling back an import leave the statistics, and starting or stopping one in the wizard leaves the list of
  jobs, which nothing polls (`useMigrateJobs` has no `refetchInterval`);
* erasing a visitor leaves the statistics, consent records and errors;
* deleting replays leaves the open replay and its session's events, deleting a cohort its retention table;
* connecting, renewing, disconnecting or synchronising an ad account leaves the figures computed from its spend, a campaign the fraud summary;
* the name in the account settings leaves the list of users.

Some of these may change the data of a property other than the selected one (`anywhere`); for its entries they are changes
made by somebody else (`Elsewhere`).

`QueryCache` follows one query. An entry has a version of the server's copy, a mark and the
loads under way; `invalidateQueries` drops a load under way only if the entry has data and is
on screen. Screens that fetch by hand (users, e-mail, GeoIP, ad settings) keep their data in
the component and take the answer that arrives last. `missed` is a history variable: entries
with a change that no load was sent to see, by somebody else's change, by a failed request, by one of the gaps above, by a
callback of a component that is gone, or because a load that was under way when the entry was
marked clears the mark.

### Session

Each call of `refresh`, `login`, `logout` or of a form is an element of `Call` that waits for an
answer; the cookie belongs to the browser and goes with a request when it is sent. `here` is
whether the component that made the call is still shown: a button is disabled only by the
call its own component has pending. `overlapped` is a history variable: a refresh began while another ran.
Two refreshes at once can disagree about the setup, and the last answer wins; `NobodyIsLockedOut`
leaves these out, as the theorem does.

### TagContainer

A handler is a sequence of statements, and others run between two of them: `PublishContainer` reads
the row, the tags, the rest, and then saves in one transaction. The draft is named by the numbers of the
edits that made its tags and the rest, so that a snapshot that mixes two drafts is seen as
such. `screen` is what PublishBar and VersionHistory last loaded, and guards what an admin
can ask for. `late` marks a cached script that a clearing has missed.

## 3. Runs

| Run | Question | Instance |
|---|---|---|
| `buffer_crash` | Is any row lost silently, loaded twice by a process, queued twice or sent on a closed channel? Does the pipeline implement `RowStore`, and is the database left alone after Close? | three rows, two tables (one keyed), channel of one, two processes, disk faults |
| `buffer_live` | What does a FlushAndWait call cover, and what does Close leave behind? Do Close, FlushAndWait and every row come to an end? | two rows of one table, another table, one call, one process, fairness |
| `buffer_barrier` | Does FlushAndWait wait for every row added before it? No. | three rows, two tables, one call, one process |
| `buffer_retry` | Is a failed load retried before quarantine? No. | maxRetries = 3 as in the code |
| `database` | Does CHECKPOINT keep out everyone who takes `dbMu`? Does everyone get the database? Does any sequence of starts lose rows, bring them back or leave a table where the server does not look? | two requests, one rollback, one user without the lock, channel of two; two event tables, two rows of one of them, either storage at each start, any number of starts |
| `lock_deadlock` | Does an import rollback return? No. | one request, one rollback |
| `import_jobs` | Does shutdown miss a job or drop its rows? Are final statuses final? What does a rollback achieve, and does it end? | one job of one row, two rollback requests, two processes |
| `import_rollback` | Does a rollback delete all rows of the job? No. | one job of two rows, one rollback request, one process |
| `page_scripts` | Is an event sent twice, forgotten or left waiting? What is left after a denial? Do scripts hear of a consent? Does the Node client deliver? | one page with batches of two, two actions of the visitor per load, two versions of the configuration, three setups; three events, batches and queue of two, one request |
| `dashboard` | Is an old copy taken for a valid one? Does a screen catch up? Is a signed-in user kept out? Is what is served what was published? | each kind of query with its screens, two properties, two changes, three moves, one failure; two calls, three sends, three failures; two admins, one visitor, one container, one edit, two versions |
| `storage_snapshot` | Is the DuckDB file copied aside before its tables go? No. | the tables and rows of `database` |
| `tag_publish` | Does publishing make a new version? No. | as the tag manager of `dashboard` |

Bounds. Threshold 2 with two rows in one table makes both a threshold batch and a
short batch that only the ticker, a flush or Close can take; a row of another table
puts a second visit into every scan; in `buffer_live`, where liveness bounds the size, that visit finds nothing. A channel of one blocks producers, recovery and
barriers against each other. Two processes are a crash, a recovery and the end of
the second; what a third would find is what the second finds. `MaxRetries` only
matters where retries are counted. In the lock model two requests suffice for one to
be inside while another is kept out, and a channel of two holds a file and a barrier.
Jobs share nothing but the buffer and the shutdown, so one job is enough for what is asked
of it. Its row may be anywhere when either of two rollbacks reads, flushes, waits or deletes, and what
a rollback achieves is a statement about each row; `import_rollback` has two, one of which may be in the
database while the other is still on its way. The safety properties are proved for any number of each (section 5).
In `Storage` two tables make one that is moved while the other is not yet, and two rows of one table make a table and
a copy that differ although their counts agree, which is all that Lakeify compares.
A batch and a buffer of two in `PageScripts` are filled by a pageview and one event; two
actions of a visitor suffice for a navigation or an event before and after a consent, and loads of the page follow each other
without bound. Queries that the client treats alike (a query per property or one, fetched by hand, polled) are put together by `MCQuery`: its
queries have the mutations of all of them, told apart by what they change and mark (`Kind`), and their
screens (`Together`), so what one of them may do is a behaviour of the query that stands for it. The properties are alike too, and
`MCInit` selects `d1` first. Two properties make a mutation of one finish while the other is
selected, three moves open a screen, leave it and come back, and two changes
overlap. In `Session` two calls overlap, in `TagContainer` two admins race and one
visitor is overtaken. The modules that share an MC module share no state: the run explores
each while the others rest (`side`), so it asks the questions of each of them. `dashboard` and `tag_publish`
check no deadlock, since the bounds on moves, calls and edits run out, nor do `database` and `lock_deadlock`, where `Embrace` is one.

`page_scripts` (364 349 distinct states) and `dashboard` (658 835) are the largest runs, of two to four minutes each.

The findings:

* `FlushAndWait` flushes the buffers itself and relies on that to be behind every
  earlier row (buffer.go:358). A batch taken out by a threshold Add or by the
  ticker is neither in a buffer nor in the channel for a while. `BarrierCovers`
  says what the call does guarantee.
* `writerLoop` is documented to retry three times (buffer.go:490). The test after the
  backoff is on the old error, so it never does.
* A rollback request holds the read lock of `dbMu` while it waits for the writer.
  When a compaction asks for the write lock meanwhile, the writer is kept out and
  nothing moves again. `Embrace` describes this state; `database` shows it to
  be the only thing that keeps requests, compactions and the writer from finishing.
* `Rollback` refuses a job whose status is running (engine.go:207) and no other. A job that is
  pending, or whose goroutine has not ended yet, passes, and adds rows after the DELETE; after a restart, so do
files that recovery has not sent yet.
  `RollbackSticks` says when the comment "deletes all events" (engine.go:201) is true.
* `PublishContainer` takes the published version and one more (handlers_tagmanager.go:623). After a rollback
  that number is in use and UNIQUE(container_id, version) refuses it: publishing fails until somebody
  rolls forward. handlers_tagmanager.go:593 promises "a new version".

* A start on the lake copies the DuckDB file aside when there is no catalog (serve.go:188). `ducklake-migrate`, which the
  documentation recommends for an evaluation, makes the catalog; the tables are then dropped without the
  "rollback snapshot" of docs/ducklake.md:50. A snapshot left by a start that failed is not renewed either.

Observed while modelling, without a run of their own: `PauseWrites` is "used by compaction to get exclusive DB access"
(buffer.go:479), but those in `Unguarded` never ask for the lock, so CHECKPOINT runs while an ingest, a login or
an import is in the database (`HoldersStayOut` says what the lock does achieve); `MigrateSQLite` runs after `Lakeify`, and the lake's tables refuse its ON
CONFLICT (migrate_sqlite.go:75); the failure is only logged and the file renamed, so under the default storage no event of an
SQLite database arrives; only an import raises `draft_version`, so after the
first publish PublishBar says "All changes published" of an edited draft and offers no publishing; VersionHistory asks
to "overwrite the current draft" (VersionHistory.tsx:24), and a rollback does not touch it; a closed Node client
drops batches that fail later; in the unload of a page the first listeners still compress;
a start that is cut off while it imports an SQLite file is not asked to import again, since the DuckDB file
exists by then (the rows stay in `etiquetta.db`); the help of `ducklake-migrate` names `visitor_sessions`, which `EventTables` leaves out.
The scripts treat a configuration request answered by an error as a refusal, but a consent script that cannot be loaded
as "unavailable", which allows tracking (`analyticsConsentAllowsTracking`).

## 4. Fairness

* Weak fairness on each goroutine's next step: the Go scheduler runs what can run.
  A producer's write may fail instead of succeed, but it ends.
* Strong fairness on `TickerExit`: its select chooses at random between the
  ticker and the stop channel, so the stop channel is chosen in the end.
* Strong fairness on taking the read lock and on sending a rollback's barrier:
  RWMutex lets waiting readers in before the next writer, and a channel serves
  blocked senders in order.
* `Start` is weakly fair: the systemd unit written by install.sh restarts the service.
* In `ImportJobs` the goroutine of a job goes on with its file or stops, every step of a
  rollback is taken or fails, and the timer of `shutdownCtx` fires. `RollbackEnds` and
  `ShutdownEnds` therefore leave out the deadlock of `lock_deadlock`, which needs `dbMu`.
* None on callers, on Close, on the deadline, on the due time of a compaction, on
  faults or on the success of a load. `RowsSettle` therefore counts a quarantined row as settled,
  and excludes a process that is closed, past its deadline or down.

* In `PageScripts` a running page fires its timers and promises (`Sending`), and script elements end in load or
  error, the request for the configuration in an answer or its timeout (`Loading`). Nothing
  is assumed of the visitor, and nothing of a page that is hidden, frozen or discarded: both properties
  end with `~Running`.
* In `NodeClient` timers fire and requests end (weak), and a server that is reached again and again by an
  event's batch stores it once (strong, per event): without it nothing is ever delivered.
* In `QueryCache` mutations and loads are answered, the debounce timer fires, and a query with an unconditional
  `refetchInterval` is polled. `CatchesUp` excuses an entry that has missed a change and is not polled.

## 5. What is proved

Every invariant and every action property that a passing run checks is also a theorem of TLAPS, for
all values of the constants that satisfy the named assumptions, and so are the refinements of `RowStore` and `EventStore`.
TLC also finds each inductive invariant named below to hold on the instance of its component's passing runs.

**BufferPipeline**, under `ConstantsAssumption` (the set of rows is finite; rows, calls and the two
fixed goroutines are different things; capacities are positive).

| Theorem | States | Rests on |
|---|---|---|
| `TypeCorrect` | `[]TypeOK` | `IInv` |
| `NeverSendsOnClosed` | `[]NoSendOnClosed` | `IInv` |
| `LoadsOncePerLife` | `[]OncePerLife` | `RowInv` |
| `QuietOnceClosed` | `QuietAfterClose` | `RowInv` |
| `ClaimsSound` | `[]ClaimsAreSound` | `RowInv` |
| `RowsConserved` | `[]Conservation` | `RowInv` |
| `CloseIsClean`, `DeadlineIsSafe` | `[]CleanClose`, `[]DeadlineKeepsRows` | `FullInv` |
| `BarriersCover` | `[]BarrierCovers` | `RowInv`, `Waiting` |
| `RefinesRowStore` | `ImplementsRowStore` | `RowInv` |

`NoSendOnClosed` is not inductive: that nobody can *start* to hold a batch depends on how
far Close has come. `IInv` is TypeOK, `Shape` (a flusher that holds a batch stands at a
table, only threshold batches are parked, a stopped process leaves no Close behind) and
`Shutdown`, which lists what each wait of Close has established: after "ticker" the ticker
is gone, after "ops" no Add, parked batch or call is under way, during "flush" every
table already visited is empty, after it all of them are, and after "producers" nobody
holds a batch.

`RowInv` adds `Placed`, where rows and files are. `Sited` follows a row from its call into a
buffer, a batch, a file and out of it; `Owned` says that of producers, channel, scan and writer one
answers for a file, and only when it is written completely; `Counted` that a row enters the
database with the one load of its file, at most once per process (`loads`); `Down` and `Ending` what a stopped process and a finished Close leave. `FullInv` adds
`FirstLife`, which is about a process with no predecessor: a file is then claimed by somebody, set aside, or left by
a fault of the disk. `Waiting` follows the barrier of a call: what stood before it in the channel is loaded, or stands before
it still. The refinement maps the initial state and each step to a step of `RowStore` or a stutter, action by action
(`Fate` is a function of the row's place, so a step is compared row by row).

**DatabaseLock**, under `LockAssumption`: `LockTypes` (`[]TypeOK`) and `CheckpointKeepsHoldersOut` (`[]HoldersStayOut`).
The inductive invariant, `LockInv`, says who holds which lock: `readers` are the clients
inside and the loading writer, `excl` follows the compactor's position, and the write lock
is only held while `readers` is empty. It speaks of those that take `dbMu` and of no others;
section 3 names the others. `BarriersMatched` shows that
the barrier of each waiting rollback is in the channel exactly once, and that the writer answers nobody else;
what keeps a rollback from returning is therefore the lock alone (finding `lock_deadlock`).

**ImportJobs**, under `ImportAssumption`: `ImportTypes` (`[]TypeOK`), `JobsAreOwned` (`[]ShutdownOwnsJobs`), `NoImportDropped`
(`[]ImportsAccepted`), `StatusesStand` (`FinalStatusStands`) and `RollbacksStick` (`[]RollbackSticks`). `JoinInv` joins the first
three with the link they lack: from "joining" on the manager refuses jobs, so the
wait for those it has is the last one needed, and a row is only added by a job that is
registered, when the buffer is still open. `RollbackInv` adds `StatusInv` (a job whose status is final has no
goroutine that will set it again) and `SettledInv`: at each stage of a rollback that has met no exception, `Progress` says where
the rows of its job can still be, fewer places at every stage; files of an earlier process that recovery has still
to send are among them until the flush has looked. The proof found that `settled` overlooked two rollbacks of one
job: the second could believe a file gone that the first had only emptied of rows. The condition now names both.

**PageScripts**, under `PageAssumption`: `PageTypes` (`[]TypeOK`), `EventsOnce` (`[]EachEventOnce`), `QueueScheduled` (`[]QueueIsScheduled`) and
`DenialHolds` (`[]NothingAfterDenial`). The scripts are functions from a page to a page, so the proof is by function
rather than by action: `Keeps(p, q)` is a contract that composes (`KeepsTwice`), each function is shown to keep it from
the functions it calls, and a step keeps it because its function does. The contract is that the page stays `Sound` (every event
in one place; a waiting one has a timer), that the consent is left alone, and that a page that may keep nothing and keeps
nothing goes on so. `Denial` is the rest of the invariant: no answer without a status, nothing kept without a status or after
a denial, and the banner only over the default answer, which is why `saveAndClose` cannot deny after a grant. `DenialHolds` itself
speaks of a denied consent only.
`RunTypes` is `MCSpec => []TypesOK`, for both sides of the run.

**NodeClient**, under `NodeAssumption` (positive batch size and queue limit): `NodeTypes` (`[]NodeTypeOK`), `EventsAreNotForgotten` (`[]NothingForgotten`)
and `QueueIsPosted` (`[]NeverStranded`). `Placed` says that every
event in the queue or a request is one that was made and is in one place; `Receipts` that what is received is stored.
`NeverStranded` is inductive as it stands.

**QueryCache**, under the assumptions of the module (`RefreshAssumption` is the one that matters): `EntriesTyped` (`[]TypeOK`) and
`NothingStaleIsFresh` (`[]FreshIsCurrent`). The gaps of `Hooks` are in the assumption (`forgetful`), so the theorem says nothing of the
audit log or of the statistics after an import: an entry they change is in `missed` until it is loaded again. `AnywhereAssumption`
says that what may change other properties is among them. `FreshIsCurrent` only speaks of entries nothing is under way for. `Current` says of
every entry that has missed nothing, and has no change waiting for its answer, that each of its loads was sent after the last
change; `Bare` that a component that fetches by hand keeps nothing of what it does not show, since nobody marks that.
`DashboardTypes` is `MCSpec => []TypesOK`, for the three parts of the run.

**Session**, when the bounds are natural numbers (`SessionBoundsAssumption`): `SessionSettles` (`[]NobodyIsLockedOut`) and `SessionTypes`, for
any set of calls. `Sound` is the strengthening: while refreshes do not overlap there is at most one, and once
it has found the server set up nothing but its own end may say otherwise.

**TagContainer**, under `TagBoundsAssumption` and `ClientsAssumption` (admins are not visitors): `TagTypes`, `PublishedVersionsAreSaved`
(`[]PublishedIsSaved`) and `CachedScriptIsPublished` (`[]ServedIsPublished`). `TagInv` adds to the types that
a running handler has a container and a positive version, that `draft_version` never exceeds the number of
edits, and that there are finitely many snapshots; the two properties are inductive relative to it.

**Storage**, under `StorageAssumption` (the tables are a sequence, the rows finitely many, each of one table): `StorageTypes` (`[]StorageTypeOK`), `LakeServes` (`[]LakeIsHome`) and
`StartsKeepRows` (`NothingLost`, the refinement of `EventStore`). `StorageInv` adds to the types `Placed` (no event tables before
migration 1, and after it each is a table somewhere), `Moved` (Lakeify has passed over the first `i - 1` tables, and a process
that got past it finds none in the file) and `Copied`: from Copy to Drop the copy *is* the table. That is why a drop keeps `Home`; the comparison of counts
is not needed for it, since nothing else has the file open. A view that is dropped has its rows in the lake by `Placed`.
The only steps that change `Home` are `Load`, `Erase` and `ImportTable`, and each maps to a step of `EventStore`.
`DatabaseTypes` is `MCSpec => []TypesOK`, for both parts of the run.

Only model-checked, because the prover has neither fairness nor ENABLED: the liveness properties (`CloseReturns`, `CallReturns`,
`RowsSettle`, `EveryoneIsServed`, `ShutdownEnds`, `RollbackEnds`, `EventsLeave`, `ConsentReachesScripts`,
`RetriesDeliver`, `CatchesUp`). That `Hooks` and `Screens` satisfy `RefreshAssumption` and `ButtonsAssumption` is evaluated by
TLC for the queries of the run; the theorems assume it.

## 6. Plan

Done: the modules of section 2 and the proofs of section 5. To come, in this order;
components that share a hazard share an instance and a run:

1. `Rollup` with `SessionMaterializer`: days as numbers, the window cut, late events,
   recategorisation. The comment "EXACT for that day" is to be checked literally.
2. `SettingsCache` and `ConnectionSync`: readers and writers around an await.
3. `Replay` with retention and erasure; `Alerts`.
4. `ServerLifecycle`: the shutdown order, over abstract components.
5. Licensing, rate limiter, as far as they carry state; the onboarding form of the login page.

Theorems to come: the safety of the modules above; an abstract contract for `ImportJobs` and for the node client,
to which their proofs can be refined as the buffer's is to `RowStore`.

## 7. Not modelled, and why

Parsers of import formats, statistics queries, ad-fraud reports, rendering of scripts and
pages, the providers' HTTP clients, the mailer, the command line and backups are
pure I/O, formatting, or single statements whose meaning is DuckDB's. API tokens, single
sign-on and the CRUD handlers keep their state in rows and change one at a time.

Of the browser side: what events and recordings say; appearance, geography and the other categories of the consent
banner; sampling and masking of the recorder; filters and date ranges, which are parts of the keys; the
drafts of forms; the Explorer, whose results live in its component; Docs, the widgets and the types;
the two forms of the login page, of which the address decides; preview tokens and the element picker;
the WordPress widget. A container that is deleted and made
anew is in the model (`MaxContainers`) but beyond the bounds of the runs. PROJECT.json lists each part with its status.

## 8. Running

    tlc -workers 2 -config buffer_crash.cfg MCBufferPipeline
    tlc -workers 2 -config database.cfg MCDatabase
    tlc -workers 2 -config import_jobs.cfg MCImportJobs
    tlc -workers 2 -config page_scripts.cfg MCPageScripts
    tlc -workers 2 -config dashboard.cfg MCDashboard
    tlc -workers 2 -config tag_publish.cfg TagContainer
    tlapm BufferPipelineProofs.tla
    tlapm DatabaseLockProofs.tla
    tlapm ImportJobsProofs.tla
    tlapm TagContainerProofs.tla
    tlapm NodeClientProofs.tla
    tlapm PageScriptsProofs.tla
    tlapm DashboardProofs.tla
    tlapm StorageProofs.tla
