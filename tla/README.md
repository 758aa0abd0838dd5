# SchemaHero in TLA+

SchemaHero is a Kubernetes operator for database schemas. A user applies a
`Table` resource; the operator compares it with the database, writes the
statements that are missing into a `Migration` resource, waits for an operator's
approval (or does not, with `immediateDeploy`), and runs them. These modules model
what runs concurrently, fails and starts again, and the planners that decide what
runs; TLC checks them on small instances and TLAPS proves the main safety properties
for all instances.

## Inventory

| Component (source) | State | Operations | What makes it hard | What makes it correct |
|---|---|---|---|---|
| Table controller (`pkg/controller/table`) | the Table's spec and last planned SHA; work queue; informer cache | reconcile: early exit, prerequisites, plan, look up, create or update the migration, record the SHA | reads a lagging cache; every write may conflict; a status update fails after the migration was written | every spec that stays is planned against the database as it is; a recorded SHA stands for a plan |
| Migration controller (`pkg/controller/migration`) | the Migration's status; work queue; cache | reconcile: check the approval, run the statements, mark executed, conflict path | a crash between statements; a plan replaced while it is applied | only approved texts run, whole and in order; EXECUTED is true |
| kubectl plugin (`pkg/cli/schemaherokubectlcli`) | none between commands | approve, reject, recalculate; describe, get, plan, apply | get, then update: races with re-planning | a rejected migration is not run; an approved one is |
| Batch manager (`pkg/controller/table/batch.go`) | pending tables, timer, callbacks | queue, fire, take, plan each, write one migration, record statuses | timers stopped too late; callbacks that overlap; errors that are only logged | no pending table without a timer; no table forgotten |
| Planners (`plugins/*`), canonical types (`pkg/database/types`) | the database | introspect a table, compare it with its spec, emit statements; execute them | long sequences of diffs over many kinds of objects; what the server renders is not what was written; an application that writes meanwhile | any sequence of specs ends where the last one alone would have; a second plan is empty; nothing that is wanted is lost on the way |
| Generator (`pkg/generate`) | none | a spec from a live table | must be the planner's inverse | planning what it generates changes nothing |
| Plugin manager, loader, downloader, registry (`pkg/database/plugin`) | registry; plugins and client processes; one `sync.Once` per download; the binary on disk | look up, download, start, validate, register, clean up | check then load; a failure seen by waiters; a half-written binary | only whole binaries run; a bounded number of processes; every call returns |
| RPC server and connection proxy (`rpc.go`, `connection_proxy.go`) | connections by id | connect, plan, generate fixtures, close | callers that share a process; values gob drops | a caller has its own connection; a field with a sentinel arrives as it was written |
| Database controller (`pkg/controller/database`) | Role, RoleBinding, ServiceAccount and StatefulSet per Database; mysql's defaults | create, update; compare, alter | owners deleted and created again while Kubernetes collects; every manager alters the same database | a Database's manager runs as described; the defaults become the spec's |
| Function and extension controllers (`pkg/controller/function`, `databaseextension`) | finalizers, status | add finalizer, plan, apply, drop | every manager reconciles every object, each from its own copy | what asked to be removed is removed; what is wanted arrives |
| View controller (`pkg/controller/view`) | the View, its Migrations | reconcile and plan | no SHA is recorded: every reconcile rewrites the migration | the view arrives |
| Resources (`pkg/apis`) | types | SHA, connection details | secrets, vault and SSM are remote | - |
| Installer, read-only commands, generated clients | none | | sequential, or generated | - |

One process per database (`pkg/cli/managercli/run.go`), the *manager*, runs the
table, view, migration, extension, function and database schema controllers, each
with one worker, over one informer cache. The control plane's process runs the database
controller, which deploys the managers. All of them interact only through the API
server and the database; the kubectl plugin talks to the API server directly. Whoever
plans or applies does it through a plugin process of its own manager.

## Modules

| Module | Models | Composition |
|---|---|---|
| `Cluster` | API server objects, informer cache, work queues, the database | extended by the three below |
| `TableController` | one reconcile of the Table, one action per API or database call | |
| `MigrationController` | one reconcile of a Migration, one action per statement and per API call | |
| `KubectlPlugin` | approve, reject, recalculate: the read and the update are two steps | |
| `MigrationLifecycle` | the composition, with users, informers, crashes; its properties | extends the three |
| `ApprovalGate` | abstract: what the database may see | instantiated by `MigrationLifecycle` |
| `ColumnPlanner` | `BuildColumnStatements` of the postgres plugin | plugged in for the constant `PlanTable` |
| `BatchManager` | the batch manager, with reconciles, timers and callbacks | |
| `SchemaTypes` | columns, keys, indexes, constraints, policies: canonical form, equality, generated names | extended by the planners |
| `PostgresPlanner`, `MysqlPlanner`, `SqlitePlanner`, `RqlitePlanner`, `TimescalePlanner`, `CassandraPlanner` | introspection and planning of one table, as operators from a spec and a table to statements | instantiated by `Planners`; timescaledb's uses postgres's |
| `Planners` | `PlanTableSchema`: which planner plans a Table, and seed rows alone | extended by `Planning` |
| `Generator` | the spec generated from a live table | instantiated by `Planning` |
| `Engine` | external: when a statement fails and what it does, for each engine | extended by `Planning` |
| `Planning` | one table: edited, planned, applied statement by statement, interrupted, written to by its application | |
| `PluginLoader` | registry, downloads, processes, as steps of a caller | extended by `PluginRPC` |
| `PluginRPC` | connections by id, calls through the proxy, sentinels | extended by `PluginSystem` |
| `PluginSystem` | the composition, with dying processes, shutdown and restart; its properties | |
| `Fleet` | Databases, managers, one Function, DatabaseExtension or View, copies of it | extended by the three below |
| `DatabaseController` | access and StatefulSet of a Database; mysql's defaults | |
| `FunctionController` | the function and the extension controller of every manager | |
| `ViewController` | the view controller and the execution of its migrations | |
| `FleetLifecycle` | the composition, with users, crashes, garbage collection; its properties | extends the three |
| `MCLifecycle`, `MCBatch`, `MCPlanning`, `MCProperties`, `MCPlugins`, `MCFleet` | instances for TLC | |
| `LifecycleProofs`, `BatchProofs`, `PluginProofs`, `FleetProofs` | theorems about `MigrationLifecycle`, `BatchManager`, `PluginSystem` and `FleetLifecycle` | extend them |
| `SequenceFacts` | lemmas about the steps over Go slices of `SchemaTypes`: flatten, filter, find by name | extended by `PlanShapes` |
| `PlanShapes` | what every planner may plan, in which order | extends `Planners` |
| `PlanningProofs` | theorems about `Planning` | extends it and `PlanShapes` |
| `ConvergenceProofs` | that plans of sqlite, rqlite and cassandra converge | extends `PlanningProofs` |

### How the state corresponds to the code

**Lifecycle.** *Timestamps* (`ApprovedAt`, ...) are only compared with zero: they are
Booleans. A *SHA* is the spec it was made of; a migration is named by it. (The code keeps
seven hex digits; collisions are left out.) A *spec* is the set of columns, whether
it has seed rows, and its kind of default, because `PlanTableSchema` rewrites an
empty-string default in place (`AfterPlan`) and thereby the SHA. A *statement* adds or
drops one column or writes the seed rows. The table exists from the beginning,
with no columns.

*Resource versions.* A client never interprets one; the API server compares. So
`tcurrent` and `mcurrent` hold who has the stored version: the cache, a worker, a
command. A write empties the set, a read adds the reader (from the cache: only if the
cache is current), and an Update is accepted from a member. `Create` is accepted
when there is no such object.

*Time.* `RequeueAfter: 10s` and a returned error both leave the object in the queue,
to be taken at any later moment. The waits for the Database object, its
StatefulSet and required extensions are the flag `ready`.

*Failures.* `TableFault` and `MigrationFault` are any call that fails at that point;
`Restart` loses both workers and lists everything anew. What the database committed
stays.

*The CRD.* The tables CRD has `subresources: {}` (`config/crds/v1/schemas.schemahero.io_tables.yaml:1581`),
so that `r.Status().Update` is a 404: the reconcile ends in an error, the Table is queued
again, and no SHA is ever recorded (the run `no_subresource`). `StatusAnswers` is
`{"notFound"}` for that CRD, `{"ok"}` for the one the code is written for. The liveness runs
`live` and `batch_live` and the violated runs of the lifecycle use the first. The safety runs
`lifecycle` and `batch` allow both answers at every write, so that they include each
behaviour of the CRD that is shipped and also reach the early return on a recorded SHA; the
proofs hold for every `StatusAnswers`. (If SHAs were recorded, a plan made before the previous
migration ran could be the last one, and the database keep the columns of both specs. As
they are not, the Table is planned once more and they are dropped: `PlanKeepsUp`.)

*History* variables (`approvals`, `completed`, `inSync`) record what the
properties speak of and guard nothing.

**Batches.** `proc` is each timer: free, armed, or the callback it became. `Stop` frees an
armed one only. A Table is `[spec, sha]`; none of its states comes twice, so a copy is
stale exactly if it differs. The migration controller is one step there (`Apply`), and
the prerequisites, which the lifecycle model waits for, are in place. `got` is what a
callback has read of the migration it is about to write: nothing, the latest version or
an old one. The status writes at `batch.go:215` and `batch.go:316` meet the same CRD: without
the subresource they are refused, which is logged and ends nothing. What a batch is there for
is therefore not that a SHA is recorded but that the table's spec is in a batch migration or
was found in sync (`Handled`). A table that an error dropped comes back with the informers'
resync; `Resync` may always happen while some spec is not handled, and `MaxResyncs` bounds the
others.

**Planning.** A table is a record of its columns, keys, indexes, constraints, triggers,
policies and engine-specific settings, in the order the server lists them, with the
columns that hold values (`filled`) and nulls (`nulls`) instead of rows. A type is a
name and its parameters, an expression is its text and how it is written, so that
`CanonicalizeSQLExpr` has something to undo. Statements are records, never text. Every engine
commits each statement as it runs, but rqlite, which takes them all in one
transaction, and sqlite between its own `begin` and `commit`. A table of cassandra always has
the three chances, `caching`, `compaction`, `compression` and a comment, given or not
(`ServerProperties`). The application writes rows with a value for any columns and a null for any
that take one, at any moment; `nulledSince` is history: the columns that got a null since
the plan was made.

**Plugins.** A caller's record is its stack: where it is, the driver, the `sync.Once` and the
process it holds. A binary is a set of facts (`there`, `whole`, `exec`), because it is
created, written and made executable at the path it is started from. A restart
keeps the binary and loses everything else. A call carries one pointer of
the spec, which is not set or points to a zero value: gob does not tell these apart. `Fields`
are those of a column, of cassandra's properties and of a seed row, `SentinelFields` the few that
`PlanTableSchema` of the proxy has a sentinel for, and `Given` those that the specs of a run use.

**Fleet.** A behaviour has one kind of object. A reconcile may start at any time, because of an
event, an error, `RequeueAfter` or the informers' resync (every ten hours by default in
controller-runtime); the copy it holds may be old, which is the lag of the cache. Role,
RoleBinding and ServiceAccount are one value, `access`, created together. The control
plane is followed for `Target` only; the other Databases give further managers, which reconcile the
same object. Views are those of an `immediateDeploy` database, and a migration is approved
or executed. `removed` is history: whether the object was let go by a manager, whether a
drop was skipped because the Database was gone, whether an older copy was applied after
the deletion.

Definitions whose comment begins with "Mutant" are faulty variants of the definition
below them; nothing uses them but the mutation runs, in which TLC must find the
property violated.

## Runs

Passing:

| Run | Instance | Shows |
|---|---|---|
| `lifecycle` | a spec without columns and one with a column, seed rows and an empty-string default; one edit or recalculate, two commands, one fault, either answer to a status write | `OnlyApprovedRuns`, `ExecutedPhaseIsTrue`, `RecordedMeansPlanned`, `RejectedNeverApplied`; the system implements `ApprovalGate` |
| `live` | the same specs; one edit, one command, one fault, the shipped CRD | `PlanKeepsUp`, `ApprovedProceeds` |
| `batch` | two tables, three timers, an edit, a restart, either answer to a status write | `PendingIsWatched`, `NoTableForgotten` |
| `batch_live` | two tables, two timers, an edit, an error, the shipped CRD | `EventuallyBatched` |
| `planner` | six engines, seven to thirteen specs each, two edits, two writes, one interruption | `PlanApplies`, `SpecReached`, `ReplanIsEmpty`, `SeedsArrive`, `GeneratedInSync`, `RowsKept`, `WantedNeverDropped`, `UnmanagedPoliciesKept` |
| `plugins` | one driver, in the image or not; two callers, three calls, one fault, one restart; a field with a sentinel (a default) and one without (a seed value) | `OnlyWholeBinariesStart`, `OnceTellsTheTruth`, `ConnectionsAreTheCallers`, `NobodyIsCutOff`, `ProcessesAreBounded`, `PlannedAsWritten`, `EveryCallReturns` |
| `controllers` | two managers, one object of each kind; two (function) or three changes, one fault | `RemovedMeansDropped`, `ManagersRun`, `SettingsConverge`, `ObjectsConverge`, `DeletionEnds` |

Why the bounds are enough to be interesting. *Lifecycle:* one edit gives two migrations and
a stale copy of everything, the seed rows make a second statement so that a text can be
half done, two commands let one decision meet another, and a fault may come anywhere; the
safety properties are proved for all bounds besides. *Batches:* two timers overlap,
and a third is started while both run. *Planner:* three specs in a row, each pair and
order of them; an interruption leaves every prefix of a plan behind, which the next plan
starts from; a write puts nulls where the next spec does not want them. *Plugins:* two
callers race for every check-then-act, a third call meets what they left, and a restart meets every
state of the binary. *Controllers:* three changes let an object or a Database be
deleted and created again, or edited and deleted; two managers hold different copies.
A function has three bodies, of which one differs in what it returns, and two
changes; the database kind has four specs and no fault, since a manager is stopped by each new
pod template anyway.

The runs of batches, planning, plugins and controllers switch the deadlock check off,
because these systems come to rest when everything is handled, applied or closed and the
bounds are used up. The safety run of the batch manager uses the symmetry of tables and of
timers; no liveness run does.

Violated, each by what the code does (see `findings` in `PROJECT.json`):

| Run | What happens |
|---|---|
| `written_off` | after a conflict `ExecutedAt` lands on a new plan; once approved it never runs |
| `no_subresource` | the tables CRD has no status subresource, so the SHA is never recorded and the Table planned for ever |
| `partial_properties` | a cassandra spec that gives some properties plans the others as empty strings and nulls, which the server refuses |
| `fk_churn` | of two foreign keys one is renamed; the other is dropped, and every later plan swaps them |
| `empty_settings` | a mysql Database that stops naming a character set keeps the one it had, not the server's |

### What the properties except, and why

The following is what the code does, is visible in the models, and has no run of its own.

*Lifecycle.* An `immediateDeploy` migration is PLANNED and approved at once, so that it can be
rejected and still runs (hence the assumption of `RejectionHolds`). A migration of a
superseded spec can be approved and started, since nothing writes `InvalidatedAt`. After a
crash between two statements every retry fails at the first (the last disjunct of
`ApprovedProceeds`). As the Table is planned for ever, every plan takes the approval of the
migration it rewrites away, until the database is in sync: `ApprovedProceeds` lets that happen,
and `PlanKeepsUp` says only that the text offered is the right one. If SHAs were recorded, that
of a spec with an empty-string default would be of the spec with the sentinel in it, so that such a
Table would still be planned for ever, and a reconcile after `recalculate`, which leaves the SHA
as it was, would return early. A batch callback that fired before `Stop` may take a table before the
window that table restarted. `NoTableForgotten` says nothing after an error: a table that could
not be planned, or whose batch was refused, waits for the resync (`EventuallyBatched`).

*Planner.* `PlanApplies` excepts rows that forbid the spec, and sqlite's and rqlite's
recreation of a table where the edit also adds a column, meets nulls or an existing
index name; that is rolled back. It also excepts `set not null` on a column that the
application put a null into since the plan was made: between the update of nulls and `set not
null` nothing keeps it from doing so, and the statement fails. The specs of the run keep away
from edits the planners do not carry out: on postgres a type change together with not null (only not null is
planned), a column leaving the primary key and becoming nullable at once, dropping a
column that a unique constraint of its own names, composite foreign keys (scanned with a
column repeated), two foreign keys of which one changes (`fk_churn`), and the `USING` clause
of a policy (documented as not compared); on mysql a change of a foreign key (the
current one is dropped twice), a collation that the spec stops naming, and a
character set or collation of a single column (compared, but in no spec of the run); on sqlite and
rqlite foreign keys (the introspection selects the column names as literals, so
that every plan recreates the table); on cassandra a changed column type, and properties
of which some are left out (`partial_properties`): the specs of the run have none, or the three
chances, the three maps and a comment, as the repository's test of `alter-table-properties` has. (A
server of cassandra 4 has no `dclocal_read_repair_chance` any more and reads 0 there.) Timescaledb
plans compression, retention and plain indexes only when it creates the table, so
`SpecReached` compares of a hypertable only its time column. Cassandra leaves seed rows out
beside a schema. The generator leaves out checks, exclusions and triggers, writes
mysql's integers with two parameters, and gives timescaledb's tables no schema.

*Plugins.* A waiter of a download that failed in another goroutine gets no error and fails
at the start of the process instead. Two loads at once leave a process nobody refers to
until the manager exits; a plugin that does not validate is not killed; neither is one
whose load ends after `Cleanup`. A plugin that died stays in the cache. Fixtures for
rqlite, timescaledb and cockroachdb lose empty-string defaults. Fields without a sentinel
arrive as not set when they are zero, and `PlannedAsWritten` says so: the integers of
cassandra's properties other than two (`gcGraceSeconds` and the index intervals, although the
comment at `connection_proxy.go:224-226` speaks of zero integers without exception),
`notNull: false` (as `postgresql.go:164-169` says) and seed values. A
seed value that was 0 or an empty string is then an empty string for mysql (`create.go:39`), and
leaves postgres's row with fewer values than columns (`create.go:27-33`); the planners' rows are
abstract and do not see it.

*Controllers.* A Database with tolerations is never deployed (`createTolerations`
assigns past the end of an empty slice). An updated StatefulSet loses its owner, so that
the manager of a deleted Database goes on. An object whose `removeOnDeletion` was taken back
keeps its finalizer and stays in deletion. Another manager may apply an older copy after the
drop; without the Database the drop is skipped. A function whose return type alone changed
is taken for equal; if its text changed too postgres refuses it, for ever. The
functions CRD has no status subresource, so every reconcile of a Function
ends in an error and is tried again.

### Fairness

Weak fairness of each worker's steps, of each informer's deliveries, of each timer and
callback and of each caller's steps in the plugin system: they are goroutines that block
only on calls, and calls return; a caller that waits in a `sync.Once` waits for one that
runs. The informers' resync is weakly fair: it comes every ten hours. Strong fairness of
taking a given name from a work queue, which is first in, first out. `BecomeReady` is weakly fair: without its prerequisites a Table waits, as it should.
In the fleet, weak fairness of each worker includes starting a reconcile, since an object
whose reconcile failed is queued again and the informers resync, and of Kubernetes'
garbage collector. Nothing is assumed of users, operators and faults. The convergence
properties of the fleet have the form `~<>[]lacking`: the state that lacks something
does not last.

## Proofs

`LifecycleProofs` proves, for every planner `PlanTable` whose results are sequences of
statements, every set of specs and operators and every bound:

| Theorem | States |
|---|---|
| `TypeCorrect` | `Spec => []TypeOK` |
| `ApprovalGuardsDatabase` | `Spec => OnlyApprovedRuns` |
| `ExecutedIsTrue` | `Spec => []ExecutedPhaseIsTrue` |
| `RecordedIsPlanned` | `Spec => []RecordedMeansPlanned` |
| `RejectionHolds` | without `immediateDeploy`, `Spec => []RejectedNeverApplied` |
| `LifecycleImplementsGate` | `Spec => ImplementsGate` |

The assumptions are `ClusterAssumption` (types of the constants; no spec contains the
sentinel; an operator is not called like a worker) and `PlannerAssumption`.

The argument. `Typed` is the type invariant and what the table worker's copy may be at
each point. `MigrationInv` is inductive with it: `CopiesAgree` says that a copy whose
version is the stored one equals the stored object. Without it nothing can be said
of a whole-object Update; with it an Update changes only what its writer meant to
change. `ApprovedTexts` says that an approval, stored, cached or in the worker's hands,
stands beside the text it was given for, because a re-plan replaces both;
`ExecutedTexts`, that a worker without statements left ran them all. `RecordedInv` adds that
a worker about to record a SHA has planned it, and rests on migrations never being
deleted. `RejectedInv` adds that only APPROVED and EXECUTED migrations are approved. The
refinement maps the migration worker's text and rest to the gate's job.

`BatchProofs` proves, for any tables, any number of timers and callbacks and any bounds,
from `BatchAssumption` (the bounds are numbers, 0 is not a timer):

| Theorem | States |
|---|---|
| `BatchTypeCorrect` | `Spec => []TypeOK` |
| `PendingAlwaysWatched` | `Spec => []PendingIsWatched` |
| `NoTableIsForgotten` | `Spec => []NoTableForgotten` |

The type invariant needs that a spec's version is at most one more than the edits made, and
that a callback that records statuses has one left. `PendingIsWatched` is inductive with it.

`NoTableForgotten` says that, unless something failed, the latest spec of a table is handled, will
be reconciled, or is pending or in a callback's hands; every `StatusAnswers` and restarts
are included. It is inductive only with more facts (`Handling`). A callback frees its
hands at the end of the statuses, so these must be of tables in some migration
(`StatusesAreBatched`), which survives because migrations are never deleted; the early return on
a recorded SHA is safe for the same reason (`RecordedMeansHandled`). A write of the migration
is refused only if one of that name, hence of the same tables and specs, is there, also if it was
read before (`WhatWasReadIsThere`). A timer that is stopped holds no tables (`TimersHoldNothing`), and
no cached Table is newer than the stored one (`CacheIsBehind`).

`PluginProofs` proves, for any callers, engines and drivers and any number of calls, faults
and restarts:

| Theorem | States |
|---|---|
| `PluginTypeCorrect` | `Spec => []TypeOK` |
| `PluginsStartWhole` | `Spec => []OnlyWholeBinariesStart` |
| `OncesTellTheTruth` | `Spec => []OnceTellsTheTruth` |
| `ConnectionsStayApart` | `Spec => []ConnectionsAreTheCallers` |
| `CallersAreNotCutOff` | `Spec => []NobodyIsCutOff` |
| `SpecsArriveAsWritten` | `Spec => []PlannedAsWritten` |
| `ProcessesStayBounded` | `Spec => []ProcessesAreBounded` |

Beside the types of the constants the proofs assume:

- `CallersAssumption`: the callers are finitely many, as workers and callbacks are. Only
  `ProcessesStayBounded` counts them.
- `EnginesAssumption`: the plugin an engine is downloaded as (`normalizeEngineForDownload`,
  `manager.go`) lists that engine, both in `SupportedEngines` of the plugin itself and in the
  switch of `DiscoverPlugins`. It holds for each engine of the repository's plugins.
  `sqlite3` is none of them: `DiscoverPlugins` would know a plugin of that name, and there is
  none. Only `ProcessesStayBounded` uses it: an engine whose plugin does not list it is
  downloaded and started at every call.
- `FieldsAssumption`: the proxy looks at the specs of every engine `getDbType` can name, in
  `PlanTableSchema`. Only `SpecsArriveAsWritten` uses it. `GivenAssumption`, that every engine's
  specs use some field, is for TLC: without it a caller could not connect.

The arguments.

- `Downloads`. `OnlyWholeBinariesStart` and `OnceTellsTheTruth` say nothing of who is
  writing the file. `OneDownloader` and `DownloaderHasOnce` say that whoever does runs the
  Once that is in the map, `FailureIsUndone` that a failed one still has its caller, and
  `DoneIsExecutable` that a Once in the map is done exactly if the mode bits are set, which
  is the last thing a download does; `ExecutableIsWhole` carries this through a crash, which
  forgets every Once and leaves the file. `DrawnWhenMissing` is the check made before a Once
  is drawn.
- `Connections` needs that two open callers of one running process have different ids
  (`IdsApart`): the counter of the process, never set back while it runs, gives that.
- `CallersAreNotCutOff` needs that only `Cleanup` kills, and that from then on the manager is
  stopping.
- `SpecsIntact`: the spec a caller keeps after a call is as written or, in a field that has one, the
  sentinel for a zero value, and both arrive as written (`IntactArrives`). That is why sending the
  same object twice is harmless. A field without a sentinel is never given one, and arrives as not
  set every time: that is stated, not excepted.
- `Bounded`. Why there are at most as many processes of a driver as callers is a counting
  argument: the loaded processes and the callers that may still store one (`MayStillStore`)
  together are at most the callers (`Room`). It holds from the moment the driver is
  registered and stored, since whoever begins a search later finds it; before that, every
  process is in the hands of a caller about to register it (`Held`). `Registrations` says
  what a search under way has seen of the registry, which it reads one entry at a time.

`FleetProofs` proves, for any databases, specs, bodies and bounds:

| Theorem | States |
|---|---|
| `FleetTypeCorrect` | `Spec => []TypeOK` |
| `RemovalDrops` | `Spec => []RemovedMeansDropped` |

The assumptions are the types of the constants (`FleetAssumption`), and of mysql that every
collation has a character set and every character set a default collation
(`CollationsAssumption`), which the type of the settings needs. The type invariant needs
`ObjectTyped`: a worker that is not idle holds a copy of an object that existed, and one
whose Update would succeed holds the stored version. `RemovedMeansDropped` needs `Drops`: a worker that is about to
take the finalizer off, and whose copy is the stored version, has seen the object being
deleted, and the content is gone unless a manager could not connect or applied a copy older
than the deletion. The Update of the finalizer is refused to every other worker.

`PlanShapes` and `PlanningProofs` prove, for any specs, any tables they lead to and any number
of edits, writes and interrupts:

| Theorem | States |
|---|---|
| `PlansAreShaped` | what the six planners plan for any spec and any table |
| `DeploymentStages` | `Spec => []PlanInv` |
| `PlanningTyped` | `Spec => []TypeOK` |
| `SeedsAlwaysArrive` | `Spec => []SeedsArrive` |
| `RowsAlwaysKept` | `Spec => RowsKept` |
| `UnmanagedPoliciesAlwaysKept` | `Spec => UnmanagedPoliciesKept` |

The assumptions are `EnginesAssumption` of `Planning` (the engines are the six), and
`SpecsAssumption`: a spec has the fields of the Go structs, what are slices there are
sequences, and every column has a name. Nothing is assumed of what the specs say: columns
may be listed twice, keys and indexes name columns that are not there, and specs follow one
another in any order.

The argument has two halves. The first is about the planners alone. A plan that is not
refused has one of four shapes (`PlanShape`): statements that alter the table, of which none
drops a column the spec keeps and none touches a policy unless the spec has row-level
security (`Harmless`); the table made, and then such statements; the table dropped, where the
spec is deleted; or, with sqlite and rqlite, a copy (`Copying`): the old table renamed, the
new one made with the spec's columns, its indexes, every column of the spec copied, the old
table dropped, and with sqlite all of it between `begin` and `commit`. Where seed rows are
due, some statement is the seed. Each builder of each planner has a lemma of its own, and
they are put together by lemmas about sequences of harmless statements; those rest on
`SequenceFacts`, which gets what `Flatten` computes by induction over a set of numbers
(`Induction`), which the library's theorem on well-founded sets gives without an operator
parameter.

The second half is about running them. `PlanInv` follows a deployment through the stages of
its shape: `AlteringStage`, `CreatingStage`, `DroppingStage` and the five stages of a copy.
In each the committed table and what the connection sees are tables (`TableShape`: rows have
values for columns only, a key is made of columns, a missing table is empty), and one of the
two tables of a copy still has every value the spec keeps (`Holds`): the old one until the
rows are copied, the new one from then on. `HarmlessRuns` says that every statement that
alters a table keeps what the spec keeps, whatever the engine; `StatementRun` that running the
next statement of a stage leads to a stage; `WrittenBetween` that the application may write
between any two statements outside a transaction. An interrupt drops the stage and leaves a
committed table, from which any plan starts again. The invariant was model-checked on the
instance of `Planner.cfg` before it was proved.

`ConvergenceProofs` proves, of sqlite, rqlite and cassandra (`ConvergingEngines`), for any
specs these engines can read back (`SpecsSettle`) and any number of edits, writes and
interrupts:

| Theorem | States |
|---|---|
| `PlansConverge` | `Spec => []ConvergenceInv` |
| `ReplanAlwaysEmpty` | `Spec => [](engine \in ConvergingEngines => ReplanIsEmpty)` |
| `GeneratedAlwaysInSync` | `Spec => [](engine \in ConvergingEngines => GeneratedInSync)` |

`SpecsSettle` is a hypothesis of the theorems, which TLC evaluates for the specs of
`MCPlanning`. It keeps away what those plugins cannot read back, and there the properties are
false: sqlite's and rqlite's introspection of foreign keys selects the words 'from' and
'table' instead of the columns, so that every plan recreates the table, and
`pragma_table_info` does not have autoincrement. Of cassandra's properties the planner reads
seven back, the three chances, the three maps and the comment, prints a chance with six
digits before it compares it, and takes one that the spec leaves out for an empty one, which no
chance and no map of a server ever is: `SettlesInCassandra` asks a spec with properties to give
all six, as cassandra prints them, and no property that is not read back. Any other such spec is planned
again for ever and refused (`partial_properties`). A column or an index must not be given
twice in different forms under one name, and an index of sqlite has a name, columns and uniqueness only, as its schema type does.
Nothing relates one spec to the next: any spec may follow any other, with
columns, keys, indexes and properties changed, added and dropped at once.

The argument. `ReplanIsEmpty` speaks of the end of a plan. What is inductive is
`Underway`: at every moment of a deployment whatever the table still lacks of the spec is in
the statements that are left, and none of those undoes what is done. For columns
(`ColumnsConverge`) a column of the table is as the spec's or will be dropped, one of the spec is
there or will be added, and no column is added that the spec does not have or dropped that it
has. For indexes (`IndexesConverge`) order matters as well: an index that is changed is dropped
and made again under the same name, so every drop of a name the spec has is followed by the
index's making (`Followed`). For properties (`PropertiesConverge`) the alteration names all that
differ, and the values it sets read back as the spec's. A plan that makes the table, renames the
old one first or begins with `begin` reaches this state with its `createTable` (`Makes`, `Renames`,
`Begins`). `PlanPlans` says that each planner plans such statements for any table, and none
but the seed rows where nothing is lacking; `UnderwayStep` that each statement that runs keeps it;
`UnderwayOn` that rows do not matter. A statement that fails, or an interrupt,
ends the deployment, and the next plan starts from whatever table it left.

`GeneratedInSync` is about a spec nobody wrote, made of whatever table is there, so it needs to
know what tables there can be: `Described`, carried by the same invariant, says that in every
committed table and in every one a connection sees each name is one column's and one index's,
that types are as the server calls them, and that every index has a name. It rests on statements
that would add a name twice failing (`AddRuns`). From it follow that the generated spec
settles (`GeneratedSettles`) and that the table lacks nothing of it (`GeneratedConverges`), whence
`PlanPlans` gives an empty plan; rqlite's sentinel for an empty-string default cannot
get into a generated spec, since a default read from the catalog is never written that
way (`GeneratedMatches`).

Only model-checked:

- everything about liveness: fairness and ENABLED are outside the prover's reach;
- `ReplanIsEmpty` and `GeneratedInSync` on postgres, timescaledb and mysql. There one plan does not
  carry out every edit (on postgres type and not null changed at once, at `alter.go:74`), so
  that the hypothesis would have to be about each pair of specs that may follow one another;
- `PlanApplies`, `SpecReached` and `WantedNeverDropped`. They are about pairs of specs too:
  whether a statement fails depends on what the table was before (cassandra refuses every change
  of a type), and whether the table is exactly the spec's on what the planners compare (the order
  of a key's columns, how a default is written, whether a column is static are not
  compared, so that a table may keep those of an earlier spec).

## Not modelled

Connection secrets, vault and SSM: remote reads, whose failure is a fault step. The
installer: creates or updates static manifests, with no state of its own. Commands that
print, the shell, and offline `plan` and `apply` of files, which call the planners modelled
here once and in order. Generated clients and deep copies. Splitting DDL text into
statements: text alone. The download protocol below `downloadPluginOnce`: it fails or
delivers. `LoadPlugin`, `Unload`, `UnloadPlugin` and `CleanCache` of the plugin loader: nothing calls them.
Deletion of Tables, and collisions of seven-digit names.

## Plan

1. Done: lifecycle, approval gate and batch manager with their first proofs; planners of all
   engines and the generator; plugin system; database, function, extension and view
   controllers.
2. Done: proofs of every invariant of the lifecycle, the batch manager, the plugin system and
   the fleet, of what holds of plans and deployments for any spec, and of convergence on sqlite,
   rqlite and cassandra. Left: for which pairs of specs `PlanApplies` and `SpecReached` hold,
   stated as an assumption, one engine at a time.
3. Seed rows with values, so that what a planner makes of one that gob dropped can be stated.
4. Two Tables whose migrations share a name; a batch planned again under another name.
