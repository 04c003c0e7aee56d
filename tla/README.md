# lakefed-ingest: TLA+ specifications

lakefed-ingest copies tables of many source databases (SQL Server, mostly
through Change Tracking) into Delta tables on Databricks, and keeps its state
in a Postgres database (Lakebase). An operations app makes ingestion jobs,
edits them and watches their runs. This directory models the parts of it where
order, failure and concurrency decide whether the result is right, checks the
models with TLC, and proves the main results with TLAPS for every number of
runs, keys, tables, users and databases.

Paths below are relative to the repository, without `src/` in front: `ingest/`
is `src/lakefed_ingest/`, `app/` is `app/src/`. `PROJECT.json` maps every
definition to the lines it models, and lists the hazards at their lines.

## 1. The system

| Component | State | Operations | Hard behaviour |
|---|---|---|---|
| Ingest of one table (`ingest/ingest.ipynb`, `planner.py`, `ct_engine.py`) | the Delta sink; the `checkpoint` row (phase, position, begin_version, pending append) | route, detect, seed, increment, fall back, reseed, advance, record begin_version, retry | a run against a source that keeps writing, cleans up and toggles CT; a stop between two steps; a run that lost its lock, and its successor |
| SQL Server CT (external) | rows, versions, the change table, min valid and begin version | writes, cleanup, disable and enable | the change table silently leaves out what was cleaned up |
| Locks and records of a collection (`state_store.py`, `initial_check.py`) | advisory locks of Postgres sessions; `ingest_run` rows | lock exclusively or shared, lock databases, open, finish and close records | runs, sweeps and checks at once; connections that drop; dead runs' records |
| Check and launch (`initial_check.py`, `launcher.py`, `check_launch.ipynb`) | positions and stamps, work lists, held locks | check a collection, start and confirm runs | a run that has not locked yet; retried start calls; a stamp written too late |
| Concurrency budget (`parallel.py`) | slots, permits per source, waiting requests | acquire one or many, hold permits, change limits | deadlock, starvation, limits that change |
| Batched appends (`batch_append.py`) | several tables' pending appends, one commit | plan, write with bisection, finish | a commit of unknown outcome |
| Partitioned seed (`ct_engine.py`, `partitions.py`) | a staging table | load partitions, swap | a failed partition; two runs and one staging table |
| Cursor loads (`cursor_engine.py`) | a watermark | read (lo, hi], merge | rows that commit below the watermark |
| Table retries (`table_retry.py`) | budget, failures per source | classify, claim, finish | workers that claim at once |
| Unchanged tables (`planner.py`, `state_store.py`) | last successes, a check stamp per database | detect, write rows or a stamp, load | sweeps that write what they read a while ago |
| Rollups (`state_store.py`, the app) | queued databases, rollup rows | add, write, flush, rewrite | a failed write while others queue; two runs and one group row |
| Control rows (`planner.py`, the app's forms) | rows, checkpoints, sinks | edit, flip to seeding, route | edits in the app, in SQL, under a run |
| Schema migration (`lakebase_schema.sql`, `state_store.migrate`) | the schema and its version | migrate, check, start the setup job | lock timeouts, crashes, two migrators of different code |
| Jobs' tables (`app/main.py`) | rows, groups, requests | add, enable, regroup, edit, import | transactions of several users, and runs |
| Placement (`app/placement.py`) | the groups of a job's databases | create, resume, add, regroup | plans made before they are written |
| Background writes, wrapper jobs (`app/main.py`, `schedules.py`) | `app_task`, members, Databricks jobs | write, resume, sync, record | lost answers, restarts, a write beside a Delete |
| Delete, Restore, purge (`app/main.py`, `delete_job.py`) | the job's marks, its tables | delete, restore, delete now, purge | a Restore against a purge; a run that starts |
| Own clusters (`cluster_copies.py`, `app/main.py`) | a copy of the ingestion job, its record | edit, rename, make, adopt, reset, delete | a run of the copies job that stops; a job renamed meanwhile; a page that ends it for another |
| Job sources (`rediscovery.py`, `table_removal.py`) | selection, exclusions, control rows | re-discover, add, remove | a re-discovery that takes minutes |
| Preparing (`preparing.py`) | a job's preparation, its task and heartbeat | create, prepare, stop, set aside, take over | two instances and one preparation |
| Background reads (`warehouse_reads.py`, `background_reads.py`) | claims, statements | claim, send, save, watch, collect | claims that lapse, statements nobody watches |
| Job runs on the pages (`schedules.py`, `ingestion_jobs.py`, `app/main.py`) | nothing of their own: members, runs, check records | place runs in job runs, list, summarize | no record says which trigger started a run; each page reads a window |
| Run poller and cancel (`run_poller.py`) | `databricks_run`, run records | poll, look up, close, cancel | two leaders; late writes |
| `job_orchestration/` | - | - | an older, separate implementation; not used by the rest |

The parts interact through Lakebase rows (the checkpoint is written by runs and
checks, records by runs, checks and the app's poller, control rows by the app
and by users with SQL), through Postgres advisory locks (a collection's and its
databases' lock for runs, checks and edits; a job's schedule lock for syncs and
writes; the schema lock), through the Delta sinks (two runs meet only in a
Delta commit), and through Databricks run calls.

What makes them correct, in a sentence: a checkpoint never hides a change the
sink lacks; a merge-mode sink never goes back; an append-mode sink has each
change once; two runs never work on one database; a run sees its tables as they
are; a record is closed for its run only when that run is dead; units of work
neither deadlock nor starve; a failed step leaves what readers see as it was;
and what the app says of a task, a job or a run is so.

## 2. Modules

| Module | Models | Code |
|---|---|---|
| `ChangeTracking` | the source table and its CT, as the engine's queries see it | external, with the query texts of `ct_engine.py` |
| `MergeIngest` | one CT table in merge mode: checkpoint, sink, runs | `ingest.ipynb`, `planner.py`, `ct_engine.py`, `state_store.py` |
| `Replica` | what merge mode promises: the sink only moves forward, never past the source | - |
| `AppendIngest` | one CT table in append mode: the pending-append protocol | the same, with `append_committed`, `record_pending`, `retry_plan` |
| `CollectionRuns` | locks, sessions and records of the runs and checks of one collection | `state_store.py`, `initial_check.run_check`, the start of `ingest.ipynb` |
| `CheckLaunch` | `CollectionRuns` composed with the checks' captures, stamps and launches | `initial_check.py`, `launcher.py`, `check_launch.ipynb` |
| `WorkSlots` | the slots of a run and the permits of its sources | `parallel.py` |
| `SeedPartitions`, `BatchAppend`, `CursorLoad`, `Rollups`, `TableRetries` | the machines inside a run's work on its tables | `ct_engine.py`, `partitions.py`, `batch_append.py`, `cursor_engine.py`, `state_store.py`, `table_retry.py` |
| `Stamps` | when a table last succeeded: rows and check stamps of unchanged tables | `planner.py`, `initial_check.py`, `state_store.py` |
| `ControlRows` | control rows edited in the app and with SQL, and their sinks | `planner.py`, `ingest.ipynb`, `app/control_form.py`, `app/main.py` |
| `SchemaUpgrade` | migrations of the schema and the check that starts them | `state_store.py`, `app/schema_upgrade.py` |
| `JobTables` | which group each table is in, under several users and runs | `app/main.py` |
| `Placement` | which group each database is in | `app/placement.py`, `app/main.py` |
| `AppTasks`, `JobDeletion` | a background write with its sync of wrapper jobs; Delete, Restore and purge on top | `app/main.py`, `queries.py`, `schedules.py`, `delete_job.py` |
| `OwnClusters`, `JobSources` | a job's own cluster; its selection, re-discovery and removals | `app/main.py`, `cluster_copies.py`, `rediscovery.py`, `table_removal.py` |
| `JobRuns` | a job's runs as the pages place, list and link them | `schedules.py`, `ingestion_jobs.py`, `queries.py`, `app/main.py` |
| `Preparing`, `WarehouseReads` | a new job's preparation; checks and reads through the warehouse | `preparing.py`, `warehouse_reads.py`, `background_reads.py`, `queries.py` |
| `RunRecords` | what is recorded of one Databricks run | `run_poller.py`, `queries.py`, `state_store.py` |
| `*_proofs` | theorems and proofs (section 4) | - |
| `MC*` | instances for TLC (section 3) | - |

The data is abstracted to what the properties tell apart: a row is the number
of its image, a database or a table a model value, a write the step that
commits it. What follows is how the state and the actions of each module
correspond to the code, where it is not plain from the names.

### The ingest of a table: ChangeTracking, MergeIngest, AppendIngest

Images: even numbers are absent rows, odd ones are present, every write gives a
higher one. So "newer" is `<`, "deleted" is parity, and a delete followed by an
insert is a write by 2. CT keeps per key the version of its LAST change;
`ChangesIn(from, upto)` is what `CHANGETABLE(CHANGES ...)` with the engine's
upper bound returns, and reading it from a lapsed version silently drops keys,
which is why the retention guard exists. One assumption is stated there: some
transaction was tracked since CT last started, so `begin_version` differs.
(`docs/how-it-works.md:210-215` says what happens otherwise.)

`MergeIngest` has one action per step of a run, in the code's order: capture
state, detect, read changes, read base rows, commit, advance, record
begin_version. The reads of the change table and of the base table are two
steps, because SQL Server reads them at READ COMMITTED within one statement.
`held` is the cached answer of `assert_lock_held`, true for a while after the
lock connection is gone: the steps in `Guarded` begin by asking it, all others
run regardless, and a write that Delta made run again (`with_write_retry`) does
not ask again. `conflict` is Delta's conflict detection. `StopTable` is a crash,
a cancel or a permanent failure, `RetryTable` a granted retry (`retry_plan`).
One table stands for all: planning takes a group of tables in one query, but
classifies each by its own row. A run's initial `assert_lock_held` before its
first read-only steps is left out, which only adds behaviours. `vouched` is a
history variable of the properties.

`AppendIngest`: the sink is the sequence of commits; a commit knows the run that
made it (`__run_id__` of its rows), the version it was captured at and its rows.
A run records on the checkpoint that it will append, and up to where, BEFORE it
reads; `Committed(r)` is the query for rows of run `r`, which cannot see an
append of no rows. `route` is what the run planned and `path` what the attempt
does, as in `ingest_one`, where a pending route turns into a seed or a fallback
once the sink was looked at.

### The runs of a collection: CollectionRuns, CheckLaunch, WorkSlots

`exclusive`, `sharers` and `owner` are Postgres' lock tables, `session` the
connection that holds a run's locks; a dropped connection frees them all at once
and the run works on. The `ingest_run` record is opened after the lock (a
refused run opens one as well), and the records of dead runs are closed by a run
that has the collection to itself, which a sharing run arranges by
`alone_on_collection`. Databricks' cancel is `RequestCancel` (recorded) and
`StopRun` (its effect), which may come in either order or alone.

`CheckLaunch` adds the source's versions and the positions of the checkpoints,
and gives a check its steps between locking and letting go: it captures a
database's version before it detects, and writes a position for the databases
that did not change. A check by groups keeps its lock while it starts runs; one
by changes does not. A run exists before it starts, with the work list a check
may give it, and the start call has a token, so a lost reply starts nothing
twice.

`WorkSlots`: a unit is a place in the code that asks for permits and slots.
`hold()` of `SourceLimiter` is `Request`, `Leave` and the pass of `_admit` that
both end with, as `set_limit` does; `acquire_many` takes the mutex
(`StartGathering`) and then one slot at a time. `Admission` is the loop of
`_admit`, a fold over the requests in arrival order. The slots of a batch come
back in one step: putting them back one by one cannot fail or wait.

### A run's work on its tables

`SeedPartitions`: a seed replaces the staging table, partitions append to it
side by side, one commit swaps. `BatchAppend`: several tables' changes in one
Delta commit, whose statement may fail though it committed; the halves of a
batch are written again after a look in the sink. `CursorLoad`: transactions
take a rowversion when they write and show it when they commit. `Rollups`: a
queue that works fill and one of them writes, in one transaction of the
connection that the run's threads share; an app edit rewrites from its own
connection. `TableRetries`: claims, grants and ends under the policy's lock.
`Stamps`: a sweep (a run, or the check of a collection) captures a version,
finds the tables that did not change since their position, and writes for them a
row each or one stamp of the database; `since`, the hour at which the sweep that
wrote began, is history. Versions and hours only grow, and a table whose row is
disabled and enabled again keeps its position.
`ControlRows`: a row, what its checkpoint was written for, and each client's
slice of each sink (whether it was given whole, from which source, in which
mode); a form submission is judged against the rows as they are. `outlived` is
history: the rows that go on from a checkpoint although their sink was changed
since, because they came back to its place or another row's run made a dropped
sink again (section 5).

### The state database: SchemaUpgrade

A schema file is a sequence of statements over one table with a column, an
index, a constraint and what they were renamed from; a migrator judges from
the catalog which it may leave out, and runs the rest in one transaction under
the schema lock. The properties compare with running the whole file.

### The app

`JobTables` is READ COMMITTED Postgres: a change waits for the job's schedule
lock, reads and row-locks what it plans from, tries the groups' run locks
(refused when one is not free), writes (seen by itself), checks, commits. A
table is what the unique index `control_sink_client_uq` takes it for.
`Placement` keeps the arithmetic of groups (`spread`, `regroup`, the emptiest
group for a new one) over sizes of databases. `AppTasks` has one Add tables
recorded as a task with its request id, `JobDeletion` extends it with Delete,
Restore and the purge, one Delete at a time. `OwnClusters` and `JobSources` are
about one job each.

`JobRuns` is arithmetic over starts: nothing records which trigger a run came
from, so a page puts the runs it reads into the slot of the trigger before them,
the runs of a launch into the slot of the launch's first, and what is left into
job runs of their own (`Placed`). The actions are what happens to a job: runs
start (by a trigger, a launch, by hand, late), checks run, groups are added and
removed, the job is paused. A run's end is part of its record from its start on,
and `IsGoing` compares it with the time, so `now` moves in a few moments. Each
page is an operator over the records it reads: `RunPage`, `ListPage`,
`Overview`, and `SlotsOfRun` for the links of a run's own page.

`Preparing` is about one preparation, `WarehouseReads` about
one server, `RunRecords` about one Databricks run of a group with any number of
app instances polling.

## 3. Runs

Where a run composes several machines that share no state (`MCTableWork`,
`MCProgress`, `MCJobDeletion`, `MCAppJobs`, `MCReading`), a behaviour is one of a single machine,
chosen at the start by the variable `machine`; the others are still. It is a
union of models, not a product. Their invariants join the type invariants
(`TypesOK`) with one property of each machine: `LoadsAreWhole` (a seed and a
cursor load), `RowsKept` (control rows), `ReadsAreKept` (a preparation and the
reads), `OneOfEach`. `RunsClose` joins what is asked of a run's record,
`DatabasesSpread` of a placement, `SchemaKept` of the migrations; `ToldTruly`
joins what a task and a job say of themselves. Each part is named and commented
in its module. Where a run names a symmetry (`table_work`: tables of `Stamps`,
runs of a seed and of batches), the values are interchangeable in every action
and the run checks invariants only. `check_launch` has a view besides: what a
check saw, found and listed counts only in the stages that still read it, so
states that differ in nothing else are one.

| Run | Shows | Bounds |
|---|---|---|
| `merge_overlap` | `NoSilentGap`, `ImplementsReplica` with two runs that may overlap after a lost lock | 1 key, image 2, version 2, 1 fault |
| `progress` | `Converges`, `RunsClose`, `EndsShow` | table: 1 key, 1 run slot (reused), image 3, version 3, 1 fault; record: 2 instances, 1 table, 1 fault, 1 stop or failed attempt |
| `append_crash` | `NoDuplicates`, `NoSilentGap` | 1 key, 3 runs, image 2, version 2; 2 stops or retries, or a lost lock and then 2 runs |
| `check_launch` | `ExclusiveDatabases`, `OneRunGoing`, `NoChangeSkipped`, `ClosedOnlyWhenDead` | 2 checks by groups or 2 by changes, 2 runs with a work list, a sweep; 1 database, version 1, 1 fault |
| `work_slots` | `SlotsConserved`, `LimitsRespected`, `NoStarvation` | 3 slots, 2 sources with limits 0 to 2, two single queries, batches of 3 and 2 reads |
| `table_work` | `LoadsAreWhole`, `SinkIsALog`, `RollupsFollow`, `RetriesAccounted`, `RowsKept`, `SuccessIsTrue`, `QuietStaysFresh` | seed: 2 runs, 5 rows, 3 partitions, 2 slots, 2 attempts, 2 faults; batch: 3 members, 2 runs, version 2, 2 faults; cursor: 2 keys, 4 values; rollups: 2 runs, 3 works, 2 databases, 1 fault, 1 edit; retries: 3 tables, 2 sources, budget 3; rows: 2 rows, 2 sinks, 2 clients, 2 edits; stamps: 2 tables, a check and a run, 1 transaction, 1 hour, interval 1, 1 edit or lost lock |
| `job_tables` | `RunSeesItsTables`, `JobsKeepDatabasesWhole` | 2 users, 2 jobs, 3 groups, 3 tables of 2 databases |
| `job_deletion` | `WrappersMatch`, `ToldTruly`, `PurgeSpares`, `TaskEnds`, `DatabasesSpread`, `SchemaKept` | deletion: 1 old and 2 new groups, 2 threads, 3 requests, 1 fault; placement: 3 databases created, 2 to add, 1 to 3 groups, 2 regroups or adds, 1 restart; upgrade: 2 runs, 2 checkers, 2 attempts, 1 crash, and every file of 3 statements |
| `reading` | `ReadsAreKept`, `WrittenOnce`, `PreparationEnds`, `ClaimsWithinCap`, `ReadsEnd` | preparing: 2 databases (one clashes), 2 threads, 1 request, 1 fault; reads: 2 reads, 1 check, 2 instances, cap 2, 2 statements known of a database, 1 event |
| `app_jobs` | `OneOfEach`, `ClusterSettles`, `RemovedStays`, `SelectionFollowed`, `PagesAgree`, `RunsAreShown` | cluster: 2 groups, 2 names, 2 edits, 1 fault, 2 presses; sources: 3 tables, 3 ids, 2 readers, one each of source change, load, removal and fault; job runs: 2 groups half a cadence apart, 3 starts or edits, 4 moments (in three triggers' time, and long after), runs shorter than a cadence or that never end, pages of 1 job run |
| `placement_again` | violation of `NewGroupsAreNew` | 2 databases created, 2 to add, 2 regroups |
| `dropped_sink` | violation of `EveryClientReseeds` | 2 rows of one shared sink, 1 drop, no edit |

Why the bounds are enough to be interesting. All properties of the table models
are about single keys, and a step that reads all keys reads each of them at one
of the moments the model allows. Image 2 is a row that was inserted and deleted,
image 3 one that came back. Version 2 is the least at which two runs can each
capture a version with a change before, between and after. One fault is a lost
lock and so one overlap; two are a stopped recovery of a stopped run. In
`AppendIngest` a lost lock takes the whole fault budget, so that a zombie is
looked at without stops and retries (section 5 says what that leaves out), and
the constraint `TwoRunsOverlap` keeps those behaviours to two runs. In merge
mode a run slot is used by one run after another. In `CheckLaunch` the second
check, run and version are the least with which a launch can race a launch and
a stamp an ingest. Two users are a change and the one it collides with, the
third group is one that only a plan or a table route reaches. The batches of
`WorkSlots` are larger than the smallest limit and one fills the slots, so both
caps take part. One fault of the app is one restart, lost answer or refused
call anywhere; a heartbeat that is late, a claim that lapses and a poller's
lost lead count as faults too.

Assumed of time: a write beats its task within the 120 s after which it is
stale; the retention of deleted jobs outlasts any write; a run ends within a
day of its start.

Deadlock is checked in `WorkSlots` and, for the merge and the other models,
not: a source at its bounds with nothing to copy, a job nobody edits or a task
that ended is a state where everything may rest.

### Fairness

`progress`, the table: weak fairness of each run's own steps (a live driver keeps
executing its notebook) and of starting a run (the job's schedule). The source,
faults and cleanup have none. `Converges` speaks of tables whose CT stays on
from some point on and whose recorded begin_version is of their seed.

`work_slots`: work ends and what it held is returned (weak fairness), and a
thread that waits for a free slot, or for the batches' mutex, is not passed over
for ever (strong fairness). Neither `queue.Queue` nor `threading.Lock` is first
come, first served, so the second part rests on a run's units being finite; the
model lets them come back for ever only so that a request that `_admit` passes
over shows. Nothing is assumed of requests, of limits, or of `_admit`.

`job_deletion`: a thread goes on with its steps, the purge's run goes on, and
the page that polls a task looks again. `reading`: each preparing thread goes on,
the reads it waits for come back, a heartbeat nobody renews gets stale, and some
instance takes the task over; for the reads, each instance's look, each worker,
the end of each statement and the lapse of each claim nobody renews. Stops,
drops and users' requests have none. `progress`, the record: each instance keeps polling,
what the app was about to write of its own call is written, a day passes.
`app_jobs`: edits, pages and the copies job go on once started, a user who sees
drift presses Sync jobs; re-discoveries tick, days pass, loads and removals end.
In the `machine` modules the conditions are restated for the machine that runs;
a few have `UNCHANGED` of a fault counter inside, so that fairness never forces
a fault.

### What the violations say

`placement_again`: a regroup into more groups than there are databases leaves
groups without tables, and the next regroup that needs new ones takes their
numbers again (`app/placement.py:114-124`), though its docstring says "A new
group takes the lowest number no group uses".

`dropped_sink`: the sink that several rows share is dropped so that they are
seeded again. The first run of one of the rows finds it missing, makes it and
seeds its own slice (`planner.py:84-90`, `244-255`). The other rows' runs find
the sink there, go on from their checkpoints and merge only new changes into a
slice that has none of their rows, and nothing notices later.
`docs/how-it-works.md:145-146` says "for a shared sink, every database that
writes it reseeds", and 217-220 calls the outcome "a silent gap".

## 4. Proofs

The theorems hold for every number of runs, keys, tables, databases, users and
for every bound. Their assumptions are the `ASSUME`s of the modules, which TLC
evaluates in the runs; nothing else is assumed. Each `*_proofs` module has the
same layout: the inductive invariant as a conjunction of named parts, what the
initial states satisfy, one lemma per group of actions, and theorems that combine
them with temporal logic. Each inductive invariant was an invariant of a TLC run
before it was proved.

| Module | Theorems | Property of a run |
|---|---|---|
| `TableWork_proofs`, of `MergeIngest` alone | `MergeTypeCorrect`, `MergeNoGap`, `MergeImplementsReplica` | `NoSilentGap`, `ImplementsReplica` |
| `AppendIngest_proofs` | `TypeCorrect`, `NoGap`, `NoTwice` | `NoSilentGap`, `NoDuplicates` |
| `CheckLaunch_proofs`, of `CollectionRuns` alone | `TypeCorrect`, `Exclusion`, `ClosesTheDead` | (checked with checks, below) |
| `CheckLaunch_proofs` | `OneRun`, `NothingSkipped`, `ExclusionWithChecks`, `ClosesTheDeadWithChecks` | `OneRunGoing`, `NoChangeSkipped`, `ExclusiveDatabases`, `ClosedOnlyWhenDead` |
| `AppJobs_proofs`, of `JobTables` | `RunsSee`, `StaysWhole` | `RunSeesItsTables`, `JobsKeepDatabasesWhole` |
| `AppJobs_proofs`, of `MCAppJobs` | `OneOfEachKept`, `RemovedStay` | `OneOfEach`, `RemovedStays` |
| `JobDeletion_proofs` | `JobsMatchMembers`, `AppTellsTruly`, `PurgesSpareTheLive` | `WrappersMatch`, `ToldTruly`, `PurgeSpares` |
| `TableWork_proofs`, of `Stamps` alone | `SuccessTrue`, `QuietFresh` | `SuccessIsTrue`, `QuietStaysFresh` |
| `TableWork_proofs` | `RowsFollow`, `SinkStaysALog`, `WholeLoads`, `KeptRows`, `RetriesStand` | `RollupsFollow`, `SinkIsALog`, `LoadsAreWhole`, `RowsKept`, `RetriesAccounted` |
| `MCReading_proofs` | `ReadsKept`, `DatabasesWrittenOnce`, `CapKept` | `ReadsAreKept`, `WrittenOnce`, `ClaimsWithinCap` |
| `WorkSlots_proofs` | `Conservation`, `NoDeadlock`, `LimitsHold` | `SlotsConserved`, `LimitsRespected` |

`FoldTheorems` has the lemmas on finite sets and sums that `TableWork_proofs`,
`WorkSlots_proofs` and `AppJobs_proofs` rest on. The community modules' folds are recursive functions
over the subsets of a set; that such a function exists, and what holds of its
values, is proved by a smallest counterexample, a form of induction the provers
do take.

**MergeIngest.** `NoSilentGap` is not inductive: it speaks of the checkpoint,
and a run between its reads and its commit carries what it will write. `MergeInv`
says of each run what it may still add: the tail of the change table it read is
complete from its position (`Complete`, `ShowsUpTo`), the base rows it read are at
least as new as the change that led to them (`Base`), and a detected position is
vouched for as long as nobody wrote since (`Fresh`). The argument never uses the
collection's lock. Merge mode is safe because of the order of a run's steps, the
retention guard and Delta's conflict check; the lock saves work.
`MergeImplementsReplica` maps the sink to that of `Replica`: every step is a forward step or a stutter.

**AppendIngest.** Two separate arguments. `NoGap` again needs no lock: a commit
holds the rows from the checkpoint its run read (`CaughtUp`, `Founded`,
`TrueRows`). `NoTwice` does need one run at a time: a run's commit ends at the
checkpoint or at the pending append, and who comes next looks for it
(`Ends`). It holds under the bound stated with `LoseLock`, which excludes a lost
lock together with other faults (section 5).

**CollectionRuns and CheckLaunch.** A run with its session up holds the lock in
the mode it asked for and the databases it kept; a run that closes records holds
the collection alone. `CheckLaunch` keeps all of that, because its steps are
steps of `CollectionRuns` or leave it alone, and adds: a check by groups that
starts runs still holds the collection, or its lock is recorded as lost; its list
of active runs has every run that earlier checks started while they held theirs.
`NothingSkipped` says that a check sets no position past a change nobody copied:
what it saw is no later than the source, and what changed after it saw a
database quiet is later than that. A lost reply of the start call changes
nothing but the count of faults, since the retry has the same token.

**JobTables.** A change writes only into groups whose lock it holds, and a run
reads its tables under the lock of its group. The row locks fix where a table
comes from between plan and write, the unique index fixes what is inserted, and
two changes never hold one group or one row.

`StaysWhole` says more, of databases that no table route writes. A job's change
writes tables of the job's databases only and puts them into its groups
(`PlanKeeps`). What it planned from are all the rows those databases have, since
a database's rows are in groups of its job (`InPlace`); and the plan still fits
when it commits, because one change of a job goes on at a time (`OneOfJob`) and
what others commit in between touches neither its databases nor its groups.
This supposes that no two jobs share a group or such a database (`JobsApart`),
and whole databases to begin with. The app looks for both when a job is created
(`main.py` `_taken_group_errors`, `_refuse_owned_databases`), but neither look
sees what is not committed: without `JobsApart` the property is false (section
5).

**OwnClusters and JobSources.** That there is one copy rests on the copies job
being the only one that makes copies and on its `max_concurrent_runs` of 1
(`resources/lakefed_ingest_cluster_copies.yml:11-12`):
between its plan and `jobs.create` nothing else makes one, so a run that found
none to adopt is still right (`FoundNone`), and the next run adopts what a
stopped one made but did not record. The record itself may be lost or written
over. It also rests on the copy being found: by the record, or else by the
job's name, which the notebook reads with the row (`cluster_copies.ipynb:45`),
and by its tags. So the invariant says that until a copy has gone `astray`, each
copy is recorded or has the job's name, and `OneCopy` is only claimed until then.
The ghost `astray` is set when the job is renamed while a copy has no record, or
when a record is lost, or cannot be read, of a copy that still has the old name:
section 5. A thread that re-discovers holds the job's record as long as no heartbeat
was missed (`ReaderHolds`). That removed tables stay out needs none of this:
exclusions are read in the transaction that inserts, under the job's lock, so
even two threads at once, or one with an old reading, add nothing that is
excluded then (`InsertedNotExcluded`). That the models' steps name wrappers and
ids that exist is proved too (`SyncTyped`, `Inserts`), from there being at least
as many wrappers as groups. The types of `JobRuns` are part of the invariant;
what its pages show is not.

**JobDeletion.** Three arguments that lean on each other (`DeletionInv`). A write
has one thread at a time: as long as it lives its task is running with a fresh
heartbeat, so the same request sent again is only answered (`OneWriter`), and
what the task says of its tables is told from what that thread committed
(`ResultInTime`, `TaskShape`). A job keeps its tables until it is purged, and
only a deleted one is purged (`RowsStay`); a deleted job takes no new write, and
Delete now finds none going, so a purge and a write meet only where a Restore
came between Delete now and the record of its run (`Purges`, `strays`).

A sync holds the job's schedule lock, under which no members change. What it has
found are jobs of its members, each claimed and each of another group; if it had
no error, it knows every live job, and what it deletes is claimed by nobody
(`Synced`). So where it commits without errors, the live jobs and the active
members are one to one (`CommitMatches`), and every later change owes a sync
again. It also keeps a member's own job where that still stands, so a task that
is done has its wrapper jobs as long as no Delete came (`WrapsStay`). The proof
says where the answer of a creation may be lost: the sync then has an error, and
the job, found by its tag, is adopted or deleted by the next. It assumes
of the constants that names differ and that there are enough wrapper jobs for
the groups the job starts with. `ToldTruly` stays silent about a write whose
result names no groups (section 5).

**Preparing and WarehouseReads.** `ReadyIsWhole` is not inductive: between its
last look at the reads and Ready, a pass goes by what it found. Who writes owns
the task and planned after it took it, so what it plans nobody has written
(`OwnerAlone`, from which `DatabasesWrittenOnce` follows); and what it looked at
accounts for every database, as written, planned, set aside or left out
(`PassCovers`), so a pass that set nothing aside is past its report only with
all of it written (`PastReport`). All but the first make an exception of a look
taken while the preparation was stopped, which finds no reads pending: such a
pass ends at its next beat or check, unless Prepare again came first
(`job.hurried`, section 5). Of the reads, a worker that has one holds the live
claim of its row alone (`HeldAlone`), as long as no user dropped a read and no
claim lapsed under a holder that still reads; instances that stop let their
claims lapse and disturb nothing. `CapKept` needs only the types: the claim is
taken in the transaction that counts the others.

**Stamps.** A version that a sweep captured is at or past every transaction from
before the sweep began, because the capture comes after the beginning; and no
position is past a change the sink lacks. So what a sweep found unchanged at
its version lacks only later changes, whatever happened to rows, stamps and
locks since, and a stamp speaks only for tables whose position reached its
version. The argument needs no lock. `QuietFresh` does need it. Last successes
and the stamp only get later, so a table that was written, stamped or found
young stays at least that fresh (`KeptFresh`); what a sweep had read before it
decided is still recorded (`NotForgotten`). What the lock adds is that the stamp
speaks for those tables: its holder captured its version after every sweep that
lost the lock, so none of them leaves a stamp past the positions it read
(`Latest`).

**Batched appends.** One commit per run and member, since the halves of a batch are
written again only after a look in the sink; groups are disjoint. A checkpoint is
at the end of its member's log, or its pending append is the last commit.

**Rollups.** What was counted stays true until it is committed because works
wait for the run's connection, what was summed because the group's lock is held.

**SeedPartitions.** As long as no run lost its lock, the one run that seeds has
the lock, and the staging table has exactly the rows of the parts this run has
loaded, each once (`SeedInv`). Who swaps has loaded every part, and the parts
have every row once: their bounds are the values of rows of least and greatest
rank (`LeastMember`, `GreatestMember` of `FoldTheorems`).

**CursorLoad.** A transaction that shows its rows later took its values before
the server's minimum active value rose, so what is not committed yet lies above
every position a run reads to (`CursorInv`). What a run lacks is above its
watermark.

**ControlRows.** `SinksWhole` is not inductive, and as it was first stated not
even true: a row can go on from a checkpoint that its sink was changed behind
(`outlived`, section 5 and `dropped_sink`). As long as none does, `ControlInv`
says: two rows, or a row and the run of another, never have one place (a sink
and a client's slice of it); while a run goes on its row does not return to what
its checkpoint was written for; and a checkpoint that a row goes on from fits
what its place holds. The first part needs more than the app's checks of a form:
with SQL a row can be moved away in the middle of its run, and another put in
its place while the run still writes there. `NobodyWrites` leaves that out.

**TableRetries.** Who holds a retry was granted one, and holds it until it is
over. What the policy counts are sums over the tables, and a step of one table
changes each sum by what it changes of that table: a grant takes one from the
budget and adds one attempt, a failed retry moves from pending to counted.

**The compositions.** `WholeLoads`, `KeptRows`, `RetriesStand`, `OneOfEachKept` and
`RemovedStay` are about an `MCSpec`, a union of machines. Every behaviour of it is one of each
machine or leaves its variables alone (`MachinesRun`), so an invariant of a
machine by itself is one of the union.

**WorkSlots.** Only running and gathering units hold slots, one unit gathers at
a time, and it lacks at least one slot. So slots are never lost, and while all
are taken some unit runs (`NoDeadlock`, which no run states).

The permits in use at a source are the queries of the units inside (`PermitInv`),
a sum over finitely many units. `LimitsHold` follows one pass of `_admit` through
its queue: after each request the permits in use count those let in so far, and
who was let in last fitted then. It fits among those who are let in after it,
since each of them fitted too; and a source whose use is 0 has nobody with a
query of it inside, which is why a unit larger than the limit is alone there.

Only model-checked:

- Liveness: `Converges`, `NoStarvation`, `TaskEnds`, `PreparationEnds`,
  `ReadsEnd`, `EndsShow`, `ClusterSettles`, `SelectionFollowed`. TLAPS has no
  `ENABLED`, so weak fairness is out of its reach.
- `PagesAgree`, `RunsAreShown`: `Outside` groups runs by a recursive function
  over their starts; no proof yet.
- `DatabasesSpread` and `SchemaKept`: no proof yet (section 6).

## 5. Known divergences

What was met while modelling, and is stated here rather than run, because it
needs a state outside the models' bounds or is a matter of wording.

The engine:

- A run that lost its lock connection works on for up to the cached answer's
  life; `docs/how-it-works.md:228-230` says it stops (`ingest/ingest.ipynb:27`,
  `ct_engine.py:1374-1386`, `1409-1416`). In append mode this can append twice
  (the docs: "No duplicates."); with a retry of a run whose first append was
  committed while another run replaced its pending append, it could also settle
  an append that was not made. `LoseLock`'s bound excludes the double fault.
- `advance` and the record of begin_version are two statements. CT turned off
  and on again between them is not noticed.
- A retry of a recovered seed append whose advance cleared the pending append
  fails on `int(None)`: loud, and the next run goes on.
- Restore in append mode with a pending append falls back from the restored
  position (`docs/how-it-works.md:209`).
- `alone_on_collection` holds the collection exclusively for a moment, in which
  a sibling of the same launch is refused (`state_store.py:1746`).
- A refused run without a work list opens its record without the lock, and the
  holder may close it "failed" (`state_store.py:1051-1055`, `planner.py:136`). A
  run that loses its lock between locking and `close_abandoned_runs` closes its
  successor's record.
- A check may defer a database that a run then takes (`launcher.py:84-85`).
- Two migrators of different code: the probes of `UPDATE_PROBES`
  (`state_store.py:188-203`) run before an earlier statement adds the column
  they are about (`lakebase_schema.sql:213-218`,
  `tests/state_store_test.py:723-726`). An instance that read the version before
  the lock may start a second setup run, which does nothing.
- SQL that moves a control row back before a run records the move leaves the
  first sink as it is (`docs/lakebase_schema.md:337`, `planner.py:68-74`). So
  does the app for a row that is moved away and back while its load is "full":
  only incremental rows are flipped to seeding (`app/queries.py:2292-2300`). When
  the row is then put back on CT it goes on from its old checkpoint, though the
  note of that edit says "the next run reseeds the table" (2301-2302), whatever
  another row wrote in its place meanwhile.
- SQL that moves a row away in the middle of its run, and another row into its
  place: two writers of one sink until the run ends.
- A load of a run that lost its lock may put a position back that a later sweep
  has read (`state_store.py:546-569` sets it as given, `1419`), and the later
  sweep's stamp no longer speaks for that table until it is loaded or confirmed
  again. `QuietStaysFresh` leaves it out.
- A disabled table's position after CT was reset or the database restored can be
  vouched for by a stamp of a lower version when it is enabled again (`Stamps`
  has one database whose versions grow).
- `apply_seed_budget` (`planner.py:450-462`) sorts by recorded attempts, so
  tables that always fail can keep a good table that failed once waiting; its
  docstring says otherwise.

The app:

- Add tables: a big Add that stopped after its last database was written and is
  sent again finds every group in the job, so its result names none and it is
  done without a sync (`main.py:4992`), though `queries.py:2124-2125` says
  nothing reads as done before what follows it has finished.
- Delete: a second Delete beside the first (`main.py:6522`), a stray purge
  against a Restore, and the drop of target tables after the commit are narrower
  than the messages say.
- Preparing: Stop and then Prepare again within a beat (`TASK_BEAT_S`, 2 s) may
  make a job Ready with databases unread: a thread that looked at its reads
  during the stop found none pending, has not seen the stop, and passes
  `_prepare_alive` again once the job is prepared again (`main.py:5943-5950`,
  `6027`, `6323-6341`). `ReadyIsWhole` leaves just that out (`job.hurried`).
- Preparing: Stop may lose against a pass that starts (`main.py:5356`,
  `6309-6310`, `6027`), and so may Pause. An edit that was read before it is
  taken without a message.
- Reads: the cap of a server is passed for a moment when a claim lapses
  (`queries.py:1779-1787`).
- Jobs: two jobs whose sources share a database can split it between groups at
  READ COMMITTED (`main.py:2558-2560`, `2593-2596`, `3097`); tables outside all
  jobs are not looked at (`main.py:1797-1809`).
- Run records: a run closed by the two-minute rule whose engine then starts
  another event is closed at a time the docstring of `close_cancelled_run_sql`
  does not name (`queries.py:847-850`); `stop_ingestion_job` reads the poller's
  table where its docstring says the Jobs API (`docs/monitoring.md:49-50`); two
  pollers, or a late `note_started`, may show an ended run as active until the
  next look; a cancel recorded after the run ended may meet an earlier "failed".
- Own clusters: `cluster_copies.py:13-14` says "A copy is found by its tags before
  a new one is made (`adoptable`), so a copy whose id was never recorded is
  adopted rather than duplicated". The notebook lists jobs by the job's name as
  it is now and only filters them by tags (`cluster_copies.ipynb:45`,
  `cluster_copies.py:45-52`), and a job may be renamed (`main.py:6435-6454`): a
  run makes a copy and stops before its record, the job is renamed, and the next
  run makes a second copy. Likewise lines 60-62, "a schedule renamed after its copy was made
  keeps that copy by its recorded id": `our_copy` takes any failure to read the
  recorded job for one that is gone, and the lookup by the new name then finds
  nothing. The job runs the copy recorded last, and the other is left idle.
  Without its `astray`, TLC violates `OneCopy` in 19 steps of `app_jobs`.
  `update_schedule` writes options back that it read under the
  lock, and loses the record of the copies job of that moment; the cluster page
  may clear a newer run's id (`main.py:2021-2022`); after a crash between the
  commit and `_apply_cluster`, or a failed copies run, the copy stays at
  defaults and Sync jobs does not start the copies job at once
  (`cluster_copies.py:10-11` against `main.sync_schedule`).
- Job sources: a re-discovery started before a Delete writes rows to the deleted
  job (`main.py:7133-7160`); a late thread overwrites another's record.
- Job runs: a run that started more than a cadence after its job run and goes on
  for longer than the recent job runs is not on the overview
  (`ingestion_jobs.py:391-397`); a launch whose later run starts a cadence after
  its first is looked for at the next slot by `_last_ran`, so no last run is
  shown (`queries.py:622-626`: "start order is slot order"); the last run of a
  removed member is not read; a job run that overruns, or runs started by hand,
  hide the last finished one; a run before its group's first trigger is linked to
  a trigger's job run that does not show it; a run by hand exactly at a
  trigger's slot takes that slot's place; "next" of a list is cut to the last job
  run read, and job runs outside every trigger beyond the limit are on no page
  (`main.py:2818-2820`). `PagesAgree` and `RunsAreShown` leave out just these: a
  start later than the cadence, a run before its member's first trigger, and a
  last run by hand.
- Placement: databases whose lines interleave in a file are placed by their
  first table; a resumed Create is refused when an Add took a database of it.
- The app does not check an append table's own column names in `select_list`;
  the engine refuses it.

## 6. Not modelled, and the plan

Not modelled: select lists, the collation of keys, schema and identity reseeds,
the status column of checkpoints, full loads, the Restore of a checkpoint, FAIR
pools, figures of the pages (speed, progress, expected end), the catalog queries of discovery, the app's Lakebase
pool, its frontend, connections and grants, and `job_orchestration/`. Each has
its reason in `PROJECT.json`.

To model next: the seed budget (`planner.py`) and the plan of a cycle over
several collections (`initial_check.py`). To prove next: the placement's
`DatabasesSpread` and `SchemaKept`.
