# A TLA+ development of Xingshu

Xingshu is a server (Rust, tokio, axum, SQLite) that runs scheduled scripts: tasks with cron,
interval or startup schedules, run as shell commands, with logs, notifications, git
subscriptions, package dependences, backups and a web console. This directory holds TLA+
modules of its concurrent parts, TLC configurations that check them, and TLAPS proofs.

`PROJECT.json` lists components, runs, findings, hazards, theorems, and for every definition
the source lines it models.

## 1. The system

| component | state | operations | talks to |
|---|---|---|---|
| Executor `services/executor.rs` | maps `running_tasks`, `executions`, `log_channels`, `log_buffers`; child processes | `execute`, `execute_stream`, `kill_task_with_log` | called by the scheduler, startup loop and stream API; log service |
| Task scheduler `scheduler/mod.rs`, `api/task.rs`, `services/task.rs` | table `tasks`; `job_ids`, `random_task_handles`; the JobScheduler | create/update/delete and `reload_tasks` | executor, subscription import, restore |
| Dependence manager `services/dependence.rs` | table `dependences`; a semaphore of one permit; packages of the machine | create, batch, update, reinstall, delete, `install_on_startup` | startup tasks wait for it |
| Subscriptions `services/subscription.rs`, `scheduler/subscription_scheduler.rs` | table `subscriptions`; git directories; `job_ids` | create/update/delete, `run`, `sync_loader_tasks` | writes tasks and groups |
| Live feeds `executor.rs`, `api/task.rs` | broadcast channels of 100, history buffers | subscribe, send, forward | browsers |
| Log retention `services/log.rs`, `main.rs` | table `logs` | create, delete old, keep latest n (total / per task) | every run |
| Database pool, backup, restore `api/mod.rs`, `api/backup.rs`, `scheduler/backup_scheduler.rs` | `RwLock<SqlitePool>`, data directory, backup job | `reinit_database`, restore, backup, cleanup | every service |
| Authentication `services/auth.rs`, `totp.rs`, `user.rs` | users, TOTP secret and backup codes in `configs` | login, verify, enable, disable | API |
| Scripts, terminal, environment, groups, config, notifier, system logs | files, PTY sessions, rows, a ring of 100 lines | CRUD and I/O | |
| Web frontend `web/` | none of the server's | a client of the API | API |

What is hard here:

* **Interleaving.** Every handler, job and run is a tokio task on several threads; shared maps
  are locked per access, so whatever stands between two locks or awaits can be overtaken.
* **Cancellation.** A handler whose client disconnects is dropped at an await; an interval job
  is aborted in the middle of a run; a stream that is no longer read takes its run with it. What a
  dropped handler began goes on without it: an uninstall command, the removal of a directory.
* **Processes.** A kill hits the shell, not its children; pids can be reused; a child outlives
  the future that started it.
* **Stale copies.** Reloads, jobs and deletes work on rows they read before they waited.
* **Partial failure.** Several queries per request, no transaction, `?` on the way.
* **Restart.** Rows and packages survive, jobs, queues and registries do not.

For each component, what makes it correct: the *executor* lists as running just what runs, can
kill it, reports success only if every account's command succeeded, cleans up after the last
process and ends; the *scheduler* has exactly one job for every enabled row; the *dependence
manager* lets only the holder of the permit run a package command, forgets no row and tells the truth about what is
installed; a *subscription* run does not damage another and leaves a final status; a *feed*
delivers every line once; *retention* keeps the newest rows; the *pool* is never left closed without
a failure and nobody waits for ever; a *backup code* is good once.

## 2. Modules

| module | models | checked by | proofs |
|---|---|---|---|
| `TaskExecutor` | a task run from start to log row, its commands and processes, kills, dropped runs | `MCTaskExecutor`, three configurations | `TaskExecutorProofs` |
| `TaskScheduler` | task rows, `reload_tasks` in four parts, requests cut short, writers that do not reload | `MCTaskScheduler`, three configurations | `TaskSchedulerProofs` |
| `DependenceService` | dependence rows, install jobs, the permit queue, deletes, crash and restart | `MCDependenceService`, two configurations | `DependenceServiceProofs` |
| `AtomicSchedule` | abstract: a scheduler whose reload is one step | refined by `SubscriptionScheduler` | `SubscriptionSchedulerProofs` |
| `SubscriptionScheduler` | subscription rows and `reload_subscriptions` under one lock, restores of the table | `MCSubscriptionScheduler` | `SubscriptionSchedulerProofs` |
| `Subscription` | git runs, the import of loaders as tasks, status, directories, deletes and the removals they leave behind | `MCSubscription` | `SubscriptionProofs` |
| `DbPool` | the lock around the pool, requests, restores, backups, clients that leave, crash and startup | `MCDbPool` | `DbPoolProofs` |
| `LogStream` | lines of runs and their viewers | `MCRunOutput` | `RunOutputProofs` |
| `RunningFeed` | the running list and its watchers | `MCRunOutput` | `RunOutputProofs` |
| `LogTable` | log rows, the trims, deletions | `MCRunOutput` | `LogTableProofs` |
| `RunOutput` | the three before, side by side | `MCRunOutput` | `RunOutputProofs` |

Definitions marked "Faulty" are plausible bugs; each replaces the definition after it to show
that a property can fail. They are used by no specification.

### TaskExecutor

State: `pc` per execution (a stage of `execute`), `cmd` per (execution, account) for
`execute_tracked_command`, `proc`/`pid` for the process behind it, and the shared maps under
their own names. Actions are the stretches of code between two awaits another actor can
observe: `Start`, `PrepError`, `GiveUp`, `BeginPre`, `BeginMain`, `BeginBatch`, `SkipAccount`,
`MainError`, `MainDone`, `EndPost`, `Finish`, `Record` for the run; `Spawn`, `SpawnError`,
`Register`, `Reap`, `Unregister` for a command; `KillRead`, `KillTake`, `KillClean`, `KillLog`,
`KillAbandon` for a kill; `Drop` for an aborted or abandoned run; `ProcExit`, `Deliver` for the
operating system. `execute_stream` takes the same steps without pre-command, post-command and
accounts. A process is alive, an orphan (the shell is dead, a child holds its pipes), or has
exited `ok` or `bad`. Not here: output lines, the feed of running tasks, path rewriting.

Two things may keep a run from its end. `Stall`: `execute_command` reads all of standard output before
standard error, so a pre- or post-command that fills the pipe of the latter waits for the server for
ever; such a run stays "stalled", which no step leaves. `Record` may fail to insert the row (the task
was deleted, the pool is closed); the error is logged, the run goes on, and the history `unsaved` has it.
`RunRecorded`, which is about runs that nothing drops, excepts both by name; `RunEnds` excepts the stalled and
the dropped ones.

### TaskScheduler

State: the table (`db`, each row with the number of the write that made it), the jobs that fire
(`live`), what the scheduler knows of them (`job_ids`, `random_task_handles`), and per request how
far it is and the rows it read. `reload_tasks` is `DrainJobs`, `AbortHandles`, `List`, `AddAll`, one
per lock or query. `Cancel`, `CancelDrain`, `CancelAdd` drop a request at each of its awaits;
`QueryFails` is a failing query; `SyncTask` and `Restore` are the writers that reload nothing.
A row's schedule is `cron`, `interval`, `partial` (a later expression of the list does not parse)
or `bad`; a row that is not there has none, and `NoSched` stands for it. Three history
variables: `unsynced`, `solo` (the last reload ran alone), `leaked` (jobs whose id was lost).

### DependenceService

State: `rows`, `present` (packages on the machine), `job` (spawned install jobs and the startup
job), `line` (the fair semaphore: its head holds the permit), `client` (requests in progress, with
the copies of rows they hold), `orphans` (uninstall commands whose request is gone), `up`,
`released` (startup tasks may run). A package is a name with a type. A single create is a batch
of one. The startup job takes its rows in any order where the code sorts them by id. Histories: `stuck` (rows
on which a step was lost) and `tainted` (packages for which the code itself gives up the link
between row and package; each case is named at the variable).

An abandoned uninstall is in `orphans` and no longer in the line: it may run beside the command of the next
holder. `OneAtATime` is therefore about jobs and about requests whose client is there, and says nothing of
commands in `orphans`. A restore of the table is left out here.

### AtomicSchedule and SubscriptionScheduler

`AtomicSchedule` is what a reload under one lock promises: the jobs there are were made of one
state of the table, or are fewer of them. `SubscriptionScheduler` is the code: `Edit`, `ReadBack`
for create and update, `DeleteGet`, `DeleteDirs`, `DeleteRow` for delete, and the reload in `Drain`,
`List` and `Add`, whose caller holds the lock of `job_ids` from the first to the last. `QueryFails`, `Cancel`,
`CancelDrain` and `CancelAdd` end a request at each of its awaits; `Crash` empties what is in
memory and begins the reload of `start`; `Restore` puts another table in place
and reloads nothing (`Replace` of the abstract module). `unsynced` is set by whatever leaves the jobs behind
the table, a reload cut short or a restore, until the next reload that goes through. A job carries the row it was made of and the reload
that added it. The refinement mapping is `Promised`: the jobs known by id, and those a reload that
has read the table is going to add. Jobs whose id was lost (`leaked`) are outside the promise: no
reload can remove them, which is the defect the run `orphan` shows of the other scheduler.

### Subscription

`run[r].at` is the place of a run in `run`, `run_git_operation` and `sync_loader_tasks`: `Begin`,
`MarkRunning`, the git steps `EnsureDir`, `Pull`, `ResetAndPull`, `RemoveDir`, `Clone`, `CloneEnds`,
the import `ReadDir`, `FindGroup`, `InsertGroup`, `CountTasks`, `UpdateTasks`, `CreateTask`, and
`Conclude`. A run works on the row it copied. Others meanwhile create, rename and delete
subscriptions and the imported tasks. `tasks` has the tasks of the loader's name by their ids, each with
the directory whose file it runs. A directory is absent, partial (a clone or a removal is at work
in it, or broke off) or a repository. A delete finds its row, removes the directory, and removes the row; the removal takes time
(`DeleteDir`, `Removes`, `RemovalEnds`): the directory is partial, then gone, or the removal fails. If
the client leaves meanwhile (`DeleteEnds`) the removal is abandoned and goes on beside whatever begins
later. Histories: `stuck` (a run ended without a status), `messy`
(a directory may be left behind, each case named where it is set) and `alone` (runs that nothing
disturbed; an abandoned removal that takes something of a run's directory disturbs it). When a run
starts is not decided here: `SubscriptionScheduler` has the jobs, and this module lets a run of a row begin at any time, which includes every time a job fires.

### DbPool

The lock (`guards`, `queue`) is tokio's fair `RwLock`. A request takes a guard to read
(`Begin`), a connection (`Acquire`, `NoConnection`), writes its row (`Execute`) and, if it is one
like `TaskService::create`, takes a second guard while it holds the first (`AskAgain`, `ReadBack`). A restore removes the
data directory (`Clear`), unpacks (`Extract`), and does `reinit_database`: `Close`, `Closed` (it waits for the
connections in use), `OpenPool`, `Migrate` (the schema, part by part), `Swap`; `ReinitFails` where
`init_db` may fail. A backup copies the file and its log at different times. A file is a number and has
the rows in it, in its log, and the parts of the schema; a connection stays with the file it
opened, also when no path leads to it any more. `Crash`, `BootRestore` and `BootInit` are a restart. With `Cancels`, axum
drops a request (`LeaveRequest`) or a restore (`LeaveRestore`) at any await with its client: its guards, its
place in the queue and its connection are given up, and what it did stays. A statement in progress may
yet write its row, and a removal of the data directory goes on, which is `Clear` and then a client that leaves.
The schema has three parts, tables, later columns and defaults, that `init_db` adds in this order.

Histories: `sure` (requests begun on a settled server, no restore since), `spoilt` (a restore failed or was
dropped between the removal of the directory and the closing of the pool, or two overlapped), `dead` (one
failed or was dropped after it had closed the pool and before it exchanged it), `mixed` (restores that overlapped),
`owed` and `torn` (what an archive must contain, and backups under which rows were moved). What the
properties leave out is thus: `SureRowsKept` speaks of no server that is `spoilt`, where rows that were
acknowledged go to a file no path leads to; `OpenUnlessDead` of none that is `dead`. A later restore that goes
through, or a restart, ends both.

### LogStream, RunningFeed, LogTable, RunOutput

`LogStream`: a run sends a line and then caches it (`SendLine`, `CacheLine`; several commands of one
run do so at once), sends its duration, removes its entries; it may return an error or be dropped
and leave them. A viewer subscribes (`SubscribeLogs`) after it has read the history (`History`).
`RunningFeed`: whoever changes the registry reads the list and sends it in two more steps
(`ReadList`, `SendList`); a watcher subscribes first and then reads its first list. `LogTable`: a run
inserts its row and trims in total and per task, in two statements; kills insert a row and do not
trim; startup tasks trim by another limit; the daily cleanup and users delete. Every statement may fail,
which is logged and no more: a row that is not inserted (`NoInsert`, `KillUnlogged`), one that is but cannot be read
back, after which nobody trims (`InsertUnread`), a trim that deletes nothing. Limits may be zero, which the web page
refuses and the server takes; a limit that cannot be read has a default. `loose` counts the rows inserted
since the last trim in total that did not fail by those who do not trim by that limit: kills, startup
tasks, aborted runs, runs that could not read back, and runs whose trim failed. `logs` has the rows by
their ids, `lastId` the largest id ever given out (AUTOINCREMENT), and a trim keeps the ids that fewer
than the limit precede in the order of the statement.
The three share no state, and a step of one neither enables nor disables one of another. `RunOutput`
therefore follows one of them in a behaviour (`followed`, of those in `Followed`), which checks all that a product of the
three would, for the sum of their states.

## 3. Runs

| run | question | bounds | result |
|---|---|---|---|
| `overlap` | registry and kill with two runs of a task | 2 executions of every kind of caller, 1 kill at a time, 2 pids, 1 account | holds |
| `accounts` | batches, results, post-command, log row, termination | 1 execution, up to 3 accounts, width up to 2, a kill, kill commands that fail to start | holds |
| `kill` | does a kill end the run? | 1 execution, 2 accounts | **violated** |
| `reload` | is every enabled task scheduled? does a reload repair? | 2 tasks, 2 requests, 3 writes, everything allowed | holds |
| `orphan` | does a disabled task stop? (no concurrency) | 2 tasks, 1 request, 3 writes | **violated** |
| `overlapping` | the same with two requests, parsable schedules | 2 tasks, 2 requests, 3 writes | **violated** |
| `dependences` | does "installed" mean installed? | 2 rows, 2 packages, 2 requests, 2 jobs | holds |
| `dependence_restart` | only the holder of the permit at work, nothing forgotten, all settled | 2 rows, 1 package, 2 requests, 1 job and the startup job, 1 crash, everything allowed | holds |
| `subscription_reload` | does the reload under one lock implement `AtomicSchedule`? is a quiet scheduler exact? | 2 subscriptions, 2 names, 2 requests, 2 writes or restores, 1 crash, failing queries, clients that leave | holds |
| `subscription_runs` | is "running" true, "success" honest, and what does a delete leave? | 1 subscription, 2 names, 2 runs, 1 delete (or abandoned removal) at a time, 2 edits or an edit and a crash, 2 tasks of a name | holds |
| `pool` | do acknowledged rows stay, is the pool open, are archives whole, is everyone served? | 2 requests (1 with two guards), 2 restores, 1 backup, 4 files, 2 events (restores, backups, crashes), every failure, clients that leave anywhere | holds |
| `traces` | lines, running list and log rows as others see them | 1 run with 3 lines by 2 commands, 2 viewers, a buffer and a channel of 2; 2 registered runs of 2 tasks, 1 kill, 1 watcher with a queue of 1; log rows of 2 runs of 2 tasks, 2 kills, cleanups or deletions, limits 2, 1 and 3, every statement may fail | holds |

Why these bounds are enough: two runs of one task are the least that share a registry entry, and
any number share it as two do (a set of pids, touched one at a time). Three accounts in batches of
two give a full and a short batch. For reloads, two requests are the least that interleave,
three writes leave one in between two that race. For dependences two rows are the least that can
carry one name; two requests the least that overtake each other; one crash reaches every
half-done state. For subscriptions, two
requests are the least that could interleave their reloads and two writes the least of which one can be
lost; two runs are the least that share a directory, and both names occur when a rename comes
between. For the pool, one request in the lock's queue behind one writer is the least that jams;
two restores overlap; four files are those of two restores, a start without a file and the
first one. Two runs are the least whose ends come in another order than their
starts, and with two kills there are rows enough for each limit. Buffers and queues of one or two lines are overrun as those of 100 and 1000 are. The
theorems below drop the bounds for every safety property of these runs.

`CHECK_DEADLOCK FALSE` stands where the server may be idle with the bound on writes, ids, events or
lines used up; deadlock is checked for the executor, whose kill requests always can be made. That
requests and restores do not wait for each other is checked by `NobodyStuck` and `EveryoneServed`.

Symmetry is used in safety runs only.

**Fairness.** `TaskExecutor.FairSpec`: tokio polls every future that was not dropped, user commands
end by themselves (nothing in the code ends them: there is no timeout) unless the server's own reading
stalls them, a spawned `kill -9` arrives. No fairness on requests, kills or drops. `DependenceService.FairSpec`: requests and jobs
are polled, package managers exit, the server is started again after a crash. `DbPool.FairSpec`: the
lock is granted, requests that began and restores that cleared the directory are polled; nobody is made to ask, nobody to leave.
`LogStream.StreamFairness`: the responses to viewers are polled, while the runs need not go on. A
client, a failing query, a failing restore or a crash is never assumed to happen or to stop. The subscription
modules state safety only.

### What the violations show

* `kill`: `kill_task_with_log` signals the pids registered at that instant. A run with several
  accounts goes on with the next batch after its "killed" row is written.
* `orphan`: `add_task` leaves through `?` at the first cron expression that does not parse and forgets
  the ids of the jobs it already added. They fire until the process restarts.
* `overlapping`: the older of two snapshots is added last; the drain that should remove its jobs
  has passed. A disabled or deleted task fires until the next edit.

A wait without end: a request that holds one guard of the pool's lock and asks for another, as
`TaskService::create` does through `get`, waits behind a restore that asked for the lock in between, and the restore
waits for the request. `Jammed` says so; `EveryoneServed` and `NobodyStuck` except it, and nothing else.

Further disagreements are in `PROJECT.json` "findings" without a run of their own. The models have what they
describe, and the properties that pass name it as their exception, so that what passes is no more than
what the code does:

* *A run that never ends* (`Stall` of `TaskExecutor`). The program's README lists a timeout control for tasks. There is none, and
  a kill request reaches only registered commands, which pre- and post-commands are not.
* *An uninstall without the permit* (`orphans` of `DependenceService`). The permit of a delete ends with its client, the
  uninstall does not; the next install runs beside it.
* *A restore that no scheduler hears of* (`Restore`, `unsynced` of both schedulers). It reports success, and the jobs are those of
  the old tables until the next edit.
* *A restore whose client leaves* (`LeaveRestore`, `dead` and `spoilt` of `DbPool`). Between `close` and the exchange it leaves a
  closed pool. The one case in which the program asks for a restart is a failed initialisation, and here
  nobody is left to ask. Before `close` it leaves connections to a file that is gone.

One behaviour
no document speaks of, and which `InstalledIsPresent` therefore excepts: a second delete of one row waits with a copy of the
row, and uninstalls the package after it was entered and installed again.

## 4. Proofs

All for arbitrary constants, from the assumption each module names about its own
(`ExecutorAssumption` ... `PoolAssumption`), checked by TLAPS.

*TaskExecutor.* `TypeCorrect` proves `TypeInv`: types, with what they need to be inductive (a
spawned command has a pid, a kill past its first step a task, a begun run a task); `WellTyped` is
its corollary `[]TypeOK`. `RunInvariant` adds `RunInv`, which ties the stages together: a plan's
accounts up to `nextAcct` were started or skipped and no others (`Frontier`), commands are polled
only in stage "main" (`Hosting`), a command without a shell has no process and a reaped one's is
over (`ProcStage`), `overall` is true only if no command was skipped and every ended one exited
well (`Honest`), a run past its main command with `overall` true is one of all its accounts
(`Completed`), a "success" row belongs to a finished run of that kind (`Recorded`), and each pid in
`running_tasks` is one of a command of that task that has yet to take it off (`RegistryBacked`).
The parts are proved together. `RegistryCorrect`, `PostCommandLast` and `SuccessIsHonest` follow.
`KillReaches` needs one thing more, that two registered commands never
have one pid (`PidsDiffer`), since otherwise the end of one would take the other off the registry; it holds
under the property's own hypothesis that pids are not reused. `BatchesAreInOrder` needs where a run is
in its accounts: `nextAcct` is a multiple of the width or their number, and only commands of the chunk
that ends there are active (`InBatch`). That a chunk is what `\div` by the width says of its accounts is
a lemma of its own (`ChunkOf`, `ChunkBefore`, `ChunkAfter`).

*TaskScheduler.* `NothingForgotten` proves `CoveredWhenQuiet` with the invariant that a task not
covered now is going to be: some request has still to read the table after its last write, or
holds a snapshot with the current row (`Pending`). No reload may end without
handing over, which is why a lost update cannot happen however reloads interleave.
`SoloReloadExact` proves `ReloadExact` with `ReloadInv`: every live job is known or leaked
(`Accounted`), jobs carry the number of a write that happened (`Fresh`), and while `solo` is set the
live jobs are exactly what the stage of that reload says (`SoloProgress`).

*DependenceService.* `Inv` has the types, with what a job and a request at each stage hold, and
`Placed`: whoever is at a stage behind the permit stands in the line exactly once, and nobody else does. From it
`OneAtATime` follows: of jobs and of requests whose client is there, only the head of the line works. The lemmas about the line say what appending,
leaving at the head and giving up a place in the middle do to membership and head. `NothingForgotten`
adds `Pending`, a row that waits is handed over by a job, the startup list or a request, and `InstalledIsPresent`
adds `Honest`: copies agree with their row, or the name is tainted (`CopiesFaithful`), two rows of
one name taint it (`OneRowEach`), what is being uninstalled is not said to be installed
(`UninstallKnown`), an abandoned uninstall taints (`OrphansTainted`), and a job between its command and its
report has its package (`GoodIsPresent`).

*SubscriptionScheduler.* `ReloadIsAtomic` proves the refinement. `LockInv` is what the lock gives: one
reload at a time is between its drain and its last job, meanwhile no job is known by id, and only the
one that adds has read rows. With it each step is one of `AtomicSchedule`'s or a stutter; `List` is the step that
loads. `OneJobEach` is proved of the abstract module and carried over. `ExactWhenQuiet` needs
`NumInv` (reloads in progress have numbers of their own), `LiveInv` (a live job is known or lost, never
both) and `SyncInv` (unless a reload was cut short, the jobs are those of the table or a reload is
on its way that will make them so). It says nothing of a table that a restore put in place and no reload has
read since.

*Subscription.* `BornInv` (runs and deletes work on rows that were once there) carries `RunningMeansRun`;
`Clean`, that the directories, runs and deletes of a subscription that is not messy are all of its one
name, carries `DeletedLeavesNothing`. `TypeCorrect` has the types of everything; a removal, abandoned or not, is of the directory of a row that was once there. `AloneInv` carries `AloneImports`:
a run that nothing disturbed is the only one (`Sole`), from its pull or clone on the repository is in its
directory (`HasRepo`), and at each step of the import there are the tasks that step is to leave
(`HasTasks`); an edit of the row, a removal of its directory, abandoned or not, or another run takes it out of `alone`.

*DbPool.* `Inv` is proved part by part. `LockOK`: a writer is alone, and whoever uses a connection or waits for the last
one holds a guard. `PoolOK`: the pool behind the lock is of no restore at work, and while one
exchanges it, the pool is closed and nobody has a connection of it. `DownOK`: nothing is in progress while
the server is down. `AloneOK`: a restore outside `mixed` is the only one at work. `FileOK` joins them: once no restore
is at work on an unspoilt server, the pool and every connection are of the file in the data directory; that
no connection of a removed file survives is where the order close, wait, open, swap is used.
`SureOK` says that rows are in that file from their statement on, not only once acknowledged, and
`BackupOK` what half a copy contains. `OpenUnlessDead`, `SureRowsKept` and `BackupWhole` follow. A client that leaves gives its guards up (`ForsakeEffect`),
which leaves the lock as it was for the others; what a dropped restore leaves behind is `spoilt` or `dead`
(`PoolLeaves`, `FileLeaves`), and nothing else: before it removed the directory it has no state to leave.
`NobodyStuck` is what `EveryoneServed` rests on and fairness has no part in: `LineOK` says at which stage a guard is
held or waited for, that it is waited for once and not by its holder; `OutOK` that connections in use
are of requests at work on the pool behind the lock. Who has a connection therefore never waits for the
lock, and a holder who waits for it is a request that asks again, behind a writer (`HoldersProceed`).

*LogStream.* `StreamInv`: what is in a buffer, on its way to one, or in a history was sent before, so that a
history ends no later than the subscription begins. *RunningFeed.* `FeedInv`: when nobody has still
to tell and the last update was not out of date, the last list on its way to each watcher is the current
one. It holds from the subscription on, before the watcher has read its first list.

*LogTable.* The order of the trims is a strict and total order of the ids (`PrecedesOrder`), so that the
number of rows before a row numbers the rows that are kept, and those are at most the limit
(`KeptBounded`), zero included. `TableInv` says whose rows there are (`OwnRows`): a run that has still to insert has
none, hence no two rows are equal. `RowsBounded` is inductive with the types; each step takes a row from
one of its three terms to another, deletes, or trims; a trim that fails takes its run's row to `loose`. `LatestInv`, that `newest` is no earlier than any
row, makes its row first in the order (`LatestIsFirst`), and no limit above zero takes the first.

*RunOutput.* A step of the composition is a step of each component or leaves it alone
(`ComponentSteps`), so `RunOutputKeeps` gives it all their invariants.

Every invariant and the refinement that a passing run checks is thus proved. Only model-checked is
liveness (`RunRecorded`, `RunEnds`, `InstallSettles`, `StartupTasksRun`, `EveryoneServed`,
`ViewsEnd`): it rests on fairness and `ENABLED`, which TLAPS does not reason about. The violations of
section 3 are counterexamples, for which an instance is enough.

## 5. Not modelled

* *Configuration, notifications, environment variables, task groups, system and login logs*: rows
  written by single statements, HTTP calls and message formats. What the models need of the
  configuration is a constant.
* *Authentication, TOTP and users*: what is not a token format or a clock is a check followed by an insert,
  and a read-modify-write of the list of backup codes. Both are listed as hazards without a property.
* *Scripts*: file I/O; a debug run streams as `execute_stream` does, without the registry.
* *Terminal sessions*: one PTY per websocket, I/O throughout.
* *The reload of the backup job*: `SubscriptionScheduler` with a single row.
* *WebDAV, archive formats, what git and package managers do*: external; the models let them end
  well or badly.
* *The cutting of output into lines*, and the busy wait of `execute_stream` when standard error ends before
  standard output: a hazard without a property, since which stream ends first is not in the models. That
  `execute_command` may block on a full pipe is (`Stall`).
* *A restore under the dependences and under the log table*: it replaces those tables too; the models of the
  schedulers and of the pool have it.
* *`kill_task`*: nothing calls it.
* *The frontend*: a client; the models let clients call the API in any order.
