------------------------------ MODULE LogTable ------------------------------
(***************************************************************************)
(* The table logs: the row a run leaves and the trims after it              *)
(* (run_task_now and run_scheduled_task, src/scheduler/mod.rs; the startup  *)
(* loop, src/main.rs), the row of a kill (src/services/executor.rs), the    *)
(* daily cleanup (src/main.rs), deletions by users (src/api/log.rs), and    *)
(* the statements they are made of (src/services/log.rs).                   *)
(*                                                                          *)
(* created_at is the start of the run: rows come in the order of the ends,  *)
(* and are trimmed in the order of the starts.  Every statement may fail,   *)
(* which is logged and no more.  Left out: output, status and duration;     *)
(* login logs; a streamed run, which leaves no row; negative limits;        *)
(* changes of the limits, and a restore, which puts another table in place  *)
(* of this one.                                                             *)
(***************************************************************************)
EXTENDS Naturals, FiniteSets

CONSTANTS
  MaxJobs,      \* bound on the runs, which are numbered as they start
  MaxExtras,    \* bound on the kills, cleanups and deletions by users
  Owner,        \* the tasks they are of
  Total,        \* log_total_limit
  TotalOn,      \* log_total_limit_enabled
  PerTask,      \* log_per_task_limit
  PerTaskOn,    \* log_per_task_limit_enabled
  Startup,      \* log_max_count, which nothing but the startup loop reads
  DefaultTotal,     \* 5, for a limit in total that cannot be read
  DefaultPerTask,   \* 20, for a limit per task that cannot be read
  NoRow         \* no value

Job == 1..MaxJobs
Row == [of : Job, kill : BOOLEAN]

ASSUME TableAssumption ==
  /\ MaxJobs \in Nat /\ MaxExtras \in Nat
  /\ Total \in Nat /\ PerTask \in Nat /\ Startup \in Nat
  /\ DefaultTotal \in Nat \ {0} /\ DefaultPerTask \in Nat \ {0}
  /\ TotalOn \in BOOLEAN /\ PerTaskOn \in BOOLEAN
  /\ NoRow \notin Row

VARIABLES
  job,          \* each run: its stage, its task, is it a startup task?
  killed,       \* kills whose row is not yet inserted, and those that have tried to
  daily,        \* stage of the cleanup
  logs,         \* the table: the row of each id it has
  lastId,       \* the largest id ever given out
  extras,       \* number of kills, cleanups and deletions so far
  \* histories
  loose,        \* rows inserted since the last trim in total by those who trim otherwise,
                \* or not, or in vain
  newest,       \* the row with the latest start ever inserted
  lost          \* has it been deleted by age or by a user?

tableVars == <<job, killed, daily, logs, lastId, extras, loose, newest, lost>>

JobStages == {"new", "running", "inserted", "trimmed", "done"}

TableTypeOK ==
  /\ job \in [Job -> [at : JobStages, task : Owner \cup {NoRow}, boot : BOOLEAN]]
  /\ killed \in [Job -> {"no", "killed", "logged"}]
  /\ daily \in {"asleep", "total", "task"}
  /\ lastId \in Nat /\ DOMAIN logs \subseteq 1..lastId /\ logs \in [DOMAIN logs -> Row]
  /\ \A i, j \in DOMAIN logs : logs[i] = logs[j] => i = j
  /\ loose \in Nat /\ newest \in Row \cup {NoRow} /\ lost \in BOOLEAN /\ extras \in 0..MaxExtras

-----------------------------------------------------------------------------
JobAt(j, stage) == job[j].at = stage
JobTo(j, stage) == job' = [job EXCEPT ![j].at = stage]
Extra == extras < MaxExtras /\ extras' = extras + 1

TableInit ==
  /\ job = [j \in Job |-> [at |-> "new", task |-> NoRow, boot |-> FALSE]]
  /\ killed = [j \in Job |-> "no"]
  /\ daily = "asleep"
  /\ logs = [i \in {} |-> NoRow] /\ lastId = 0 /\ extras = 0 /\ loose = 0 /\ newest = NoRow /\ lost = FALSE

-----------------------------------------------------------------------------
(* The statements.                                                           *)

Ids == DOMAIN logs
Rows == {logs[i] : i \in Ids}
TaskOf(i) == job[logs[i].of].task

\* The caller takes the time before execute takes its own, which is that of a kill.
CreatedAt(a) == <<a.of, a.kill>>
Later(s, t) == s[1] > t[1] \/ (s[1] = t[1] /\ s[2] /\ ~t[2])

\* Faulty: ORDER BY id DESC
PrecedesById(i, j) == i > j

\* ORDER BY created_at DESC, id DESC
Precedes(i, j) ==
  \/ Later(CreatedAt(logs[i]), CreatedAt(logs[j]))
  \/ CreatedAt(logs[i]) = CreatedAt(logs[j]) /\ i > j

\* The ids of S that are not among its first n.
Beyond(S, n) == {i \in S : Cardinality({j \in S : Precedes(j, i)}) >= n}

Delete(gone) == logs' = [i \in Ids \ gone |-> logs[i]]

\* keep_latest_n_logs, if it is enabled
TrimTotal ==
  IF TotalOn THEN Delete(Beyond(Ids, Total)) /\ loose' = 0 ELSE UNCHANGED <<logs, loose>>

\* The DELETE fails; or a query for the configuration does, and a default stands for what
\* it would have read: that there is a limit in total, and of 5.
MissTotal == UNCHANGED logs \/ \E n \in {Total, DefaultTotal} : Delete(Beyond(Ids, n))

\* keep_latest_n_logs_per_task
KeepPerTask(n) == Delete(UNION {Beyond({i \in Ids : TaskOf(i) = t}, n) : t \in Owner})

\* if it is enabled; by default it is not.
TrimPerTask ==
  \/ PerTaskOn /\ \E n \in {PerTask, DefaultPerTask} : KeepPerTask(n)
  \/ UNCHANGED logs

\* A killed run has two rows, one of the kill and one of its own.
Insert(a) ==
  /\ lastId' = lastId + 1
  /\ logs' = [i \in Ids \cup {lastId'} |-> IF i = lastId' THEN a ELSE logs[i]]
  /\ IF newest # NoRow /\ Later(CreatedAt(newest), CreatedAt(a))
     THEN UNCHANGED <<newest, lost>>
     ELSE newest' = a /\ lost' = FALSE

Removed(gone) == lost' = (lost \/ newest \in {logs[i] : i \in gone})

-----------------------------------------------------------------------------
(* Runs and kills.                                                           *)

Begin(j) ==
  /\ JobAt(j, "new") /\ \A i \in Job : i < j => ~JobAt(i, "new")
  /\ \E t \in Owner, b \in BOOLEAN :
       job' = [job EXCEPT ![j] = [at |-> "running", task |-> t, boot |-> b]]
  /\ UNCHANGED <<killed, daily, logs, lastId, loose, newest, lost, extras>>

\* The kill has read the execution.
KillTask(j) ==
  /\ JobAt(j, "running") /\ killed[j] = "no" /\ Extra
  /\ killed' = [killed EXCEPT ![j] = "killed"]
  /\ UNCHANGED <<job, daily, logs, lastId, loose, newest, lost>>

\* Its row, before or after that of the run; nobody trims, and nobody asks if it is there.
KillLogs(j) ==
  /\ killed[j] = "killed"
  /\ killed' = [killed EXCEPT ![j] = "logged"]
  /\ Insert([of |-> j, kill |-> TRUE]) /\ loose' = loose + 1
  /\ UNCHANGED <<job, daily, extras>>

KillUnlogged(j) ==
  /\ killed[j] = "killed"
  /\ killed' = [killed EXCEPT ![j] = "logged"]
  /\ UNCHANGED <<job, daily, logs, lastId, loose, newest, lost, extras>>

\* Faulty: the row is inserted again, as by a retry.
InsertTwice(j) ==
  /\ job[j].at \in {"running", "inserted"}
  /\ Insert([of |-> j, kill |-> FALSE])
  /\ loose' = loose + 1
  /\ JobTo(j, "inserted")
  /\ UNCHANGED <<killed, daily, extras>>

\* A startup task trims by a limit of its own.
InsertRow(j) ==
  /\ JobAt(j, "running")
  /\ Insert([of |-> j, kill |-> FALSE])
  /\ loose' = IF job[j].boot THEN loose + 1 ELSE loose
  /\ JobTo(j, "inserted")
  /\ UNCHANGED <<killed, daily, extras>>

\* create inserts the row and cannot read it back: it has failed, and nobody trims.
InsertUnread(j) ==
  /\ JobAt(j, "running")
  /\ Insert([of |-> j, kill |-> FALSE])
  /\ loose' = loose + 1
  /\ JobTo(j, "done")
  /\ UNCHANGED <<killed, daily, extras>>

\* The database does not take the row, the run of a startup task returns an error, or an
\* edit of the task aborts its interval job.
NoInsert(j) ==
  /\ JobAt(j, "running")
  /\ JobTo(j, "done")
  /\ UNCHANGED <<killed, daily, logs, lastId, loose, newest, lost, extras>>

\* Faulty: the limit is one too many.
TrimAfterOneMore(j) ==
  /\ JobAt(j, "inserted") /\ ~job[j].boot
  /\ IF TotalOn THEN Delete(Beyond(Ids, Total + 1)) /\ loose' = 0 ELSE UNCHANGED <<logs, loose>>
  /\ JobTo(j, "trimmed")
  /\ UNCHANGED <<killed, daily, lastId, newest, lost, extras>>

TrimAfter(j) ==
  /\ JobAt(j, "inserted") /\ ~job[j].boot
  /\ TrimTotal \/ (MissTotal /\ loose' = loose + 1)
  /\ JobTo(j, "trimmed")
  /\ UNCHANGED <<killed, daily, lastId, newest, lost, extras>>

TrimTaskAfter(j) ==
  /\ JobAt(j, "trimmed")
  /\ TrimPerTask
  /\ JobTo(j, "done")
  /\ UNCHANGED <<killed, daily, lastId, loose, newest, lost, extras>>

TrimStartup(j) ==
  /\ JobAt(j, "inserted") /\ job[j].boot
  /\ UNCHANGED logs \/ \E n \in {Startup, DefaultTotal} : Delete(Beyond(Ids, n))
  /\ JobTo(j, "done")
  /\ UNCHANGED <<killed, daily, lastId, loose, newest, lost, extras>>

\* Such an abort may come between the statements.
Aborted(j) ==
  /\ job[j].at \in {"inserted", "trimmed"} /\ ~job[j].boot
  /\ JobTo(j, "done")
  /\ loose' = IF JobAt(j, "inserted") THEN loose + 1 ELSE loose
  /\ UNCHANGED <<killed, daily, logs, lastId, newest, lost, extras>>

-----------------------------------------------------------------------------
(* The daily cleanup, and users.                                             *)

\* delete_old_logs: what started before some time, if there is a limit of days; the others
\* follow whatever comes of it.
CleanOld ==
  /\ daily = "asleep" /\ daily' = "total" /\ Extra
  /\ \E c \in Job :
       LET old == {i \in Ids : logs[i].of < c} IN Delete(old) /\ Removed(old)
  /\ UNCHANGED <<job, killed, lastId, loose, newest>>

CleanTotal ==
  /\ daily = "total" /\ daily' = "task"
  /\ TrimTotal \/ (MissTotal /\ UNCHANGED loose)
  /\ UNCHANGED <<job, killed, lastId, newest, lost, extras>>

CleanTask ==
  /\ daily = "task" /\ daily' = "asleep"
  /\ TrimPerTask
  /\ UNCHANGED <<job, killed, lastId, loose, newest, lost, extras>>

\* delete_by_ids; the rows of a deleted task go the same way.
UserDeletes(i) ==
  /\ Delete({i}) /\ Removed({i}) /\ Extra
  /\ UNCHANGED <<job, killed, daily, lastId, loose, newest>>

-----------------------------------------------------------------------------
JobStep(j) ==
  \/ Begin(j) \/ KillTask(j) \/ KillLogs(j) \/ KillUnlogged(j)
  \/ InsertRow(j) \/ InsertUnread(j) \/ NoInsert(j)
  \/ TrimAfter(j) \/ TrimTaskAfter(j) \/ TrimStartup(j) \/ Aborted(j)

TableNext ==
  \/ \E j \in Job : JobStep(j)
  \/ CleanOld \/ CleanTotal \/ CleanTask
  \/ \E i \in Ids : UserDeletes(i)

TableSpec == TableInit /\ [][TableNext]_tableVars

-----------------------------------------------------------------------------
(* Properties.                                                               *)

\* Besides the rows that are kept there are at most those of runs that have still to
\* trim, and, since the last trim in total that did not fail, those of kills, of startup
\* tasks, of aborted runs, of runs that could not read their row back and of runs whose
\* own trim failed: however the runs overlap, the table is bounded.
RowsBounded ==
  TotalOn => Cardinality(Ids) <= Total + loose
               + Cardinality({j \in Job : JobAt(j, "inserted") /\ ~job[j].boot})

\* Unless a limit is zero, which the web page refuses and the server takes: the row with
\* the latest start is never trimmed, in whatever order runs end and trim, whoever trims,
\* whatever fails.
LatestStartKept ==
  Total > 0 /\ PerTask > 0 /\ Startup > 0 /\ newest # NoRow /\ ~lost => newest \in Rows
=============================================================================
