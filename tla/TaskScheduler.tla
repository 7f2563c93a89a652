--------------------------- MODULE TaskScheduler ---------------------------
(***************************************************************************)
(* The task scheduler (src/scheduler/mod.rs) and what feeds it: the API     *)
(* handlers that create, update or delete a task and then call              *)
(* reload_tasks (src/api/task.rs), the rows they write                      *)
(* (src/services/task.rs), and the two writers that change tasks without a  *)
(* reload: the subscription's loader import and the restore of a backup.    *)
(*                                                                          *)
(* A reload removes the jobs it knows of, aborts the interval loops it      *)
(* knows of, reads the enabled tasks and adds a job for each.  Its four     *)
(* parts take their locks one after the other, so the reloads of two        *)
(* requests interleave; and a request whose client leaves is dropped at     *)
(* whatever await it stands at.                                             *)
(*                                                                          *)
(* Left out: what a job does when it fires (module TaskExecutor), the       *)
(* columns last_run_at, last_run_duration and next_run_at, and clock time.  *)
(* All cron expressions of a task count as one job.                         *)
(***************************************************************************)
EXTENDS Naturals, FiniteSets

CONSTANTS
  Task,      \* task ids
  Handler,   \* concurrent API requests
  Boot,      \* the reload of Scheduler::start, before the server listens
  Scheds,    \* schedules the rows have, see below
  MaxEdits,  \* bound on the writes to the tasks table
  Cancels,   \* do clients disconnect while their request is served?
  DbFails,   \* may a query fail?
  Bypass,    \* do imports and restores happen?
  None       \* no request or task

\* "cron": every expression parses; "interval": schedule_mode random_interval or preset;
\* "partial": some expression after the first does not parse; "bad": the first does not.
ASSUME SchedulerAssumption ==
  /\ Boot \notin Handler
  /\ Scheds \subseteq {"cron", "interval", "partial", "bad"}
  /\ MaxEdits \in Nat
  /\ Cancels \in BOOLEAN /\ DbFails \in BOOLEAN /\ Bypass \in BOOLEAN
  /\ None \notin Handler \cup {Boot} \cup Task

VARIABLES
  db,                  \* the tasks table
  edits,               \* number of writes to it, the version of the last one
  live,                \* jobs that fire: in the JobScheduler, or as a spawned loop
  job_ids,             \* the cron jobs a reload can remove
  random_task_handles, \* the interval loops a reload can abort
  stage,               \* how far each reload is
  target,              \* the task a request wrote and has to read back
  number,              \* the write a request made, which names its reload; 0 is Boot's
  snap,                \* the rows a reload read
  unsynced,            \* history: a write has not been followed by a reload's read
  solo,                \* history: the number of the last reload, if it ran alone
  leaked               \* history: live jobs whose id or handle a reload lost

vars == <<db, edits, live, job_ids, random_task_handles, stage, target, number, snap,
          unsynced, solo, leaked>>
jobVars == <<live, job_ids, random_task_handles, leaked>>

Reloader == Handler \cup {Boot}

\* "on" is enabled = 1 AND type = 'cron'; ids are AUTOINCREMENT, so "gone" stays so.
Row == [ver : 0..MaxEdits, st : {"unborn", "on", "off", "gone"}, sched : Scheds]
Job == [by : 0..MaxEdits, task : Task, row : Row]
Stages == {"idle", "written", "drain", "abort", "list", "add"}

TypeOK ==
  /\ db \in [Task -> Row]
  /\ edits \in 0..MaxEdits
  /\ live \subseteq Job /\ job_ids \subseteq Job /\ random_task_handles \subseteq Job
  /\ stage \in [Reloader -> Stages]
  /\ target \in [Reloader -> Task \cup {None}]
  /\ number \in [Reloader -> 0..MaxEdits]
  /\ snap \in [Reloader -> SUBSET [task : Task, row : Row]]
  /\ unsynced \in BOOLEAN
  /\ solo \in 0..MaxEdits \cup {None}
  /\ leaked \subseteq Job

-----------------------------------------------------------------------------
Exists(t) == db[t].st \in {"on", "off"}

\* Rows get_enabled_tasks returns.
Enabled(t) == db[t].st = "on"

\* A row that is not there has no schedule; this one stands for it.
NoSched == CHOOSE s \in Scheds : TRUE

\* Faulty: the row stands for its job, which has no id of its own.
JobsOfNoId(n, rows, kinds) == {r \in rows : r.row.sched \in kinds}

\* The jobs add_task makes in reload n of the rows with these kinds of schedule.
JobsOf(n, rows, kinds) ==
  {[by |-> n, task |-> s.task, row |-> s.row] : s \in {r \in rows : r.row.sched \in kinds}}

Others(h) == Reloader \ {h}
Quiet == \A h \in Reloader : stage[h] = "idle"
GoTo(h, s) == stage' = [stage EXCEPT ![h] = s]

Init ==
  /\ \E st \in [Task -> {"unborn", "on", "off"}], sc \in [Task -> Scheds] :
       /\ \A t \in Task : st[t] = "unborn" => sc[t] = NoSched
       /\ db = [t \in Task |-> [ver |-> 0, st |-> st[t], sched |-> sc[t]]]
  /\ edits = 0
  /\ live = {} /\ job_ids = {} /\ random_task_handles = {}
  /\ stage = [h \in Reloader |-> IF h = Boot THEN "drain" ELSE "idle"]
  /\ target = [h \in Reloader |-> None]
  /\ number = [h \in Reloader |-> 0]
  /\ snap = [h \in Reloader |-> {}]
  /\ unsynced = FALSE /\ solo = None /\ leaked = {}

-----------------------------------------------------------------------------
(* Writes to the tasks table.                                                *)

\* Row t is replaced by one with a new version.
Write(t, st, sched) ==
  /\ edits < MaxEdits
  /\ edits' = edits + 1
  /\ db' = [db EXCEPT ![t] = [ver |-> edits + 1, st |-> st, sched |-> sched]]

\* A request is accepted once the server listens.
Accept(h) ==
  /\ stage[Boot] = "idle" /\ stage[h] = "idle"
  /\ number' = [number EXCEPT ![h] = edits + 1]
  /\ solo' = None
  /\ UNCHANGED <<jobVars, snap, unsynced>>

Create(h, t) ==
  /\ db[t].st = "unborn"
  /\ \E st \in {"on", "off"}, sc \in Scheds : Write(t, st, sc)
  /\ Accept(h) /\ GoTo(h, "written")
  /\ target' = [target EXCEPT ![h] = t]

\* A missing id is answered 404, without a reload.
Update(h, t) ==
  /\ Exists(t)
  /\ \E st \in {"on", "off"}, sc \in Scheds : Write(t, st, sc)
  /\ Accept(h) /\ GoTo(h, "written")
  /\ target' = [target EXCEPT ![h] = t]

Delete(h, t) ==
  /\ Exists(t)
  /\ Write(t, "gone", NoSched)
  /\ Accept(h) /\ GoTo(h, "drain")
  /\ UNCHANGED target

\* create and update read the row back; if it was deleted meanwhile the request ends
\* there (404, or a panic in create), without a reload.
ReadBack(h) ==
  /\ stage[h] = "written"
  /\ GoTo(h, IF Exists(target[h]) THEN "drain" ELSE "idle")
  /\ target' = [target EXCEPT ![h] = None]
  /\ UNCHANGED <<db, edits, jobVars, number, snap, unsynced, solo>>

\* sync_loader_tasks rewrites the command of a task, and nobody reloads.
SyncTask(t) ==
  /\ Bypass /\ stage[Boot] = "idle"
  /\ Exists(t)
  /\ Write(t, db[t].st, db[t].sched)
  /\ unsynced' = TRUE /\ solo' = None
  /\ UNCHANGED <<jobVars, stage, target, number, snap>>

\* A backup is restored in which this row is another, and nobody reloads.
Restore(t) ==
  /\ Bypass /\ stage[Boot] = "idle"
  /\ \/ \E st \in {"on", "off"}, sc \in Scheds : Write(t, st, sc)
     \/ \E st \in {"unborn", "gone"} : Write(t, st, NoSched)
  /\ unsynced' = TRUE /\ solo' = None
  /\ UNCHANGED <<jobVars, stage, target, number, snap>>

-----------------------------------------------------------------------------
(* reload_tasks.                                                             *)

\* Under the lock of job_ids: every known job is removed from the JobScheduler.
DrainJobs(h) ==
  /\ stage[h] = "drain"
  /\ GoTo(h, "abort")
  /\ live' = live \ job_ids
  /\ job_ids' = {}
  /\ solo' = IF \A g \in Others(h) : stage[g] = "idle" THEN number[h] ELSE None
  /\ UNCHANGED <<db, edits, random_task_handles, target, number, snap, unsynced, leaked>>

\* Faulty: dropping a JoinHandle only detaches its loop.
AbortHandlesDetach(h) ==
  /\ stage[h] = "abort"
  /\ GoTo(h, "list")
  /\ random_task_handles' = {}
  /\ UNCHANGED <<db, edits, live, job_ids, target, number, snap, unsynced, solo, leaked>>

\* Under the lock of random_task_handles: every known loop is aborted.
AbortHandles(h) ==
  /\ stage[h] = "abort"
  /\ GoTo(h, "list")
  /\ live' = live \ random_task_handles
  /\ random_task_handles' = {}
  /\ UNCHANGED <<db, edits, job_ids, target, number, snap, unsynced, solo, leaked>>

EnabledRows == {[task |-> t, row |-> db[t]] : t \in {u \in Task : Enabled(u)}}

List(h) ==
  /\ stage[h] = "list"
  /\ GoTo(h, "add")
  /\ snap' = [snap EXCEPT ![h] = EnabledRows]
  /\ unsynced' = FALSE
  /\ UNCHANGED <<db, edits, jobVars, target, number, solo>>

\* The jobs of some rows exist, and of the rows in cut, whose ids are lost.
AddJobs(n, rows, cut) ==
  LET lost == JobsOf(n, rows, {"partial"}) \cup JobsOf(n, cut, {"cron", "partial"})
  IN  /\ job_ids' = job_ids \cup JobsOf(n, rows, {"cron"})
      /\ random_task_handles' = random_task_handles \cup JobsOf(n, rows, {"interval"})
      /\ live' = live \cup JobsOf(n, rows, {"cron", "interval"}) \cup lost
      /\ leaked' = leaked \cup lost

\* Faulty: a task that has a job already is skipped.
AddAllUnlessTracked(h) ==
  /\ stage[h] = "add"
  /\ GoTo(h, "idle")
  /\ AddJobs(number[h], {s \in snap[h] : \A j \in job_ids : j.task # s.task}, {})
  /\ snap' = [snap EXCEPT ![h] = {}]
  /\ number' = [number EXCEPT ![h] = 0]
  /\ UNCHANGED <<db, edits, target, unsynced, solo>>

\* Under both locks, each row in turn: add_task returns Err at the first expression that
\* does not parse, with the jobs of the ones before it already added; the error is logged
\* and the next row follows.
AddAll(h) ==
  /\ stage[h] = "add"
  /\ GoTo(h, "idle")
  /\ AddJobs(number[h], snap[h], {})
  /\ snap' = [snap EXCEPT ![h] = {}]
  /\ number' = [number EXCEPT ![h] = 0]
  /\ UNCHANGED <<db, edits, target, unsynced, solo>>

-----------------------------------------------------------------------------
(* A request that does not finish.                                           *)

End(h) ==
  /\ h # Boot
  /\ GoTo(h, "idle")
  /\ snap' = [snap EXCEPT ![h] = {}]
  /\ target' = [target EXCEPT ![h] = None]
  /\ number' = [number EXCEPT ![h] = 0]
  /\ unsynced' = TRUE
  /\ solo' = None
  /\ UNCHANGED <<db, edits>>

\* A query fails: the handler answers 500.
QueryFails(h) ==
  /\ DbFails
  /\ stage[h] \in {"written", "list"}
  /\ End(h)
  /\ UNCHANGED jobVars

\* The client leaves between two parts of the reload, or before it.
Cancel(h) ==
  /\ Cancels
  /\ stage[h] # "idle"
  /\ End(h)
  /\ UNCHANGED jobVars

\* The client leaves while jobs are being removed: dropping the Drain iterator empties
\* job_ids, also of the jobs that were not removed yet.
CancelDrain(h) ==
  /\ Cancels
  /\ stage[h] = "drain"
  /\ \E removed \in SUBSET job_ids :
       /\ live' = live \ removed
       /\ leaked' = leaked \cup (job_ids \ removed)
  /\ job_ids' = {}
  /\ End(h)
  /\ UNCHANGED random_task_handles

\* The client leaves while jobs are being added: some rows are done, and the one in hand
\* may have a job whose id is lost.
CancelAdd(h) ==
  /\ Cancels
  /\ stage[h] = "add"
  /\ \E done \in SUBSET snap[h] :
       \E cut \in {{}} \cup {{s} : s \in snap[h] \ done} : AddJobs(number[h], done, cut)
  /\ End(h)

-----------------------------------------------------------------------------
RequestStep(h) == \E t \in Task : Create(h, t) \/ Update(h, t) \/ Delete(h, t)

ReloadStep(h) == DrainJobs(h) \/ AbortHandles(h) \/ List(h) \/ AddAll(h)

CutShort(h) == QueryFails(h) \/ Cancel(h) \/ CancelDrain(h) \/ CancelAdd(h)

Next ==
  \/ \E h \in Handler : RequestStep(h) \/ ReadBack(h) \/ CutShort(h)
  \/ \E h \in Reloader : ReloadStep(h)
  \/ \E t \in Task : SyncTask(t) \/ Restore(t)

Spec == Init /\ [][Next]_vars

-----------------------------------------------------------------------------
(* Properties.                                                               *)

\* A live job runs the current row of task t.
Covered(t) == \E j \in live : j.task = t /\ j.row = db[t]

Schedulable(t) == Enabled(t) /\ db[t].sched \in {"cron", "interval"}

\* No enabled task is forgotten: however the reloads of concurrent requests interleave,
\* once all are done every enabled task has a job with its current row, unless a write
\* or a reload was cut short and no later reload has read the table since.
CoveredWhenQuiet ==
  Quiet /\ ~unsynced => \A t \in Task : Schedulable(t) => Covered(t)

\* A reload that ran alone repairs the schedule, whatever overlapped, failed or was cut
\* short before it: apart from jobs whose id was lost, exactly the enabled rows have
\* jobs, one each.
ReloadExact ==
  Quiet /\ solo # None =>
    live \ leaked = JobsOf(solo, EnabledRows, {"cron", "interval"})

\* "Enable/disable" is supported: while no request is in progress, a task that is
\* disabled or deleted has no job that fires.
DisabledStops ==
  Quiet /\ ~unsynced => \A j \in live : Enabled(j.task)
=============================================================================
