----------------------- MODULE SubscriptionScheduler -----------------------
(***************************************************************************)
(* The subscription scheduler (src/scheduler/subscription_scheduler.rs) and *)
(* the requests that edit subscriptions (src/api/subscription.rs and the    *)
(* row operations of src/services/subscription.rs).                         *)
(*                                                                          *)
(* Unlike the task scheduler's, this reload holds the lock of job_ids from  *)
(* the drain to the last job it adds, so reloads do not interleave: it is   *)
(* shown to implement module AtomicSchedule.  Requests still overlap in     *)
(* their writes, are dropped when a client leaves, and fail; and a restore  *)
(* (src/api/backup.rs) puts another table in place without any reload.      *)
(*                                                                          *)
(* Left out: url, branch and clock time; a cron expression either parses    *)
(* ("ok") or does not ("bad").  A bound on the number of writes, MaxEdits,  *)
(* and of crashes, MaxCrashes, stands for an unbounded history.             *)
(***************************************************************************)
EXTENDS Naturals, FiniteSets

CONSTANTS
  Sub,         \* subscription ids
  Name,        \* names subscriptions have
  Handler,     \* concurrent API requests
  Boot,        \* the reload of SubscriptionScheduler::start
  MaxEdits,    \* bound on the writes to the table
  MaxCrashes,  \* bound on the crashes
  Cancels,     \* do clients disconnect while their request is served?
  DbFails,     \* may a query fail?
  None         \* no subscription, no name

ASSUME SubscriptionAssumption ==
  /\ Boot \notin Handler
  /\ MaxEdits \in Nat /\ MaxCrashes \in Nat
  /\ Cancels \in BOOLEAN /\ DbFails \in BOOLEAN
  /\ None \notin Sub \cup Name

VARIABLES
  rows,      \* the table subscriptions
  edits,     \* number of writes to it, the version of the last one
  live,      \* jobs in the JobScheduler
  job_ids,   \* the jobs a reload can remove
  stage,     \* how far each request, and the reload at start, is
  target,    \* the id a request works on
  copy,      \* the name in the row a delete read
  number,    \* the write a request made, which names its reload
  snap,      \* the rows a reload read
  crashes,   \* number of crashes so far
  unsynced,  \* history: a reload was cut short, or none came after a restore
  leaked     \* history: live jobs whose id a reload lost

reqVars == <<stage, target, copy, number, snap>>
jobVars == <<live, job_ids, leaked>>
schedVars == <<rows, edits, reqVars, jobVars, crashes, unsynced>>

Reloader == Handler \cup {Boot}

\* ids are AUTOINCREMENT, so "gone" stays so until a restore; "on" is enabled = 1.
Row == [ver : 0..MaxEdits, st : {"unborn", "on", "off", "gone"}, name : Name \cup {None},
        cron : {"ok", "bad"}]
Job == [by : 0..MaxEdits, sub : Sub, row : Row]
Stages == {"idle", "written", "found", "removed", "reload", "list", "add"}

SchedTypeOK ==
  /\ rows \in [Sub -> Row]
  /\ edits \in 0..MaxEdits
  /\ live \subseteq Job /\ job_ids \subseteq Job /\ leaked \subseteq Job
  /\ stage \in [Reloader -> Stages]
  /\ target \in [Reloader -> Sub \cup {None}]
  /\ copy \in [Reloader -> Name \cup {None}]
  /\ number \in [Reloader -> 0..MaxEdits]
  /\ snap \in [Reloader -> SUBSET [sub : Sub, row : Row]]
  /\ crashes \in 0..MaxCrashes
  /\ unsynced \in BOOLEAN

-----------------------------------------------------------------------------
Exists(s) == rows[s].st \in {"on", "off"}

\* Rows list_enabled returns.
EnabledRows == {[sub |-> s, row |-> rows[s]] : s \in {u \in Sub : rows[u].st = "on"}}

\* Faulty: a job is known by its row.
JobsOfNoId(n, rs) == {r \in rs : r.row.cron = "ok"}

\* The jobs a reload makes of some rows: the ones whose expression parses.
JobsOf(n, rs) == {[by |-> n, sub |-> r.sub, row |-> r.row] : r \in {q \in rs : q.row.cron = "ok"}}

Quiet == \A h \in Reloader : stage[h] = "idle"
Locked == \E h \in Reloader : stage[h] \in {"list", "add"}
GoTo(h, s) == stage' = [stage EXCEPT ![h] = s]

\* What stands for a row that is not there.
Missing(ver, st) == [ver |-> ver, st |-> st, name |-> None, cron |-> "ok"]

\* The tables a write or an archive can leave; the column name is UNIQUE.
Tables(ver) ==
  LET Stored == [ver : {ver}, st : {"on", "off"}, name : Name, cron : {"ok", "bad"}]
  IN  {t \in [Sub -> Stored \cup {Missing(ver, "unborn"), Missing(ver, "gone")}] :
         \A s, u \in Sub : s # u /\ t[s].name = t[u].name => t[s].name = None}

SchedInit ==
  /\ rows \in {t \in Tables(0) : \A s \in Sub : t[s].st # "gone" /\ t[s].cron = "ok"}
  /\ edits = 0 /\ crashes = 0
  /\ live = {} /\ job_ids = {} /\ leaked = {}
  /\ stage = [h \in Reloader |-> IF h = Boot THEN "reload" ELSE "idle"]
  /\ target = [h \in Reloader |-> None]
  /\ copy = [h \in Reloader |-> None]
  /\ number = [h \in Reloader |-> 0]
  /\ snap = [h \in Reloader |-> {}]
  /\ unsynced = TRUE

-----------------------------------------------------------------------------
(* Writes to the table.                                                      *)

Write(s, row) ==
  /\ edits < MaxEdits /\ edits' = edits + 1
  /\ rows' = [rows EXCEPT ![s] = row]

\* The column name is UNIQUE: with a name of another row the write fails, changing nothing.
NameFree(s, name) == \A u \in Sub \ {s} : Exists(u) => rows[u].name # name

Idle(h) == stage[Boot] = "idle" /\ h # Boot /\ stage[h] = "idle"

\* create is one INSERT, update one UPDATE (without a field, none); then the row is read
\* back under the same guard on the pool.
Edit(h, s) ==
  /\ Idle(h)
  /\ rows[s].st # "gone"
  /\ \E st \in {"on", "off"}, name \in Name, cron \in {"ok", "bad"} :
       /\ NameFree(s, name)
       /\ Write(s, [ver |-> edits + 1, st |-> st, name |-> name, cron |-> cron])
  /\ GoTo(h, "written")
  /\ target' = [target EXCEPT ![h] = s]
  /\ number' = [number EXCEPT ![h] = edits + 1]
  /\ UNCHANGED <<copy, snap, jobVars, crashes, unsynced>>

\* If the row was deleted meanwhile, update answers 404 and create 500, without a reload.
ReadBack(h) ==
  /\ stage[h] = "written"
  /\ GoTo(h, IF Exists(target[h]) THEN "reload" ELSE "idle")
  /\ target' = [target EXCEPT ![h] = None]
  /\ UNCHANGED <<rows, edits, copy, number, snap, jobVars, crashes, unsynced>>

\* delete reads the row; of a missing one it removes no directory.
DeleteGet(h, s) ==
  /\ Idle(h)
  /\ Exists(s)
  /\ GoTo(h, "found")
  /\ target' = [target EXCEPT ![h] = s]
  /\ copy' = [copy EXCEPT ![h] = rows[s].name]
  /\ UNCHANGED <<rows, edits, number, snap, jobVars, crashes, unsynced>>

\* Directories are module Subscription's.
DeleteDirs(h) ==
  /\ stage[h] = "found"
  /\ GoTo(h, "removed")
  /\ UNCHANGED <<rows, edits, target, copy, number, snap, jobVars, crashes, unsynced>>

Released(h) == target' = [target EXCEPT ![h] = None] /\ copy' = [copy EXCEPT ![h] = None]

\* Without a row left to delete the answer is 404, and nothing is reloaded.
DeleteRow(h) ==
  /\ stage[h] = "removed"
  /\ LET s == target[h]
     IN  \/ /\ Exists(s)
            /\ Write(s, Missing(edits + 1, "gone"))
            /\ GoTo(h, "reload")
            /\ number' = [number EXCEPT ![h] = edits + 1]
         \/ /\ ~Exists(s)
            /\ GoTo(h, "idle")
            /\ UNCHANGED <<rows, edits, number>>
  /\ Released(h)
  /\ UNCHANGED <<snap, jobVars, crashes, unsynced>>

\* A restore puts the table of an archive in place of this one when no query is in
\* progress, and reloads no scheduler: the jobs stay those of the old table.
Restore ==
  /\ stage[Boot] = "idle" /\ \A h \in Handler : stage[h] # "written"
  /\ edits < MaxEdits /\ edits' = edits + 1
  /\ rows' \in Tables(edits + 1)
  /\ unsynced' = TRUE
  /\ UNCHANGED <<reqVars, jobVars, crashes>>

-----------------------------------------------------------------------------
(* reload_subscriptions, under the write lock of job_ids from Drain to Add.  *)

\* Faulty: the lock is only taken for each access to job_ids.
DrainUnlocked(h) ==
  /\ stage[h] = "reload"
  /\ live' = live \ job_ids /\ job_ids' = {}
  /\ GoTo(h, "list")
  /\ UNCHANGED <<rows, edits, target, copy, number, snap, leaked, crashes, unsynced>>

\* Faulty: the ids are dropped, the jobs stay in the JobScheduler.
DrainForgets(h) ==
  /\ stage[h] = "reload" /\ ~Locked
  /\ job_ids' = {}
  /\ GoTo(h, "list")
  /\ UNCHANGED <<rows, edits, target, copy, number, snap, live, leaked, crashes, unsynced>>

Drain(h) ==
  /\ stage[h] = "reload" /\ ~Locked
  /\ live' = live \ job_ids /\ job_ids' = {}
  /\ GoTo(h, "list")
  /\ UNCHANGED <<rows, edits, target, copy, number, snap, leaked, crashes, unsynced>>

List(h) ==
  /\ stage[h] = "list"
  /\ snap' = [snap EXCEPT ![h] = EnabledRows]
  /\ unsynced' = FALSE
  /\ GoTo(h, "add")
  /\ UNCHANGED <<rows, edits, target, copy, number, jobVars, crashes>>

\* The jobs of some rows exist, and of the rows in cut, whose ids are lost.
AddJobs(n, rs, cut) ==
  /\ job_ids' = job_ids \cup JobsOf(n, rs)
  /\ live' = live \cup JobsOf(n, rs \cup cut)
  /\ leaked' = leaked \cup JobsOf(n, cut)

\* Row by row; one whose expression does not parse is logged and skipped.
Add(h) ==
  /\ stage[h] = "add"
  /\ AddJobs(number[h], snap[h], {})
  /\ snap' = [snap EXCEPT ![h] = {}]
  /\ number' = [number EXCEPT ![h] = 0]
  /\ GoTo(h, "idle")
  /\ UNCHANGED <<rows, edits, target, copy, crashes, unsynced>>

-----------------------------------------------------------------------------
(* What does not finish.                                                     *)

End(h) ==
  /\ h # Boot
  /\ GoTo(h, "idle")
  /\ snap' = [snap EXCEPT ![h] = {}]
  /\ number' = [number EXCEPT ![h] = 0]
  /\ Released(h)
  /\ unsynced' = TRUE
  /\ UNCHANGED <<rows, edits, crashes>>

\* A query fails: the answer is 500, or, in the reload, the error is logged and the
\* scheduler is left without jobs.  At start the error ends the server, which stands at
\* the same place when it is started again.
QueryFails(h) ==
  /\ DbFails /\ stage[h] \in {"written", "removed", "list"}
  /\ End(h)
  /\ UNCHANGED jobVars

\* The client leaves at one of the other awaits.
Cancel(h) ==
  /\ Cancels /\ stage[h] # "idle"
  /\ End(h)
  /\ UNCHANGED jobVars

\* It leaves while jobs are removed: dropping the Drain iterator forgets them all.
CancelDrain(h) ==
  /\ Cancels /\ stage[h] = "reload" /\ ~Locked
  /\ \E removed \in SUBSET job_ids :
       live' = live \ removed /\ leaked' = leaked \cup (job_ids \ removed)
  /\ job_ids' = {}
  /\ End(h)

\* It leaves while jobs are added: the one in hand may run without a known id.
CancelAdd(h) ==
  /\ Cancels /\ stage[h] = "add"
  /\ \E done \in SUBSET snap[h] :
       \E cut \in {{}} \cup {{r} : r \in snap[h] \ done} : AddJobs(number[h], done, cut)
  /\ End(h)

\* Rows survive; jobs and requests do not.
Crash ==
  /\ crashes < MaxCrashes /\ crashes' = crashes + 1
  /\ live' = {} /\ job_ids' = {} /\ leaked' = {}
  /\ stage' = [h \in Reloader |-> IF h = Boot THEN "reload" ELSE "idle"]
  /\ target' = [h \in Reloader |-> None]
  /\ copy' = [h \in Reloader |-> None]
  /\ number' = [h \in Reloader |-> 0]
  /\ snap' = [h \in Reloader |-> {}]
  /\ unsynced' = TRUE
  /\ UNCHANGED <<rows, edits>>

-----------------------------------------------------------------------------
CutShort(h) == QueryFails(h) \/ Cancel(h) \/ CancelDrain(h) \/ CancelAdd(h)

SchedNext ==
  \/ \E h \in Handler, s \in Sub : Edit(h, s) \/ DeleteGet(h, s)
  \/ \E h \in Handler : ReadBack(h) \/ DeleteDirs(h) \/ DeleteRow(h) \/ CutShort(h)
  \/ \E h \in Reloader : Drain(h) \/ List(h) \/ Add(h)
  \/ Restore
  \/ Crash

SchedSpec == SchedInit /\ [][SchedNext]_schedVars

-----------------------------------------------------------------------------
(* Properties.                                                               *)

\* While no request is in progress the scheduler has exactly one job for every enabled
\* row that parses, made of the row as it is, however the requests before overlapped;
\* unless the last reload was cut short or a restore has replaced the table since, and
\* apart from jobs whose id was lost.
ExactWhenQuiet ==
  Quiet /\ ~unsynced => \E n \in 0..MaxEdits : live \ leaked = JobsOf(n, EnabledRows)

\* The rows as AtomicSchedule sees them.
Seen(r) == [ver |-> r.ver, st |-> r.st, name |-> r.name, cron |-> r.cron,
            wanted |-> r.st = "on" /\ r.cron = "ok"]

\* The jobs known by id, those of a reload that has read the table included.
Promised ==
  {[sub |-> j.sub, row |-> Seen(j.row)] :
     j \in job_ids \cup UNION {JobsOf(0, snap[h]) : h \in Reloader}}

Atomic == INSTANCE AtomicSchedule
  WITH Row <- {Seen(r) : r \in Row}, table <- [s \in Sub |-> Seen(rows[s])], schedule <- Promised

\* The reload under one lock implements the atomic schedule, whatever is cut short.
AtomicSpec == Atomic!Spec
=============================================================================
