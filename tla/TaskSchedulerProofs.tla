------------------------ MODULE TaskSchedulerProofs ------------------------
(***************************************************************************)
(* Proofs about TaskScheduler, for any number of tasks, concurrent requests *)
(* and writes: the types, and that concurrent reloads forget no task.       *)
(***************************************************************************)
EXTENDS TaskScheduler, TLAPS

-----------------------------------------------------------------------------
(* Types.                                                                    *)

\* The jobs of well-typed rows are well-typed.
LEMMA JobsOfType ==
  ASSUME NEW n \in 0..MaxEdits, NEW rows \in SUBSET [task : Task, row : Row], NEW kinds
  PROVE  JobsOf(n, rows, kinds) \subseteq Job
BY DEF JobsOf, Job

\* get_enabled_tasks returns rows of the table.
LEMMA EnabledRowsType ==
  ASSUME db \in [Task -> Row]
  PROVE  EnabledRows \subseteq [task : Task, row : Row]
BY DEF EnabledRows

\* The schedule of a row that is not there is one, as any row has one.
LEMMA NoSchedType ==
  ASSUME TypeOK, NEW t \in Task
  PROVE  NoSched \in Scheds
<1>1. db[t].sched \in Scheds
  BY DEF TypeOK, Row
<1> QED
  BY <1>1 DEF NoSched

\* A write keeps the table and its version counter typed.
LEMMA WriteType ==
  ASSUME TypeOK, NEW t \in Task, NEW st \in {"unborn", "on", "off", "gone"},
         NEW sc \in Scheds, Write(t, st, sc)
  PROVE  db' \in [Task -> Row] /\ edits' \in 0..MaxEdits /\ edits + 1 \in 0..MaxEdits
<1>1. edits + 1 \in 0..MaxEdits
  BY SchedulerAssumption DEF TypeOK, Write
<1>2. [ver |-> edits + 1, st |-> st, sched |-> sc] \in Row
  BY <1>1 DEF Row
<1> QED
  BY <1>1, <1>2 DEF TypeOK, Write

\* Every variable keeps its type.
THEOREM TypeCorrect == Spec => []TypeOK
<1>1. Init => TypeOK
  <2> SUFFICES ASSUME Init PROVE TypeOK
    OBVIOUS
  <2>1. db \in [Task -> Row]
    BY SchedulerAssumption DEF Init, Row
  <2>2. stage \in [Reloader -> Stages]
    BY DEF Init, Stages
  <2>3. edits \in 0..MaxEdits
    BY SchedulerAssumption DEF Init
  <2> QED
    BY <2>1, <2>2, <2>3, SchedulerAssumption DEF Init, TypeOK
<1>2. TypeOK /\ [Next]_vars => TypeOK'
  <2> SUFFICES ASSUME TypeOK, [Next]_vars PROVE TypeOK'
    OBVIOUS
  <2> USE DEF GoTo, Stages
  <2>1. ASSUME NEW h \in Handler, NEW t \in Task, Create(h, t) PROVE TypeOK'
    <3>1. PICK st \in {"on", "off"}, sc \in Scheds : Write(t, st, sc)
      BY <2>1 DEF Create
    <3>2. db' \in [Task -> Row] /\ edits' \in 0..MaxEdits /\ edits + 1 \in 0..MaxEdits
      BY <3>1, WriteType
    <3> QED
      BY <2>1, <3>2 DEF Create, Accept, TypeOK, jobVars, Reloader
  <2>2. ASSUME NEW h \in Handler, NEW t \in Task, Update(h, t) PROVE TypeOK'
    <3>1. PICK st \in {"on", "off"}, sc \in Scheds : Write(t, st, sc)
      BY <2>2 DEF Update
    <3>2. db' \in [Task -> Row] /\ edits' \in 0..MaxEdits /\ edits + 1 \in 0..MaxEdits
      BY <3>1, WriteType
    <3> QED
      BY <2>2, <3>2 DEF Update, Accept, TypeOK, jobVars, Reloader
  <2>3. ASSUME NEW h \in Handler, NEW t \in Task, Delete(h, t) PROVE TypeOK'
    <3>1. NoSched \in Scheds
      BY NoSchedType
    <3>2. db' \in [Task -> Row] /\ edits' \in 0..MaxEdits /\ edits + 1 \in 0..MaxEdits
      BY <2>3, <3>1, WriteType DEF Delete
    <3> QED
      BY <2>3, <3>2 DEF Delete, Accept, TypeOK, jobVars, Reloader
  <2>4. ASSUME NEW h \in Handler, ReadBack(h) PROVE TypeOK'
    BY <2>4 DEF ReadBack, TypeOK, jobVars, Reloader
  <2>5. ASSUME NEW t \in Task, SyncTask(t) PROVE TypeOK'
    <3>1. db[t].sched \in Scheds /\ db[t].st \in {"unborn", "on", "off", "gone"}
      BY DEF TypeOK, Row
    <3>2. db' \in [Task -> Row] /\ edits' \in 0..MaxEdits
      BY <2>5, <3>1, WriteType DEF SyncTask
    <3> QED
      BY <2>5, <3>2 DEF SyncTask, TypeOK, jobVars
  <2>6. ASSUME NEW t \in Task, Restore(t) PROVE TypeOK'
    <3>1. PICK st \in {"unborn", "on", "off", "gone"}, sc \in Scheds : Write(t, st, sc)
      BY <2>6, NoSchedType DEF Restore
    <3>2. db' \in [Task -> Row] /\ edits' \in 0..MaxEdits
      BY <3>1, WriteType
    <3> QED
      BY <2>6, <3>2 DEF Restore, TypeOK, jobVars
  <2>7. ASSUME NEW h \in Reloader, DrainJobs(h) PROVE TypeOK'
    BY <2>7 DEF DrainJobs, TypeOK
  <2>8. ASSUME NEW h \in Reloader, AbortHandles(h) PROVE TypeOK'
    BY <2>8 DEF AbortHandles, TypeOK
  <2>9. ASSUME NEW h \in Reloader, List(h) PROVE TypeOK'
    <3>1. EnabledRows \subseteq [task : Task, row : Row]
      BY EnabledRowsType DEF TypeOK
    <3> QED
      BY <2>9, <3>1 DEF List, TypeOK, jobVars
  <2>10. ASSUME NEW h \in Reloader, AddAll(h) PROVE TypeOK'
    <3>1. number[h] \in 0..MaxEdits /\ snap[h] \in SUBSET [task : Task, row : Row]
      BY DEF TypeOK
    <3>2. \A kinds : JobsOf(number[h], snap[h], kinds) \subseteq Job
      BY <3>1, JobsOfType
    <3>3. \A kinds : JobsOf(number[h], {}, kinds) \subseteq Job
      BY <3>1, JobsOfType
    <3>4. live' \subseteq Job /\ job_ids' \subseteq Job /\ random_task_handles' \subseteq Job
            /\ leaked' \subseteq Job
      BY <2>10, <3>2, <3>3 DEF AddAll, AddJobs, TypeOK
    <3>5. number' \in [Reloader -> 0..MaxEdits]
      BY <2>10, SchedulerAssumption DEF AddAll, TypeOK
    <3> QED
      BY <2>10, <3>4, <3>5 DEF AddAll, TypeOK
  <2>11. ASSUME NEW h \in Handler, End(h),
                live' \subseteq Job, job_ids' \subseteq Job,
                random_task_handles' \subseteq Job, leaked' \subseteq Job
         PROVE TypeOK'
    <3>0. 0 \in 0..MaxEdits
      BY SchedulerAssumption
    <3>1. number' \in [Reloader -> 0..MaxEdits]
      BY <2>11, <3>0 DEF End, TypeOK
    <3> QED
      BY <2>11, <3>1 DEF End, TypeOK, Reloader
  <2>12. ASSUME NEW h \in Handler, CutShort(h) PROVE TypeOK'
    <3>1. CASE QueryFails(h)
      BY <3>1, <2>11 DEF QueryFails, jobVars, TypeOK
    <3>2. CASE Cancel(h)
      BY <3>2, <2>11 DEF Cancel, jobVars, TypeOK
    <3>3. CASE CancelDrain(h)
      BY <3>3, <2>11 DEF CancelDrain, TypeOK
    <3>4. CASE CancelAdd(h)
      <4>1. PICK done \in SUBSET snap[h] :
              \E cut \in {{}} \cup {{s} : s \in snap[h] \ done} : AddJobs(number[h], done, cut)
        BY <3>4 DEF CancelAdd
      <4>2. PICK cut \in {{}} \cup {{s} : s \in snap[h] \ done} : AddJobs(number[h], done, cut)
        BY <4>1
      <4>3. /\ number[h] \in 0..MaxEdits
            /\ done \in SUBSET [task : Task, row : Row]
            /\ cut \in SUBSET [task : Task, row : Row]
        BY DEF TypeOK, Reloader
      <4>4. \A kinds : /\ JobsOf(number[h], done, kinds) \subseteq Job
                       /\ JobsOf(number[h], cut, kinds) \subseteq Job
        BY <4>3, JobsOfType
      <4>5. live' \subseteq Job /\ job_ids' \subseteq Job /\ random_task_handles' \subseteq Job
              /\ leaked' \subseteq Job
        BY <4>2, <4>4 DEF AddJobs, TypeOK
      <4> QED
        BY <3>4, <4>5, <2>11 DEF CancelAdd
    <3> QED
      BY <2>12, <3>1, <3>2, <3>3, <3>4 DEF CutShort
  <2>13. CASE UNCHANGED vars
    BY <2>13 DEF vars, TypeOK
  <2> QED
    BY <2>1, <2>2, <2>3, <2>4, <2>5, <2>6, <2>7, <2>8, <2>9, <2>10, <2>12, <2>13
       DEF Next, RequestStep, ReloadStep
<1> QED
  BY <1>1, <1>2, PTL DEF Spec

-----------------------------------------------------------------------------
(* No enabled task is forgotten.                                             *)

\* Reload h will still give task t a job with its current row: it has not read the table
\* yet, or it read that row and has not added the jobs.
Pending(h, t) ==
  \/ stage[h] = "written" /\ target[h] = t
  \/ stage[h] \in {"drain", "abort", "list"}
  \/ stage[h] = "add" /\ [task |-> t, row |-> db[t]] \in snap[h]

\* The inductive invariant: what is not covered now is pending in some reload.
NoTaskForgotten ==
  unsynced \/ \A t \in Task : Schedulable(t) => Covered(t) \/ \E h \in Reloader : Pending(h, t)

\* A task whose row, jobs and reload are left alone stays covered or pending.
LEMMA StaysPending ==
  ASSUME TypeOK, NEW t \in Task, NEW g \in Reloader,
         db'[t] = db[t], live \subseteq live',
         \A h \in Reloader \ {g} : /\ stage'[h] = stage[h]
                                   /\ target'[h] = target[h]
                                   /\ snap'[h] = snap[h],
         Pending(g, t) => Pending(g, t)' \/ Covered(t)',
         Schedulable(t) => Covered(t) \/ \E h \in Reloader : Pending(h, t)
  PROVE  Schedulable(t)' => Covered(t)' \/ \E h \in Reloader : Pending(h, t)'
<1> SUFFICES ASSUME Schedulable(t)'
             PROVE  Covered(t)' \/ \E h \in Reloader : Pending(h, t)'
  OBVIOUS
<1>1. Schedulable(t)
  BY DEF Schedulable, Enabled
<1>2. CASE Covered(t)
  BY <1>2 DEF Covered
<1>3. CASE \E h \in Reloader : Pending(h, t)
  <2>1. PICK h \in Reloader : Pending(h, t)
    BY <1>3
  <2>2. CASE h = g
    BY <2>1, <2>2
  <2>3. CASE h # g
    <3>1. Pending(h, t)'
      BY <2>1, <2>3 DEF Pending
    <3> QED
      BY <3>1
  <2> QED
    BY <2>2, <2>3
<1> QED
  BY <1>1, <1>2, <1>3

\* A request's write leaves its own reload pending.
LEMMA RequestPending ==
  ASSUME TypeOK, NoTaskForgotten, NEW h \in Handler, NEW t \in Task, Accept(h),
         NEW st \in {"on", "off", "gone"}, NEW sc \in Scheds, Write(t, st, sc),
         \/ st # "gone" /\ GoTo(h, "written") /\ target' = [target EXCEPT ![h] = t]
         \/ st = "gone" /\ GoTo(h, "drain") /\ UNCHANGED target
  PROVE  NoTaskForgotten'
<1> SUFFICES ASSUME ~unsynced, NEW u \in Task
             PROVE  Schedulable(u)' => Covered(u)' \/ \E g \in Reloader : Pending(g, u)'
  BY DEF NoTaskForgotten, Accept
<1>1. h \in Reloader
  BY DEF Reloader
<1>2. CASE u = t
  <2>1. CASE st # "gone"
    <3>1. stage'[h] = "written" /\ target'[h] = t
      BY <1>1, <2>1 DEF GoTo, TypeOK
    <3> QED
      BY <1>1, <1>2, <3>1 DEF Pending
  <2>2. CASE st = "gone"
    BY <1>2, <2>2 DEF Schedulable, Enabled, Write, TypeOK
  <2> QED
    BY <2>1, <2>2
<1>3. CASE u # t
  <2>1. db'[u] = db[u]
    BY <1>3 DEF Write, TypeOK
  <2>2. ~Pending(h, u)
    BY DEF Pending, Accept
  <2>3. live' = live
    BY DEF Accept, jobVars
  <2>4. \A g \in Reloader \ {h} : stage'[g] = stage[g] /\ target'[g] = target[g]
                                   /\ snap'[g] = snap[g]
    BY DEF Accept, GoTo, TypeOK
  <2>5. Schedulable(u) => Covered(u) \/ \E g \in Reloader : Pending(g, u)
    BY DEF NoTaskForgotten
  <2> QED
    BY <1>1, <2>1, <2>2, <2>3, <2>4, <2>5, StaysPending
<1> QED
  BY <1>2, <1>3

\* No interleaving of requests, reloads, disconnects, query failures, imports and restores
\* leaves an enabled task without a job: reload_tasks and its callers
\* (src/scheduler/mod.rs, src/api/task.rs).
THEOREM NothingForgotten == Spec => []CoveredWhenQuiet
<1>1. Init => NoTaskForgotten
  <2> SUFFICES ASSUME Init PROVE NoTaskForgotten
    OBVIOUS
  <2>1. Boot \in Reloader /\ stage[Boot] = "drain"
    BY DEF Init, Reloader
  <2> QED
    BY <2>1 DEF NoTaskForgotten, Pending
<1>2. TypeOK /\ NoTaskForgotten /\ [Next]_vars => NoTaskForgotten'
  <2> SUFFICES ASSUME TypeOK, NoTaskForgotten, [Next]_vars PROVE NoTaskForgotten'
    OBVIOUS
  <2>1. ASSUME NEW h \in Handler, NEW t \in Task, Create(h, t) PROVE NoTaskForgotten'
    <3>1. PICK st \in {"on", "off"}, sc \in Scheds : Write(t, st, sc)
      BY <2>1 DEF Create
    <3> QED
      BY <2>1, <3>1, RequestPending DEF Create
  <2>2. ASSUME NEW h \in Handler, NEW t \in Task, Update(h, t) PROVE NoTaskForgotten'
    <3>1. PICK st \in {"on", "off"}, sc \in Scheds : Write(t, st, sc)
      BY <2>2 DEF Update
    <3> QED
      BY <2>2, <3>1, RequestPending DEF Update
  <2>3. ASSUME NEW h \in Handler, NEW t \in Task, Delete(h, t) PROVE NoTaskForgotten'
    <3>1. NoSched \in Scheds
      BY NoSchedType
    <3> QED
      BY <2>3, <3>1, RequestPending DEF Delete
  <2>4. ASSUME NEW h \in Handler, ReadBack(h) PROVE NoTaskForgotten'
    <3> SUFFICES ASSUME ~unsynced, NEW u \in Task
                 PROVE  Schedulable(u)' => Covered(u)' \/ \E g \in Reloader : Pending(g, u)'
      BY <2>4 DEF NoTaskForgotten, ReadBack
    <3>1. h \in Reloader
      BY DEF Reloader
    <3>2. CASE Exists(target[h])
      <4>1. stage'[h] = "drain"
        BY <2>4, <3>1, <3>2 DEF ReadBack, GoTo, TypeOK
      <4> QED
        BY <3>1, <4>1 DEF Pending
    <3>3. CASE ~Exists(target[h])
      <4>1. Schedulable(u)' => ~Pending(h, u)
        BY <2>4, <3>3 DEF ReadBack, Pending, Schedulable, Enabled, Exists
      <4>2. db' = db /\ live' = live
        BY <2>4 DEF ReadBack, jobVars
      <4>3. \A g \in Reloader \ {h} : stage'[g] = stage[g] /\ target'[g] = target[g]
                                       /\ snap'[g] = snap[g]
        BY <2>4 DEF ReadBack, GoTo, TypeOK
      <4>4. Schedulable(u) => Covered(u) \/ \E g \in Reloader : Pending(g, u)
        BY DEF NoTaskForgotten
      <4>5. Schedulable(u)' <=> Schedulable(u)
        BY <4>2 DEF Schedulable, Enabled
      <4> QED
        BY <3>1, <4>1, <4>2, <4>3, <4>4, <4>5, StaysPending
    <3> QED
      BY <3>2, <3>3
  <2>5. ASSUME NEW t \in Task, SyncTask(t) \/ Restore(t) PROVE NoTaskForgotten'
    BY <2>5 DEF SyncTask, Restore, NoTaskForgotten
  <2>6. ASSUME NEW h \in Reloader, DrainJobs(h) \/ AbortHandles(h) PROVE NoTaskForgotten'
    <3>1. stage'[h] \in {"abort", "list"}
      BY <2>6 DEF DrainJobs, AbortHandles, GoTo, TypeOK
    <3>2. \A u \in Task : Pending(h, u)'
      BY <3>1 DEF Pending
    <3> QED
      BY <3>2 DEF NoTaskForgotten
  <2>7. ASSUME NEW h \in Reloader, List(h) PROVE NoTaskForgotten'
    <3>1. stage'[h] = "add" /\ snap'[h] = EnabledRows /\ db' = db
      BY <2>7 DEF List, GoTo, TypeOK
    <3>2. ASSUME NEW u \in Task, Schedulable(u)' PROVE Pending(h, u)'
      <4>1. [task |-> u, row |-> db[u]] \in EnabledRows
        BY <3>1, <3>2 DEF EnabledRows, Schedulable, Enabled
      <4> QED
        BY <3>1, <4>1 DEF Pending
    <3> QED
      BY <3>2 DEF NoTaskForgotten
  <2>8. ASSUME NEW h \in Reloader, AddAll(h) PROVE NoTaskForgotten'
    <3> SUFFICES ASSUME ~unsynced, NEW u \in Task
                 PROVE  Schedulable(u)' => Covered(u)' \/ \E g \in Reloader : Pending(g, u)'
      BY <2>8 DEF NoTaskForgotten, AddAll
    <3>1. db' = db /\ live \subseteq live'
      BY <2>8 DEF AddAll, AddJobs
    <3>2. \A g \in Reloader \ {h} : stage'[g] = stage[g] /\ target'[g] = target[g]
                                     /\ snap'[g] = snap[g]
      BY <2>8 DEF AddAll, GoTo, TypeOK
    <3>3. Schedulable(u) /\ Pending(h, u) => Covered(u)'
      <4> SUFFICES ASSUME Schedulable(u), Pending(h, u) PROVE Covered(u)'
        OBVIOUS
      <4> DEFINE j == [by |-> number[h], task |-> u, row |-> db[u]]
      <4>1. [task |-> u, row |-> db[u]] \in snap[h] /\ db[u].sched \in {"cron", "interval"}
        BY <2>8 DEF AddAll, Pending, Schedulable
      <4>2. j \in JobsOf(number[h], snap[h], {"cron", "interval"})
        BY <4>1 DEF JobsOf
      <4>3. j \in live'
        BY <2>8, <4>2 DEF AddAll, AddJobs
      <4> QED
        BY <3>1, <4>3 DEF Covered
    <3>4. Schedulable(u) => Covered(u) \/ \E g \in Reloader : Pending(g, u)
      BY DEF NoTaskForgotten
    <3>5. Schedulable(u)' <=> Schedulable(u)
      BY <3>1 DEF Schedulable, Enabled
    <3> QED
      BY <3>1, <3>2, <3>3, <3>4, <3>5, StaysPending
  <2>9. ASSUME NEW h \in Handler, CutShort(h) PROVE NoTaskForgotten'
    BY <2>9 DEF CutShort, QueryFails, Cancel, CancelDrain, CancelAdd, End, NoTaskForgotten
  <2>10. CASE UNCHANGED vars
    BY <2>10 DEF vars, NoTaskForgotten, Schedulable, Enabled, Covered, Pending
  <2> QED
    BY <2>1, <2>2, <2>3, <2>4, <2>5, <2>6, <2>7, <2>8, <2>9, <2>10
       DEF Next, RequestStep, ReloadStep
<1>3. NoTaskForgotten => CoveredWhenQuiet
  BY DEF NoTaskForgotten, CoveredWhenQuiet, Quiet, Pending
<1> QED
  BY <1>1, <1>2, <1>3, TypeCorrect, PTL DEF Spec

-----------------------------------------------------------------------------
(* A reload that ran alone leaves exactly the enabled rows scheduled.        *)

Busy(h) == stage[h] # "idle"

\* A live job is one that some reload can remove, or one whose id was lost.
Accounted == live \subseteq job_ids \cup random_task_handles \cup leaked

\* Reloads in progress have numbers of their own, which no job carries yet.
Fresh ==
  /\ \A h \in Reloader : Busy(h) => number[h] <= edits
  /\ \A h, g \in Reloader : Busy(h) /\ Busy(g) /\ h # g => number[h] # number[g]
  /\ \A j \in leaked \cup job_ids :
       j.by <= edits /\ \A h \in Reloader : Busy(h) => j.by # number[h]

\* What is left of the old jobs at each stage of a reload that runs alone.
SoloProgress ==
  solo # None =>
    /\ \A h, g \in Reloader : Busy(h) /\ Busy(g) => h = g
    /\ \A h \in Reloader : Busy(h) =>
         /\ number[h] = solo
         /\ \/ stage[h] = "abort" /\ live \subseteq random_task_handles \cup leaked
            \/ stage[h] = "list" /\ live \subseteq leaked
            \/ stage[h] = "add" /\ live \subseteq leaked /\ snap[h] = EnabledRows
    /\ Quiet => live \ leaked = JobsOf(solo, EnabledRows, {"cron", "interval"})

ReloadInv == Accounted /\ Fresh /\ SoloProgress

\* A request's write starts a reload with a fresh number.
LEMMA RequestFresh ==
  ASSUME TypeOK, ReloadInv, NEW h \in Handler, Accept(h), edits' = edits + 1,
         \A g \in Reloader \ {h} : stage'[g] = stage[g]
  PROVE  ReloadInv'
<1>1. Accounted'
  BY DEF Accept, jobVars, ReloadInv, Accounted
<1>2. Fresh'
  <2>1. /\ number'[h] = edits + 1
        /\ \A g \in Reloader \ {h} : number'[g] = number[g] /\ (Busy(g)' <=> Busy(g))
    BY DEF Accept, TypeOK, Busy, Reloader
  <2>2. leaked' = leaked /\ job_ids' = job_ids
    BY DEF Accept, jobVars
  <2>3. edits \in Nat /\ \A g \in Reloader : number[g] \in Nat
    BY SchedulerAssumption DEF TypeOK
  <2>4. \A j \in leaked \cup job_ids : j.by \in Nat
    BY SchedulerAssumption DEF TypeOK, Job
  <2> QED
    BY <2>1, <2>2, <2>3, <2>4 DEF ReloadInv, Fresh
<1>3. SoloProgress'
  BY DEF Accept, SoloProgress
<1> QED
  BY <1>1, <1>2, <1>3 DEF ReloadInv

\* The end of a reload, whose jobs may have been added, keeps the other numbers fresh.
LEMMA EndFresh ==
  ASSUME TypeOK, Fresh, NEW h \in Reloader, Busy(h), GoTo(h, "idle"),
         number' = [number EXCEPT ![h] = 0], edits' = edits,
         \A j \in leaked' \cup job_ids' : j \in leaked \cup job_ids \/ j.by = number[h]
  PROVE  Fresh'
<1>1. /\ ~Busy(h)'
      /\ \A g \in Reloader \ {h} : number'[g] = number[g] /\ (Busy(g)' <=> Busy(g))
  BY DEF GoTo, TypeOK, Busy
<1> QED
  BY <1>1 DEF Fresh

\* The jobs added carry the number of the reload.
LEMMA AddJobsNumber ==
  ASSUME NEW n, NEW rows, NEW cut, AddJobs(n, rows, cut)
  PROVE  /\ \A j \in leaked' \cup job_ids' : j \in leaked \cup job_ids \/ j.by = n
         /\ Accounted => Accounted'
<1>1. \A j : \A rs, kinds : j \in JobsOf(n, rs, kinds) => j.by = n
  BY DEF JobsOf
<1>2. JobsOf(n, rows, {"cron", "interval"})
        \subseteq JobsOf(n, rows, {"cron"}) \cup JobsOf(n, rows, {"interval"})
  BY DEF JobsOf
<1> QED
  BY <1>1, <1>2 DEF AddJobs, Accounted

\* A reload that overlaps no other request leaves exactly the database's schedule, even
\* after overlapping, failed or abandoned ones (src/scheduler/mod.rs, reload_tasks).
THEOREM SoloReloadExact == Spec => []ReloadExact
<1>1. Init => ReloadInv
  <2> SUFFICES ASSUME Init PROVE ReloadInv
    OBVIOUS
  <2>1. \A h \in Reloader : Busy(h) => h = Boot
    BY DEF Init, Busy
  <2>2. \A h \in Reloader : number[h] = 0
    BY DEF Init
  <2>3. Fresh
    BY <2>1, <2>2 DEF Init, Fresh
  <2> QED
    BY <2>3 DEF Init, ReloadInv, Accounted, SoloProgress
<1>2. TypeOK /\ ReloadInv /\ [Next]_vars => ReloadInv'
  <2> SUFFICES ASSUME TypeOK, ReloadInv, [Next]_vars PROVE ReloadInv'
    OBVIOUS
  <2>1. ASSUME NEW h \in Handler, NEW t \in Task, Create(h, t) \/ Update(h, t) \/ Delete(h, t)
        PROVE  ReloadInv'
    <3>1. edits' = edits + 1 /\ Accept(h)
      BY <2>1 DEF Create, Update, Delete, Write
    <3>2. \A g \in Reloader \ {h} : stage'[g] = stage[g]
      BY <2>1 DEF Create, Update, Delete, GoTo, TypeOK
    <3> QED
      BY <3>1, <3>2, RequestFresh
  <2>2. ASSUME NEW h \in Handler, ReadBack(h) PROVE ReloadInv'
    <3>1. h \in Reloader
      BY DEF Reloader
    <3>2. \A g \in Reloader : Busy(g)' => Busy(g)
      BY <2>2, <3>1 DEF ReadBack, GoTo, TypeOK, Busy
    <3>3. solo = None /\ solo' = None
      BY <2>2, <3>1 DEF ReadBack, ReloadInv, SoloProgress, Busy
    <3>4. UNCHANGED <<edits, number, jobVars>>
      BY <2>2 DEF ReadBack
    <3>5. Accounted' /\ Fresh'
      BY <3>2, <3>4 DEF jobVars, ReloadInv, Accounted, Fresh
    <3> QED
      BY <3>3, <3>5 DEF ReloadInv, SoloProgress
  <2>3. ASSUME NEW t \in Task, SyncTask(t) \/ Restore(t) PROVE ReloadInv'
    <3>1. edits' = edits + 1 /\ solo' = None /\ UNCHANGED <<stage, number, jobVars>>
      BY <2>3 DEF SyncTask, Restore, Write
    <3>2. edits \in Nat /\ \A g \in Reloader : number[g] \in Nat
      BY SchedulerAssumption DEF TypeOK
    <3>3. \A j \in leaked \cup job_ids : j.by \in Nat
      BY SchedulerAssumption DEF TypeOK, Job
    <3>4. Fresh'
      BY <3>1, <3>2, <3>3 DEF jobVars, ReloadInv, Fresh, Busy
    <3> QED
      BY <3>1, <3>4 DEF jobVars, ReloadInv, Accounted, SoloProgress
  <2>4. ASSUME NEW h \in Reloader, DrainJobs(h) PROVE ReloadInv'
    <3>1. /\ \A g \in Reloader : Busy(g)' <=> Busy(g)
          /\ stage'[h] = "abort" /\ Busy(h)
      BY <2>4 DEF DrainJobs, GoTo, TypeOK, Busy
    <3>2. Accounted' /\ live' \subseteq random_task_handles' \cup leaked'
      BY <2>4 DEF DrainJobs, ReloadInv, Accounted
    <3>3. Fresh'
      BY <2>4, <3>1 DEF DrainJobs, ReloadInv, Fresh
    <3>4. ASSUME solo' # None PROVE SoloProgress'
      <4>1. \A g \in Reloader : Busy(g) => g = h
        BY <2>4, <3>4 DEF DrainJobs, Others, Busy
      <4>2. number'[h] = solo'
        BY <2>4, <3>4 DEF DrainJobs
      <4>3. ~Quiet'
        BY <3>1 DEF Quiet
      <4> QED
        BY <3>1, <3>2, <4>1, <4>2, <4>3 DEF SoloProgress
    <3> QED
      BY <3>2, <3>3, <3>4 DEF ReloadInv, SoloProgress
  <2>5. ASSUME NEW h \in Reloader, AbortHandles(h) PROVE ReloadInv'
    <3>1. /\ \A g \in Reloader : Busy(g)' <=> Busy(g)
          /\ stage[h] = "abort" /\ stage'[h] = "list" /\ Busy(h)
      BY <2>5 DEF AbortHandles, GoTo, TypeOK, Busy
    <3>2. Accounted'
      BY <2>5 DEF AbortHandles, ReloadInv, Accounted
    <3>3. Fresh'
      BY <2>5, <3>1 DEF AbortHandles, ReloadInv, Fresh
    <3>4. ASSUME solo' # None PROVE SoloProgress'
      <4>1. solo # None
        BY <2>5, <3>4 DEF AbortHandles
      <4>2. \A g \in Reloader : Busy(g) => g = h
        BY <3>1, <4>1 DEF ReloadInv, SoloProgress
      <4>3. live' \subseteq leaked' /\ number'[h] = solo'
        BY <2>5, <3>1, <4>1 DEF AbortHandles, ReloadInv, SoloProgress
      <4>4. ~Quiet'
        BY <3>1 DEF Quiet
      <4> QED
        BY <3>1, <4>2, <4>3, <4>4 DEF SoloProgress
    <3> QED
      BY <3>2, <3>3, <3>4 DEF ReloadInv, SoloProgress
  <2>6. ASSUME NEW h \in Reloader, List(h) PROVE ReloadInv'
    <3>1. /\ \A g \in Reloader : Busy(g)' <=> Busy(g)
          /\ stage[h] = "list" /\ stage'[h] = "add" /\ Busy(h)
      BY <2>6 DEF List, GoTo, TypeOK, Busy
    <3>2. UNCHANGED <<edits, number, solo, live, job_ids, random_task_handles, leaked>>
      BY <2>6 DEF List, jobVars
    <3>3. Accounted' /\ Fresh'
      BY <3>1, <3>2 DEF ReloadInv, Accounted, Fresh
    <3>4. ASSUME solo' # None PROVE SoloProgress'
      <4>1. \A g \in Reloader : Busy(g) => g = h
        BY <3>1, <3>2, <3>4 DEF ReloadInv, SoloProgress
      <4>2. live' \subseteq leaked' /\ number'[h] = solo'
        BY <3>1, <3>2, <3>4 DEF ReloadInv, SoloProgress
      <4>3. snap'[h] = EnabledRows'
        BY <2>6 DEF List, TypeOK, EnabledRows, Enabled
      <4>4. ~Quiet'
        BY <3>1 DEF Quiet
      <4> QED
        BY <3>1, <4>1, <4>2, <4>3, <4>4 DEF SoloProgress
    <3> QED
      BY <3>3, <3>4 DEF ReloadInv, SoloProgress
  <2>7. ASSUME NEW h \in Reloader, AddAll(h) PROVE ReloadInv'
    <3>1. Busy(h) /\ GoTo(h, "idle") /\ edits' = edits /\ solo' = solo /\ db' = db
            /\ number' = [number EXCEPT ![h] = 0] /\ AddJobs(number[h], snap[h], {})
      BY <2>7 DEF AddAll, Busy
    <3>2. Accounted' /\ \A j \in leaked' \cup job_ids' : j \in leaked \cup job_ids \/ j.by = number[h]
      BY <3>1, AddJobsNumber DEF ReloadInv
    <3>3. Fresh'
      BY <3>1, <3>2, EndFresh DEF ReloadInv
    <3>4. ASSUME solo' # None PROVE SoloProgress'
      <4>1. /\ solo # None /\ number[h] = solo
            /\ live \subseteq leaked /\ snap[h] = EnabledRows
            /\ \A g \in Reloader : Busy(g) => g = h
        BY <2>7, <3>1, <3>4 DEF AddAll, ReloadInv, SoloProgress
      <4>2. \A g \in Reloader : ~Busy(g)'
        BY <3>1, <4>1 DEF GoTo, TypeOK, Busy
      <4> DEFINE new == JobsOf(solo, EnabledRows, {"cron", "interval"})
                 lost == JobsOf(solo, EnabledRows, {"partial"}) \cup JobsOf(solo, {}, {"cron", "partial"})
      <4>3. live' = live \cup new \cup lost /\ leaked' = leaked \cup lost
        BY <3>1, <4>1 DEF AddJobs
      <4>4. \A j \in new : j.by = solo /\ j.row.sched \in {"cron", "interval"}
        BY DEF JobsOf
      <4>5. \A j \in lost : j.row.sched = "partial"
        BY DEF JobsOf
      <4>6. \A j \in leaked : j.by # solo
        BY <3>1, <4>1 DEF ReloadInv, Fresh
      <4>7. live' \ leaked' = new
        <5> HIDE DEF new, lost
        <5> QED
          BY <4>1, <4>3, <4>4, <4>5, <4>6
      <4>8. new = JobsOf(solo', EnabledRows', {"cron", "interval"})
        BY <3>1 DEF EnabledRows, Enabled
      <4> QED
        BY <4>2, <4>7, <4>8 DEF SoloProgress, Busy
    <3> QED
      BY <3>2, <3>3, <3>4 DEF ReloadInv, SoloProgress
  <2>8. ASSUME NEW h \in Handler, CutShort(h) PROVE ReloadInv'
    <3>1. End(h) /\ Busy(h) /\ h \in Reloader
      BY <2>8 DEF CutShort, QueryFails, Cancel, CancelDrain, CancelAdd, Busy, Reloader
    <3>2. Accounted' /\ \A j \in leaked' \cup job_ids' : j \in leaked \cup job_ids \/ j.by = number[h]
      <4>1. CASE UNCHANGED jobVars
        BY <4>1 DEF jobVars, ReloadInv, Accounted
      <4>2. CASE CancelDrain(h)
        BY <4>2 DEF CancelDrain, ReloadInv, Accounted
      <4>3. CASE CancelAdd(h)
        <5>1. PICK done \in SUBSET snap[h] :
                \E cut \in {{}} \cup {{s} : s \in snap[h] \ done} : AddJobs(number[h], done, cut)
          BY <4>3 DEF CancelAdd
        <5> QED
          BY <5>1, AddJobsNumber DEF ReloadInv
      <4> QED
        BY <2>8, <4>1, <4>2, <4>3 DEF CutShort, QueryFails, Cancel
    <3>3. Fresh'
      BY <3>1, <3>2, EndFresh DEF End, ReloadInv
    <3> QED
      BY <3>1, <3>2, <3>3 DEF End, ReloadInv, SoloProgress
  <2>9. CASE UNCHANGED vars
    BY <2>9 DEF vars, ReloadInv, Accounted, Fresh, SoloProgress, Busy, Quiet, EnabledRows,
                Enabled
  <2> QED
    BY <2>1, <2>2, <2>3, <2>4, <2>5, <2>6, <2>7, <2>8, <2>9
       DEF Next, RequestStep, ReloadStep
<1>3. ReloadInv => ReloadExact
  BY DEF ReloadInv, SoloProgress, ReloadExact
<1> QED
  BY <1>1, <1>2, <1>3, TypeCorrect, PTL DEF Spec
=============================================================================
