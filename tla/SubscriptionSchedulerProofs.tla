-------------------- MODULE SubscriptionSchedulerProofs --------------------
(***************************************************************************)
(* Proofs about SubscriptionScheduler, for any number of subscriptions,     *)
(* concurrent requests and writes: the types, that the scheduler is exact   *)
(* when it is quiet, and that the reload under one lock implements the      *)
(* schedule of module AtomicSchedule.                                       *)
(***************************************************************************)
EXTENDS SubscriptionScheduler, TLAPS

-----------------------------------------------------------------------------
(* Types.                                                                    *)

\* A row with its id, as list_enabled returns them.
Listed == [sub : Sub, row : Row]

\* The jobs of well-typed rows are well-typed.
LEMMA JobsOfType ==
  ASSUME NEW n \in 0..MaxEdits, NEW rs \in SUBSET Listed
  PROVE  JobsOf(n, rs) \subseteq Job
BY DEF JobsOf, Job, Listed

\* list_enabled returns rows of the table.
LEMMA EnabledRowsType ==
  ASSUME rows \in [Sub -> Row]
  PROVE  EnabledRows \subseteq Listed
BY DEF EnabledRows, Listed

\* A write keeps the table and its version counter typed.
LEMMA WriteType ==
  ASSUME rows \in [Sub -> Row], edits \in 0..MaxEdits, NEW s,
         NEW st \in {"unborn", "on", "off", "gone"}, NEW name \in Name \cup {None},
         NEW cron \in {"ok", "bad"},
         Write(s, [ver |-> edits + 1, st |-> st, name |-> name, cron |-> cron])
  PROVE  rows' \in [Sub -> Row] /\ edits' \in 0..MaxEdits /\ edits + 1 \in 0..MaxEdits
<1>1. edits + 1 \in 0..MaxEdits
  BY SubscriptionAssumption DEF Write
<1>2. [ver |-> edits + 1, st |-> st, name |-> name, cron |-> cron] \in Row
  BY <1>1 DEF Row
<1> QED
  BY <1>1, <1>2 DEF Write

\* The tables of an archive are well-typed.
LEMMA TablesType ==
  ASSUME NEW v \in 0..MaxEdits
  PROVE  Tables(v) \subseteq [Sub -> Row]
BY DEF Tables, Missing, Row

\* What was added to the jobs and lost of them is well-typed.
LEMMA AddJobsType ==
  ASSUME SchedTypeOK, NEW n \in 0..MaxEdits, NEW done \in SUBSET Listed,
         NEW cut \in SUBSET Listed, AddJobs(n, done, cut)
  PROVE  live' \subseteq Job /\ job_ids' \subseteq Job /\ leaked' \subseteq Job
<1>1. /\ JobsOf(n, done) \subseteq Job /\ JobsOf(n, cut) \subseteq Job
      /\ JobsOf(n, done \cup cut) \subseteq Job
  BY JobsOfType
<1> QED
  BY <1>1 DEF AddJobs, SchedTypeOK

\* The part of the type invariant that is about the requests.
ReqTypeOK ==
  /\ stage \in [Reloader -> Stages]
  /\ target \in [Reloader -> Sub \cup {None}]
  /\ copy \in [Reloader -> Name \cup {None}]
  /\ number \in [Reloader -> 0..MaxEdits]
  /\ snap \in [Reloader -> SUBSET Listed]

\* The end of a request keeps the requests typed.
LEMMA EndType ==
  ASSUME SchedTypeOK, NEW h \in Reloader, End(h)
  PROVE  /\ ReqTypeOK' /\ unsynced' \in BOOLEAN
         /\ UNCHANGED <<rows, edits, crashes>>
BY SubscriptionAssumption
   DEF SchedTypeOK, ReqTypeOK, End, Released, GoTo, Stages, Listed

\* At the start everything is typed.
LEMMA InitType == SchedInit => SchedTypeOK
<1> SUFFICES ASSUME SchedInit PROVE SchedTypeOK
  OBVIOUS
<1>1. 0 \in 0..MaxEdits /\ 0 \in 0..MaxCrashes
  BY SubscriptionAssumption
<1>2. rows \in [Sub -> Row]
  BY <1>1, TablesType DEF SchedInit
<1>3. stage \in [Reloader -> Stages]
  BY DEF SchedInit, Stages
<1> QED
  BY <1>1, <1>2, <1>3 DEF SchedInit, SchedTypeOK

\* Every step keeps the types.
LEMMA NextType ==
  ASSUME SchedTypeOK, [SchedNext]_schedVars
  PROVE  SchedTypeOK'
<1> USE DEF GoTo, Stages, Listed
<1>1. ASSUME NEW h \in Handler, NEW s \in Sub, Edit(h, s) PROVE SchedTypeOK'
  <2>1. PICK st \in {"on", "off"}, name \in Name, cron \in {"ok", "bad"} :
          Write(s, [ver |-> edits + 1, st |-> st, name |-> name, cron |-> cron])
    BY <1>1 DEF Edit
  <2>2. rows' \in [Sub -> Row] /\ edits' \in 0..MaxEdits /\ edits + 1 \in 0..MaxEdits
    BY <2>1, WriteType DEF SchedTypeOK
  <2> QED
    BY <1>1, <2>2 DEF Edit, SchedTypeOK, jobVars, Reloader
<1>2. ASSUME NEW h \in Handler, NEW s \in Sub, DeleteGet(h, s) PROVE SchedTypeOK'
  <2>1. rows[s].name \in Name \cup {None}
    BY DEF SchedTypeOK, Row
  <2> QED
    BY <1>2, <2>1 DEF DeleteGet, SchedTypeOK, jobVars, Reloader
<1>3. ASSUME NEW h \in Handler, ReadBack(h) PROVE SchedTypeOK'
  BY <1>3 DEF ReadBack, SchedTypeOK, jobVars, Reloader
<1>4. ASSUME NEW h \in Handler, DeleteDirs(h) PROVE SchedTypeOK'
  BY <1>4 DEF DeleteDirs, SchedTypeOK, jobVars, Reloader
<1>5. ASSUME NEW h \in Handler, DeleteRow(h) PROVE SchedTypeOK'
  <2>1. CASE Exists(target[h]) /\ Write(target[h], Missing(edits + 1, "gone"))
              /\ GoTo(h, "reload") /\ number' = [number EXCEPT ![h] = edits + 1]
    <3>1. rows' \in [Sub -> Row] /\ edits' \in 0..MaxEdits /\ edits + 1 \in 0..MaxEdits
      BY <2>1, WriteType DEF Missing, SchedTypeOK
    <3> QED
      BY <1>5, <2>1, <3>1 DEF DeleteRow, Released, SchedTypeOK, jobVars, Reloader
  <2>2. CASE GoTo(h, "idle") /\ UNCHANGED <<rows, edits, number>>
    BY <1>5, <2>2 DEF DeleteRow, Released, SchedTypeOK, jobVars, Reloader
  <2> QED
    BY <1>5, <2>1, <2>2 DEF DeleteRow
<1>6. ASSUME NEW h \in Reloader, Drain(h) PROVE SchedTypeOK'
  BY <1>6 DEF Drain, SchedTypeOK
<1>7. ASSUME NEW h \in Reloader, List(h) PROVE SchedTypeOK'
  BY <1>7, EnabledRowsType DEF List, SchedTypeOK, jobVars
<1>8. ASSUME NEW h \in Reloader, Add(h) PROVE SchedTypeOK'
  <2>1. live' \subseteq Job /\ job_ids' \subseteq Job /\ leaked' \subseteq Job
    BY <1>8, AddJobsType DEF Add, SchedTypeOK
  <2> QED
    BY <1>8, <2>1, SubscriptionAssumption DEF Add, SchedTypeOK
<1>9. ASSUME NEW h \in Handler, CutShort(h) PROVE SchedTypeOK'
  <2>1. h \in Reloader
    BY DEF Reloader
  <2>2. CASE QueryFails(h) \/ Cancel(h)
    BY <2>1, <2>2, EndType DEF QueryFails, Cancel, jobVars, SchedTypeOK, ReqTypeOK
  <2>3. CASE CancelDrain(h)
    BY <2>1, <2>3, EndType DEF CancelDrain, SchedTypeOK, ReqTypeOK
  <2>4. CASE CancelAdd(h)
    <3>1. PICK done \in SUBSET snap[h] :
            \E cut \in {{}} \cup {{r} : r \in snap[h] \ done} : AddJobs(number[h], done, cut)
      BY <2>4 DEF CancelAdd
    <3>2. PICK cut \in SUBSET snap[h] : AddJobs(number[h], done, cut)
      BY <3>1
    <3>3. snap[h] \in SUBSET Listed /\ number[h] \in 0..MaxEdits
      BY <2>1 DEF SchedTypeOK
    <3>4. live' \subseteq Job /\ job_ids' \subseteq Job /\ leaked' \subseteq Job
      BY <3>2, <3>3, AddJobsType
    <3> QED
      BY <2>1, <2>4, <3>4, EndType DEF CancelAdd, SchedTypeOK, ReqTypeOK
  <2> QED
    BY <1>9, <2>2, <2>3, <2>4 DEF CutShort
<1>10. ASSUME Crash PROVE SchedTypeOK'
  <2>1. crashes' \in 0..MaxCrashes /\ 0 \in 0..MaxEdits
    BY <1>10, SubscriptionAssumption DEF Crash, SchedTypeOK
  <2> QED
    BY <1>10, <2>1 DEF Crash, SchedTypeOK
<1>11. ASSUME UNCHANGED schedVars PROVE SchedTypeOK'
  BY <1>11 DEF schedVars, reqVars, jobVars, SchedTypeOK
<1>12. ASSUME Restore PROVE SchedTypeOK'
  <2>1. edits + 1 \in 0..MaxEdits
    BY <1>12, SubscriptionAssumption DEF Restore, SchedTypeOK
  <2>2. rows' \in [Sub -> Row]
    BY <1>12, <2>1, TablesType DEF Restore
  <2> QED
    BY <1>12, <2>1, <2>2 DEF Restore, SchedTypeOK, reqVars, jobVars
<1> QED
  BY <1>1, <1>2, <1>3, <1>4, <1>5, <1>6, <1>7, <1>8, <1>9, <1>10, <1>11, <1>12 DEF SchedNext

\* Every variable keeps its type.
THEOREM SchedTypeCorrect == SchedSpec => []SchedTypeOK
<1>1. SchedTypeOK /\ [SchedNext]_schedVars => SchedTypeOK'
  BY NextType
<1> QED
  BY InitType, <1>1, PTL DEF SchedSpec

-----------------------------------------------------------------------------
(* The lock of job_ids.                                                      *)

Holds(h) == stage[h] \in {"list", "add"}

\* One reload at a time is between its drain and its last job; meanwhile no job is known
\* by id, and only the one that adds has read rows.
LockInv ==
  /\ \A h, g \in Reloader : Holds(h) /\ Holds(g) => h = g
  /\ \A h \in Reloader : Holds(h) => job_ids = {}
  /\ \A h \in Reloader : snap[h] # {} => stage[h] = "add"

\* Steps outside the lock.
LEMMA OutsideLock ==
  ASSUME SchedTypeOK, LockInv, NEW h \in Reloader, ~Holds(h),
         NEW s \in Stages \ {"list", "add"}, GoTo(h, s), UNCHANGED <<job_ids, snap>>
  PROVE  LockInv'
<1>1. \A g \in Reloader : stage'[g] = IF g = h THEN s ELSE stage[g]
  BY DEF GoTo, SchedTypeOK
<1> QED
  BY <1>1 DEF LockInv, Holds

\* The end of a request, whichever jobs it leaves when it held the lock.
LEMMA EndOfLock ==
  ASSUME SchedTypeOK, LockInv, NEW h \in Reloader, End(h),
         job_ids' = job_ids \/ job_ids' = {} \/ Holds(h)
  PROVE  LockInv'
<1>1. \A g \in Reloader : /\ stage'[g] = IF g = h THEN "idle" ELSE stage[g]
                          /\ snap'[g] = IF g = h THEN {} ELSE snap[g]
  BY DEF End, GoTo, SchedTypeOK
<1> QED
  BY <1>1 DEF LockInv, Holds

\* No step breaks it.
LEMMA NextLock ==
  ASSUME SchedTypeOK, LockInv, [SchedNext]_schedVars
  PROVE  LockInv'
<1>0. Handler \subseteq Reloader
  BY DEF Reloader
<1>1. ASSUME NEW h \in Handler, NEW s \in Sub, Edit(h, s) \/ DeleteGet(h, s) PROVE LockInv'
  <2>1. ~Holds(h) /\ UNCHANGED <<job_ids, snap>>
    BY <1>1 DEF Edit, DeleteGet, Idle, Holds, jobVars
  <2>2. GoTo(h, "written") \/ GoTo(h, "found")
    BY <1>1 DEF Edit, DeleteGet
  <2> QED
    BY <1>0, <2>1, <2>2, OutsideLock DEF Stages
<1>2. ASSUME NEW h \in Handler, ReadBack(h) \/ DeleteDirs(h) \/ DeleteRow(h) PROVE LockInv'
  <2>1. ~Holds(h) /\ UNCHANGED <<job_ids, snap>>
    BY <1>2 DEF ReadBack, DeleteDirs, DeleteRow, Holds, jobVars
  <2>2. GoTo(h, "reload") \/ GoTo(h, "idle") \/ GoTo(h, "removed")
    BY <1>2 DEF ReadBack, DeleteDirs, DeleteRow
  <2> QED
    BY <1>0, <2>1, <2>2, OutsideLock DEF Stages
<1>3. ASSUME NEW h \in Handler, CutShort(h) PROVE LockInv'
  <2>1. End(h)
    BY <1>3 DEF CutShort, QueryFails, Cancel, CancelDrain, CancelAdd
  <2>2. job_ids' = job_ids \/ job_ids' = {} \/ Holds(h)
    BY <1>3 DEF CutShort, QueryFails, Cancel, CancelDrain, CancelAdd, jobVars, Holds
  <2> QED
    BY <1>0, <2>1, <2>2, EndOfLock
<1>4. ASSUME NEW h \in Reloader, Drain(h) PROVE LockInv'
  <2>1. \A g \in Reloader : ~Holds(g) /\ stage'[g] = IF g = h THEN "list" ELSE stage[g]
    BY <1>4 DEF Drain, GoTo, Locked, Holds, SchedTypeOK
  <2> QED
    BY <1>4, <2>1 DEF Drain, LockInv, Holds
<1>5. ASSUME NEW h \in Reloader, List(h) PROVE LockInv'
  <2>1. \A g \in Reloader : /\ stage'[g] = IF g = h THEN "add" ELSE stage[g]
                            /\ snap'[g] = IF g = h THEN EnabledRows ELSE snap[g]
    BY <1>5 DEF List, GoTo, SchedTypeOK
  <2>2. Holds(h) /\ job_ids' = job_ids
    BY <1>5 DEF List, Holds, jobVars
  <2> QED
    BY <2>1, <2>2 DEF LockInv, Holds
<1>6. ASSUME NEW h \in Reloader, Add(h) PROVE LockInv'
  <2>1. \A g \in Reloader : /\ stage'[g] = IF g = h THEN "idle" ELSE stage[g]
                            /\ snap'[g] = IF g = h THEN {} ELSE snap[g]
    BY <1>6 DEF Add, GoTo, SchedTypeOK
  <2>2. Holds(h)
    BY <1>6 DEF Add, Holds
  <2> QED
    BY <2>1, <2>2 DEF LockInv, Holds
<1>7. ASSUME Crash PROVE LockInv'
  BY <1>7 DEF Crash, LockInv, Holds
<1>8. ASSUME UNCHANGED schedVars \/ Restore PROVE LockInv'
  BY <1>8 DEF Restore, schedVars, reqVars, jobVars, LockInv, Holds
<1> QED
  BY <1>1, <1>2, <1>3, <1>4, <1>5, <1>6, <1>7, <1>8 DEF SchedNext

-----------------------------------------------------------------------------
(* The refinement.                                                           *)

\* The rows as AtomicSchedule sees them.
SeenTable == [s \in Sub |-> Seen(rows[s])]

\* What is promised by some jobs and by the rows some reloads have read.
PromisedOf(jobs, read) ==
  {[sub |-> j.sub, row |-> Seen(j.row)] : j \in jobs \cup UNION {JobsOf(0, read[h]) : h \in Reloader}}

\* A job is promised if a reload has made it, or has read its row.
LEMMA PromisedDef ==
  ASSUME NEW jobs, NEW read, NEW p
  PROVE  p \in PromisedOf(jobs, read) <=>
           \/ \E j \in jobs : p = [sub |-> j.sub, row |-> Seen(j.row)]
           \/ \E h \in Reloader : \E r \in read[h] :
                r.row.cron = "ok" /\ p = [sub |-> r.sub, row |-> Seen(r.row)]
<1>1. ASSUME NEW h \in Reloader, NEW r \in read[h], r.row.cron = "ok",
             p = [sub |-> r.sub, row |-> Seen(r.row)]
      PROVE  p \in PromisedOf(jobs, read)
  <2>1. PICK j : j = [by |-> 0, sub |-> r.sub, row |-> r.row]
    OBVIOUS
  <2>2. j \in JobsOf(0, read[h])
    BY <1>1, <2>1 DEF JobsOf
  <2>3. j \in jobs \cup UNION {JobsOf(0, read[g]) : g \in Reloader}
    BY <2>2
  <2>4. p = [sub |-> j.sub, row |-> Seen(j.row)]
    BY <1>1, <2>1
  <2> QED
    BY <2>3, <2>4 DEF PromisedOf
<1>2. ASSUME NEW h \in Reloader, NEW j \in JobsOf(0, read[h]),
             p = [sub |-> j.sub, row |-> Seen(j.row)]
      PROVE  \E r \in read[h] : r.row.cron = "ok" /\ p = [sub |-> r.sub, row |-> Seen(r.row)]
  BY <1>2 DEF JobsOf
<1> QED
  BY <1>1, <1>2 DEF PromisedOf

\* The schedule the refinement shows, before a step and after it.
LEMMA PromisedIs ==
  Promised = PromisedOf(job_ids, snap) /\ Promised' = PromisedOf(job_ids', snap')
BY DEF Promised, PromisedOf

\* A step that leaves alone what is known by id and what was read.
LEMMA PromisedKept ==
  ASSUME UNCHANGED <<job_ids, snap>>
  PROVE  Promised' = Promised
BY DEF Promised

\* A write changes one row of the table, or an unknown row and thus nothing.
LEMMA WriteIsEdit ==
  ASSUME SchedTypeOK, rows' \in [Sub -> Row], NEW s, NEW row,
         Write(s, row), UNCHANGED <<job_ids, snap>>
  PROVE  [Atomic!Next]_Atomic!vars
<1>1. Promised' = Promised
  BY PromisedKept
<1>2. CASE s \in Sub
  <2>1. Seen(rows'[s]) \in {Seen(r) : r \in Row}
    BY <1>2
  <2>2. SeenTable' = [SeenTable EXCEPT ![s] = Seen(rows'[s])]
    BY <1>2 DEF SeenTable, Write, SchedTypeOK
  <2>3. Atomic!Edit(s)
    BY <1>1, <2>1, <2>2 DEF Atomic!Edit, SeenTable
  <2> QED
    BY <1>2, <2>3 DEF Atomic!Next
<1>3. CASE s \notin Sub
  <2>1. \A u \in Sub : rows'[u] = rows[u]
    BY <1>3 DEF Write, SchedTypeOK
  <2>2. SeenTable' = SeenTable
    BY <2>1 DEF SeenTable
  <2> QED
    BY <1>1, <2>2 DEF Atomic!vars, SeenTable
<1> QED
  BY <1>2, <1>3

\* A step that changes neither the table nor what is promised.
LEMMA NothingSeen ==
  ASSUME UNCHANGED rows, Promised' = Promised
  PROVE  [Atomic!Next]_Atomic!vars
BY DEF Atomic!vars

\* What is left of the schedule is a part of it.
LEMMA LoseSome ==
  ASSUME UNCHANGED rows, Promised' \subseteq Promised
  PROVE  [Atomic!Next]_Atomic!vars
BY DEF Atomic!Next, Atomic!Lose

\* A reload that has read the table promises one job for every wanted row.
LEMMA ListLoads ==
  ASSUME SchedTypeOK, LockInv, NEW h \in Reloader, List(h)
  PROVE  Atomic!Load
<1>1. /\ job_ids = {} /\ job_ids' = {}
      /\ \A g \in Reloader : snap[g] = {}
      /\ \A g \in Reloader : snap'[g] = IF g = h THEN EnabledRows ELSE {}
  <2>1. Holds(h)
    BY DEF List, Holds
  <2>2. \A g \in Reloader : snap[g] = {}
    BY <2>1 DEF LockInv, Holds, List
  <2> QED
    BY <2>1, <2>2 DEF LockInv, List, jobVars, SchedTypeOK
<1>2. Promised = {}
  BY <1>1, PromisedIs, PromisedDef
<1>3. UNCHANGED rows
  BY DEF List
<1>4. ASSUME NEW p \in Promised' PROVE p \in Atomic!Wanted(SeenTable)
  <2>1. PICK r \in EnabledRows : r.row.cron = "ok" /\ p = [sub |-> r.sub, row |-> Seen(r.row)]
    BY <1>1, <1>4, PromisedIs, PromisedDef
  <2>3. PICK s \in Sub : rows[s].st = "on" /\ r = [sub |-> s, row |-> rows[s]]
    BY DEF EnabledRows
  <2>4. SeenTable[s] = Seen(rows[s]) /\ SeenTable[s].wanted
    BY <2>1, <2>3 DEF SeenTable, Seen
  <2> QED
    BY <2>1, <2>3, <2>4 DEF Atomic!Wanted
<1>5. ASSUME NEW p \in Atomic!Wanted(SeenTable) PROVE p \in Promised'
  <2>1. PICK s \in Sub : SeenTable[s].wanted /\ p = [sub |-> s, row |-> SeenTable[s]]
    BY <1>5 DEF Atomic!Wanted
  <2>2. rows[s].st = "on" /\ rows[s].cron = "ok" /\ SeenTable[s] = Seen(rows[s])
    BY <2>1 DEF SeenTable, Seen
  <2>3. [sub |-> s, row |-> rows[s]] \in snap'[h]
    BY <1>1, <2>2 DEF EnabledRows
  <2> QED
    BY <2>1, <2>2, <2>3, PromisedIs, PromisedDef
<1>6. Promised' = Atomic!Wanted(SeenTable)
  BY <1>4, <1>5
<1> QED
  BY <1>2, <1>3, <1>6 DEF Atomic!Load, SeenTable

\* The jobs a reload adds are those its rows promised.
LEMMA AddKeepsPromise ==
  ASSUME SchedTypeOK, LockInv, NEW h \in Reloader, Add(h)
  PROVE  Promised' = Promised
<1>1. /\ job_ids = {} /\ job_ids' = JobsOf(number[h], snap[h])
      /\ \A g \in Reloader : g # h => snap[g] = {}
      /\ \A g \in Reloader : snap'[g] = {}
  BY DEF Add, AddJobs, LockInv, Holds, SchedTypeOK
<1>2. ASSUME NEW p \in Promised PROVE p \in Promised'
  <2>1. PICK r \in snap[h] : r.row.cron = "ok" /\ p = [sub |-> r.sub, row |-> Seen(r.row)]
    BY <1>1, PromisedIs, PromisedDef
  <2>2. [by |-> number[h], sub |-> r.sub, row |-> r.row] \in job_ids'
    BY <1>1, <2>1 DEF JobsOf
  <2> QED
    BY <2>1, <2>2, PromisedIs, PromisedDef
<1>3. ASSUME NEW p \in Promised' PROVE p \in Promised
  <2>1. PICK j \in job_ids' : p = [sub |-> j.sub, row |-> Seen(j.row)]
    BY <1>1, <1>3, PromisedIs, PromisedDef
  <2>2. PICK r \in snap[h] :
          r.row.cron = "ok" /\ j = [by |-> number[h], sub |-> r.sub, row |-> r.row]
    BY <1>1 DEF JobsOf
  <2> QED
    BY <2>1, <2>2, PromisedIs, PromisedDef
<1> QED
  BY <1>2, <1>3

\* A request that is cut short leaves at most the jobs that were promised.
LEMMA CutShortLoses ==
  ASSUME SchedTypeOK, LockInv, NEW h \in Reloader, CutShort(h)
  PROVE  Promised' \subseteq Promised
<1>1. \A g \in Reloader : snap'[g] \subseteq snap[g]
  <2>1. End(h)
    BY DEF CutShort, QueryFails, Cancel, CancelDrain, CancelAdd
  <2> QED
    BY <2>1 DEF End, SchedTypeOK
<1>2. ASSUME NEW j \in job_ids', j \notin job_ids
      PROVE  [sub |-> j.sub, row |-> Seen(j.row)] \in Promised
  <2>1. CancelAdd(h)
    BY <1>2 DEF CutShort, QueryFails, Cancel, CancelDrain, jobVars
  <2>2. PICK done \in SUBSET snap[h] : job_ids' = job_ids \cup JobsOf(number[h], done)
    BY <2>1 DEF CancelAdd, AddJobs
  <2>3. PICK r \in snap[h] :
          r.row.cron = "ok" /\ j = [by |-> number[h], sub |-> r.sub, row |-> r.row]
    BY <1>2, <2>2 DEF JobsOf
  <2> QED
    BY <2>3, PromisedIs, PromisedDef
<1>3. ASSUME NEW p \in Promised' PROVE p \in Promised
  <2>1. CASE \E j \in job_ids' : p = [sub |-> j.sub, row |-> Seen(j.row)]
    BY <1>2, <2>1, PromisedIs, PromisedDef
  <2>2. CASE \E g \in Reloader : \E r \in snap'[g] :
               r.row.cron = "ok" /\ p = [sub |-> r.sub, row |-> Seen(r.row)]
    BY <1>1, <2>2, PromisedIs, PromisedDef
  <2> QED
    BY <1>3, <2>1, <2>2, PromisedIs, PromisedDef
<1> QED
  BY <1>3

\* Every step is a step of the atomic schedule, or one it does not see.
LEMMA NextRefines ==
  ASSUME SchedTypeOK, SchedTypeOK', LockInv, [SchedNext]_schedVars
  PROVE  [Atomic!Next]_Atomic!vars
<1>0. rows' \in [Sub -> Row] /\ Handler \subseteq Reloader
  BY DEF SchedTypeOK, Reloader
<1>1. ASSUME NEW h \in Handler, NEW s \in Sub, Edit(h, s) PROVE [Atomic!Next]_Atomic!vars
  <2>1. UNCHANGED <<job_ids, snap>>
    BY <1>1 DEF Edit, jobVars
  <2> QED
    BY <1>0, <1>1, <2>1, WriteIsEdit DEF Edit
<1>2. ASSUME NEW h \in Handler, NEW s \in Sub, DeleteGet(h, s) PROVE [Atomic!Next]_Atomic!vars
  BY <1>2, PromisedKept, NothingSeen DEF DeleteGet, jobVars
<1>3. ASSUME NEW h \in Handler, ReadBack(h) \/ DeleteDirs(h) PROVE [Atomic!Next]_Atomic!vars
  BY <1>3, PromisedKept, NothingSeen DEF ReadBack, DeleteDirs, jobVars
<1>4. ASSUME NEW h \in Handler, DeleteRow(h) PROVE [Atomic!Next]_Atomic!vars
  <2>1. UNCHANGED <<job_ids, snap>>
    BY <1>4 DEF DeleteRow, jobVars
  <2>2. CASE UNCHANGED rows
    BY <2>1, <2>2, PromisedKept, NothingSeen
  <2>3. CASE Write(target[h], Missing(edits + 1, "gone"))
    BY <1>0, <2>1, <2>3, WriteIsEdit
  <2> QED
    BY <1>4, <2>2, <2>3 DEF DeleteRow
<1>5. ASSUME NEW h \in Handler, CutShort(h) PROVE [Atomic!Next]_Atomic!vars
  <2>1. UNCHANGED rows
    BY <1>5 DEF CutShort, QueryFails, Cancel, CancelDrain, CancelAdd, End
  <2> QED
    BY <1>0, <1>5, <2>1, CutShortLoses, LoseSome
<1>6. ASSUME NEW h \in Reloader, Drain(h) PROVE [Atomic!Next]_Atomic!vars
  <2>1. job_ids' = {} /\ snap' = snap /\ rows' = rows
    BY <1>6 DEF Drain
  <2>2. Promised' \subseteq Promised
    BY <2>1, PromisedIs, PromisedDef
  <2> QED
    BY <2>1, <2>2, LoseSome
<1>7. ASSUME NEW h \in Reloader, List(h) PROVE [Atomic!Next]_Atomic!vars
  BY <1>7, ListLoads DEF Atomic!Next
<1>8. ASSUME NEW h \in Reloader, Add(h) PROVE [Atomic!Next]_Atomic!vars
  BY <1>8, AddKeepsPromise, NothingSeen DEF Add
<1>9. ASSUME Crash PROVE [Atomic!Next]_Atomic!vars
  <2>1. job_ids' = {} /\ snap' = [h \in Reloader |-> {}] /\ rows' = rows
    BY <1>9 DEF Crash
  <2>2. Promised' \subseteq Promised
    BY <2>1 DEF Promised, JobsOf
  <2> QED
    BY <2>1, <2>2, LoseSome
<1>10. ASSUME UNCHANGED schedVars PROVE [Atomic!Next]_Atomic!vars
  BY <1>10, PromisedKept, NothingSeen DEF schedVars, reqVars, jobVars
<1>11. ASSUME Restore PROVE [Atomic!Next]_Atomic!vars
  <2>1. Promised' = Promised
    BY <1>11, PromisedKept DEF Restore, reqVars, jobVars
  <2>2. \A s \in Sub : Seen(rows'[s]) \in {Seen(r) : r \in Row}
    BY <1>0
  <2>3. SeenTable' \in [Sub -> {Seen(r) : r \in Row}]
    BY <2>2 DEF SeenTable
  <2> QED
    BY <2>1, <2>3 DEF Atomic!Next, Atomic!Replace, SeenTable
<1> QED
  BY <1>1, <1>2, <1>3, <1>4, <1>5, <1>6, <1>7, <1>8, <1>9, <1>10, <1>11 DEF SchedNext

\* The reload implements the atomic schedule: whoever looks finds the jobs of one state of
\* the table or fewer of them, however requests overlap and whatever is cut short.
THEOREM ReloadIsAtomic == SchedSpec => AtomicSpec
<1>1. SchedInit => Atomic!Init /\ LockInv
  <2> SUFFICES ASSUME SchedInit PROVE Atomic!Init /\ LockInv
    OBVIOUS
  <2>1. \A s \in Sub : rows[s] \in Row
    BY InitType DEF SchedTypeOK
  <2>2. SeenTable \in [Sub -> {Seen(r) : r \in Row}]
    BY <2>1 DEF SeenTable
  <2>3. Promised = {}
    BY DEF SchedInit, Promised, JobsOf
  <2> QED
    BY <2>2, <2>3 DEF Atomic!Init, SeenTable, SchedInit, LockInv, Holds
<1>2. SchedTypeOK /\ LockInv /\ [SchedNext]_schedVars => SchedTypeOK' /\ LockInv'
  BY NextType, NextLock
<1>3. SchedTypeOK /\ SchedTypeOK' /\ LockInv /\ [SchedNext]_schedVars => [Atomic!Next]_Atomic!vars
  BY NextRefines
<1> QED
  BY InitType, <1>1, <1>2, <1>3, PTL DEF SchedSpec, AtomicSpec, Atomic!Spec

-----------------------------------------------------------------------------
(* The jobs, and the writes they are numbered by.                            *)

\* A reload that may still add jobs, with the number of its write.
Pending(h) == stage[h] \in {"written", "reload", "list", "add"}

\* Such reloads have numbers of their own, and no job bears them yet; only that of
\* SubscriptionScheduler::start has no write.
NumInv ==
  /\ \A h \in Reloader : Pending(h) => number[h] <= edits /\ (number[h] = 0 <=> h = Boot)
  /\ \A h, g \in Reloader : Pending(h) /\ Pending(g) /\ number[h] = number[g] => h = g
  /\ \A h \in Reloader, j \in live : Pending(h) => j.by # number[h]
  /\ \A j \in live : j.by <= edits

\* A live job is known by its id or lost, never both.
LiveInv ==
  /\ live = job_ids \cup leaked
  /\ job_ids \cap leaked = {}

\* Steps that begin no reload and add no job.
LEMMA NoNewNumber ==
  ASSUME NumInv, NEW h \in Reloader, UNCHANGED edits, live' \subseteq live,
         \A g \in Reloader \ {h} : stage'[g] = stage[g] /\ number'[g] = number[g],
         Pending(h)' => Pending(h) /\ number'[h] = number[h]
  PROVE  NumInv'
BY DEF NumInv, Pending

\* A write begins a reload with a number nobody has had.
LEMMA NewNumber ==
  ASSUME SchedTypeOK, NumInv, NEW h \in Handler, edits' = edits + 1, UNCHANGED live,
         \A g \in Reloader \ {h} : stage'[g] = stage[g] /\ number'[g] = number[g],
         number'[h] = edits + 1
  PROVE  NumInv'
<1>1. edits \in Nat /\ \A g \in Reloader : number[g] \in Nat
  BY SubscriptionAssumption DEF SchedTypeOK
<1>2. \A j \in live : j.by \in Nat
  BY SubscriptionAssumption DEF SchedTypeOK, Job
<1>3. \A g \in Reloader \ {h} : Pending(g)' => Pending(g) /\ number'[g] <= edits
  BY DEF NumInv, Pending
<1>4. h \in Reloader /\ h # Boot
  BY SubscriptionAssumption DEF Reloader
<1>5. \A g \in Reloader : Pending(g)' => number'[g] <= edits' /\ (number'[g] = 0 <=> g = Boot)
  BY <1>1, <1>3, <1>4 DEF NumInv
<1>6. ASSUME NEW f \in Reloader, NEW g \in Reloader, Pending(f)', Pending(g)', number'[f] = number'[g]
      PROVE  f = g
  BY <1>1, <1>3, <1>6 DEF NumInv
<1>7. \A g \in Reloader, j \in live' : Pending(g)' => j.by # number'[g]
  BY <1>1, <1>2, <1>3 DEF NumInv
<1>8. \A j \in live' : j.by <= edits'
  BY <1>1, <1>2 DEF NumInv
<1> QED
  BY <1>5, <1>6, <1>7, <1>8 DEF NumInv

\* The jobs a reload adds bear its number, and it has then none any more.
LEMMA NumberUsed ==
  ASSUME NumInv, NEW h \in Reloader, Pending(h), ~Pending(h)', UNCHANGED edits,
         \A g \in Reloader \ {h} : stage'[g] = stage[g] /\ number'[g] = number[g],
         \A j \in live' : j \in live \/ j.by = number[h]
  PROVE  NumInv'
BY DEF NumInv, Pending

\* The jobs of different rows are different.
LEMMA JobsApart ==
  ASSUME NEW n, NEW done \in SUBSET Listed, NEW cut \in SUBSET Listed, done \cap cut = {}
  PROVE  /\ JobsOf(n, done) \cap JobsOf(n, cut) = {}
         /\ JobsOf(n, done \cup cut) = JobsOf(n, done) \cup JobsOf(n, cut)
<1>1. ASSUME NEW j \in JobsOf(n, done), j \in JobsOf(n, cut) PROVE FALSE
  <2>1. PICK r \in done : j = [by |-> n, sub |-> r.sub, row |-> r.row]
    BY DEF JobsOf
  <2>2. PICK q \in cut : j = [by |-> n, sub |-> q.sub, row |-> q.row]
    BY <1>1 DEF JobsOf
  <2>3. r.sub = q.sub /\ r.row = q.row
    BY <2>1, <2>2
  <2>4. r = q
    BY <2>3 DEF Listed
  <2> QED
    BY <2>4
<1> QED
  BY <1>1 DEF JobsOf

\* The jobs of a reload that adds them, all or some of them.
LEMMA JobsAdded ==
  ASSUME SchedTypeOK, LockInv, NumInv, LiveInv, NEW h \in Reloader, stage[h] = "add",
         NEW done \in SUBSET snap[h], NEW cut \in SUBSET snap[h], done \cap cut = {},
         AddJobs(number[h], done, cut)
  PROVE  LiveInv' /\ \A j \in live' : j \in live \/ j.by = number[h]
<1>1. snap[h] \in SUBSET Listed
  BY DEF SchedTypeOK, Listed
<1>2. job_ids = {} /\ live = leaked
  BY DEF LockInv, Holds, LiveInv
<1>3. \A j \in JobsOf(number[h], done) : j.by = number[h] /\ j \notin leaked
  BY <1>2 DEF JobsOf, NumInv, Pending
<1>4. \A j \in JobsOf(number[h], cut) : j.by = number[h]
  BY DEF JobsOf
<1>5. /\ JobsOf(number[h], done) \cap JobsOf(number[h], cut) = {}
      /\ JobsOf(number[h], done \cup cut) = JobsOf(number[h], done) \cup JobsOf(number[h], cut)
  BY <1>1, JobsApart
<1> QED
  BY <1>2, <1>3, <1>4, <1>5 DEF AddJobs, LiveInv

\* No step breaks these two.
LEMMA NextJobs ==
  ASSUME SchedTypeOK, LockInv, NumInv, LiveInv, [SchedNext]_schedVars
  PROVE  NumInv' /\ LiveInv'
<1> DEFINE Others(h) == \A g \in Reloader \ {h} : stage'[g] = stage[g] /\ number'[g] = number[g]
<1>0. Handler \subseteq Reloader
  BY DEF Reloader
<1>1. ASSUME NEW h \in Handler, NEW s \in Sub, Edit(h, s) PROVE NumInv' /\ LiveInv'
  <2>1. Others(h) /\ number'[h] = edits + 1 /\ edits' = edits + 1
    BY <1>0, <1>1 DEF Edit, Write, GoTo, SchedTypeOK
  <2>2. UNCHANGED <<live, job_ids, leaked>>
    BY <1>1 DEF Edit, jobVars
  <2> QED
    BY <2>1, <2>2, NewNumber DEF LiveInv
<1>2. ASSUME NEW h \in Handler, NEW s \in Sub, DeleteGet(h, s) PROVE NumInv' /\ LiveInv'
  <2>1. Others(h) /\ ~Pending(h)' /\ edits' = edits
    BY <1>0, <1>2 DEF DeleteGet, GoTo, SchedTypeOK, Pending
  <2>2. UNCHANGED <<live, job_ids, leaked>>
    BY <1>2 DEF DeleteGet, jobVars
  <2> QED
    BY <1>0, <2>1, <2>2, NoNewNumber DEF LiveInv
<1>3. ASSUME NEW h \in Handler, ReadBack(h) \/ DeleteDirs(h) PROVE NumInv' /\ LiveInv'
  <2>1. Others(h) /\ number' = number /\ edits' = edits
    BY <1>0, <1>3 DEF ReadBack, DeleteDirs, GoTo, SchedTypeOK
  <2>2. Pending(h)' => Pending(h)
    BY <1>0, <1>3 DEF ReadBack, DeleteDirs, GoTo, SchedTypeOK, Pending
  <2>3. UNCHANGED <<live, job_ids, leaked>>
    BY <1>3 DEF ReadBack, DeleteDirs, jobVars
  <2> QED
    BY <1>0, <2>1, <2>2, <2>3, NoNewNumber DEF LiveInv
<1>4. ASSUME NEW h \in Handler, DeleteRow(h) PROVE NumInv' /\ LiveInv'
  <2>1. UNCHANGED <<live, job_ids, leaked>>
    BY <1>4 DEF DeleteRow, jobVars
  <2>2. CASE edits' = edits + 1 /\ GoTo(h, "reload") /\ number' = [number EXCEPT ![h] = edits + 1]
    <3>1. Others(h) /\ number'[h] = edits + 1
      BY <1>0, <2>2 DEF GoTo, SchedTypeOK
    <3> QED
      BY <2>1, <2>2, <3>1, NewNumber DEF LiveInv
  <2>3. CASE edits' = edits /\ GoTo(h, "idle") /\ number' = number
    <3>1. Others(h) /\ ~Pending(h)'
      BY <1>0, <2>3 DEF GoTo, SchedTypeOK, Pending
    <3> QED
      BY <1>0, <2>1, <2>3, <3>1, NoNewNumber DEF LiveInv
  <2> QED
    BY <1>4, <2>2, <2>3 DEF DeleteRow, Write
<1>5. ASSUME NEW h \in Handler, CutShort(h) PROVE NumInv' /\ LiveInv'
  <2>1. Others(h) /\ ~Pending(h)' /\ edits' = edits
    <3>1. End(h)
      BY <1>5 DEF CutShort, QueryFails, Cancel, CancelDrain, CancelAdd
    <3> QED
      BY <1>0, <3>1 DEF End, GoTo, SchedTypeOK, Pending
  <2>2. CASE UNCHANGED jobVars
    BY <1>0, <2>1, <2>2, NoNewNumber DEF LiveInv, jobVars
  <2>3. CASE CancelDrain(h)
    <3>1. LiveInv' /\ live' \subseteq live
      BY <2>3 DEF CancelDrain, LiveInv
    <3> QED
      BY <1>0, <2>1, <3>1, NoNewNumber
  <2>4. CASE CancelAdd(h)
    <3>1. stage[h] = "add" /\ Pending(h)
      BY <2>4 DEF CancelAdd, Pending
    <3>2. PICK done \in SUBSET snap[h] :
            \E cut \in {{}} \cup {{r} : r \in snap[h] \ done} : AddJobs(number[h], done, cut)
      BY <2>4 DEF CancelAdd
    <3>3. PICK cut \in SUBSET snap[h] : done \cap cut = {} /\ AddJobs(number[h], done, cut)
      BY <3>2
    <3>4. LiveInv' /\ \A j \in live' : j \in live \/ j.by = number[h]
      BY <1>0, <3>1, <3>3, JobsAdded
    <3> QED
      BY <1>0, <2>1, <3>1, <3>4, NumberUsed
  <2> QED
    BY <1>5, <2>2, <2>3, <2>4 DEF CutShort, QueryFails, Cancel
<1>6. ASSUME NEW h \in Reloader, Drain(h) PROVE NumInv' /\ LiveInv'
  <2>1. Others(h) /\ Pending(h) /\ number' = number /\ edits' = edits
    BY <1>6 DEF Drain, GoTo, SchedTypeOK, Pending
  <2>2. LiveInv' /\ live' \subseteq live
    BY <1>6 DEF Drain, LiveInv
  <2> QED
    BY <2>1, <2>2, NoNewNumber
<1>7. ASSUME NEW h \in Reloader, List(h) PROVE NumInv' /\ LiveInv'
  <2>1. Others(h) /\ Pending(h) /\ number' = number /\ edits' = edits
    BY <1>7 DEF List, GoTo, SchedTypeOK, Pending
  <2>2. UNCHANGED <<live, job_ids, leaked>>
    BY <1>7 DEF List, jobVars
  <2> QED
    BY <2>1, <2>2, NoNewNumber DEF LiveInv
<1>8. ASSUME NEW h \in Reloader, Add(h) PROVE NumInv' /\ LiveInv'
  <2>1. Others(h) /\ Pending(h) /\ ~Pending(h)' /\ edits' = edits
    BY <1>8 DEF Add, GoTo, SchedTypeOK, Pending
  <2>2. LiveInv' /\ \A j \in live' : j \in live \/ j.by = number[h]
    <3> DEFINE done == snap[h]
               cut == {}
    <3>1. stage[h] = "add" /\ AddJobs(number[h], done, cut)
      BY <1>8 DEF Add
    <3>2. done \in SUBSET snap[h] /\ cut \in SUBSET snap[h] /\ done \cap cut = {}
      OBVIOUS
    <3> HIDE DEF done, cut
    <3> QED
      BY <3>1, <3>2, JobsAdded
  <2> QED
    BY <2>1, <2>2, NumberUsed
<1>9. ASSUME Crash PROVE NumInv' /\ LiveInv'
  <2>1. live' = {} /\ job_ids' = {} /\ leaked' = {} /\ edits' = edits
    BY <1>9 DEF Crash
  <2>2. \A h \in Reloader : Pending(h)' => h = Boot /\ number'[h] = 0
    BY <1>9 DEF Crash, Pending
  <2>3. 0 <= edits
    BY SubscriptionAssumption DEF SchedTypeOK
  <2> QED
    BY <2>1, <2>2, <2>3 DEF NumInv, LiveInv
<1>10. ASSUME UNCHANGED schedVars PROVE NumInv' /\ LiveInv'
  BY <1>10 DEF schedVars, reqVars, jobVars, NumInv, LiveInv, Pending
<1>11. ASSUME Restore PROVE NumInv' /\ LiveInv'
  <2>1. edits \in Nat /\ \A h \in Reloader : number[h] \in Nat
    BY SubscriptionAssumption DEF SchedTypeOK
  <2>2. \A j \in live : j.by \in Nat
    BY SubscriptionAssumption DEF SchedTypeOK, Job
  <2>3. edits' = edits + 1 /\ UNCHANGED <<stage, number, live, job_ids, leaked>>
    BY <1>11 DEF Restore, reqVars, jobVars
  <2> QED
    BY <2>1, <2>2, <2>3 DEF NumInv, LiveInv, Pending
<1> QED
  BY <1>1, <1>2, <1>3, <1>4, <1>5, <1>6, <1>7, <1>8, <1>9, <1>10, <1>11 DEF SchedNext

-----------------------------------------------------------------------------
(* What the jobs are made of.                                                *)

\* A reload that has still to read the table: the row a request wrote is there until
\* another request, with a reload of its own, deletes it (or a restore sets unsynced).
Owed(h) ==
  \/ stage[h] \in {"reload", "list"}
  \/ stage[h] = "written" /\ Exists(target[h])

\* Unless the last reload was cut short, the jobs known by id are those of the table, or
\* will be: a reload is on its way, or has read the table as it is.
SyncInv ==
  ~unsynced =>
    \/ \E h \in Reloader : Owed(h)
    \/ \E h \in Reloader : stage[h] = "add" /\ snap[h] = EnabledRows
    \/ ~Locked /\ \E n \in 0..MaxEdits : job_ids = JobsOf(n, EnabledRows)

\* Steps that leave the table and the jobs alone, and whose request owes what it owed.
LEMMA SameTable ==
  ASSUME SyncInv, NEW h \in Reloader, UNCHANGED <<rows, snap, job_ids, unsynced>>,
         \A g \in Reloader \ {h} : stage'[g] = stage[g] /\ target'[g] = target[g],
         Owed(h) => Owed(h)', stage[h] # "add", ~Holds(h)'
  PROVE  SyncInv'
<1>1. EnabledRows' = EnabledRows
  BY DEF EnabledRows
<1>2. \A g \in Reloader : Owed(g) => Owed(g)'
  BY DEF Owed, Exists
<1>3. ~Locked => ~Locked'
  BY DEF Locked, Holds
<1> QED
  BY <1>1, <1>2, <1>3 DEF SyncInv

\* No step breaks it.
LEMMA NextSync ==
  ASSUME SchedTypeOK, LockInv, SyncInv, [SchedNext]_schedVars
  PROVE  SyncInv'
<1> DEFINE Others(h) == \A g \in Reloader \ {h} : stage'[g] = stage[g] /\ target'[g] = target[g]
<1>0. Handler \subseteq Reloader
  BY DEF Reloader
<1>1. ASSUME NEW h \in Handler, NEW s \in Sub, Edit(h, s) PROVE SyncInv'
  <2>1. stage'[h] = "written" /\ target'[h] = s
    BY <1>0, <1>1 DEF Edit, GoTo, SchedTypeOK
  <2>2. PICK st \in {"on", "off"}, name \in Name, cron \in {"ok", "bad"} :
          Write(s, [ver |-> edits + 1, st |-> st, name |-> name, cron |-> cron])
    BY <1>1 DEF Edit
  <2>3. rows'[s].st = st
    BY <2>2 DEF Write, SchedTypeOK
  <2>4. Owed(h)'
    BY <2>1, <2>3 DEF Owed, Exists
  <2> QED
    BY <1>0, <2>4 DEF SyncInv
<1>2. ASSUME NEW h \in Handler, NEW s \in Sub, DeleteGet(h, s) PROVE SyncInv'
  <2>1. Others(h) /\ ~Owed(h) /\ stage[h] # "add" /\ ~Holds(h)'
    BY <1>0, <1>2 DEF DeleteGet, GoTo, Idle, Owed, Holds, SchedTypeOK
  <2>2. UNCHANGED <<rows, snap, job_ids, unsynced>>
    BY <1>2 DEF DeleteGet, jobVars
  <2> QED
    BY <1>0, <2>1, <2>2, SameTable
<1>3. ASSUME NEW h \in Handler, ReadBack(h) PROVE SyncInv'
  <2>1. Others(h) /\ stage[h] = "written"
        /\ stage'[h] = IF Exists(target[h]) THEN "reload" ELSE "idle"
    BY <1>0, <1>3 DEF ReadBack, GoTo, SchedTypeOK
  <2>2. UNCHANGED <<rows, snap, job_ids, unsynced>>
    BY <1>3 DEF ReadBack, jobVars
  <2>3. (Owed(h) => Owed(h)') /\ ~Holds(h)'
    BY <2>1 DEF Owed, Holds
  <2> QED
    BY <1>0, <2>1, <2>2, <2>3, SameTable
<1>4. ASSUME NEW h \in Handler, DeleteDirs(h) PROVE SyncInv'
  <2>1. Others(h) /\ ~Owed(h) /\ stage[h] # "add" /\ ~Holds(h)'
    BY <1>0, <1>4 DEF DeleteDirs, GoTo, Owed, Holds, SchedTypeOK
  <2>2. UNCHANGED <<rows, snap, job_ids, unsynced>>
    BY <1>4 DEF DeleteDirs, jobVars
  <2> QED
    BY <1>0, <2>1, <2>2, SameTable
<1>5. ASSUME NEW h \in Handler, DeleteRow(h) PROVE SyncInv'
  <2>1. CASE GoTo(h, "reload")
    <3>1. Owed(h)'
      BY <1>0, <2>1 DEF GoTo, SchedTypeOK, Owed
    <3> QED
      BY <1>0, <3>1 DEF SyncInv
  <2>2. CASE GoTo(h, "idle") /\ UNCHANGED rows
    <3>1. Others(h) /\ ~Owed(h) /\ stage[h] # "add" /\ ~Holds(h)'
      BY <1>0, <1>5, <2>2 DEF DeleteRow, Released, GoTo, Owed, Holds, SchedTypeOK
    <3>2. UNCHANGED <<snap, job_ids, unsynced>>
      BY <1>5 DEF DeleteRow, jobVars
    <3> QED
      BY <1>0, <2>2, <3>1, <3>2, SameTable
  <2> QED
    BY <1>5, <2>1, <2>2 DEF DeleteRow
<1>6. ASSUME NEW h \in Handler, CutShort(h) PROVE SyncInv'
  <2>1. unsynced' = TRUE
    BY <1>6 DEF CutShort, QueryFails, Cancel, CancelDrain, CancelAdd, End
  <2> QED
    BY <2>1 DEF SyncInv
<1>7. ASSUME NEW h \in Reloader, Drain(h) PROVE SyncInv'
  <2>1. Owed(h)'
    BY <1>7 DEF Drain, GoTo, SchedTypeOK, Owed
  <2> QED
    BY <2>1 DEF SyncInv
<1>8. ASSUME NEW h \in Reloader, List(h) PROVE SyncInv'
  <2>1. stage'[h] = "add" /\ snap'[h] = EnabledRows /\ rows' = rows
    BY <1>8 DEF List, GoTo, SchedTypeOK
  <2>2. EnabledRows' = EnabledRows
    BY <2>1 DEF EnabledRows
  <2> QED
    BY <2>1, <2>2 DEF SyncInv
<1>9. ASSUME NEW h \in Reloader, Add(h) PROVE SyncInv'
  <2>1. Others(h) /\ stage[h] = "add" /\ UNCHANGED <<rows, unsynced>>
    BY <1>9 DEF Add, GoTo, SchedTypeOK
  <2>2. job_ids' = JobsOf(number[h], snap[h]) /\ number[h] \in 0..MaxEdits
    BY <1>9 DEF Add, AddJobs, LockInv, Holds, SchedTypeOK
  <2>3. EnabledRows' = EnabledRows
    BY <2>1 DEF EnabledRows
  <2>4. CASE unsynced
    BY <2>1, <2>4 DEF SyncInv
  <2>5. CASE \E g \in Reloader : Owed(g)
    <3>1. PICK g \in Reloader : Owed(g)
      BY <2>5
    <3>2. g # h
      BY <2>1, <3>1 DEF Owed
    <3>3. Owed(g)'
      BY <2>1, <3>1, <3>2 DEF Owed, Exists
    <3> QED
      BY <3>3 DEF SyncInv
  <2>6. CASE \E g \in Reloader : stage[g] = "add" /\ snap[g] = EnabledRows
    <3>1. snap[h] = EnabledRows
      BY <2>1, <2>6 DEF LockInv, Holds
    <3>2. ~Locked'
      BY <1>9 DEF Add, GoTo, Locked, LockInv, Holds, SchedTypeOK
    <3> QED
      BY <2>2, <2>3, <3>1, <3>2 DEF SyncInv
  <2>7. Locked
    BY <2>1 DEF Locked
  <2> QED
    BY <2>4, <2>5, <2>6, <2>7 DEF SyncInv
<1>10. ASSUME Crash \/ Restore PROVE SyncInv'
  BY <1>10 DEF Crash, Restore, SyncInv
<1>11. ASSUME UNCHANGED schedVars PROVE SyncInv'
  <2>1. UNCHANGED <<rows, stage, target, snap, job_ids, unsynced>>
    BY <1>11 DEF schedVars, reqVars, jobVars
  <2>2. EnabledRows' = EnabledRows /\ Locked' = Locked
    BY <2>1 DEF EnabledRows, Locked
  <2>3. \A h \in Reloader : Owed(h)' = Owed(h)
    BY <2>1 DEF Owed, Exists
  <2> QED
    BY <2>1, <2>2, <2>3 DEF SyncInv
<1> QED
  BY <1>1, <1>2, <1>3, <1>4, <1>5, <1>6, <1>7, <1>8, <1>9, <1>10, <1>11 DEF SchedNext

-----------------------------------------------------------------------------
(* Quiet, the scheduler is exact.                                            *)

\* The inductive invariant.
SchedInv == SchedTypeOK /\ LockInv /\ NumInv /\ LiveInv /\ SyncInv

\* While no request is in progress, and unless the last reload was cut short or a restore
\* came after it, there is exactly one job for every enabled row that parses, made of the
\* row as it is (reload_subscriptions), for any number of requests before.
THEOREM ExactWhenQuietHolds == SchedSpec => []ExactWhenQuiet
<1>1. SchedInit => SchedInv
  <2> SUFFICES ASSUME SchedInit PROVE LockInv /\ NumInv /\ LiveInv /\ SyncInv
    BY InitType DEF SchedInv
  <2>1. LockInv
    BY DEF SchedInit, LockInv, Holds
  <2>2. NumInv /\ LiveInv
    <3>1. live = {} /\ job_ids = {} /\ leaked = {} /\ edits = 0
      BY DEF SchedInit
    <3>2. \A h \in Reloader : number[h] = 0 /\ (Pending(h) => h = Boot)
      BY DEF SchedInit, Pending
    <3> QED
      BY <3>1, <3>2 DEF NumInv, LiveInv
  <2>3. SyncInv
    BY DEF SchedInit, SyncInv
  <2> QED
    BY <2>1, <2>2, <2>3
<1>2. SchedInv /\ [SchedNext]_schedVars => SchedInv'
  BY NextType, NextLock, NextJobs, NextSync DEF SchedInv
<1>3. SchedInv => ExactWhenQuiet
  <2> SUFFICES ASSUME SchedInv, Quiet, ~unsynced
               PROVE  \E n \in 0..MaxEdits : live \ leaked = JobsOf(n, EnabledRows)
    BY DEF ExactWhenQuiet
  <2>1. \A h \in Reloader : stage[h] = "idle"
    BY DEF Quiet
  <2>2. PICK n \in 0..MaxEdits : job_ids = JobsOf(n, EnabledRows)
    BY <2>1 DEF SchedInv, SyncInv, Owed
  <2>3. live \ leaked = job_ids
    BY DEF SchedInv, LiveInv
  <2> QED
    BY <2>2, <2>3
<1> QED
  BY <1>1, <1>2, <1>3, PTL DEF SchedSpec

\* What follows from the refinement alone: whatever overlaps, fails or crashes, no
\* subscription has two promised jobs, not even of two states of its row.
THEOREM OneJobEachHolds == SchedSpec => []Atomic!OneJobEach
<1>1. Atomic!Init => Atomic!OneJobEach
  BY DEF Atomic!Init, Atomic!OneJobEach
<1>2. Atomic!OneJobEach /\ [Atomic!Next]_Atomic!vars => Atomic!OneJobEach'
  <2> SUFFICES ASSUME Atomic!OneJobEach, [Atomic!Next]_Atomic!vars PROVE Atomic!OneJobEach'
    OBVIOUS
  <2>1. CASE Atomic!Load
    <3>1. \A i, j \in Atomic!Wanted(SeenTable) : i.sub = j.sub => i = j
      BY DEF Atomic!Wanted
    <3> QED
      BY <2>1, <3>1 DEF Atomic!Load, Atomic!OneJobEach, SeenTable
  <2>2. CASE Promised' \subseteq Promised
    BY <2>2 DEF Atomic!OneJobEach
  <2> QED
    BY <2>1, <2>2 DEF Atomic!Next, Atomic!Clear, Atomic!Lose, Atomic!Edit, Atomic!Replace,
                      Atomic!vars
<1> QED
  BY <1>1, <1>2, ReloadIsAtomic, PTL DEF AtomicSpec, Atomic!Spec
=============================================================================
