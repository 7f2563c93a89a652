---------------------------- MODULE Subscription ----------------------------
(***************************************************************************)
(* Runs of git subscriptions (src/services/subscription.rs): run, the git   *)
(* commands of run_git_operation, the import of loader scripts as tasks     *)
(* (sync_loader_tasks), the status column, and the requests that create,    *)
(* rename and delete a subscription meanwhile.  When jobs begin a run is    *)
(* module SubscriptionScheduler's; here a run of a row may begin at any     *)
(* time.                                                                    *)
(*                                                                          *)
(* Nothing keeps two runs of one subscription apart, nor a run and a        *)
(* delete: they work on one directory with the row each of them read when   *)
(* it began.                                                                *)
(*                                                                          *)
(* A directory is removed file by file, in a thread that goes on when the   *)
(* request it is for is dropped.                                            *)
(*                                                                          *)
(* External: what git does to a directory; its commands end with the        *)
(* server.  All subscriptions are of one owner, and their repositories have *)
(* at most one loader file, of one name, so that they share a task group    *)
(* and a task name.  Left out: the output git prints, the notification,     *)
(* directories of older versions of the program.                            *)
(***************************************************************************)
EXTENDS Naturals, FiniteSets

CONSTANTS
  Sub,         \* subscription ids
  Name,        \* names subscriptions have, as safe_dir_name leaves them
  Run,         \* runs in progress at a time
  Handler,     \* deletes in progress at a time, abandoned removals among them
  MaxEdits,    \* bound on the creates, renames, deletes and crashes
  MaxCrashes,  \* bound on the crashes among them
  Task,        \* ids of the tasks of the loader's name, at most so many at a time
  Cancels,     \* do clients disconnect while their request is served?
  DbFails,     \* may a query fail?
  None         \* no subscription, no name

ASSUME RunAssumption ==
  /\ MaxEdits \in Nat /\ MaxCrashes \in Nat
  /\ Cancels \in BOOLEAN /\ DbFails \in BOOLEAN
  /\ None \notin Sub \cup Name

VARIABLES
  rows,    \* the table subscriptions: which rows there are and their names
  edits,   \* number of changes to it
  crashes, \* number of crashes so far
  del,     \* the deletes: how far they are, and the directory of the row they read
  run,     \* each run: its stage, the row it copied, its outcome
  status,  \* the column last_run_status
  dir,     \* the directory of each id and name, git/<id>-<name>
  group,   \* is there a task group of the owner?
  tasks,   \* the directory whose file each task of the loader's name runs
  stuck,   \* history: subscriptions whose run ended without a status
  messy,   \* history: subscriptions of which a directory may be left
  alone    \* history: runs that nothing else disturbed

rowVars == <<rows, edits, crashes, del>>
vars == <<rowVars, run, status, dir, group, tasks, stuck, messy, alone>>

Dir == Sub \X Name
DelStages == {"idle", "found", "removing", "abandoned", "removed"}
RunStages == {"idle", "got", "ensured", "pull", "reset", "remove", "clone", "cloning",
              "sync", "group", "insert", "count", "update", "create", "write"}
NoDir == <<None, None>>
NoDel == [at |-> "idle", dir |-> NoDir]
NoRun == [at |-> "idle", dir |-> NoDir, outcome |-> "failed", loader |-> FALSE]

TypeOK ==
  /\ rows \in [Sub -> [st : {"unborn", "here", "gone"}, name : Name]]
  /\ edits \in 0..MaxEdits /\ crashes \in 0..MaxCrashes
  /\ del \in [Handler -> [at : DelStages, dir : Dir \cup {NoDir}]]
  /\ run \in [Run -> [at : RunStages, dir : Dir \cup {NoDir},
                      outcome : {"success", "failed"}, loader : BOOLEAN]]
  /\ status \in [Sub -> {"none", "running", "success", "failed"}]
  /\ dir \in [Dir -> {"absent", "partial", "repo"}]
  /\ group \in BOOLEAN
  /\ tasks \in [Task -> Dir \cup {NoDir}]
  /\ stuck \subseteq Sub /\ messy \subseteq Sub /\ alone \subseteq Run

-----------------------------------------------------------------------------
Exists(s) == rows[s].st = "here"
At(r) == run[r].at
SubOf(r) == run[r].dir[1]
MyDir(r) == dir[run[r].dir]
Active(s) == \E r \in Run : At(r) # "idle" /\ SubOf(r) = s
Moves(r, s) == run' = [run EXCEPT ![r].at = s]
DirBecomes(r, d) == dir' = [dir EXCEPT ![run[r].dir] = d]

\* The tasks there are of the loader's name.
Imported == {t \in Task : tasks[t] # NoDir}

Init ==
  /\ \E st \in [Sub -> {"unborn", "here"}], nm \in [Sub -> Name] :
       /\ \A s, u \in Sub : s # u => nm[s] # nm[u] \/ "unborn" \in {st[s], st[u]}
       /\ rows = [s \in Sub |-> [st |-> st[s], name |-> nm[s]]]
  /\ edits = 0 /\ crashes = 0
  /\ del = [h \in Handler |-> NoDel]
  /\ run = [r \in Run |-> NoRun]
  /\ status = [s \in Sub |-> "none"]
  /\ dir = [d \in Dir |-> "absent"]
  /\ group = FALSE
  /\ tasks = [t \in Task |-> NoDir]
  /\ stuck = {} /\ messy = {} /\ alone = {}

-----------------------------------------------------------------------------
(* run.                                                                      *)

\* A request, or a job, which knows the id only: the row need not be enabled.  The row is
\* read, and a missing one is an error.  A directory that a delete has removed already may
\* now be made again.
Begin(r, s) ==
  /\ At(r) = "idle" /\ Exists(s)
  /\ run' = [run EXCEPT ![r] = [NoRun EXCEPT !.at = "got", !.dir = <<s, rows[s].name>>]]
  /\ alone' = IF \A q \in Run : At(q) = "idle" THEN {r} ELSE {}
  /\ messy' = messy \cup {u \in {s} : \E h \in Handler : del[h].at = "removed" /\ del[h].dir[1] = u}
  /\ UNCHANGED <<rowVars, status, dir, group, tasks, stuck>>

Ends(r) == run' = [run EXCEPT ![r] = NoRun] /\ alone' = alone \ {r}

SetStatus(s, v) == status' = IF Exists(s) THEN [status EXCEPT ![s] = v] ELSE status

MarkRunning(r) ==
  /\ At(r) = "got"
  /\ SetStatus(SubOf(r), "running")
  /\ Moves(r, "ensured")
  /\ UNCHANGED <<rowVars, dir, group, tasks, stuck, messy, alone>>

\* The UPDATE fails: run returns the error and spawns nothing.
MarkFails(r) ==
  /\ DbFails /\ At(r) = "got"
  /\ Ends(r)
  /\ UNCHANGED <<rowVars, status, dir, group, tasks, stuck, messy>>

\* The client leaves: the UPDATE may be done, nothing is spawned.
CancelRun(r) ==
  /\ Cancels /\ At(r) = "got"
  /\ \/ SetStatus(SubOf(r), "running") /\ stuck' = stuck \cup {SubOf(r)}
     \/ UNCHANGED <<status, stuck>>
  /\ Ends(r)
  /\ UNCHANGED <<rowVars, dir, group, tasks, messy>>

-----------------------------------------------------------------------------
(* run_git_operation.                                                        *)

rest == <<rowVars, status, group, tasks, stuck, messy, alone>>

\* Faulty: an error is a status of its own.
FailsOddly(r) == run' = [run EXCEPT ![r].at = "write", ![r].outcome = "error"]

Fails(r) == run' = [run EXCEPT ![r].at = "write", ![r].outcome = "failed"]

\* The base directory exists or is made; then the one of the subscription decides.
EnsureDir(r) ==
  /\ At(r) = "ensured"
  /\ Fails(r) \/ Moves(r, IF MyDir(r) = "absent" THEN "clone" ELSE "pull")
  /\ UNCHANGED <<rest, dir>>

\* Lock files are removed, then git pull; without a branch a failure leads straight to a
\* new clone.  If git cannot be started at all the run has failed.
Pull(r) ==
  /\ At(r) = "pull"
  /\ \/ MyDir(r) = "repo" /\ Moves(r, "sync")
     \/ Moves(r, "reset") \/ Moves(r, "remove") \/ Fails(r)
  /\ UNCHANGED <<rest, dir>>

\* git reset --hard to the branch, and on success another pull.
ResetAndPull(r) ==
  /\ At(r) = "reset"
  /\ \/ MyDir(r) = "repo" /\ Moves(r, "sync")
     \/ Moves(r, "remove")
  /\ UNCHANGED <<rest, dir>>

\* File by file; an error is only logged.
RemoveDir(r) ==
  /\ At(r) = "remove"
  /\ \/ MyDir(r) # "absent" /\ DirBecomes(r, "partial") /\ UNCHANGED run
     \/ (DirBecomes(r, "absent") \/ UNCHANGED dir) /\ Moves(r, "clone")
  /\ UNCHANGED rest

\* git clone refuses a directory with something in it.
Clone(r) ==
  /\ At(r) = "clone"
  /\ \/ MyDir(r) = "absent" /\ DirBecomes(r, "partial") /\ Moves(r, "cloning")
     \/ Fails(r) /\ UNCHANGED dir
  /\ UNCHANGED rest

\* A clone that fails removes what it made, or what another run has made since.
CloneEnds(r) ==
  /\ At(r) = "cloning"
  /\ \/ MyDir(r) = "partial" /\ DirBecomes(r, "repo") /\ Moves(r, "sync")
     \/ (DirBecomes(r, "absent") \/ UNCHANGED dir) /\ Fails(r)
  /\ UNCHANGED rest

-----------------------------------------------------------------------------
(* sync_loader_tasks and the final status.                                   *)

\* "?": the run ends here, and the status stays what it is.
SyncFails(r) ==
  /\ stuck' = stuck \cup {SubOf(r)}
  /\ Ends(r)
  /\ UNCHANGED <<rowVars, status, dir, group, tasks, messy>>

ReadDir(r) ==
  /\ At(r) = "sync"
  /\ \/ MyDir(r) # "absent" /\ Moves(r, "group") /\ UNCHANGED <<rest, dir>>
     \/ MyDir(r) = "absent" /\ SyncFails(r)

\* ensure_subscription_import_group: a SELECT, and under another guard an INSERT, which
\* fails if another run was faster: names of groups are UNIQUE.
FindGroup(r) ==
  /\ At(r) = "group"
  /\ \/ Moves(r, IF group THEN "count" ELSE "insert") /\ UNCHANGED <<rest, dir>>
     \/ DbFails /\ SyncFails(r)

InsertGroup(r) ==
  /\ At(r) = "insert"
  /\ \/ /\ ~group /\ group' = TRUE
        /\ Moves(r, "count")
        /\ UNCHANGED <<rowVars, status, dir, tasks, stuck, messy, alone>>
     \/ (group \/ DbFails) /\ SyncFails(r)

\* The listing shows the loader or not; a COUNT that fails counts as 0.
CountTasks(r) ==
  /\ At(r) = "count"
  /\ \/ run' = [run EXCEPT ![r].at = "write", ![r].outcome = "success"] /\ UNCHANGED alone
     \/ /\ run' = [run EXCEPT ![r].at = IF Imported # {} THEN "update" ELSE "create", ![r].loader = TRUE]
        /\ UNCHANGED alone
     \/ /\ DbFails
        /\ run' = [run EXCEPT ![r].at = "create", ![r].loader = TRUE]
        /\ alone' = alone \ {r}
  /\ UNCHANGED <<rowVars, status, dir, group, tasks, stuck, messy>>

Succeeds(r) == run' = [run EXCEPT ![r].at = "write", ![r].outcome = "success"]

\* Faulty: an existing task keeps its command.
UpdateGroupOnly(r) ==
  /\ At(r) = "update"
  /\ Succeeds(r)
  /\ UNCHANGED <<rowVars, status, dir, group, tasks, stuck, messy, alone>>

\* All tasks of the name get this run's command; an error is ignored.
UpdateTasks(r) ==
  /\ At(r) = "update"
  /\ Succeeds(r)
  /\ \/ /\ tasks' = [t \in Task |-> IF t \in Imported THEN run[r].dir ELSE NoDir]
        /\ UNCHANGED alone
     \/ DbFails /\ alone' = alone \ {r} /\ UNCHANGED tasks
  /\ UNCHANGED <<rowVars, status, dir, group, stuck, messy>>

CreateTask(r) ==
  /\ At(r) = "create"
  /\ \/ /\ \E t \in Task \ Imported : tasks' = [tasks EXCEPT ![t] = run[r].dir]
        /\ Succeeds(r)
        /\ UNCHANGED <<rowVars, status, dir, group, stuck, messy, alone>>
     \/ DbFails /\ SyncFails(r)

\* Faulty: only success is written.
ConcludeSuccess(r) ==
  /\ At(r) = "write"
  /\ IF run[r].outcome = "success" THEN SetStatus(SubOf(r), "success") ELSE UNCHANGED status
  /\ stuck' = stuck \ {SubOf(r)}
  /\ Ends(r)
  /\ UNCHANGED <<rowVars, dir, group, tasks, messy>>

\* update_status, whose error is ignored.
Conclude(r) ==
  /\ At(r) = "write"
  /\ \/ SetStatus(SubOf(r), run[r].outcome) /\ stuck' = stuck \ {SubOf(r)}
     \/ DbFails /\ UNCHANGED status /\ stuck' = stuck \cup {SubOf(r)}
  /\ Ends(r)
  /\ UNCHANGED <<rowVars, dir, group, tasks, messy>>

-----------------------------------------------------------------------------
(* Requests and the server.                                                  *)

\* names of subscriptions are UNIQUE.
NameFree(s, n) == \A u \in Sub \ {s} : Exists(u) => rows[u].name # n

SetRow(s, st, n) ==
  /\ edits + crashes < MaxEdits /\ edits' = edits + 1
  /\ rows' = [rows EXCEPT ![s] = [st |-> st, name |-> n]]
  /\ UNCHANGED crashes

Create(s, n) ==
  /\ rows[s].st = "unborn" /\ NameFree(s, n)
  /\ SetRow(s, "here", n)
  /\ UNCHANGED <<del, run, status, dir, group, tasks, stuck, messy, alone>>

\* The directory of the old name is left behind, and not the status.
Rename(s, n) ==
  /\ Exists(s) /\ NameFree(s, n) /\ n # rows[s].name
  /\ SetRow(s, "here", n)
  /\ messy' = messy \cup {s}
  /\ UNCHANGED <<del, run, status, dir, group, tasks, stuck, alone>>

\* delete reads the row; of a missing one it removes nothing.
DeleteGet(h, s) ==
  /\ del[h].at = "idle" /\ Exists(s)
  /\ del' = [del EXCEPT ![h] = [at |-> "found", dir |-> <<s, rows[s].name>>]]
  /\ UNCHANGED <<rows, edits, crashes, run, status, dir, group, tasks, stuck, messy, alone>>

\* Faulty: the directory is looked for under another name.
DeleteOtherDir(h) ==
  /\ del[h].at = "found"
  /\ del' = [del EXCEPT ![h].at = "removed"]
  /\ UNCHANGED <<rows, edits, crashes, run, status, dir, group, tasks, stuck, messy, alone>>

\* The directory of the name that was read is to be removed, if it is there.
DeleteDir(h) ==
  /\ del[h].at = "found"
  /\ IF dir[del[h].dir] # "absent"
     THEN del' = [del EXCEPT ![h].at = "removing"] /\ UNCHANGED messy
     ELSE /\ del' = [del EXCEPT ![h].at = "removed"]
          /\ messy' = messy \cup {s \in {del[h].dir[1]} : Active(s)}
  /\ UNCHANGED <<rows, edits, crashes, run, status, dir, group, tasks, stuck, alone>>

\* Some of its files are gone.
Removes(h) ==
  /\ del[h].at \in {"removing", "abandoned"} /\ dir[del[h].dir] # "absent"
  /\ dir' = [dir EXCEPT ![del[h].dir] = "partial"]
  /\ alone' = {r \in alone : run[r].dir # del[h].dir}
  /\ UNCHANGED <<rows, edits, crashes, del, run, status, group, tasks, stuck, messy>>

\* The rest is, or the removal fails, which is ignored.  Nobody waits for an abandoned one.
RemovalEnds(h) ==
  /\ del[h].at \in {"removing", "abandoned"}
  /\ LET d == del[h].dir
         waits == del[h].at = "removing"
     IN  /\ del' = [del EXCEPT ![h] = IF waits THEN [at |-> "removed", dir |-> d] ELSE NoDel]
         /\ \/ /\ dir' = [dir EXCEPT ![d] = "absent"]
               /\ messy' = messy \cup {s \in {d[1]} : waits /\ Active(s)}
            \/ /\ messy' = messy \cup {s \in {d[1]} : waits}
               /\ UNCHANGED dir
         /\ alone' = {r \in alone : run[r].dir # d}
  /\ UNCHANGED <<rows, edits, crashes, run, status, group, tasks, stuck>>

\* Another delete may have been faster: 404.
DeleteRow(h) ==
  /\ del[h].at = "removed"
  /\ LET s == del[h].dir[1]
     IN  \/ Exists(s) /\ SetRow(s, "gone", rows[s].name)
         \/ ~Exists(s) /\ UNCHANGED <<rows, edits, crashes>>
  /\ del' = [del EXCEPT ![h] = NoDel]
  /\ UNCHANGED <<run, status, dir, group, tasks, stuck, messy, alone>>

\* A query fails, or the client leaves: the removal it waits for goes on without it.
DeleteEnds(h) ==
  /\ \/ /\ (DbFails /\ del[h].at = "removed") \/ (Cancels /\ del[h].at \in {"found", "removed"})
        /\ del' = [del EXCEPT ![h] = NoDel]
     \/ /\ Cancels /\ del[h].at = "removing"
        /\ del' = [del EXCEPT ![h].at = "abandoned"]
  /\ UNCHANGED <<rows, edits, crashes, run, status, dir, group, tasks, stuck, messy, alone>>

\* A user deletes the imported tasks.
UserDeletesTasks ==
  /\ Imported # {}
  /\ tasks' = [t \in Task |-> NoDir]
  /\ alone' = {}
  /\ UNCHANGED <<rowVars, run, status, dir, group, stuck, messy>>

\* Runs and requests end with the server; directories, rows and tasks survive, half-made
\* or not, and nothing resets a status.
Crash ==
  /\ crashes < MaxCrashes /\ edits + crashes < MaxEdits
  /\ crashes' = crashes + 1
  /\ run' = [r \in Run |-> NoRun] /\ del' = [h \in Handler |-> NoDel]
  /\ alone' = {}
  /\ stuck' = stuck \cup {s \in Sub : status[s] = "running"}
  /\ UNCHANGED <<rows, edits, status, dir, group, tasks, messy>>

-----------------------------------------------------------------------------
GitStep(r) ==
  EnsureDir(r) \/ Pull(r) \/ ResetAndPull(r) \/ RemoveDir(r) \/ Clone(r) \/ CloneEnds(r)

SyncStep(r) ==
  \/ ReadDir(r) \/ FindGroup(r) \/ InsertGroup(r)
  \/ CountTasks(r) \/ UpdateTasks(r) \/ CreateTask(r) \/ Conclude(r)

Next ==
  \/ \E r \in Run, s \in Sub : Begin(r, s)
  \/ \E r \in Run : MarkRunning(r) \/ MarkFails(r) \/ CancelRun(r) \/ GitStep(r) \/ SyncStep(r)
  \/ \E s \in Sub, n \in Name : Create(s, n) \/ Rename(s, n)
  \/ \E h \in Handler, s \in Sub : DeleteGet(h, s)
  \/ \E h \in Handler : DeleteDir(h) \/ Removes(h) \/ RemovalEnds(h) \/ DeleteRow(h) \/ DeleteEnds(h)
  \/ UserDeletesTasks
  \/ Crash

Spec == Init /\ [][Next]_vars

-----------------------------------------------------------------------------
(* Properties.                                                               *)

\* A subscription shown as running is being run, whichever of its runs wrote last, but
\* for the known ways to end without a status: an error in the import, a status that
\* could not be written, a request dropped while it was marked, a crash.
RunningMeansRun ==
  \A s \in Sub : Exists(s) /\ status[s] = "running" =>
    s \in stuck \/ \E r \in Run : At(r) \notin {"idle", "got"} /\ SubOf(r) = s

\* A run that nothing disturbed, no other run, no removal of its directory, abandoned or
\* not, no user, reports success only of a repository that is there, and
\* with its loader imported: there is a task, and every task of that name runs the file
\* of its directory, and not one that another subscription or an earlier name left.
AloneImports ==
  \A r \in alone : At(r) = "write" /\ run[r].outcome = "success" =>
    /\ MyDir(r) = "repo"
    /\ run[r].loader => Imported # {} /\ \A t \in Imported : tasks[t] = run[r].dir

\* A deleted subscription leaves no directory, unless it had been renamed, one of its runs
\* was in progress or began during the delete, or the directory could not be removed.
DeletedLeavesNothing ==
  \A s \in Sub : rows[s].st = "gone" /\ s \notin messy =>
    \A n \in Name : dir[<<s, n>>] = "absent"
=============================================================================
