---------------------------- MODULE TaskExecutor ----------------------------
(***************************************************************************)
(* The life of a task run: Executor::execute, execute_stream and            *)
(* kill_task_with_log (src/services/executor.rs), the code that calls them  *)
(* and writes the run's log row (src/scheduler/mod.rs, src/main.rs), the    *)
(* operating system's processes, and the two ways a run is cut off: abort() *)
(* of an interval job's handle and a client that leaves a streamed run.     *)
(*                                                                          *)
(* An execution runs optional pre-command, main command (once, or once per  *)
(* account, in batches) and optional post-command.  Every lock acquisition  *)
(* and every await of the code that another actor can observe separates two *)
(* actions here.  Output lines, notifications of the running list, and the  *)
(* trimming of old log rows are not part of this module: "logged" holds     *)
(* every row ever inserted.                                                 *)
(***************************************************************************)
EXTENDS Naturals, FiniteSets

CONSTANTS
  Task,          \* task ids
  Exec,          \* execution ids (a fresh UUID per run; bounds the number of runs)
  Killer,        \* concurrent kill requests
  Origins,       \* the kinds of callers of the executor that occur
  Pid,           \* process ids the kernel can hand out
  MaxAccounts,   \* longest account list
  SystemMax,     \* the configuration key account_max_concurrency
  PidReuse,      \* may the kernel hand out the pid of a process already reaped?
  KillSpawnFails,\* may spawning the kill command fail?
  None           \* stands for Option::None

\* "task": run_task_now or a cron job, each in a task of its own; "interval": the loop
\* of spawn_interval_task; "startup": the startup loop of main.rs; "stream": the SSE
\* response of run_task_stream.
ASSUME ExecutorAssumption ==
  /\ Origins \subseteq {"task", "interval", "startup", "stream"}
  /\ MaxAccounts \in Nat \ {0}
  /\ SystemMax \in Nat \ {0}
  /\ PidReuse \in BOOLEAN /\ KillSpawnFails \in BOOLEAN
  /\ None \notin Task \cup Exec \cup Pid \cup Origins

VARIABLES
  pc,            \* stage of each execution
  task,          \* the task an execution runs
  origin,        \* who called the executor
  plan,          \* account plan of the main command
  nextAcct,      \* accounts whose command was started or skipped
  overall,       \* overall_success
  cmd,           \* stage of each tracked command (execution, account)
  proc,          \* the operating-system process of each tracked command
  pid,           \* its pid
  running_tasks, \* registry: pids per task; {} is an absent key
  executions,    \* keys of executions and of log_channels, inserted and removed together
  log_buffers,   \* keys of the log_buffers map
  killer,        \* progress of each kill request
  signals,       \* pids a spawned kill -9 has not reached yet
  logged,        \* log rows inserted: <<execution, status>>
  unsaved        \* (history) executions whose row could not be inserted

runVars  == <<pc, task, origin, plan, nextAcct, overall>>
cmdVars  == <<cmd, proc, pid>>
mapVars  == <<executions, log_buffers>>
killVars == <<killer, signals>>
logVars  == <<logged, unsaved>>
vars == <<runVars, cmdVars, running_tasks, mapVars, killVars, logVars>>

Cmd == Exec \X (1..MaxAccounts)

\* "stalled": the pre- or post-command and the server wait for each other (Stall).
Stages == {"idle", "prep", "pre", "main", "post", "finish", "failing", "returned",
           "stalled", "done", "errored", "dropped"}
Over == {"done", "errored", "dropped"}
CmdStages == {"idle", "starting", "spawned", "registered", "reaped", "ended",
              "error", "skipped", "dropped"}
\* "orphan": the shell is dead, a child it forked still runs and holds the pipes.
ProcStates == {"none", "alive", "orphan", "ok", "bad"}

-----------------------------------------------------------------------------
(* Account plan: resolve_account_run_plan.                                   *)

SinglePlan == [mode |-> "single", accounts |-> 1, width |-> 1]

\* The task's account_concurrency r, raised to 1 and capped by the system value.
ActualConcurrency(r) ==
  LET requested == IF r < 1 THEN 1 ELSE r
  IN  IF requested < SystemMax THEN requested ELSE SystemMax

\* At most one account falls back to a single run; sequential is a batch of one.
Plans ==
  {SinglePlan}
    \cup [mode : {"sequential"}, accounts : 2..MaxAccounts, width : {1}]
    \cup {[mode |-> "concurrent", accounts |-> n, width |-> ActualConcurrency(r)] :
             n \in 2..MaxAccounts, r \in 0..MaxAccounts}

TypeOK ==
  /\ pc \in [Exec -> Stages]
  /\ task \in [Exec -> Task \cup {None}]
  /\ origin \in [Exec -> Origins \cup {None}]
  /\ plan \in [Exec -> Plans]
  /\ nextAcct \in [Exec -> 0..MaxAccounts]
  /\ overall \in [Exec -> BOOLEAN]
  /\ cmd \in [Cmd -> CmdStages]
  /\ proc \in [Cmd -> ProcStates]
  /\ pid \in [Cmd -> Pid \cup {None}]
  /\ running_tasks \in [Task -> SUBSET Pid]
  /\ executions \subseteq Exec
  /\ log_buffers \subseteq Exec
  /\ killer \in [Killer -> [stage : {"idle", "read", "clean", "log"},
                            task : Task \cup {None}, info : Exec \cup {None}]]
  /\ signals \subseteq Pid
  /\ logged \subseteq Exec \X {"success", "failed", "killed"}
  /\ unsaved \subseteq Exec

-----------------------------------------------------------------------------
Cmds(e) == {e} \X (1..MaxAccounts)
Owner(c) == c[1]

\* A tracked command whose future is being polled, and one that has returned.
Active(c) == cmd[c] \in {"starting", "spawned", "registered", "reaped"}
Returned(c) == cmd[c] \in {"ended", "error", "skipped"}

Live(c) == proc[c] \in {"alive", "orphan"}

\* The kernel keeps a pid until its process is waited for; dropping a Child leaves
\* the wait to tokio's orphan reaper.
PidHeld(c) ==
  \/ proc[c] = "alive"
  \/ proc[c] \in {"orphan", "ok", "bad"} /\ cmd[c] \in {"spawned", "registered"}

FreePids ==
  Pid \ {pid[c] : c \in IF PidReuse THEN {d \in Cmd : PidHeld(d)} ELSE Cmd}

GoTo(e, stage) == pc' = [pc EXCEPT ![e] = stage]

Forget(e) == executions' = executions \ {e}

-----------------------------------------------------------------------------
Init ==
  /\ pc = [e \in Exec |-> "idle"]
  /\ task = [e \in Exec |-> None]
  /\ origin = [e \in Exec |-> None]
  /\ plan = [e \in Exec |-> SinglePlan]
  /\ nextAcct = [e \in Exec |-> 0]
  /\ overall = [e \in Exec |-> TRUE]
  /\ cmd = [c \in Cmd |-> "idle"]
  /\ proc = [c \in Cmd |-> "none"]
  /\ pid = [c \in Cmd |-> None]
  /\ running_tasks = [t \in Task |-> {}]
  /\ executions = {} /\ log_buffers = {}
  /\ killer = [k \in Killer |-> [stage |-> "idle", task |-> None, info |-> None]]
  /\ signals = {} /\ logged = {} /\ unsaved = {}

\* A run begins: channel, buffer and execution record are inserted.  Nobody can name
\* the execution before the third insertion, so the three are one step.
Start(e, t, o) ==
  /\ pc[e] = "idle"
  /\ GoTo(e, "prep")
  /\ task' = [task EXCEPT ![e] = t]
  /\ origin' = [origin EXCEPT ![e] = o]
  /\ executions' = executions \cup {e}
  /\ log_buffers' = log_buffers \cup {e}
  /\ UNCHANGED <<plan, nextAcct, overall, cmdVars, running_tasks, killVars, logVars>>

\* Creating the working directory fails: execute returns Err through "?" and leaves
\* its three map entries behind.
PrepError(e) ==
  /\ pc[e] = "prep"
  /\ GoTo(e, "failing")
  /\ UNCHANGED <<task, origin, plan, nextAcct, overall, cmdVars, running_tasks,
                 mapVars, killVars, logVars>>

\* The exit-IP switch fails, or the pre-command fails: entries removed, Ok(.., false).
GiveUp(e) ==
  /\ pc[e] \in {"prep", "pre"}
  /\ origin[e] # "stream"
  /\ GoTo(e, "returned")
  /\ overall' = [overall EXCEPT ![e] = FALSE]
  /\ Forget(e)
  /\ log_buffers' = log_buffers \ {e}
  /\ UNCHANGED <<task, origin, plan, nextAcct, cmdVars, running_tasks, killVars, logVars>>

\* The pre-command starts; execute_command does not enter it in running_tasks.
BeginPre(e) ==
  /\ pc[e] = "prep"
  /\ origin[e] # "stream"
  /\ GoTo(e, "pre")
  /\ UNCHANGED <<task, origin, plan, nextAcct, overall, cmdVars, running_tasks,
                 mapVars, killVars, logVars>>

\* The main command's plan is fixed (pre-command done or absent).  A streamed run has
\* neither pre-command nor accounts.
BeginMain(e) ==
  /\ pc[e] \in {"prep", "pre"}
  /\ GoTo(e, "main")
  /\ \E p \in IF origin[e] = "stream" THEN {SinglePlan} ELSE Plans :
       plan' = [plan EXCEPT ![e] = p]
  /\ UNCHANGED <<task, origin, nextAcct, overall, cmdVars, running_tasks, mapVars,
                 killVars, logVars>>

-----------------------------------------------------------------------------
(* The main command: batches of tracked commands, joined before the next.    *)

Joined(e) == \A c \in Cmds(e) : ~Active(c)
NoError(e) == \A c \in Cmds(e) : cmd[c] # "error"

\* Faulty: the last, shorter chunk is not cut to the account list.
BatchEndUncapped(e) == nextAcct[e] + plan[e].width

\* Last account of the next chunk of accounts.chunks(width).
BatchEnd(e) ==
  IF nextAcct[e] + plan[e].width < plan[e].accounts
  THEN nextAcct[e] + plan[e].width ELSE plan[e].accounts

StartBatch(e) ==
  /\ pc[e] = "main" /\ NoError(e)
  /\ nextAcct[e] < plan[e].accounts
  /\ nextAcct' = [nextAcct EXCEPT ![e] = BatchEnd(e)]
  /\ cmd' = [c \in Cmd |-> IF c \in {e} \X (nextAcct[e] + 1 .. BatchEnd(e))
                           THEN "starting" ELSE cmd[c]]
  /\ UNCHANGED <<pc, task, origin, plan, overall, proc, pid, running_tasks,
                 mapVars, killVars, logVars>>

\* Faulty: the next batch starts without join_all of the one before.
BeginBatchUnjoined(e) == StartBatch(e)

BeginBatch(e) == Joined(e) /\ StartBatch(e)

\* Sequential mode switches the exit IP before each account; on failure the account is
\* skipped and the run goes on.
SkipAccount(e) ==
  /\ pc[e] = "main" /\ Joined(e) /\ NoError(e)
  /\ plan[e].mode = "sequential"
  /\ nextAcct[e] < plan[e].accounts
  /\ nextAcct' = [nextAcct EXCEPT ![e] = @ + 1]
  /\ cmd' = [cmd EXCEPT ![<<e, nextAcct[e] + 1>>] = "skipped"]
  /\ overall' = [overall EXCEPT ![e] = FALSE]
  /\ UNCHANGED <<pc, task, origin, plan, proc, pid, running_tasks, mapVars, killVars, logVars>>

\* A command of the joined batch returned Err: so does execute, leaving its entries.
MainError(e) ==
  /\ pc[e] = "main" /\ Joined(e) /\ ~NoError(e)
  /\ GoTo(e, "failing")
  /\ UNCHANGED <<task, origin, plan, nextAcct, overall, cmdVars, running_tasks,
                 mapVars, killVars, logVars>>

MainDone(e) ==
  /\ pc[e] = "main" /\ Joined(e) /\ NoError(e)
  /\ nextAcct[e] = plan[e].accounts
  /\ \E stage \in IF origin[e] = "stream" THEN {"finish"} ELSE {"post", "finish"} :
       GoTo(e, stage)
  /\ UNCHANGED <<task, origin, plan, nextAcct, overall, cmdVars, running_tasks,
                 mapVars, killVars, logVars>>

\* execute_command reads the standard output of a pre- or post-command to its end before
\* it reads the error output.  A command that fills the pipe of its error output waits
\* for the server, and the server waits for it.  Its pid is not in running_tasks, so no
\* kill request can end it; only the run's own future can still be dropped.
Stall(e) ==
  /\ pc[e] \in {"pre", "post"}
  /\ GoTo(e, "stalled")
  /\ UNCHANGED <<task, origin, plan, nextAcct, overall, cmdVars, running_tasks, mapVars,
                 killVars, logVars>>

\* The post-command ran, whatever became of the main command.
EndPost(e) ==
  /\ pc[e] = "post"
  /\ GoTo(e, "finish")
  /\ \E ok \in BOOLEAN : overall' = [overall EXCEPT ![e] = @ /\ ok]
  /\ UNCHANGED <<task, origin, plan, nextAcct, cmdVars, running_tasks, mapVars,
                 killVars, logVars>>

\* Channel and record are removed; the buffer is not.  A streamed run ends here.
Finish(e) ==
  /\ pc[e] = "finish"
  /\ GoTo(e, IF origin[e] = "stream" THEN "done" ELSE "returned")
  /\ Forget(e)
  /\ UNCHANGED <<task, origin, plan, nextAcct, overall, cmdVars, running_tasks,
                 log_buffers, killVars, logVars>>

\* Faulty: like the startup loop, no caller writes a row when execute returned Err.
RowOkOnly(e) ==
  IF pc[e] = "returned" THEN {<<e, IF overall[e] THEN "success" ELSE "failed">>} ELSE {}

\* The row the caller of execute writes: none when execute returned Err in the startup
\* loop of main.rs.  Nobody writes a row for a streamed run.
RowOf(e) ==
  IF pc[e] = "returned" THEN {<<e, IF overall[e] THEN "success" ELSE "failed">>}
  ELSE IF origin[e] \in {"task", "interval"} THEN {<<e, "failed">>} ELSE {}

\* The caller writes the run's row.  A failing insert (the task's row is gone, the
\* database is busy or its pool closed) is logged, and the caller goes on without a row.
Record(e) ==
  /\ pc[e] \in {"returned", "failing"}
  /\ GoTo(e, IF pc[e] = "returned" THEN "done" ELSE "errored")
  /\ \/ logged' = logged \cup RowOf(e) /\ UNCHANGED unsaved
     \/ RowOf(e) # {} /\ unsaved' = unsaved \cup {e} /\ UNCHANGED logged
  /\ UNCHANGED <<task, origin, plan, nextAcct, overall, cmdVars, running_tasks,
                 mapVars, killVars>>

-----------------------------------------------------------------------------
(* One tracked command: execute_tracked_command, and the body of a streamed  *)
(* run, which takes the same steps.                                          *)

Spawn(c) ==
  /\ cmd[c] = "starting"
  /\ \E p \in FreePids :
       /\ pid' = [pid EXCEPT ![c] = p]
       /\ proc' = [proc EXCEPT ![c] = "alive"]
       /\ cmd' = [cmd EXCEPT ![c] = "spawned"]
  /\ UNCHANGED <<runVars, running_tasks, mapVars, killVars, logVars>>

SpawnError(c) ==
  /\ cmd[c] = "starting"
  /\ cmd' = [cmd EXCEPT ![c] = "error"]
  /\ UNCHANGED <<runVars, proc, pid, running_tasks, mapVars, killVars, logVars>>

Register(c) ==
  /\ cmd[c] = "spawned"
  /\ cmd' = [cmd EXCEPT ![c] = "registered"]
  /\ running_tasks' = [running_tasks EXCEPT ![task[Owner(c)]] = @ \cup {pid[c]}]
  /\ UNCHANGED <<runVars, proc, pid, mapVars, killVars, logVars>>

\* Faulty: waits for the shell alone, not for the end of its output.
ReapShellOnly(c) ==
  /\ cmd[c] = "registered"
  /\ proc[c] \in {"ok", "bad", "orphan"}
  /\ cmd' = [cmd EXCEPT ![c] = "reaped"]
  /\ UNCHANGED <<runVars, proc, pid, running_tasks, mapVars, killVars, logVars>>

\* Both pipes reached end of file and the child was waited for.
Reap(c) ==
  /\ cmd[c] = "registered"
  /\ proc[c] \in {"ok", "bad"}
  /\ cmd' = [cmd EXCEPT ![c] = "reaped"]
  /\ UNCHANGED <<runVars, proc, pid, running_tasks, mapVars, killVars, logVars>>

\* Faulty: the pid of a failed command stays listed.
RegistryWithoutOnSuccess(c) == running_tasks[task[Owner(c)]] \ {d \in {pid[c]} : proc[c] = "ok"}
\* Faulty: the end of one command drops the whole entry of its task.
RegistryWithoutTask(c) == {}
\* Faulty: the result of the last account overwrites the earlier ones.
OverallOfLast(c) == proc[c] = "ok"

\* running_tasks entry of the task after this command's pid was filtered out.
RegistryWithout(c) == running_tasks[task[Owner(c)]] \ {pid[c]}

OverallWith(c) == overall[Owner(c)] /\ proc[c] = "ok"

\* Faulty: gives up waiting for the entry when a kill took the pid off the registry.
UnregisterListed(c) ==
  /\ cmd[c] = "reaped"
  /\ pid[c] \in running_tasks[task[Owner(c)]]
  /\ cmd' = [cmd EXCEPT ![c] = "ended"]
  /\ running_tasks' = [running_tasks EXCEPT ![task[Owner(c)]] = RegistryWithout(c)]
  /\ overall' = [overall EXCEPT ![Owner(c)] = OverallWith(c)]
  /\ UNCHANGED <<pc, task, origin, plan, nextAcct, proc, pid, mapVars, killVars, logVars>>

\* The pid leaves the registry, if a kill has not removed it, and the result counts.
Unregister(c) ==
  /\ cmd[c] = "reaped"
  /\ cmd' = [cmd EXCEPT ![c] = "ended"]
  /\ running_tasks' = [running_tasks EXCEPT ![task[Owner(c)]] = RegistryWithout(c)]
  /\ overall' = [overall EXCEPT ![Owner(c)] = OverallWith(c)]
  /\ UNCHANGED <<pc, task, origin, plan, nextAcct, proc, pid, mapVars, killVars, logVars>>

-----------------------------------------------------------------------------
(* The operating system.                                                     *)

\* A process ends by itself; an orphaned child's shell has already failed.
ProcExit(c) ==
  /\ Live(c)
  /\ \E s \in IF proc[c] = "alive" THEN {"ok", "bad"} ELSE {"bad"} :
       proc' = [proc EXCEPT ![c] = s]
  /\ UNCHANGED <<runVars, cmd, pid, running_tasks, mapVars, killVars, logVars>>

\* kill -9 reaches whatever process has the pid now.  It hits sh alone: a child that sh
\* forked survives and keeps the output pipes open.
Deliver(p) ==
  /\ p \in signals
  /\ signals' = signals \ {p}
  /\ LET hit == {c \in Cmd : pid[c] = p /\ proc[c] = "alive"}
     IN  \E s \in {"bad", "orphan"} :
           proc' = [c \in Cmd |-> IF c \in hit THEN s ELSE proc[c]]
  /\ UNCHANGED <<runVars, cmd, pid, running_tasks, mapVars, killer, logVars>>

-----------------------------------------------------------------------------
(* kill_task_with_log.                                                       *)

\* The request clones the record of some execution of the task, if there is one.
KillRead(k, t) ==
  /\ killer[k].stage = "idle"
  /\ LET ofTask == {e \in executions : task[e] = t}
     IN  \E i \in IF ofTask = {} THEN {None} ELSE ofTask :
           killer' = [killer EXCEPT ![k] = [stage |-> "read", task |-> t, info |-> i]]
  /\ UNCHANGED <<runVars, cmdVars, running_tasks, mapVars, signals, logVars>>

KillerIdle == [stage |-> "idle", task |-> None, info |-> None]

\* The task's pids leave the registry and a kill -9 is spawned for each, with no await
\* in between.  An empty entry is "Task not running".  The first spawn error ends the
\* request with Err; the pids after it are neither signalled nor put back.
KillTake(k) ==
  LET pids == running_tasks[killer[k].task]
  IN  /\ killer[k].stage = "read"
      /\ running_tasks' = [running_tasks EXCEPT ![killer[k].task] = {}]
      /\ \E sent \in IF KillSpawnFails THEN SUBSET pids ELSE {pids} :
           /\ signals' = signals \cup sent
           /\ killer' = [killer EXCEPT ![k] =
                           IF pids = {} \/ sent # pids \/ @.info = None
                           THEN KillerIdle ELSE [@ EXCEPT !.stage = "clean"]]
      /\ UNCHANGED <<runVars, cmdVars, mapVars, logVars>>

KillClean(k) ==
  /\ killer[k].stage = "clean"
  /\ Forget(killer[k].info)
  /\ log_buffers' = log_buffers \ {killer[k].info}
  /\ killer' = [killer EXCEPT ![k].stage = "log"]
  /\ UNCHANGED <<runVars, cmdVars, running_tasks, signals, logVars>>

\* A failing insert of the row of a kill is logged and the request still answers Ok.
KillLog(k) ==
  /\ killer[k].stage = "log"
  /\ logged' \in {logged, logged \cup {<<killer[k].info, "killed">>}}
  /\ killer' = [killer EXCEPT ![k] = KillerIdle]
  /\ UNCHANGED <<runVars, cmdVars, running_tasks, mapVars, signals, unsaved>>

\* The client of a kill request disconnects: its handler is dropped at an await.
KillAbandon(k) ==
  /\ killer[k].stage # "idle"
  /\ killer' = [killer EXCEPT ![k] = KillerIdle]
  /\ UNCHANGED <<runVars, cmdVars, running_tasks, mapVars, signals, logVars>>

-----------------------------------------------------------------------------
\* A run's future is dropped at an await: reload_tasks aborts an interval job, or the
\* client of a streamed run goes away.  No cleanup runs and the child is not killed.
Drop(e) ==
  /\ origin[e] \in {"interval", "stream"}
  /\ pc[e] \notin {"idle"} \cup Over
  /\ GoTo(e, "dropped")
  /\ cmd' = [c \in Cmd |-> IF c \in Cmds(e) /\ Active(c) THEN "dropped" ELSE cmd[c]]
  /\ UNCHANGED <<task, origin, plan, nextAcct, overall, proc, pid, running_tasks,
                 mapVars, killVars, logVars>>

-----------------------------------------------------------------------------
RunStep(e) ==
  \/ PrepError(e) \/ GiveUp(e) \/ BeginPre(e) \/ BeginMain(e)
  \/ BeginBatch(e) \/ SkipAccount(e) \/ MainError(e) \/ MainDone(e)
  \/ EndPost(e) \/ Finish(e) \/ Record(e)

CmdStep(c) == Spawn(c) \/ SpawnError(c) \/ Register(c) \/ Reap(c) \/ Unregister(c)

KillStep(k) == KillTake(k) \/ KillClean(k) \/ KillLog(k)

Next ==
  \/ \E e \in Exec : \/ \E t \in Task, o \in Origins : Start(e, t, o)
                     \/ RunStep(e)
                     \/ Stall(e)
                     \/ Drop(e)
  \/ \E c \in Cmd : CmdStep(c) \/ ProcExit(c)
  \/ \E p \in Pid : Deliver(p)
  \/ \E k \in Killer : \/ \E t \in Task : KillRead(k, t)
                       \/ KillStep(k)
                       \/ KillAbandon(k)

Spec == Init /\ [][Next]_vars

\* Every future that is not dropped keeps being polled; commands end by themselves
\* (the assumption on user scripts), but for a pre- or post-command that the order of
\* execute_command's reads blocks, which stays "stalled"; a spawned kill -9 reaches its pid.
Fairness ==
  /\ \A e \in Exec : WF_vars(RunStep(e))
  /\ \A c \in Cmd : WF_vars(CmdStep(c)) /\ WF_vars(ProcExit(c))
  /\ \A p \in Pid : WF_vars(Deliver(p))
  /\ \A k \in Killer : WF_vars(KillStep(k))

FairSpec == Spec /\ Fairness

-----------------------------------------------------------------------------
(* Properties.                                                               *)

\* What list_running shows is true: a pid stays in the registry under task t only while
\* a command of t that registered it has not yet unregistered it.  The one exception is
\* a run whose future was dropped (src/services/executor.rs:1237-1245 never ran).
RegistryBacked ==
  \A t \in Task : \A p \in running_tasks[t] :
    \E c \in Cmd : /\ task[Owner(c)] = t
                   /\ pid[c] = p
                   /\ cmd[c] \in {"registered", "reaped", "dropped"}

\* A registered command whose shell runs can be reached by a kill: its pid is in the
\* registry, or a kill is on its way to it.  It needs that the kernel does not reuse pids
\* in the meantime and that kill requests can spawn their kill commands.
Killable ==
  ~PidReuse /\ ~KillSpawnFails =>
    \A c \in Cmd : cmd[c] = "registered" /\ proc[c] = "alive" =>
      pid[c] \in running_tasks[task[Owner(c)]] \cup signals

\* A "success" row means that every account's command ran and exited 0, in particular
\* that no kill cut one short, however the results of the batches came in.
SuccessHonest ==
  \A e \in Exec : <<e, "success">> \in logged =>
    \A a \in 1..plan[e].accounts : cmd[<<e, a>>] = "ended" /\ proc[<<e, a>>] = "ok"

\* Accounts run in order, batch by batch, never more at once than the plan allows.
BatchesInOrder ==
  \A e \in Exec : \A a \in 1..MaxAccounts : Active(<<e, a>>) =>
    \A b \in 1..MaxAccounts :
      /\ (b - 1) \div plan[e].width < (a - 1) \div plan[e].width => Returned(<<e, b>>)
      /\ (b - 1) \div plan[e].width > (a - 1) \div plan[e].width => cmd[<<e, b>>] = "idle"

\* The post-command (cleanup) and the log row come after the last process of the main
\* command is gone, also when a kill left an orphan holding its pipes.
PostAfterMain ==
  \A e \in Exec : pc[e] \in {"post", "finish", "returned", "done"} =>
    \A c \in Cmds(e) : ~Live(c)

\* A run started by a user or by cron ends with a log row of its own, killed or not.
\* The exceptions: its insert failed, which is only logged, or its pre- or post-command
\* is blocked for ever by the order in which execute_command reads the two pipes.
RunRecorded ==
  \A e \in Exec : pc[e] = "prep" /\ origin[e] = "task" ~>
    \/ \E s \in {"success", "failed"} : <<e, s>> \in logged
    \/ e \in unsaved
    \/ pc[e] = "stalled"

\* Every run that is neither dropped nor blocked in its pre- or post-command ends, and
\* then none of its pids is listed as running, however kill requests interfered.
RunEnds ==
  \A e \in Exec : pc[e] = "prep" ~>
    \/ pc[e] \in {"dropped", "stalled"}
    \/ /\ pc[e] \in Over
       /\ \A c \in Cmds(e) : pid[c] \notin running_tasks[task[e]] /\ ~Live(c)

\* kill "terminates the running task": once a run is recorded as killed it starts no
\* further process.
KilledRunStartsNothing ==
  [][\A c \in Cmd : <<Owner(c), "killed">> \in logged =>
       ~(proc[c] = "none" /\ proc'[c] = "alive")]_vars
=============================================================================
