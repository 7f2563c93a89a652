------------------------ MODULE TaskExecutorProofs ------------------------
(***************************************************************************)
(* Proofs about TaskExecutor, for any number of tasks, runs, accounts, kill *)
(* requests and process ids, with and without reuse of process ids.         *)
(***************************************************************************)
EXTENDS TaskExecutor, TLAPS

-----------------------------------------------------------------------------
(* Operators.                                                                *)

\* A tracked command is an execution and an account.
LEMMA CmdPair ==
  ASSUME NEW c \in Cmd
  PROVE  Owner(c) \in Exec /\ c[2] \in 1..MaxAccounts /\ c = <<Owner(c), c[2]>>
BY DEF Cmd, Owner

LEMMA CmdsOf ==
  ASSUME NEW e \in Exec, NEW c
  PROVE  c \in Cmds(e) <=> c \in Cmd /\ Owner(c) = e
BY DEF Cmd, Cmds, Owner

\* resolve_account_run_plan: between one and MaxAccounts accounts, and chunks that are
\* not empty and not wider than the configured maximum.
LEMMA PlanShape ==
  ASSUME NEW p \in Plans
  PROVE  /\ p.accounts \in 1..MaxAccounts
         /\ p.width \in Nat \ {0}
         /\ p.width <= SystemMax
<1> USE ExecutorAssumption
<1>1. CASE p = SinglePlan
  BY <1>1 DEF SinglePlan
<1>2. CASE p \in [mode : {"sequential"}, accounts : 2..MaxAccounts, width : {1}]
  BY <1>2
<1>3. CASE \E n \in 2..MaxAccounts, r \in 0..MaxAccounts :
             p = [mode |-> "concurrent", accounts |-> n, width |-> ActualConcurrency(r)]
  <2>1. PICK n \in 2..MaxAccounts, r \in 0..MaxAccounts :
             p = [mode |-> "concurrent", accounts |-> n, width |-> ActualConcurrency(r)]
    BY <1>3
  <2>2. ActualConcurrency(r) \in Nat \ {0} /\ ActualConcurrency(r) <= SystemMax
    BY DEF ActualConcurrency
  <2> QED
    BY <2>1, <2>2
<1> QED
  BY <1>1, <1>2, <1>3 DEF Plans

\* A chunk is not empty and ends within the account list.
LEMMA BatchBounds ==
  ASSUME TypeOK, NEW e \in Exec, nextAcct[e] < plan[e].accounts
  PROVE  /\ BatchEnd(e) \in 1..MaxAccounts
         /\ nextAcct[e] < BatchEnd(e)
         /\ BatchEnd(e) <= plan[e].accounts
<1>1. plan[e] \in Plans /\ nextAcct[e] \in 0..MaxAccounts /\ MaxAccounts \in Nat
  BY ExecutorAssumption DEF TypeOK
<1>2. plan[e].accounts \in 1..MaxAccounts /\ plan[e].width \in Nat \ {0}
  BY <1>1, PlanShape
<1> QED
  BY <1>1, <1>2 DEF BatchEnd

\* The steps that leave every tracked command as it is.
LEMMA OtherStepsKeepCommands ==
  ASSUME [Next]_vars
  PROVE  \/ UNCHANGED cmdVars
         \/ \E e \in Exec : BeginBatch(e) \/ SkipAccount(e) \/ Drop(e)
         \/ \E c \in Cmd : CmdStep(c) \/ ProcExit(c)
         \/ \E p \in Pid : Deliver(p)
BY DEF Next, RunStep, KillStep, vars, cmdVars, Start, PrepError, GiveUp, BeginPre, BeginMain,
       MainError, MainDone, Stall, EndPost, Finish, Record, KillRead, KillTake, KillClean,
       KillLog, KillAbandon

-----------------------------------------------------------------------------
(* Types.                                                                    *)

\* What the types rest on: a command past its spawn has a pid, and a kill request knows
\* its task, and the execution whose record it read; a run that started knows its task.
PidKnown ==
  \A c \in Cmd : cmd[c] \in {"spawned", "registered", "reaped", "ended"} => pid[c] \in Pid

KillerKnown ==
  \A k \in Killer : /\ killer[k].stage # "idle" => killer[k].task \in Task
                    /\ killer[k].stage \in {"clean", "log"} => killer[k].info \in Exec

TaskKnown == \A e \in Exec : pc[e] # "idle" => task[e] \in Task

TypeInv == TypeOK /\ PidKnown /\ KillerKnown /\ TaskKnown

\* Every variable keeps its type.
THEOREM TypeCorrect == Spec => []TypeInv
<1> USE DEF GoTo, Forget, logVars
<1>1. Init => TypeInv
  <2> SUFFICES ASSUME Init PROVE TypeInv
    OBVIOUS
  <2>1. SinglePlan \in Plans /\ 0 \in 0..MaxAccounts
    BY ExecutorAssumption DEF Plans
  <2>2. killer \in [Killer -> [stage : {"idle", "read", "clean", "log"},
                               task : Task \cup {None}, info : Exec \cup {None}]]
    BY DEF Init
  <2> QED
    BY <2>1, <2>2 DEF Init, TypeInv, TypeOK, PidKnown, KillerKnown, TaskKnown,
                         Stages, CmdStages, ProcStates
<1>2. TypeInv /\ [Next]_vars => TypeOK'
  <2> SUFFICES ASSUME TypeOK, PidKnown, KillerKnown, [Next]_vars PROVE TypeOK'
    BY DEF TypeInv
  <2>1. ASSUME NEW e \in Exec, NEW t \in Task, NEW o \in Origins, Start(e, t, o) PROVE TypeOK'
    BY <2>1 DEF Start, TypeOK, Stages, cmdVars, killVars
  <2>2. ASSUME NEW e \in Exec, PrepError(e) \/ GiveUp(e) \/ BeginPre(e) \/ MainError(e)
                               \/ MainDone(e) \/ Stall(e) \/ EndPost(e) \/ Finish(e)
        PROVE TypeOK'
    <3>1. CASE PrepError(e) \/ BeginPre(e) \/ MainError(e) \/ Stall(e)
      BY <3>1 DEF PrepError, BeginPre, MainError, Stall, TypeOK, Stages, cmdVars, mapVars, killVars
    <3>2. CASE GiveUp(e)
      BY <3>2 DEF GiveUp, TypeOK, Stages, cmdVars, killVars
    <3>3. CASE MainDone(e)
      BY <3>3 DEF MainDone, TypeOK, Stages, cmdVars, mapVars, killVars
    <3>4. CASE EndPost(e)
      <4>1. PICK ok \in BOOLEAN : overall' = [overall EXCEPT ![e] = @ /\ ok]
        BY <3>4 DEF EndPost
      <4>2. overall' \in [Exec -> BOOLEAN]
        BY <4>1 DEF TypeOK
      <4> QED
        BY <3>4, <4>2 DEF EndPost, TypeOK, Stages, cmdVars, mapVars, killVars
    <3>5. CASE Finish(e)
      BY <3>5 DEF Finish, TypeOK, Stages, cmdVars, killVars
    <3> QED
      BY <2>2, <3>1, <3>2, <3>3, <3>4, <3>5
  <2>3. ASSUME NEW e \in Exec, BeginMain(e) PROVE TypeOK'
    <3>1. SinglePlan \in Plans
      BY DEF Plans
    <3>2. plan' \in [Exec -> Plans]
      BY <2>3, <3>1 DEF BeginMain, TypeOK
    <3> QED
      BY <2>3, <3>2 DEF BeginMain, TypeOK, Stages, cmdVars, mapVars, killVars
  <2>4. ASSUME NEW e \in Exec, BeginBatch(e) PROVE TypeOK'
    <3>1. BatchEnd(e) \in 0..MaxAccounts
      BY <2>4, BatchBounds, ExecutorAssumption DEF BeginBatch, StartBatch
    <3>2. cmd' \in [Cmd -> CmdStages]
      BY <2>4 DEF BeginBatch, StartBatch, TypeOK, CmdStages
    <3> QED
      BY <2>4, <3>1, <3>2 DEF BeginBatch, StartBatch, TypeOK, mapVars, killVars
  <2>5. ASSUME NEW e \in Exec, SkipAccount(e) PROVE TypeOK'
    <3>1. nextAcct[e] + 1 \in 0..MaxAccounts
      <4>1. plan[e] \in Plans /\ nextAcct[e] \in 0..MaxAccounts /\ MaxAccounts \in Nat
        BY ExecutorAssumption DEF TypeOK
      <4>2. plan[e].accounts \in 1..MaxAccounts
        BY <4>1, PlanShape
      <4> QED
        BY <2>5, <4>1, <4>2 DEF SkipAccount
    <3> QED
      BY <2>5, <3>1 DEF SkipAccount, TypeOK, CmdStages, mapVars, killVars
  <2>6. ASSUME NEW e \in Exec, Record(e) PROVE TypeOK'
    <3>1. /\ logged' \subseteq Exec \X {"success", "failed", "killed"}
          /\ unsaved' \subseteq Exec
      BY <2>6 DEF Record, RowOf, TypeOK
    <3> QED
      BY <2>6, <3>1 DEF Record, TypeOK, Stages, cmdVars, mapVars, killVars
  <2>7. ASSUME NEW e \in Exec, Drop(e) PROVE TypeOK'
    BY <2>7 DEF Drop, TypeOK, Stages, CmdStages, mapVars, killVars
  <2>8. ASSUME NEW c \in Cmd, CmdStep(c) \/ ProcExit(c) PROVE TypeOK'
    <3>1. CASE Spawn(c)
      BY <3>1 DEF Spawn, FreePids, TypeOK, CmdStages, ProcStates, runVars, mapVars, killVars
    <3>2. CASE SpawnError(c) \/ Reap(c)
      BY <3>2 DEF SpawnError, Reap, TypeOK, CmdStages, runVars, mapVars, killVars
    <3>3. CASE Register(c)
      <4>1. pid[c] \in Pid
        BY <3>3 DEF Register, PidKnown
      <4> QED
        BY <3>3, <4>1 DEF Register, TypeOK, CmdStages, runVars, mapVars, killVars
    <3>4. CASE Unregister(c)
      <4>1. overall' \in [Exec -> BOOLEAN]
        BY <3>4 DEF Unregister, OverallWith, TypeOK
      <4>2. running_tasks' \in [Task -> SUBSET Pid]
        BY <3>4 DEF Unregister, RegistryWithout, TypeOK
      <4> QED
        BY <3>4, <4>1, <4>2 DEF Unregister, TypeOK, CmdStages, mapVars, killVars
    <3>5. CASE ProcExit(c)
      BY <3>5 DEF ProcExit, TypeOK, ProcStates, runVars, mapVars, killVars
    <3> QED
      BY <2>8, <3>1, <3>2, <3>3, <3>4, <3>5 DEF CmdStep
  <2>9. ASSUME NEW p \in Pid, Deliver(p) PROVE TypeOK'
    BY <2>9 DEF Deliver, TypeOK, ProcStates, runVars, mapVars
  <2>10. ASSUME NEW k \in Killer, NEW t \in Task, KillRead(k, t) PROVE TypeOK'
    BY <2>10 DEF KillRead, TypeOK, runVars, cmdVars, mapVars
  <2>11. ASSUME NEW k \in Killer, KillTake(k) PROVE TypeOK'
    <3> DEFINE pids == running_tasks[killer[k].task]
    <3>1. killer[k].task \in Task /\ pids \subseteq Pid
      BY <2>11 DEF KillTake, KillerKnown, TypeOK
    <3>2. PICK sent \in SUBSET pids :
            /\ signals' = signals \cup sent
            /\ \/ killer' = [killer EXCEPT ![k] = KillerIdle]
               \/ killer' = [killer EXCEPT ![k].stage = "clean"]
      BY <2>11 DEF KillTake, TypeOK
    <3>3. /\ signals' \subseteq Pid
          /\ killer' \in [Killer -> [stage : {"idle", "read", "clean", "log"},
                                     task : Task \cup {None}, info : Exec \cup {None}]]
      BY <3>1, <3>2 DEF KillerIdle, TypeOK
    <3>4. running_tasks' \in [Task -> SUBSET Pid]
      BY <2>11 DEF KillTake, TypeOK
    <3> QED
      BY <2>11, <3>3, <3>4 DEF KillTake, TypeOK, runVars, cmdVars, mapVars
  <2>12. ASSUME NEW k \in Killer, KillClean(k) \/ KillLog(k) \/ KillAbandon(k) PROVE TypeOK'
    <3>1. CASE KillClean(k)
      BY <3>1 DEF KillClean, TypeOK, runVars, cmdVars
    <3>2. CASE KillLog(k)
      <4>1. killer[k].info \in Exec
        BY <3>2 DEF KillLog, KillerKnown
      <4> QED
        BY <3>2, <4>1 DEF KillLog, KillerIdle, TypeOK, runVars, cmdVars, mapVars
    <3>3. CASE KillAbandon(k)
      BY <3>3 DEF KillAbandon, KillerIdle, TypeOK, runVars, cmdVars, mapVars
    <3> QED
      BY <2>12, <3>1, <3>2, <3>3
  <2>13. CASE UNCHANGED vars
    BY <2>13 DEF vars, runVars, cmdVars, mapVars, killVars, TypeOK
  <2> QED
    BY <2>1, <2>2, <2>3, <2>4, <2>5, <2>6, <2>7, <2>8, <2>9, <2>10, <2>11, <2>12, <2>13
       DEF Next, RunStep, KillStep
<1>3. TypeInv /\ [Next]_vars => PidKnown'
  <2> SUFFICES ASSUME TypeOK, PidKnown, [Next]_vars, NEW c \in Cmd,
                      cmd'[c] \in {"spawned", "registered", "reaped", "ended"}
               PROVE  pid'[c] \in Pid
    BY DEF TypeInv, PidKnown
  <2>1. CASE UNCHANGED cmdVars
    BY <2>1 DEF cmdVars, PidKnown
  <2>2. ASSUME NEW e \in Exec, BeginBatch(e) \/ SkipAccount(e) \/ Drop(e) PROVE pid'[c] \in Pid
    <3>1. cmd[c] = cmd'[c] /\ pid' = pid
      BY <2>2 DEF BeginBatch, StartBatch, SkipAccount, Drop, TypeOK
    <3> QED
      BY <3>1 DEF PidKnown
  <2>3. ASSUME NEW d \in Cmd, Spawn(d) PROVE pid'[c] \in Pid
    BY <2>3 DEF Spawn, FreePids, TypeOK, PidKnown
  <2>4. ASSUME NEW d \in Cmd, SpawnError(d) \/ Register(d) \/ Reap(d) \/ Unregister(d)
        PROVE pid'[c] \in Pid
    BY <2>4 DEF SpawnError, Register, Reap, Unregister, TypeOK, PidKnown
  <2>5. ASSUME NEW d \in Cmd, ProcExit(d) PROVE pid'[c] \in Pid
    BY <2>5 DEF ProcExit, PidKnown
  <2>6. ASSUME NEW p \in Pid, Deliver(p) PROVE pid'[c] \in Pid
    BY <2>6 DEF Deliver, PidKnown
  <2>7. \/ UNCHANGED cmdVars
        \/ \E e \in Exec : BeginBatch(e) \/ SkipAccount(e) \/ Drop(e)
        \/ \E d \in Cmd : CmdStep(d) \/ ProcExit(d)
        \/ \E p \in Pid : Deliver(p)
    BY OtherStepsKeepCommands
  <2> QED
    BY <2>1, <2>2, <2>3, <2>4, <2>5, <2>6, <2>7 DEF CmdStep
<1>4. TypeInv /\ [Next]_vars => KillerKnown'
  <2> SUFFICES ASSUME TypeOK, KillerKnown, [Next]_vars PROVE KillerKnown'
    BY DEF TypeInv
  <2>1. CASE UNCHANGED killer
    BY <2>1 DEF KillerKnown
  <2>2. ASSUME NEW k \in Killer, NEW t \in Task, KillRead(k, t) PROVE KillerKnown'
    BY <2>2 DEF KillRead, TypeOK, KillerKnown
  <2>3. ASSUME NEW k \in Killer, KillTake(k) PROVE KillerKnown'
    BY <2>3 DEF KillTake, KillerIdle, TypeOK, KillerKnown
  <2>4. ASSUME NEW k \in Killer, KillClean(k) \/ KillLog(k) \/ KillAbandon(k) PROVE KillerKnown'
    BY <2>4 DEF KillClean, KillLog, KillAbandon, KillerIdle, TypeOK, KillerKnown
  <2>5. \/ UNCHANGED killer
        \/ \E k \in Killer : KillStep(k) \/ KillAbandon(k) \/ \E t \in Task : KillRead(k, t)
    BY DEF Next, RunStep, CmdStep, KillStep, vars, killVars, Start, PrepError, GiveUp,
           BeginPre, BeginMain, BeginBatch, StartBatch, SkipAccount, MainError, MainDone,
           Stall, EndPost, Finish, Record, Spawn, SpawnError, Register, Reap, Unregister, ProcExit,
           Deliver, Drop
  <2> QED
    BY <2>1, <2>2, <2>3, <2>4, <2>5 DEF KillStep
<1>5. TypeInv /\ [Next]_vars => TaskKnown'
  <2> SUFFICES ASSUME TypeOK, TaskKnown, [Next]_vars PROVE TaskKnown'
    BY DEF TypeInv
  <2>1. ASSUME NEW e \in Exec, NEW t \in Task, NEW o \in Origins, Start(e, t, o) PROVE TaskKnown'
    BY <2>1 DEF Start, TypeOK, TaskKnown
  <2>2. ASSUME task' = task, \A e \in Exec : pc[e] = "idle" => pc'[e] = "idle" PROVE TaskKnown'
    BY <2>2 DEF TaskKnown
  <2>3. ASSUME NEW e \in Exec, RunStep(e) \/ Stall(e) \/ Drop(e) PROVE TaskKnown'
    BY <2>2, <2>3 DEF RunStep, TypeOK, PrepError, GiveUp, BeginPre, BeginMain, BeginBatch, StartBatch,
       SkipAccount, MainError, MainDone, Stall, EndPost, Finish, Record, Drop
  <2>4. ASSUME NEW c \in Cmd, CmdStep(c) \/ ProcExit(c) PROVE TaskKnown'
    BY <2>2, <2>4 DEF CmdStep, Spawn, SpawnError, Register, Reap, Unregister, ProcExit, runVars
  <2>5. ASSUME NEW p \in Pid, Deliver(p) PROVE TaskKnown'
    BY <2>2, <2>5 DEF Deliver, runVars
  <2>6. ASSUME NEW k \in Killer, KillStep(k) \/ KillAbandon(k) \/ \E t \in Task : KillRead(k, t)
        PROVE  TaskKnown'
    BY <2>2, <2>6 DEF KillStep, KillTake, KillClean, KillLog, KillAbandon, KillRead, runVars
  <2>7. CASE UNCHANGED vars
    BY <2>2, <2>7 DEF vars, runVars
  <2> QED
    BY <2>1, <2>3, <2>4, <2>5, <2>6, <2>7 DEF Next
<1> QED
  BY <1>1, <1>2, <1>3, <1>4, <1>5, PTL DEF Spec, TypeInv

\* Every variable keeps its type: TypeOK is the first part of the inductive TypeInv.
THEOREM WellTyped == Spec => []TypeOK
BY TypeCorrect, PTL DEF TypeInv

-----------------------------------------------------------------------------
(* Runs, their commands and the registry.                                    *)

\* Every account's command ran and exited 0.
AllOk(e) == \A a \in 1..plan[e].accounts : cmd[<<e, a>>] = "ended" /\ proc[<<e, a>>] = "ok"

\* Exactly the commands up to nextAcct have been started or skipped.
Frontier ==
  /\ \A e \in Exec : pc[e] = "idle" => nextAcct[e] = 0
  /\ \A c \in Cmd : c[2] <= nextAcct[Owner(c)] <=> cmd[c] # "idle"

\* Commands are polled only while their run is in its main command.
Hosting ==
  \A c \in Cmd : /\ Active(c) => pc[Owner(c)] = "main"
                 /\ cmd[c] = "dropped" => pc[Owner(c)] = "dropped"

\* A command without a process, and one whose process is gone.
ProcStage ==
  \A c \in Cmd : /\ cmd[c] \in {"idle", "starting", "error", "skipped"} => proc[c] = "none"
                 /\ cmd[c] \in {"reaped", "ended"} => proc[c] \in {"ok", "bad"}

\* overall_success forgets no failure.
Honest ==
  \A c \in Cmd : overall[Owner(c)] =>
    cmd[c] # "skipped" /\ (cmd[c] = "ended" => proc[c] = "ok")

Completed ==
  \A e \in Exec : pc[e] \in {"post", "finish", "returned"} /\ overall[e] => AllOk(e)

Recorded == \A e \in Exec : <<e, "success">> \in logged => pc[e] = "done" /\ AllOk(e)

CmdInv == Frontier /\ Hosting /\ ProcStage /\ Honest

RunInv == CmdInv /\ Completed /\ Recorded /\ RegistryBacked

\* AllOk is about commands in Cmd, whose processes are over for good.
LEMMA AllOkStays ==
  ASSUME TypeOK, NEW e \in Exec, AllOk(e), plan'[e] = plan[e],
         \A c \in Cmd : cmd[c] = "ended" /\ proc[c] = "ok" => cmd'[c] = "ended" /\ proc'[c] = "ok"
  PROVE  AllOk(e)'
<1>1. plan[e] \in Plans
  BY DEF TypeOK
<1>2. plan[e].accounts \in 1..MaxAccounts
  BY <1>1, PlanShape
<1>3. \A a \in 1..plan[e].accounts : <<e, a>> \in Cmd
  BY <1>2, ExecutorAssumption DEF Cmd
<1> QED
  BY <1>3 DEF AllOk

\* A run moves on while its commands rest.
LEMMA RunMoves ==
  ASSUME TypeOK, RunInv, NEW e \in Exec, NEW s, s \notin {"idle", "main"}, GoTo(e, s),
         pc[e] \notin {"idle", "dropped"},
         pc[e] = "main" => Joined(e),
         UNCHANGED <<task, plan, nextAcct, cmdVars, running_tasks>>,
         \A f \in Exec : overall'[f] => overall[f],
         s \in {"post", "finish", "returned"} /\ overall'[e] => AllOk(e),
         <<e, "success">> \in logged' => s = "done" /\ AllOk(e),
         \A f \in Exec \ {e} : <<f, "success">> \in logged' => <<f, "success">> \in logged
  PROVE  RunInv'
<1>1. /\ pc'[e] = s
      /\ \A f \in Exec \ {e} : pc'[f] = pc[f]
  BY DEF GoTo, TypeOK
<1>2. UNCHANGED <<cmd, proc, pid>>
  BY DEF cmdVars
<1>3. \A c \in Cmd : Owner(c) \in Exec
  BY CmdPair
<1>4. \A c \in Cmd : Owner(c) = e => ~Active(c) /\ cmd[c] # "dropped"
  BY CmdsOf DEF RunInv, CmdInv, Hosting, Joined
<1>5. Frontier' /\ ProcStage'
  BY <1>1, <1>2 DEF RunInv, CmdInv, Frontier, ProcStage
<1>6. Hosting'
  BY <1>1, <1>2, <1>3, <1>4 DEF RunInv, CmdInv, Hosting, Active
<1>7. Honest'
  BY <1>2, <1>3 DEF RunInv, CmdInv, Honest
<1>8. \A f \in Exec : AllOk(f)' <=> AllOk(f)
  BY <1>2 DEF AllOk
<1>9. Completed'
  BY <1>1, <1>8 DEF RunInv, Completed
<1>10. Recorded'
  BY <1>1, <1>8 DEF RunInv, Recorded
<1>11. RegistryBacked'
  BY <1>2 DEF RunInv, RegistryBacked
<1> QED
  BY <1>5, <1>6, <1>7, <1>9, <1>10, <1>11 DEF RunInv, CmdInv

\* When the main command is done and nothing failed, every account's command ran.
LEMMA MainAllOk ==
  ASSUME TypeOK, CmdInv, NEW e \in Exec, pc[e] = "main", Joined(e), NoError(e),
         nextAcct[e] = plan[e].accounts, overall[e]
  PROVE  AllOk(e)
<1> SUFFICES ASSUME NEW a \in 1..plan[e].accounts
             PROVE  cmd[<<e, a>>] = "ended" /\ proc[<<e, a>>] = "ok"
  BY DEF AllOk
<1> DEFINE c == <<e, a>>
<1>1. plan[e] \in Plans
  BY DEF TypeOK
<1>2. plan[e].accounts \in 1..MaxAccounts
  BY <1>1, PlanShape
<1>3. c \in Cmd /\ c[2] = a /\ Owner(c) = e
  BY <1>2, ExecutorAssumption DEF Cmd, Owner
<1>4. c \in Cmds(e)
  BY <1>3, CmdsOf
<1>5. a <= nextAcct[e]
  BY <1>2, ExecutorAssumption
<1>6. cmd[c] # "idle"
  BY <1>3, <1>5 DEF CmdInv, Frontier
<1>7. ~Active(c) /\ cmd[c] # "error"
  BY <1>4 DEF Joined, NoError
<1>8. cmd[c] # "dropped" /\ cmd[c] # "skipped"
  BY <1>3 DEF CmdInv, Hosting, Honest
<1>9. cmd[c] = "ended"
  BY <1>3, <1>6, <1>7, <1>8 DEF TypeOK, CmdStages, Active
<1> QED
  BY <1>3, <1>9 DEF CmdInv, Honest

\* The inductive invariant behind the theorems that follow.
LEMMA RunInvariant == Spec => []RunInv
<1> USE DEF logVars
<1>1. Init => RunInv
  <2> SUFFICES ASSUME Init PROVE RunInv
    OBVIOUS
  <2>1. \A c \in Cmd : Owner(c) \in Exec /\ c[2] \in 1..MaxAccounts
    BY CmdPair
  <2>2. CmdInv
    BY <2>1 DEF Init, CmdInv, Frontier, Hosting, ProcStage, Honest, Active
  <2> QED
    BY <2>2 DEF Init, RunInv, Completed, Recorded, RegistryBacked
<1>2. TypeInv /\ RunInv /\ [Next]_vars => RunInv'
  <2> SUFFICES ASSUME TypeOK, PidKnown, RunInv, [Next]_vars PROVE RunInv'
    BY DEF TypeInv
  <2> USE DEF GoTo
  <2>0. \A c \in Cmd : Owner(c) \in Exec /\ c[2] \in 1..MaxAccounts /\ c = <<Owner(c), c[2]>>
    BY CmdPair
  <2>1. ASSUME NEW e \in Exec, NEW t \in Task, NEW o \in Origins, Start(e, t, o) PROVE RunInv'
    <3>1. /\ pc'[e] = "prep" /\ \A f \in Exec \ {e} : pc'[f] = pc[f] /\ task'[f] = task[f]
          /\ UNCHANGED <<plan, nextAcct, overall, cmd, proc, pid, running_tasks, logged>>
      BY <2>1 DEF Start, TypeOK, cmdVars
    <3>2. \A c \in Cmd : Owner(c) = e => cmd[c] = "idle"
      <4> SUFFICES ASSUME NEW c \in Cmd, Owner(c) = e PROVE cmd[c] = "idle"
        OBVIOUS
      <4>1. nextAcct[e] = 0 /\ c[2] \in 1..MaxAccounts
        BY <2>0, <2>1 DEF Start, RunInv, CmdInv, Frontier
      <4> QED
        BY <4>1, ExecutorAssumption DEF RunInv, CmdInv, Frontier
    <3>3. CmdInv'
      BY <2>0, <3>1, <3>2 DEF RunInv, CmdInv, Frontier, Hosting, ProcStage, Honest, Active
    <3>4. Completed' /\ Recorded'
      BY <2>1, <3>1 DEF Start, RunInv, Completed, Recorded, AllOk
    <3>5. RegistryBacked'
      BY <2>0, <3>1, <3>2 DEF RunInv, RegistryBacked
    <3> QED
      BY <3>3, <3>4, <3>5 DEF RunInv
  <2>2. ASSUME NEW e \in Exec, PrepError(e) \/ GiveUp(e) \/ BeginPre(e) \/ MainError(e)
                               \/ Stall(e)
        PROVE RunInv'
    <3>1. \A f \in Exec : <<f, "success">> \in logged' => <<f, "success">> \in logged /\ f # e
      BY <2>2 DEF PrepError, GiveUp, BeginPre, MainError, Stall, RunInv, Recorded
    <3>2. CASE PrepError(e) \/ BeginPre(e) \/ MainError(e) \/ Stall(e)
      <4>1. PICK s \in {"failing", "pre", "stalled"} : pc' = [pc EXCEPT ![e] = s]
        BY <3>2 DEF PrepError, BeginPre, MainError, Stall
      <4> QED
        BY <3>1, <3>2, <4>1, RunMoves DEF PrepError, BeginPre, MainError, Stall
    <3>3. CASE GiveUp(e)
      <4>1. ~overall'[e] /\ \A f \in Exec : overall'[f] => overall[f]
        BY <3>3 DEF GiveUp, TypeOK
      <4> QED
        BY <3>1, <3>3, <4>1, RunMoves DEF GiveUp
    <3> QED
      BY <2>2, <3>2, <3>3
  <2>3. ASSUME NEW e \in Exec, MainDone(e) PROVE RunInv'
    <3>1. PICK s \in {"post", "finish"} : pc' = [pc EXCEPT ![e] = s]
      BY <2>3 DEF MainDone
    <3>2. overall[e] => AllOk(e)
      BY <2>3, MainAllOk DEF MainDone, RunInv
    <3>3. <<e, "success">> \notin logged
      BY <2>3 DEF MainDone, RunInv, Recorded
    <3> QED
      BY <2>3, <3>1, <3>2, <3>3, RunMoves DEF MainDone
  <2>4. ASSUME NEW e \in Exec, EndPost(e) \/ Finish(e) PROVE RunInv'
    <3>1. overall[e] => AllOk(e)
      BY <2>4 DEF EndPost, Finish, RunInv, Completed
    <3>2. <<e, "success">> \notin logged
      BY <2>4 DEF EndPost, Finish, RunInv, Recorded
    <3>3. CASE EndPost(e)
      <4>1. \A f \in Exec : overall'[f] => overall[f]
        BY <3>3 DEF EndPost, TypeOK
      <4> QED
        BY <3>1, <3>2, <3>3, <4>1, RunMoves DEF EndPost
    <3>4. CASE Finish(e)
      <4>1. PICK s \in {"done", "returned"} : pc' = [pc EXCEPT ![e] = s]
        BY <3>4 DEF Finish
      <4> QED
        BY <3>1, <3>2, <3>4, <4>1, RunMoves DEF Finish
    <3> QED
      BY <2>4, <3>3, <3>4
  <2>5. ASSUME NEW e \in Exec, Record(e) PROVE RunInv'
    <3>1. PICK s \in {"done", "errored"} :
            pc' = [pc EXCEPT ![e] = s] /\ (s = "done" <=> pc[e] = "returned")
      BY <2>5 DEF Record
    <3>2. <<e, "success">> \in logged' => pc[e] = "returned" /\ overall[e]
      BY <2>5 DEF Record, RowOf, RunInv, Recorded
    <3>3. \A f \in Exec \ {e} : <<f, "success">> \in logged' => <<f, "success">> \in logged
      BY <2>5 DEF Record, RowOf
    <3>4. <<e, "success">> \in logged' => s = "done" /\ AllOk(e)
      BY <3>1, <3>2 DEF RunInv, Completed
    <3> QED
      BY <2>5, <3>1, <3>3, <3>4, RunMoves DEF Record
  <2>6. ASSUME NEW e \in Exec, BeginMain(e) PROVE RunInv'
    <3>1. /\ pc'[e] = "main" /\ \A f \in Exec \ {e} : pc'[f] = pc[f] /\ plan'[f] = plan[f]
          /\ UNCHANGED <<task, nextAcct, overall, cmd, proc, pid, running_tasks, logged>>
      BY <2>6 DEF BeginMain, TypeOK, cmdVars
    <3>2. CmdInv'
      BY <2>0, <2>6, <3>1
         DEF BeginMain, RunInv, CmdInv, Frontier, Hosting, ProcStage, Honest, Active
    <3>3. Completed' /\ Recorded'
      BY <2>6, <3>1 DEF BeginMain, RunInv, Completed, Recorded, AllOk
    <3>4. RegistryBacked'
      BY <3>1 DEF RunInv, RegistryBacked
    <3> QED
      BY <3>2, <3>3, <3>4 DEF RunInv
  <2>7. ASSUME NEW e \in Exec, BeginBatch(e) PROVE RunInv'
    <3>1. /\ BatchEnd(e) \in 1..MaxAccounts /\ nextAcct[e] < BatchEnd(e)
          /\ nextAcct'[e] = BatchEnd(e) /\ \A f \in Exec \ {e} : nextAcct'[f] = nextAcct[f]
          /\ nextAcct[e] \in Nat /\ MaxAccounts \in Nat
      BY <2>7, BatchBounds, ExecutorAssumption DEF BeginBatch, StartBatch, TypeOK
    <3>2. UNCHANGED <<pc, task, plan, overall, proc, pid, running_tasks, logged>> /\ pc[e] = "main"
      BY <2>7 DEF BeginBatch, StartBatch
    <3>3. \A c \in Cmd : IF Owner(c) = e /\ nextAcct[e] < c[2] /\ c[2] <= BatchEnd(e)
                         THEN cmd'[c] = "starting" /\ cmd[c] = "idle" ELSE cmd'[c] = cmd[c]
      <4> SUFFICES ASSUME NEW c \in Cmd
                   PROVE  IF Owner(c) = e /\ nextAcct[e] < c[2] /\ c[2] <= BatchEnd(e)
                          THEN cmd'[c] = "starting" /\ cmd[c] = "idle" ELSE cmd'[c] = cmd[c]
        OBVIOUS
      <4>1. c[2] \in Nat
        BY <2>0, <3>1
      <4>2. c \in {e} \X (nextAcct[e] + 1 .. BatchEnd(e))
              <=> Owner(c) = e /\ nextAcct[e] < c[2] /\ c[2] <= BatchEnd(e)
        BY <2>0, <3>1, <4>1 DEF Owner
      <4>3. cmd'[c] = IF c \in {e} \X (nextAcct[e] + 1 .. BatchEnd(e)) THEN "starting" ELSE cmd[c]
        BY <2>7 DEF BeginBatch, StartBatch
      <4>4. nextAcct[e] < c[2] /\ Owner(c) = e => cmd[c] = "idle"
        BY <3>1, <4>1 DEF RunInv, CmdInv, Frontier
      <4> QED
        BY <4>2, <4>3, <4>4
    <3>4. Frontier'
      <4>1. \A f \in Exec : pc'[f] = "idle" => nextAcct'[f] = 0
        BY <3>1, <3>2 DEF RunInv, CmdInv, Frontier
      <4>2. ASSUME NEW c \in Cmd PROVE c[2] <= nextAcct'[Owner(c)] <=> cmd'[c] # "idle"
        <5>1. c[2] \in Nat /\ (c[2] <= nextAcct[Owner(c)] <=> cmd[c] # "idle")
          BY <2>0, <3>1 DEF RunInv, CmdInv, Frontier
        <5> QED
          BY <2>0, <3>1, <3>3, <5>1
      <4> QED
        BY <4>1, <4>2 DEF Frontier
    <3>5. Hosting' /\ ProcStage' /\ Honest'
      BY <3>2, <3>3 DEF RunInv, CmdInv, Hosting, ProcStage, Honest, Active
    <3>6. \A f \in Exec : AllOk(f) => AllOk(f)'
      BY <3>2, <3>3, AllOkStays
    <3>7. Completed' /\ Recorded'
      BY <3>2, <3>6 DEF RunInv, Completed, Recorded
    <3>8. RegistryBacked'
      <4>1. \A c \in Cmd : cmd[c] \in {"registered", "reaped", "dropped"} => cmd'[c] = cmd[c]
        BY <3>3
      <4> QED
        BY <3>2, <4>1 DEF RunInv, RegistryBacked
    <3> QED
      BY <3>4, <3>5, <3>7, <3>8 DEF RunInv, CmdInv
  <2>8. ASSUME NEW e \in Exec, SkipAccount(e) PROVE RunInv'
    <3> DEFINE d == <<e, nextAcct[e] + 1>>
    <3>1. nextAcct[e] \in Nat /\ MaxAccounts \in Nat /\ plan[e] \in Plans
      BY ExecutorAssumption DEF TypeOK
    <3>2. plan[e].accounts \in 1..MaxAccounts
      BY <3>1, PlanShape
    <3>3. d \in Cmd /\ Owner(d) = e /\ d[2] = nextAcct[e] + 1
      BY <2>8, <3>1, <3>2 DEF SkipAccount, Cmd, Owner
    <3>4. /\ nextAcct'[e] = nextAcct[e] + 1 /\ \A f \in Exec \ {e} : nextAcct'[f] = nextAcct[f]
          /\ ~overall'[e] /\ \A f \in Exec \ {e} : overall'[f] = overall[f]
          /\ cmd'[d] = "skipped" /\ \A c \in Cmd \ {d} : cmd'[c] = cmd[c]
          /\ UNCHANGED <<pc, task, plan, proc, pid, running_tasks, logged>> /\ pc[e] = "main"
      <4> HIDE DEF d
      <4>1. cmd' = [cmd EXCEPT ![d] = "skipped"]
        BY <2>8 DEF SkipAccount, d
      <4> QED
        BY <2>8, <3>3, <4>1 DEF SkipAccount, TypeOK
    <3>5. cmd[d] = "idle"
      BY <3>1, <3>3 DEF RunInv, CmdInv, Frontier
    <3>6. Frontier'
      <4>1. \A f \in Exec : pc'[f] = "idle" => nextAcct'[f] = 0
        BY <3>4 DEF RunInv, CmdInv, Frontier
      <4>2. ASSUME NEW c \in Cmd PROVE c[2] <= nextAcct'[Owner(c)] <=> cmd'[c] # "idle"
        <5>1. c[2] \in Nat /\ (c[2] <= nextAcct[Owner(c)] <=> cmd[c] # "idle")
          BY <2>0, <3>1 DEF RunInv, CmdInv, Frontier
        <5>2. CASE c = d
          BY <3>1, <3>3, <3>4, <5>2
        <5>3. CASE c # d
          <6>1. Owner(c) = e => c[2] # nextAcct[e] + 1
            BY <2>0, <5>3
          <6> QED
            BY <2>0, <3>1, <3>4, <5>1, <5>3, <6>1
        <5> QED
          BY <5>2, <5>3
      <4> QED
        BY <4>1, <4>2 DEF Frontier
    <3> HIDE DEF d
    <3>7. Hosting' /\ ProcStage' /\ Honest'
      BY <2>0, <3>3, <3>4, <3>5 DEF RunInv, CmdInv, Hosting, ProcStage, Honest, Active
    <3>8. \A f \in Exec : AllOk(f) => AllOk(f)'
      BY <3>4, <3>5, AllOkStays
    <3>9. Completed' /\ Recorded'
      BY <3>4, <3>8 DEF RunInv, Completed, Recorded
    <3>10. RegistryBacked'
      <4>1. \A c \in Cmd : cmd[c] \in {"registered", "reaped", "dropped"} => cmd'[c] = cmd[c]
        BY <3>4, <3>5
      <4> QED
        BY <3>4, <4>1 DEF RunInv, RegistryBacked
    <3> QED
      BY <3>6, <3>7, <3>9, <3>10 DEF RunInv, CmdInv
  <2>9. ASSUME NEW c \in Cmd, Spawn(c) PROVE RunInv'
    <3>1. /\ cmd[c] = "starting" /\ cmd'[c] = "spawned"
          /\ \A d \in Cmd \ {c} : cmd'[d] = cmd[d] /\ proc'[d] = proc[d] /\ pid'[d] = pid[d]
          /\ UNCHANGED <<runVars, running_tasks, logged>>
      BY <2>9 DEF Spawn, TypeOK
    <3>2. CmdInv'
      BY <2>0, <3>1 DEF runVars, RunInv, CmdInv, Frontier, Hosting, ProcStage, Honest, Active
    <3>3. \A f \in Exec : AllOk(f) => AllOk(f)'
      BY <3>1, AllOkStays DEF runVars
    <3>4. Completed' /\ Recorded'
      BY <3>1, <3>3 DEF runVars, RunInv, Completed, Recorded
    <3>5. RegistryBacked'
      BY <3>1 DEF runVars, RunInv, RegistryBacked
    <3> QED
      BY <3>2, <3>4, <3>5 DEF RunInv
  <2>10. ASSUME NEW c \in Cmd, SpawnError(c) \/ Reap(c) PROVE RunInv'
    <3>1. /\ \/ cmd[c] = "starting" /\ cmd'[c] = "error"
             \/ cmd[c] = "registered" /\ cmd'[c] = "reaped" /\ proc[c] \in {"ok", "bad"}
          /\ \A d \in Cmd \ {c} : cmd'[d] = cmd[d]
          /\ UNCHANGED <<runVars, proc, pid, running_tasks, logged>>
      BY <2>10 DEF SpawnError, Reap, TypeOK
    <3>2. CmdInv'
      BY <2>0, <3>1 DEF runVars, RunInv, CmdInv, Frontier, Hosting, ProcStage, Honest, Active
    <3>3. \A f \in Exec : AllOk(f) => AllOk(f)'
      BY <3>1, AllOkStays DEF runVars
    <3>4. Completed' /\ Recorded'
      BY <3>1, <3>3 DEF runVars, RunInv, Completed, Recorded
    <3>5. RegistryBacked'
      BY <3>1 DEF runVars, RunInv, RegistryBacked
    <3> QED
      BY <3>2, <3>4, <3>5 DEF RunInv
  <2>11. ASSUME NEW c \in Cmd, Register(c) PROVE RunInv'
    <3>1. /\ cmd[c] = "spawned" /\ cmd'[c] = "registered"
          /\ \A d \in Cmd \ {c} : cmd'[d] = cmd[d]
          /\ UNCHANGED <<runVars, proc, pid, logged>>
          /\ \A t \in Task : running_tasks'[t] =
               running_tasks[t] \cup (IF t = task[Owner(c)] THEN {pid[c]} ELSE {})
      BY <2>11 DEF Register, TypeOK
    <3>2. CmdInv'
      BY <2>0, <3>1 DEF runVars, RunInv, CmdInv, Frontier, Hosting, ProcStage, Honest, Active
    <3>3. \A f \in Exec : AllOk(f) => AllOk(f)'
      BY <3>1, AllOkStays DEF runVars
    <3>4. Completed' /\ Recorded'
      BY <3>1, <3>3 DEF runVars, RunInv, Completed, Recorded
    <3>5. RegistryBacked'
      BY <3>1 DEF runVars, RunInv, RegistryBacked
    <3> QED
      BY <3>2, <3>4, <3>5 DEF RunInv
  <2>12. ASSUME NEW c \in Cmd, Unregister(c) PROVE RunInv'
    <3>1. /\ cmd[c] = "reaped" /\ cmd'[c] = "ended"
          /\ \A d \in Cmd \ {c} : cmd'[d] = cmd[d]
          /\ UNCHANGED <<pc, task, plan, nextAcct, proc, pid, logged>>
          /\ \A t \in Task : running_tasks'[t] =
               running_tasks[t] \ (IF t = task[Owner(c)] THEN {pid[c]} ELSE {})
      BY <2>12 DEF Unregister, RegistryWithout, TypeOK
    <3>2. /\ overall'[Owner(c)] => overall[Owner(c)] /\ proc[c] = "ok"
          /\ \A f \in Exec : overall'[f] => overall[f]
      <4>1. overall' = [overall EXCEPT ![Owner(c)] = OverallWith(c)] /\ Owner(c) \in Exec
        BY <2>0, <2>12 DEF Unregister
      <4> QED
        BY <4>1 DEF OverallWith, TypeOK
    <3>3. CmdInv'
      BY <2>0, <3>1, <3>2 DEF RunInv, CmdInv, Frontier, Hosting, ProcStage, Honest, Active
    <3>4. \A f \in Exec : AllOk(f) => AllOk(f)'
      BY <3>1, AllOkStays
    <3>5. Completed' /\ Recorded'
      BY <3>1, <3>2, <3>4 DEF RunInv, Completed, Recorded
    <3>6. RegistryBacked'
      BY <3>1 DEF RunInv, RegistryBacked
    <3> QED
      BY <3>3, <3>5, <3>6 DEF RunInv
  <2>13. ASSUME \A c \in Cmd : proc'[c] # proc[c] => Live(c) /\ proc'[c] \in ProcStates \ {"none"},
                UNCHANGED <<runVars, cmd, pid, running_tasks, logged>>
         PROVE RunInv'
    <3>1. \A c \in Cmd : Live(c) => /\ proc[c] \notin {"none", "ok", "bad"}
                                    /\ cmd[c] \notin {"reaped", "ended", "idle", "starting",
                                                      "error", "skipped"}
      BY DEF Live, RunInv, CmdInv, ProcStage
    <3>2. CmdInv'
      BY <2>13, <3>1 DEF runVars, RunInv, CmdInv, Frontier, Hosting, ProcStage, Honest, Active
    <3>3. \A f \in Exec : AllOk(f) => AllOk(f)'
      BY <2>13, <3>1, AllOkStays DEF runVars
    <3>4. Completed' /\ Recorded'
      BY <2>13, <3>3 DEF runVars, RunInv, Completed, Recorded
    <3>5. RegistryBacked'
      BY <2>13 DEF runVars, RunInv, RegistryBacked
    <3> QED
      BY <3>2, <3>4, <3>5 DEF RunInv
  <2>14. ASSUME NEW c \in Cmd, ProcExit(c) PROVE RunInv'
    BY <2>13, <2>14 DEF ProcExit, TypeOK, ProcStates
  <2>15. ASSUME NEW p \in Pid, Deliver(p) PROVE RunInv'
    BY <2>13, <2>15 DEF Deliver, Live, ProcStates
  <2>16. ASSUME NEW e \in Exec, Drop(e) PROVE RunInv'
    <3>1. /\ pc'[e] = "dropped" /\ pc[e] \notin {"idle", "done"}
          /\ \A f \in Exec \ {e} : pc'[f] = pc[f]
          /\ UNCHANGED <<task, plan, nextAcct, overall, proc, pid, running_tasks, logged>>
      BY <2>16 DEF Drop, Over, TypeOK
    <3>2. \A c \in Cmd : cmd'[c] = IF Owner(c) = e /\ Active(c) THEN "dropped" ELSE cmd[c]
      BY <2>16, CmdsOf DEF Drop
    <3>3. \A c \in Cmd : Active(c) => pc[Owner(c)] = "main"
      BY DEF RunInv, CmdInv, Hosting
    <3>4. CmdInv'
      BY <2>0, <3>1, <3>2 DEF RunInv, CmdInv, Frontier, Hosting, ProcStage, Honest, Active
    <3>5. \A f \in Exec : AllOk(f) => AllOk(f)'
      BY <3>1, <3>2, AllOkStays DEF Active
    <3>6. Completed' /\ Recorded'
      BY <3>1, <3>5 DEF RunInv, Completed, Recorded
    <3>7. RegistryBacked'
      BY <3>1, <3>2 DEF RunInv, RegistryBacked, Active
    <3> QED
      BY <3>4, <3>6, <3>7 DEF RunInv
  <2>17. ASSUME UNCHANGED <<runVars, cmdVars>>,
                \A t \in Task : running_tasks'[t] \subseteq running_tasks[t],
                \A e \in Exec : <<e, "success">> \in logged' => <<e, "success">> \in logged
         PROVE RunInv'
    <3>1. CmdInv' /\ Completed' /\ Recorded'
      BY <2>17 DEF runVars, cmdVars, RunInv, CmdInv, Frontier, Hosting, ProcStage, Honest, Active,
                   Completed, Recorded, AllOk
    <3>2. RegistryBacked'
      BY <2>17 DEF runVars, cmdVars, RunInv, RegistryBacked
    <3> QED
      BY <3>1, <3>2 DEF RunInv
  <2>18. ASSUME NEW k \in Killer, KillStep(k) \/ KillAbandon(k) \/ \E t \in Task : KillRead(k, t)
         PROVE RunInv'
    BY <2>17, <2>18 DEF KillStep, KillTake, KillClean, KillLog, KillAbandon, KillRead, TypeOK
  <2>19. CASE UNCHANGED vars
    BY <2>17, <2>19 DEF vars
  <2> QED
    BY <2>1, <2>2, <2>3, <2>4, <2>5, <2>6, <2>7, <2>8, <2>9, <2>10, <2>11, <2>12, <2>14,
       <2>15, <2>16, <2>18, <2>19 DEF Next, RunStep, CmdStep
<1> QED
  BY <1>1, <1>2, TypeCorrect, PTL DEF Spec

\* A pid listed as running belongs to a command of that task that has not unregistered it,
\* or that was dropped (src/services/executor.rs, execute_tracked_command and
\* execute_stream), also when the kernel reuses pids and kills race with the ends of runs.
THEOREM RegistryCorrect == Spec => []RegistryBacked
<1>1. RunInv => RegistryBacked
  BY DEF RunInv
<1> QED
  BY <1>1, RunInvariant, PTL

\* The post-command and the log row of a run come after its last process is gone, killed
\* or not (src/services/executor.rs, execute).
THEOREM PostCommandLast == Spec => []PostAfterMain
<1>1. TypeInv /\ RunInv => PostAfterMain
  <2> SUFFICES ASSUME TypeOK, CmdInv, NEW e \in Exec,
                      pc[e] \in {"post", "finish", "returned", "done"}, NEW c \in Cmds(e)
               PROVE  ~Live(c)
    BY DEF TypeInv, RunInv, PostAfterMain
  <2>1. c \in Cmd /\ Owner(c) = e
    BY CmdsOf
  <2>2. ~Active(c) /\ cmd[c] # "dropped"
    BY <2>1 DEF CmdInv, Hosting
  <2>3. cmd[c] \in {"idle", "error", "skipped", "ended"}
    BY <2>1, <2>2 DEF TypeOK, CmdStages, Active
  <2> QED
    BY <2>1, <2>3 DEF CmdInv, ProcStage, Live
<1> QED
  BY <1>1, TypeCorrect, RunInvariant, PTL

\* A log row "success" is written only for a run all of whose accounts' commands ran and
\* exited 0 (src/services/executor.rs, execute; src/scheduler/mod.rs).
THEOREM SuccessIsHonest == Spec => []SuccessHonest
<1>1. RunInv => SuccessHonest
  BY DEF RunInv, Recorded, AllOk, SuccessHonest
<1> QED
  BY <1>1, RunInvariant, PTL

-----------------------------------------------------------------------------
(* Batches.                                                                  *)

\* Arithmetic of chunks.
LEMMA ChunkAfter ==
  ASSUME NEW k \in Nat, NEW w \in Nat
  PROVE  (k + 1) * w = k * w + w
OBVIOUS

LEMMA ChunkOf ==
  ASSUME NEW x \in Nat, NEW w \in Nat \ {0}
  PROVE  x \div w \in Nat /\ (x \div w) * w <= x /\ x < (x \div w) * w + w
OBVIOUS

LEMMA ChunkBefore ==
  ASSUME NEW j \in Nat, NEW k \in Nat, NEW w \in Nat \ {0}, j < k
  PROVE  j * w + w <= k * w
OBVIOUS

\* The k chunks before have been joined, and no more than the next has begun.
InBatch(e, k) ==
  /\ k * plan[e].width <= nextAcct[e] /\ nextAcct[e] <= k * plan[e].width + plan[e].width
  /\ \/ nextAcct[e] = k * plan[e].width
     \/ nextAcct[e] = k * plan[e].width + plan[e].width
     \/ nextAcct[e] = plan[e].accounts
  /\ \A c \in Cmds(e) : Active(c) => k * plan[e].width < c[2]

BatchesOf(e) ==
  /\ pc[e] \in {"idle", "prep", "pre"} => nextAcct[e] = 0
  /\ pc[e] = "main" => \E k \in Nat : InBatch(e, k)

\* Steps that begin no command of the run.
LEMMA BatchKept ==
  ASSUME NEW e \in Exec, BatchesOf(e), nextAcct'[e] = nextAcct[e],
         pc'[e] \in {"idle", "prep", "pre"} => pc[e] \in {"idle", "prep", "pre"},
         pc'[e] = "main" => pc[e] = "main" /\ plan'[e] = plan[e],
         \A c \in Cmds(e) : Active(c)' => Active(c)
  PROVE  BatchesOf(e)'
<1>1. pc'[e] = "main" => \E k \in Nat : InBatch(e, k)'
  BY DEF BatchesOf, InBatch, Cmds
<1> QED
  BY <1>1 DEF BatchesOf

\* A chunk begins when the one before has been joined: the accounts so far are whole chunks.
LEMMA BatchBegins ==
  ASSUME TypeOK, NEW e \in Exec, BatchesOf(e), pc[e] = "main", nextAcct[e] < plan[e].accounts,
         pc'[e] = "main", plan'[e] = plan[e],
         nextAcct'[e] \in {nextAcct[e] + plan[e].width, plan[e].accounts},
         nextAcct[e] <= nextAcct'[e], nextAcct'[e] <= nextAcct[e] + plan[e].width,
         \A c \in Cmds(e) : Active(c)' => nextAcct[e] < c[2]
  PROVE  BatchesOf(e)'
<1>1. plan[e] \in Plans /\ nextAcct[e] \in Nat
  BY ExecutorAssumption DEF TypeOK
<1> DEFINE w == plan[e].width
<1>2. w \in Nat \ {0} /\ plan[e].accounts \in Nat
  BY <1>1, PlanShape, ExecutorAssumption
<1>3. PICK k \in Nat : InBatch(e, k)
  BY DEF BatchesOf
<1>4. nextAcct[e] = k * w \/ nextAcct[e] = (k + 1) * w
  <2>1. nextAcct[e] # plan[e].accounts
    BY <1>1, <1>2
  <2> QED
    BY <1>2, <1>3, <2>1, ChunkAfter DEF InBatch
<1>5. PICK j \in Nat : nextAcct[e] = j * w
  BY <1>4
<1>6. InBatch(e, j)'
  BY <1>5 DEF InBatch, Cmds
<1> QED
  BY <1>6 DEF BatchesOf

\* The batches are an invariant.
LEMMA BatchInvariant == Spec => [](\A e \in Exec : BatchesOf(e))
<1> DEFINE Inv == \A e \in Exec : BatchesOf(e)
<1>1. Init => Inv
  BY DEF Init, BatchesOf
<1>2. TypeInv /\ RunInv /\ Inv /\ [Next]_vars => Inv'
  <2> SUFFICES ASSUME TypeOK, RunInv, Inv, [Next]_vars, NEW e \in Exec PROVE BatchesOf(e)'
    BY DEF TypeInv
  <2>0. BatchesOf(e) /\ \A c \in Cmds(e) : c \in Cmd /\ Owner(c) = e
    BY CmdsOf
  <2>1. ASSUME UNCHANGED <<pc, plan, nextAcct, cmd>> PROVE BatchesOf(e)'
    BY <2>0, <2>1, BatchKept DEF Active
  <2>2. ASSUME NEW f \in Exec, NEW s, GoTo(f, s), s \in {"prep", "pre"} => pc[f] \in {"idle", "prep"},
               s \notin {"idle", "main"}, UNCHANGED <<plan, nextAcct, cmd>>
        PROVE  BatchesOf(e)'
    <3>1. pc'[e] = pc[e] \/ (e = f /\ pc'[e] = s)
      BY <2>2 DEF GoTo, TypeOK
    <3> QED
      BY <2>0, <2>2, <3>1, BatchKept DEF Active
  <2>3. ASSUME NEW f \in Exec, \/ \E t \in Task, o \in Origins : Start(f, t, o)
                               \/ PrepError(f) \/ GiveUp(f) \/ BeginPre(f) \/ MainError(f)
                               \/ Stall(f)
        PROVE  BatchesOf(e)'
    <3>1. UNCHANGED <<plan, nextAcct, cmd>>
      BY <2>3 DEF Start, PrepError, GiveUp, BeginPre, MainError, Stall, cmdVars
    <3>2. \/ pc[f] = "idle" /\ GoTo(f, "prep")
          \/ pc[f] = "prep" /\ GoTo(f, "pre")
          \/ GoTo(f, "failing") \/ GoTo(f, "returned") \/ GoTo(f, "stalled")
      BY <2>3 DEF Start, PrepError, GiveUp, BeginPre, MainError, Stall
    <3> QED
      BY <2>2, <3>1, <3>2
  <2>4. ASSUME NEW f \in Exec, MainDone(f) \/ EndPost(f) \/ Finish(f) \/ Record(f)
        PROVE  BatchesOf(e)'
    <3>1. UNCHANGED <<plan, nextAcct, cmd>>
      BY <2>4 DEF MainDone, EndPost, Finish, Record, cmdVars
    <3>2. \E s \in {"post", "finish", "done", "returned", "errored"} : GoTo(f, s)
      BY <2>4 DEF MainDone, EndPost, Finish, Record
    <3> QED
      BY <2>2, <3>1, <3>2
  <2>5. ASSUME NEW f \in Exec, BeginMain(f) PROVE BatchesOf(e)'
    <3>1. /\ UNCHANGED <<nextAcct, cmd>> /\ pc[f] \in {"prep", "pre"}
          /\ pc'[f] = "main" /\ plan'[f] \in Plans
          /\ \A g \in Exec \ {f} : pc'[g] = pc[g] /\ plan'[g] = plan[g]
      BY <2>5 DEF BeginMain, GoTo, cmdVars, TypeOK, Plans
    <3>2. CASE e # f
      BY <2>0, <3>1, <3>2, BatchKept DEF Active
    <3>3. CASE e = f
      <4>1. nextAcct'[e] = 0 /\ \A c \in Cmds(e) : ~Active(c)'
        BY <2>0, <3>1, <3>3 DEF BatchesOf, RunInv, CmdInv, Hosting, Active
      <4>2. plan'[e].width \in Nat
        BY <3>1, <3>3, PlanShape
      <4>3. InBatch(e, 0)'
        BY <4>1, <4>2 DEF InBatch, Cmds
      <4> QED
        BY <3>1, <3>3, <4>3 DEF BatchesOf
    <3> QED
      BY <3>2, <3>3
  <2>6. ASSUME NEW f \in Exec, BeginBatch(f) PROVE BatchesOf(e)'
    <3>1. /\ UNCHANGED <<pc, plan>> /\ pc[f] = "main" /\ nextAcct[f] < plan[f].accounts
          /\ nextAcct'[f] = BatchEnd(f) /\ \A g \in Exec \ {f} : nextAcct'[g] = nextAcct[g]
      BY <2>6 DEF BeginBatch, StartBatch, TypeOK
    <3>2. plan[f] \in Plans /\ nextAcct[f] \in Nat
      BY ExecutorAssumption DEF TypeOK
    <3>3. plan[f].width \in Nat /\ plan[f].accounts \in Nat
      BY <3>2, PlanShape, ExecutorAssumption
    <3>4. ASSUME NEW c \in Cmds(e), cmd'[c] # cmd[c] PROVE e = f /\ nextAcct[f] < c[2]
      <4>1. c \in {f} \X (nextAcct[f] + 1 .. BatchEnd(f))
        BY <2>0, <2>6, <3>4 DEF BeginBatch, StartBatch
      <4>2. c[2] \in Nat
        BY <2>0, CmdPair, ExecutorAssumption
      <4>3. Owner(c) = f /\ nextAcct[f] + 1 <= c[2]
        BY <4>1 DEF Owner
      <4> QED
        BY <2>0, <3>2, <4>2, <4>3
    <3>5. CASE e # f
      BY <2>0, <3>1, <3>4, <3>5, BatchKept DEF Active
    <3>6. CASE e = f
      <4>1. \A c \in Cmds(e) : Active(c)' => nextAcct[e] < c[2]
        BY <2>6, <3>4, <3>6 DEF BeginBatch, Joined, Active
      <4>2. /\ BatchEnd(e) \in {nextAcct[e] + plan[e].width, plan[e].accounts}
            /\ nextAcct[e] <= BatchEnd(e) /\ BatchEnd(e) <= nextAcct[e] + plan[e].width
        BY <3>1, <3>2, <3>3, <3>6 DEF BatchEnd
      <4> QED
        BY <2>0, <3>1, <3>6, <4>1, <4>2, BatchBegins
    <3> QED
      BY <3>5, <3>6
  <2>7. ASSUME NEW f \in Exec, SkipAccount(f) PROVE BatchesOf(e)'
    <3>1. /\ UNCHANGED <<pc, plan>> /\ pc[f] = "main" /\ nextAcct[f] < plan[f].accounts
          /\ nextAcct'[f] = nextAcct[f] + 1 /\ \A g \in Exec \ {f} : nextAcct'[g] = nextAcct[g]
      BY <2>7 DEF SkipAccount, TypeOK
    <3>2. nextAcct[f] \in Nat /\ plan[f].width = 1
      BY <2>7, ExecutorAssumption DEF SkipAccount, TypeOK, Plans, SinglePlan
    <3>3. \A c \in Cmds(e) : Active(c)' => Active(c)
      <4>1. ASSUME NEW c \in Cmds(e), Active(c)' PROVE cmd'[c] = cmd[c]
        BY <2>0, <2>7, <4>1 DEF SkipAccount, Active, TypeOK
      <4> QED
        BY <4>1 DEF Active
    <3>4. CASE e # f
      BY <2>0, <3>1, <3>3, <3>4, BatchKept
    <3>5. CASE e = f
      <4>1. \A c \in Cmds(e) : ~Active(c)'
        BY <2>7, <3>3, <3>5 DEF SkipAccount, Joined
      <4>2. /\ nextAcct'[e] \in {nextAcct[e] + plan[e].width, plan[e].accounts}
            /\ nextAcct[e] <= nextAcct'[e] /\ nextAcct'[e] <= nextAcct[e] + plan[e].width
        BY <3>1, <3>2, <3>5
      <4> QED
        BY <2>0, <3>1, <3>5, <4>1, <4>2, BatchBegins
    <3> QED
      BY <3>4, <3>5
  <2>8. ASSUME NEW f \in Exec, Drop(f) PROVE BatchesOf(e)'
    <3>1. UNCHANGED <<plan, nextAcct>> /\ pc'[e] \in {pc[e], "dropped"}
      BY <2>8 DEF Drop, GoTo, TypeOK
    <3>2. \A c \in Cmds(e) : Active(c)' => Active(c)
      BY <2>0, <2>8 DEF Drop, Active
    <3> QED
      BY <2>0, <3>1, <3>2, BatchKept
  <2>9. ASSUME NEW d \in Cmd, CmdStep(d) PROVE BatchesOf(e)'
    <3>1. UNCHANGED <<pc, plan, nextAcct>>
      BY <2>9 DEF CmdStep, Spawn, SpawnError, Register, Reap, Unregister, runVars
    <3>2. Active(d) /\ \A c \in Cmd \ {d} : cmd'[c] = cmd[c]
      BY <2>9 DEF CmdStep, Spawn, SpawnError, Register, Reap, Unregister, TypeOK, Active
    <3>3. \A c \in Cmds(e) : Active(c)' => Active(c)
      BY <2>0, <3>2 DEF Active
    <3> QED
      BY <2>0, <3>1, <3>3, BatchKept
  <2>10. ASSUME \/ \E c \in Cmd : ProcExit(c)
                \/ \E p \in Pid : Deliver(p)
                \/ \E k \in Killer : KillStep(k) \/ KillAbandon(k) \/ \E t \in Task : KillRead(k, t)
                \/ UNCHANGED vars
         PROVE  BatchesOf(e)'
    <3>1. UNCHANGED <<pc, plan, nextAcct, cmd>>
      BY <2>10 DEF ProcExit, Deliver, KillStep, KillTake, KillClean, KillLog, KillAbandon, KillRead,
                   vars, runVars, cmdVars
    <3> QED
      BY <2>1, <3>1
  <2> QED
    BY <2>3, <2>4, <2>5, <2>6, <2>7, <2>8, <2>9, <2>10 DEF Next, RunStep
<1> QED
  BY <1>1, <1>2, TypeCorrect, RunInvariant, PTL DEF Spec

\* The commands of one chunk run only when those of the chunks before have returned and
\* those of the chunks after have not begun (src/services/executor.rs, execute), for any
\* number of accounts and any width, however the commands end and whoever kills them.
THEOREM BatchesAreInOrder == Spec => []BatchesInOrder
<1>1. TypeInv /\ RunInv /\ (\A e \in Exec : BatchesOf(e)) => BatchesInOrder
  <2> SUFFICES ASSUME TypeOK, RunInv, \A f \in Exec : BatchesOf(f),
                      NEW e \in Exec, NEW a \in 1..MaxAccounts, Active(<<e, a>>),
                      NEW b \in 1..MaxAccounts
               PROVE  /\ (b - 1) \div plan[e].width < (a - 1) \div plan[e].width
                           => Returned(<<e, b>>)
                      /\ (b - 1) \div plan[e].width > (a - 1) \div plan[e].width
                           => cmd[<<e, b>>] = "idle"
    BY DEF TypeInv, BatchesInOrder
  <2> DEFINE w == plan[e].width
             i == (a - 1) \div w
             j == (b - 1) \div w
  <2>1. /\ <<e, a>> \in Cmd /\ Owner(<<e, a>>) = e /\ <<e, a>> \in Cmds(e)
        /\ <<e, b>> \in Cmd /\ Owner(<<e, b>>) = e /\ <<e, b>> \in Cmds(e)
    BY DEF Cmd, Cmds, Owner
  <2>2. pc[e] = "main"
    BY <2>1 DEF RunInv, CmdInv, Hosting
  <2>3. plan[e] \in Plans /\ nextAcct[e] \in Nat /\ a - 1 \in Nat /\ b - 1 \in Nat
    BY ExecutorAssumption DEF TypeOK
  <2>4. w \in Nat \ {0}
    BY <2>3, PlanShape
  <2>5. PICK k \in Nat : InBatch(e, k)
    BY <2>2 DEF BatchesOf
  <2>6. k * w < a /\ nextAcct[e] <= k * w + w /\ k * w <= nextAcct[e]
    BY <2>1, <2>5 DEF InBatch
  <2>7. /\ Active(<<e, b>>) => k * w < b
        /\ cmd[<<e, b>>] # "idle" => b <= nextAcct[e]
        /\ b <= nextAcct[e] => cmd[<<e, b>>] # "idle"
        /\ a <= nextAcct[e]
    BY <2>1, <2>5 DEF InBatch, RunInv, CmdInv, Frontier, Active
  <2>8. i \in Nat /\ i * w <= a - 1 /\ a - 1 < i * w + w
    BY <2>3, <2>4, ChunkOf
  <2>9. j \in Nat /\ j * w <= b - 1 /\ b - 1 < j * w + w
    BY <2>3, <2>4, ChunkOf
  <2> HIDE DEF w, i, j
  <2>10. k * w \in Nat /\ i * w \in Nat /\ j * w \in Nat
    BY <2>4, <2>8, <2>9
  <2>11. i = k
    <3>1. CASE i < k
      <4>1. i * w + w <= k * w
        BY <2>4, <2>8, <3>1, ChunkBefore
      <4> QED
        BY <2>3, <2>4, <2>6, <2>8, <2>10, <4>1
    <3>2. CASE i > k
      <4>1. k * w + w <= i * w
        BY <2>4, <2>8, <3>2, ChunkBefore
      <4> QED
        BY <2>3, <2>4, <2>6, <2>7, <2>8, <2>10, <4>1
    <3> QED
      BY <2>8, <3>1, <3>2
  <2>12. ASSUME j < i PROVE Returned(<<e, b>>)
    <3>1. j * w + w <= k * w
      BY <2>4, <2>8, <2>9, <2>11, <2>12, ChunkBefore
    <3>2. b <= k * w
      BY <2>3, <2>4, <2>9, <2>10, <3>1
    <3>3. ~Active(<<e, b>>)
      BY <2>7, <2>10, <3>2
    <3>4. cmd[<<e, b>>] # "idle"
      BY <2>3, <2>6, <2>7, <2>10, <3>2
    <3>5. cmd[<<e, b>>] # "dropped"
      BY <2>1, <2>2 DEF RunInv, CmdInv, Hosting
    <3> QED
      BY <2>1, <3>3, <3>4, <3>5 DEF TypeOK, CmdStages, Active, Returned
  <2>13. ASSUME j > i PROVE cmd[<<e, b>>] = "idle"
    <3>1. k * w + w <= j * w
      BY <2>4, <2>8, <2>9, <2>11, <2>13, ChunkBefore
    <3>2. b > nextAcct[e]
      BY <2>3, <2>4, <2>6, <2>9, <2>10, <3>1
    <3> QED
      BY <2>3, <2>7, <3>2
  <2> QED
    BY <2>12, <2>13 DEF w, i, j
<1> QED
  BY <1>1, TypeCorrect, RunInvariant, BatchInvariant, PTL

-----------------------------------------------------------------------------
(* Reach of a kill.                                                          *)

\* Without reuse, a pid is of one command only.
PidsDiffer ==
  ~PidReuse => \A c, d \in Cmd : pid[c] \in Pid /\ pid[c] = pid[d] => c = d

\* Without pid reuse and failing spawns of kill, a registered command whose shell runs is
\* in the registry or a signal is on its way (src/services/executor.rs,
\* kill_task_with_log): no interleaving of kills, ends and starts of runs of one task
\* hides it.
THEOREM KillReaches == Spec => []Killable
<1> DEFINE Inv == PidsDiffer /\ Killable
<1>1. Init => Inv
  BY ExecutorAssumption DEF Init, PidsDiffer, Killable
<1>2. TypeInv /\ RunInv /\ Inv /\ [Next]_vars => PidsDiffer'
  <2> SUFFICES ASSUME TypeOK, PidsDiffer, [Next]_vars, ~PidReuse PROVE PidsDiffer'
    BY DEF TypeInv, PidsDiffer
  <2>1. CASE UNCHANGED pid
    BY <2>1 DEF PidsDiffer
  <2>2. ASSUME NEW c \in Cmd, Spawn(c) PROVE PidsDiffer'
    <3>1. PICK p \in FreePids : pid' = [pid EXCEPT ![c] = p]
      BY <2>2 DEF Spawn
    <3>2. \A d \in Cmd : pid[d] # p
      BY <3>1 DEF FreePids
    <3>3. pid'[c] = p /\ \A d \in Cmd \ {c} : pid'[d] = pid[d]
      BY <3>1 DEF TypeOK
    <3> QED
      BY <3>2, <3>3 DEF PidsDiffer
  <2>3. UNCHANGED pid \/ \E c \in Cmd : Spawn(c)
    BY OtherStepsKeepCommands DEF cmdVars, BeginBatch, StartBatch, SkipAccount, Drop, CmdStep,
       SpawnError, Register, Reap, Unregister, ProcExit, Deliver
  <2> QED
    BY <2>1, <2>2, <2>3
<1>3. TypeInv /\ RunInv /\ Inv /\ [Next]_vars => Killable'
  <2> SUFFICES ASSUME TypeOK, PidKnown, TaskKnown, RunInv, PidsDiffer, Killable, [Next]_vars,
                      ~PidReuse, ~KillSpawnFails,
                      NEW c \in Cmd, cmd'[c] = "registered", proc'[c] = "alive"
               PROVE  pid'[c] \in running_tasks'[task'[Owner(c)]] \cup signals'
    BY DEF TypeInv, Killable
  <2>0. Owner(c) \in Exec
    BY CmdPair
  <2>1. ASSUME UNCHANGED <<task, cmdVars, running_tasks, signals>>
        PROVE  pid'[c] \in running_tasks'[task'[Owner(c)]] \cup signals'
    BY <2>1 DEF cmdVars, Killable
  <2>2. ASSUME NEW e \in Exec, NEW t \in Task, NEW o \in Origins, Start(e, t, o)
        PROVE  pid'[c] \in running_tasks'[task'[Owner(c)]] \cup signals'
    <3>1. Owner(c) # e
      <4> SUFFICES ASSUME Owner(c) = e PROVE FALSE
        OBVIOUS
      <4>1. nextAcct[e] = 0 /\ c[2] \in 1..MaxAccounts /\ cmd[c] = "registered"
        BY <2>2, CmdPair DEF Start, cmdVars, RunInv, CmdInv, Frontier
      <4> QED
        BY <4>1, ExecutorAssumption DEF RunInv, CmdInv, Frontier
    <3>2. task'[Owner(c)] = task[Owner(c)] /\ UNCHANGED <<cmdVars, running_tasks, signals>>
      BY <2>0, <2>2, <3>1 DEF Start, killVars, TypeOK
    <3> QED
      BY <3>2 DEF cmdVars, Killable
  <2>3. ASSUME NEW e \in Exec, BeginBatch(e) \/ SkipAccount(e) \/ Drop(e)
        PROVE  pid'[c] \in running_tasks'[task'[Owner(c)]] \cup signals'
    <3>1. cmd[c] = "registered" /\ UNCHANGED <<task, proc, pid, running_tasks, signals>>
      BY <2>3 DEF BeginBatch, StartBatch, SkipAccount, Drop, killVars, TypeOK
    <3> QED
      BY <3>1 DEF Killable
  <2>4. ASSUME NEW d \in Cmd, Spawn(d) \/ SpawnError(d) \/ Reap(d) \/ ProcExit(d)
        PROVE  pid'[c] \in running_tasks'[task'[Owner(c)]] \cup signals'
    <3>1. /\ cmd[c] = "registered" /\ proc[c] = "alive" /\ pid'[c] = pid[c]
          /\ UNCHANGED <<task, running_tasks, signals>>
      BY <2>4 DEF Spawn, SpawnError, Reap, ProcExit, killVars, runVars, TypeOK
    <3> QED
      BY <3>1 DEF Killable
  <2>5. ASSUME NEW d \in Cmd, Register(d)
        PROVE  pid'[c] \in running_tasks'[task'[Owner(c)]] \cup signals'
    <3>1. UNCHANGED <<task, pid, proc, signals>>
      BY <2>5 DEF Register, runVars, killVars
    <3>2. \A t \in Task : running_tasks[t] \subseteq running_tasks'[t]
      BY <2>5 DEF Register, TypeOK
    <3>3. CASE c = d
      <4>1. cmd[c] = "spawned"
        BY <2>5, <3>3 DEF Register
      <4>2. pc[Owner(c)] = "main"
        BY <4>1 DEF RunInv, CmdInv, Hosting, Active
      <4>3. task[Owner(c)] \in Task
        BY <2>0, <4>2 DEF TaskKnown
      <4> QED
        BY <2>5, <3>1, <3>3, <4>3 DEF Register, TypeOK
    <3>4. CASE c # d
      <4>1. cmd[c] = "registered"
        BY <2>5, <3>4 DEF Register, TypeOK
      <4>2. pc[Owner(c)] = "main"
        BY <4>1 DEF RunInv, CmdInv, Hosting, Active
      <4>3. task[Owner(c)] \in Task
        BY <2>0, <4>2 DEF TaskKnown
      <4> QED
        BY <3>1, <3>2, <4>1, <4>3 DEF Killable
    <3> QED
      BY <3>3, <3>4
  <2>6. ASSUME NEW d \in Cmd, Unregister(d)
        PROVE  pid'[c] \in running_tasks'[task'[Owner(c)]] \cup signals'
    <3>1. /\ c # d /\ cmd[c] = "registered" /\ cmd[d] = "reaped"
          /\ UNCHANGED <<task, pid, proc, signals>>
      BY <2>6 DEF Unregister, killVars, TypeOK
    <3>2. pid[c] # pid[d] /\ pid[c] \in Pid
      BY <3>1 DEF PidKnown, PidsDiffer
    <3>3. \A t : pid[c] \in running_tasks[t] => pid[c] \in running_tasks'[t]
      <4>1. running_tasks' = [running_tasks EXCEPT ![task[Owner(d)]] = RegistryWithout(d)]
        BY <2>6 DEF Unregister
      <4> QED
        BY <3>2, <4>1 DEF RegistryWithout, TypeOK
    <3> QED
      BY <2>6, <3>1, <3>3 DEF Killable
  <2>7. ASSUME NEW p \in Pid, Deliver(p)
        PROVE  pid'[c] \in running_tasks'[task'[Owner(c)]] \cup signals'
    <3>1. /\ cmd[c] = "registered" /\ proc[c] = "alive"
          /\ UNCHANGED <<task, pid, running_tasks>> /\ signals' = signals \ {p}
      BY <2>7 DEF Deliver, runVars, TypeOK
    <3>2. pid[c] # p
      BY <2>7, <3>1 DEF Deliver
    <3> QED
      BY <3>1, <3>2 DEF Killable
  <2>8. ASSUME NEW k \in Killer, KillTake(k)
        PROVE  pid'[c] \in running_tasks'[task'[Owner(c)]] \cup signals'
    <3>1. /\ UNCHANGED <<task, cmd, pid, proc>>
          /\ signals' = signals \cup running_tasks[killer[k].task]
          /\ running_tasks' = [running_tasks EXCEPT ![killer[k].task] = {}]
      BY <2>8 DEF KillTake, runVars, cmdVars
    <3>2. pid[c] \in running_tasks[task[Owner(c)]] \cup signals
      BY <3>1 DEF Killable
    <3>3. \A t \in Task : t # killer[k].task => running_tasks'[t] = running_tasks[t]
      BY <3>1 DEF TypeOK
    <3>4. pc[Owner(c)] = "main"
      BY <3>1 DEF RunInv, CmdInv, Hosting, Active
    <3>5. task[Owner(c)] \in Task
      BY <2>0, <3>4 DEF TaskKnown
    <3> QED
      BY <3>1, <3>2, <3>3, <3>5
  <2>9. \/ UNCHANGED <<task, cmdVars, running_tasks, signals>>
        \/ \E e \in Exec : \/ \E t \in Task, o \in Origins : Start(e, t, o)
                           \/ BeginBatch(e) \/ SkipAccount(e) \/ Drop(e)
        \/ \E d \in Cmd : CmdStep(d) \/ ProcExit(d)
        \/ \E p \in Pid : Deliver(p)
        \/ \E k \in Killer : KillTake(k)
    BY DEF Next, RunStep, KillStep, vars, killVars, runVars, PrepError, GiveUp, BeginPre,
           BeginMain, MainError, MainDone, Stall, EndPost, Finish, Record, KillRead, KillClean,
           KillLog, KillAbandon
  <2> QED
    BY <2>1, <2>2, <2>3, <2>4, <2>5, <2>6, <2>7, <2>8, <2>9 DEF CmdStep
<1> QED
  BY <1>1, <1>2, <1>3, TypeCorrect, RunInvariant, PTL DEF Spec
=============================================================================
