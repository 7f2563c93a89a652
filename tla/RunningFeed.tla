---------------------------- MODULE RunningFeed ----------------------------
(***************************************************************************)
(* The list of running tasks, and the requests that watch it: running_tasks *)
(* and running_tasks_notifier (src/services/executor.rs), the forwarder     *)
(* (subscribe_running_tasks_with_data, src/scheduler/mod.rs) and            *)
(* subscribe_running_tasks (src/api/task.rs).                               *)
(*                                                                          *)
(* Whoever changes the registry then reads the list, under a lock of its    *)
(* own, and then sends it: between any two of these others do the same.     *)
(* The channel to the forwarder and the one from it to the watcher are one  *)
(* queue.  A run has one main command here; task data in the updates, and   *)
(* the watcher that leaves (its forwarder stays), are left out.             *)
(***************************************************************************)
EXTENDS Naturals, Sequences, FiniteSets

CONSTANTS
  Member,       \* runs that register a process
  Task,         \* task ids
  Killer,       \* kill requests
  Watcher,      \* requests that watch the list
  QueueMax,     \* updates that wait for a slow watcher
  NoTask        \* no value

ASSUME FeedAssumption ==
  /\ QueueMax \in Nat \ {0}
  /\ Member \cap Killer = {} /\ NoTask \notin Task

VARIABLES
  member,       \* each run: its stage and its task
  killer,       \* each kill: its stage
  running,      \* runs whose pid is in running_tasks
  note,         \* the list each of them has read and not sent yet, if any
  watch,        \* each watcher: its stage, the list it shows, the updates on their way
  stale         \* history: was the last update out of date when it was sent, or did a
                \* dropped run or a kill never send one?

feedVars == <<member, killer, running, note, watch, stale>>

Changer == Member \cup Killer
MemberStages == {"new", "start", "main", "finish", "post", "final", "over"}

FeedTypeOK ==
  /\ member \in [Member -> [at : MemberStages, task : Task \cup {NoTask}]]
  /\ killer \in [Killer -> {"new", "list", "over"}]
  /\ running \subseteq Member
  /\ \A m \in running : member[m].task \in Task
  /\ note \in [Changer -> Seq(SUBSET Task)] /\ \A a \in Changer : Len(note[a]) <= 1
  /\ watch \in [Watcher -> [at : {"new", "subscribed", "watching", "ended"},
                            list : SUBSET Task, queue : Seq(SUBSET Task)]]
  /\ stale \in BOOLEAN

-----------------------------------------------------------------------------
\* running_tasks.keys()
RunningList == {member[m].task : m \in running}

InStage(m, stages) == member[m].at \in stages
Step(m, stage) == member' = [member EXCEPT ![m].at = stage]

FeedInit ==
  /\ member = [m \in Member |-> [at |-> "new", task |-> NoTask]]
  /\ killer = [k \in Killer |-> "new"]
  /\ running = {}
  /\ note = [a \in Changer |-> <<>>]
  /\ watch = [w \in Watcher |-> [at |-> "new", list |-> {}, queue |-> <<>>]]
  /\ stale = FALSE

-----------------------------------------------------------------------------
(* Those who change the registry.                                            *)

Register(m) ==
  /\ InStage(m, {"new"})
  /\ \E t \in Task : member' = [member EXCEPT ![m] = [at |-> "start", task |-> t]]
  /\ running' = running \cup {m}
  /\ UNCHANGED <<killer, note, watch, stale>>

\* The command has ended; a kill may have removed the entry before.
Unregister(m) ==
  /\ InStage(m, {"main"})
  /\ running' = running \ {m}
  /\ Step(m, "finish")
  /\ UNCHANGED <<killer, note, watch, stale>>

\* After the post-command execute sends the list once more.
PostEnds(m) ==
  /\ InStage(m, {"post"})
  /\ Step(m, "final")
  /\ UNCHANGED <<killer, running, note, watch, stale>>

\* The client of a streamed run leaves, or an edit of the task aborts its interval job: the
\* run goes no further, and its entry stays if it was there.
Dropped(m) ==
  /\ ~InStage(m, {"new", "over"})
  /\ Step(m, "over")
  /\ note' = [note EXCEPT ![m] = <<>>]
  /\ stale' = (stale \/ InStage(m, {"start", "finish"}))
  /\ UNCHANGED <<killer, running, watch>>

\* kill_task_with_log, for a task that runs: all its pids are removed.  No update is sent
\* when it finds no execution of the task, or cannot make the process kill.
Kill(k, t) ==
  /\ killer[k] = "new" /\ t \in RunningList
  /\ \/ killer' = [killer EXCEPT ![k] = "list"] /\ UNCHANGED stale
     \/ killer' = [killer EXCEPT ![k] = "over"] /\ stale' = TRUE
  /\ running' = {m \in running : member[m].task # t}
  /\ UNCHANGED <<member, note, watch>>

\* Faulty: the list is read again before it is sent.
ReadAgain(a) ==
  /\ IF a \in Member THEN InStage(a, {"start", "finish", "final"}) ELSE killer[a] = "list"
  /\ note' = [note EXCEPT ![a] = Append(@, RunningList)]
  /\ UNCHANGED <<member, killer, running, watch, stale>>

\* The list, under a lock of its own.
ReadList(a) ==
  /\ note[a] = <<>>
  /\ IF a \in Member THEN InStage(a, {"start", "finish", "final"}) ELSE killer[a] = "list"
  /\ note' = [note EXCEPT ![a] = <<RunningList>>]
  /\ UNCHANGED <<member, killer, running, watch, stale>>

\* A streamed run is over when its end has been told.
AfterUpdate(m) ==
  CASE member[m].at = "start" -> {"main"}
    [] member[m].at = "finish" -> {"post", "over"}
    [] OTHER -> {"over"}

Subscribed(w) == watch[w].at \in {"subscribed", "watching"}

\* A queue longer than QueueMax has lost its first updates, whatever they were.
SendList(a) ==
  /\ note[a] # <<>>
  /\ watch' = [w \in Watcher |->
       IF Subscribed(w) /\ Len(watch[w].queue) <= QueueMax
       THEN [watch[w] EXCEPT !.queue = @ \o note[a]] ELSE watch[w]]
  /\ stale' = (note[a] # <<RunningList>>)
  /\ note' = [note EXCEPT ![a] = <<>>]
  /\ IF a \in Member THEN (\E s \in AfterUpdate(a) : Step(a, s)) /\ UNCHANGED killer
                     ELSE killer' = [killer EXCEPT ![a] = "over"] /\ UNCHANGED member
  /\ UNCHANGED running

-----------------------------------------------------------------------------
(* Those who watch it.                                                       *)

\* First the updates are subscribed to, then the list is taken as it is.
Subscribe(w) ==
  /\ watch[w].at = "new"
  /\ watch' = [watch EXCEPT ![w].at = "subscribed"]
  /\ UNCHANGED <<member, killer, running, note, stale>>

\* Faulty: no list but that of the next update.
NoInitialList(w) ==
  /\ watch[w].at = "subscribed"
  /\ watch' = [watch EXCEPT ![w].at = "watching"]
  /\ UNCHANGED <<member, killer, running, note, stale>>

InitialList(w) ==
  /\ watch[w].at = "subscribed"
  /\ watch' = [watch EXCEPT ![w].at = "watching", ![w].list = RunningList]
  /\ UNCHANGED <<member, killer, running, note, stale>>

\* An update; for one too far behind, the end.
Update(w) ==
  /\ watch[w].at = "watching" /\ watch[w].queue # <<>>
  /\ watch' = [watch EXCEPT ![w] =
       IF Len(@.queue) > QueueMax THEN [at |-> "ended", list |-> {}, queue |-> <<>>]
       ELSE [at |-> "watching", list |-> Head(@.queue), queue |-> Tail(@.queue)]]
  /\ UNCHANGED <<member, killer, running, note, stale>>

-----------------------------------------------------------------------------
MemberStep(m) ==
  Register(m) \/ Unregister(m) \/ PostEnds(m) \/ Dropped(m)
WatchStep(w) == Subscribe(w) \/ InitialList(w) \/ Update(w)

FeedNext ==
  \/ \E m \in Member : MemberStep(m)
  \/ \E k \in Killer, t \in Task : Kill(k, t)
  \/ \E a \in Changer : ReadList(a) \/ SendList(a)
  \/ \E w \in Watcher : WatchStep(w)

FeedSpec == FeedInit /\ [][FeedNext]_feedVars

-----------------------------------------------------------------------------
(* Properties.                                                               *)

\* Nobody who changed the registry has still to tell.
Told ==
  /\ \A m \in Member : ~InStage(m, {"start", "finish"})
  /\ \A k \in Killer : killer[k] # "list"

\* When every change has been told and received, a watcher shows the tasks that run,
\* whenever it subscribed; unless the last update was out of date when it was sent (a
\* change and its update came between another's read and send), or a dropped run
\* or a kill never sent its own.
WatcherCurrent ==
  \A w \in Watcher :
    Told /\ ~stale /\ watch[w].at = "watching" /\ watch[w].queue = <<>>
      => watch[w].list = RunningList
=============================================================================
