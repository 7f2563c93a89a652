------------------------- MODULE DependenceService -------------------------
(***************************************************************************)
(* The dependence manager (src/services/dependence.rs, with the restart in  *)
(* src/main.rs): rows of packages that are installed with npm, pip or       *)
(* apt-get, one at a time, by jobs that queue for a semaphore of one        *)
(* permit; deletes queue for the same permit and uninstall first.  A        *)
(* restore that replaces the table is not part of this module.              *)
(*                                                                          *)
(* A request that creates, reinstalls or deletes reads and writes its row   *)
(* in separate queries, can fail at each, and is dropped at an await when   *)
(* its client leaves.  A job outlives its request and works on the copy of  *)
(* the row it was given.  Rows and packages survive a restart; requests,    *)
(* jobs and the queue do not.                                               *)
(*                                                                          *)
(* A package is a name with a type.  Logs and remarks are left out.         *)
(***************************************************************************)
EXTENDS Naturals, Sequences, FiniteSets, FiniteSetsExt

CONSTANTS
  Id,        \* row ids, each used once (AUTOINCREMENT)
  Package,   \* packages
  Client,    \* concurrent API requests
  Job,       \* spawned install jobs at a time
  Boot,      \* the job of install_on_startup
  MaxCrash,  \* bound on the restarts
  Cancels,   \* do clients disconnect while their request is served?
  DbFails,   \* may a query fail?
  None

ASSUME DependenceAssumption ==
  /\ MaxCrash \in Nat
  /\ Cancels \in BOOLEAN /\ DbFails \in BOOLEAN
  /\ Boot \notin Job /\ Client \cap (Job \cup {Boot}) = {}
  /\ None \notin Id \cup Package

VARIABLES
  rows,     \* the dependences table
  present,  \* packages installed on the machine
  job,      \* install jobs
  todo,     \* rows the startup job has not come to
  line,     \* the semaphore: its head holds the permit, the others wait in order
  client,   \* requests in progress
  orphans,  \* packages whose uninstall command outlived its request
  up,       \* is the server running?
  released, \* were the startup tasks let go (deps_done)?
  crashes,  \* number of crashes
  stuck,    \* history: rows on which a step was lost since the last start
  tainted   \* history: packages renamed, entered twice, or uninstalled by a stale request

vars == <<rows, present, job, todo, line, client, orphans, up, released, crashes, stuck,
          tainted>>
bootVars == <<todo, up, released, crashes>>

Worker == Job \cup {Boot}
Dep == [id : Id, name : Package]
Row == [st : {"unborn", "installing", "installed", "failed", "removing", "removed", "gone"},
        name : Package \cup {None}]

Idle == [stage |-> "idle", names |-> {}, at |-> None, deps |-> {}]
Free == [stage |-> "free", dep |-> None]

TypeOK ==
  /\ rows \in [Id -> Row]
  /\ present \subseteq Package
  /\ job \in [Worker -> {Free} \cup
                [stage : {"spawned", "queued", "running", "good", "bad"}, dep : Dep]]
  /\ todo \subseteq Dep
  /\ line \in Seq(Worker \cup Client)
  /\ client \in [Client ->
       [stage : {"idle", "insert", "fetch", "spawn", "mark", "delete", "waiting",
                 "uninstall", "uninstalled", "erase"},
        names : SUBSET Package, at : Id \cup {None}, deps : SUBSET Dep]]
  /\ orphans \subseteq Package
  /\ up \in BOOLEAN /\ released \in BOOLEAN
  /\ crashes \in 0..MaxCrash
  /\ stuck \subseteq Id /\ tainted \subseteq Package

-----------------------------------------------------------------------------
Exists(i) == rows[i].st \notin {"unborn", "gone"}
Named(n) == {i \in Id : Exists(i) /\ rows[i].name = n}
Copy(i) == [id |-> i, name |-> rows[i].name]
Holds(x) == line # <<>> /\ Head(line) = x

\* UPDATE dependences SET status = ... WHERE id = ...: nothing if the row is gone.
SetStatus(i, s) == rows' = [rows EXCEPT ![i].st = IF Exists(i) THEN s ELSE @]

\* A query that fails changes nothing; the row it was for is noted.
Lose(i) ==
  /\ DbFails
  /\ stuck' = IF Exists(i) THEN stuck \cup {i} ELSE stuck
  /\ UNCHANGED rows

GoTo(c, s) == client' = [client EXCEPT ![c].stage = s]
Done(c) == client' = [client EXCEPT ![c] = Idle]

\* The rows a request is about.
Ids(c) == {d.id : d \in client[c].deps} \cup ({client[c].at} \ {None})

\* Rows a request in progress will still insert, and jobs it will still spawn.  A request
\* starts only when Id and Job have room for it.
Births(c) == Cardinality(client[c].names)
Spawns(c) ==
  Births(c) + (IF client[c].stage = "fetch" THEN 1 ELSE 0)
    + (IF client[c].stage \in {"insert", "fetch", "spawn", "mark"}
       THEN Cardinality(client[c].deps) ELSE 0)

Room(births, spawns) ==
  /\ births + MapThenSumSet(Births, Client) <= Cardinality({i \in Id : rows[i].st = "unborn"})
  /\ spawns + MapThenSumSet(Spawns, Client) <= Cardinality({j \in Job : job[j] = Free})

Init ==
  /\ rows = [i \in Id |-> [st |-> "unborn", name |-> None]]
  /\ present = {}
  /\ job = [w \in Worker |-> Free]
  /\ todo = {} /\ line = <<>>
  /\ client = [c \in Client |-> Idle]
  /\ orphans = {}
  /\ up = TRUE /\ released = TRUE /\ crashes = 0
  /\ stuck = {} /\ tainted = {}

-----------------------------------------------------------------------------
(* create and create_batch, reinstall, update.                               *)

\* The check that no row has one of the names.
Create(c, names) ==
  /\ up /\ client[c] = Idle
  /\ names # {} /\ Room(Cardinality(names), Cardinality(names))
  /\ \A n \in names : Named(n) = {}
  /\ client' = [client EXCEPT ![c] = [Idle EXCEPT !.stage = "insert", !.names = names]]
  /\ UNCHANGED <<rows, present, job, line, orphans, bootVars, stuck, tainted>>

Insert(c) ==
  /\ client[c].stage = "insert"
  /\ \E i \in Id, n \in client[c].names :
       /\ rows[i].st = "unborn"
       /\ rows' = [rows EXCEPT ![i] = [st |-> "installing", name |-> n]]
       /\ tainted' = IF Named(n) = {} THEN tainted ELSE tainted \cup {n}
       /\ client' = [client EXCEPT ![c].stage = "fetch", ![c].at = i,
                                   ![c].names = @ \ {n}]
  /\ UNCHANGED <<present, job, line, orphans, bootVars, stuck>>

\* Faulty: the row read back is taken for granted.
FetchUnchecked(c) ==
  /\ client[c].stage = "fetch"
  /\ client' = [client EXCEPT ![c].stage = IF client[c].names = {} THEN "spawn" ELSE "insert",
                              ![c].at = None, ![c].deps = @ \cup {Copy(client[c].at)}]
  /\ UNCHANGED <<rows, present, job, line, orphans, bootVars, stuck, tainted>>

\* The new row is read back.  All rows of a batch are inserted before a job is spawned.
Fetch(c) ==
  /\ client[c].stage = "fetch" /\ Exists(client[c].at)
  /\ client' = [client EXCEPT ![c].stage = IF client[c].names = {} THEN "spawn" ELSE "insert",
                              ![c].at = None, ![c].deps = @ \cup {Copy(client[c].at)}]
  /\ UNCHANGED <<rows, present, job, line, orphans, bootVars, stuck, tainted>>

\* A query fails, or the new row was deleted and unwrap panics: the rows inserted so far
\* stay, without jobs.
CreateFails(c) ==
  /\ \/ DbFails /\ client[c].stage \in {"insert", "fetch"}
     \/ client[c].stage = "fetch" /\ ~Exists(client[c].at)
  /\ Done(c)
  /\ stuck' = stuck \cup {i \in Ids(c) : Exists(i)}
  /\ UNCHANGED <<rows, present, job, line, orphans, bootVars, tainted>>

Reinstall(c, i) ==
  /\ up /\ client[c] = Idle
  /\ Exists(i) /\ Room(0, 1)
  /\ client' = [client EXCEPT ![c] = [Idle EXCEPT !.stage = "mark", !.deps = {Copy(i)}]]
  /\ UNCHANGED <<rows, present, job, line, orphans, bootVars, stuck, tainted>>

Mark(c) ==
  /\ client[c].stage = "mark"
  /\ \A d \in client[c].deps : SetStatus(d.id, "installing")
  /\ GoTo(c, "spawn")
  /\ UNCHANGED <<present, job, line, orphans, bootVars, stuck, tainted>>

MarkFails(c) ==
  /\ DbFails /\ client[c].stage = "mark"
  /\ Done(c)
  /\ UNCHANGED <<rows, present, job, line, orphans, bootVars, stuck, tainted>>

\* tokio::spawn; the request ends with its last job.
Spawn(c) ==
  /\ client[c].stage = "spawn"
  /\ \E d \in client[c].deps, j \in Job :
       /\ job[j] = Free
       /\ job' = [job EXCEPT ![j] = [stage |-> "spawned", dep |-> d]]
       /\ IF client[c].deps = {d} THEN Done(c)
          ELSE client' = [client EXCEPT ![c].deps = @ \ {d}]
  /\ UNCHANGED <<rows, present, line, orphans, bootVars, stuck, tainted>>

\* update: another name or type for the row, with no check and no job.
Rename(i, n) ==
  /\ up /\ Exists(i) /\ rows[i].name # n
  /\ rows' = [rows EXCEPT ![i].name = n]
  /\ tainted' = tainted \cup {rows[i].name, n}
  /\ UNCHANGED <<present, job, line, client, orphans, bootVars, stuck>>

-----------------------------------------------------------------------------
(* Install jobs.                                                             *)

Step(w, s) == job' = [job EXCEPT ![w].stage = s]

\* The first poll of acquire() takes a place in the line.
Acquire(w) ==
  /\ job[w].stage = "spawned"
  /\ Step(w, "queued")
  /\ line' = Append(line, w)
  /\ UNCHANGED <<rows, present, client, orphans, bootVars, stuck, tainted>>

Install(w) ==
  /\ job[w].stage = "queued" /\ Holds(w)
  /\ Step(w, "running")
  /\ UNCHANGED <<rows, present, line, client, orphans, bootVars, stuck, tainted>>

\* The package manager exits, or could not be started.
Installed(w) ==
  /\ job[w].stage = "running"
  /\ \/ Step(w, "good") /\ present' = present \cup {job[w].dep.name}
     \/ Step(w, "bad") /\ UNCHANGED present
  /\ UNCHANGED <<rows, line, client, orphans, bootVars, stuck, tainted>>

\* The permit goes to the next in line; the startup job turns to its next row, and after
\* the last lets the startup tasks go.
Release(w) ==
  /\ line' = Tail(line)
  /\ IF w = Boot /\ todo # {}
     THEN \E d \in todo :
            /\ todo' = todo \ {d}
            /\ job' = [job EXCEPT ![w] = [stage |-> "spawned", dep |-> d]]
            /\ UNCHANGED released
     ELSE /\ job' = [job EXCEPT ![w] = Free]
          /\ released' = (released \/ w = Boot)
          /\ UNCHANGED todo

\* Faulty: when the result cannot be written the permit is not given back.
ReportLeaks(w) ==
  LET i == job[w].dep.id
  IN  /\ job[w].stage \in {"good", "bad"}
      /\ \/ /\ SetStatus(i, IF job[w].stage = "good" THEN "installed" ELSE "failed")
            /\ Release(w)
            /\ UNCHANGED stuck
         \/ /\ Lose(i)
            /\ job' = [job EXCEPT ![w] = Free]
            /\ UNCHANGED <<line, todo, released>>
      /\ UNCHANGED <<present, client, orphans, up, crashes, tainted>>

\* The result is written to the row of the copied id, if it is still there.
Report(w) ==
  LET i == job[w].dep.id
  IN  /\ job[w].stage \in {"good", "bad"}
      /\ \/ /\ SetStatus(i, IF job[w].stage = "good" THEN "installed" ELSE "failed")
            /\ UNCHANGED stuck
         \/ Lose(i)
      /\ Release(w)
      /\ UNCHANGED <<present, client, orphans, up, crashes, tainted>>

-----------------------------------------------------------------------------
(* delete.                                                                   *)

Delete(c, i) ==
  /\ up /\ client[c] = Idle
  /\ Exists(i)
  /\ client' = [client EXCEPT ![c] = [Idle EXCEPT !.stage = "delete", !.deps = {Copy(i)}]]
  /\ UNCHANGED <<rows, present, job, line, orphans, bootVars, stuck, tainted>>

WaitPermit(c) ==
  /\ client[c].stage = "delete"
  /\ GoTo(c, "waiting")
  /\ line' = Append(line, c)
  /\ UNCHANGED <<rows, present, job, orphans, bootVars, stuck, tainted>>

\* Faulty: a delete does not wait for its turn.
UninstallUnqueued(c) ==
  /\ client[c].stage = "waiting"
  /\ \A d \in client[c].deps : SetStatus(d.id, "removing")
  /\ GoTo(c, "uninstall")
  /\ UNCHANGED <<present, job, line, orphans, bootVars, stuck, tainted>>

\* The status is set and the command started, also when the row is gone meanwhile; if the
\* update fails neither happens.
Uninstall(c) ==
  /\ client[c].stage = "waiting" /\ Holds(c)
  /\ \/ /\ \A d \in client[c].deps : SetStatus(d.id, "removing")
        /\ GoTo(c, "uninstall")
        /\ tainted' = tainted \cup {d.name : d \in {b \in client[c].deps : ~Exists(b.id)}}
     \/ DbFails /\ GoTo(c, "erase") /\ UNCHANGED <<rows, tainted>>
  /\ UNCHANGED <<present, job, line, orphans, bootVars, stuck>>

\* The command exits, whatever its exit status, or could not be started.
Uninstalled(c) ==
  /\ client[c].stage = "uninstall"
  /\ \/ /\ GoTo(c, "uninstalled")
        /\ present' \in {present, present \ {d.name : d \in client[c].deps}}
     \/ GoTo(c, "erase") /\ UNCHANGED present
  /\ UNCHANGED <<rows, job, line, orphans, bootVars, stuck, tainted>>

MarkRemoved(c) ==
  /\ client[c].stage = "uninstalled"
  /\ \/ \A d \in client[c].deps : SetStatus(d.id, "removed")
     \/ DbFails /\ UNCHANGED rows
  /\ GoTo(c, "erase")
  /\ UNCHANGED <<present, job, line, orphans, bootVars, stuck, tainted>>

Erase(c) ==
  /\ client[c].stage = "erase"
  /\ \A d \in client[c].deps :
       \/ /\ rows' = [rows EXCEPT ![d.id] = [st |-> "gone", name |-> None]]
          /\ stuck' = stuck \ {d.id}
       \/ Lose(d.id)
  /\ Done(c)
  /\ line' = Tail(line)
  /\ UNCHANGED <<present, job, orphans, bootVars, tainted>>

-----------------------------------------------------------------------------
(* What cuts requests and jobs short.                                        *)

\* Faulty: a client that leaves gives a permit back, also one it was only waiting for.
LeavePopsHead(c) ==
  /\ Cancels
  /\ client[c].stage \notin {"idle", "spawn"}
  /\ Done(c)
  /\ line' = IF \E k \in 1..Len(line) : line[k] = c THEN Tail(line) ELSE line
  /\ stuck' = stuck \cup {i \in Ids(c) : Exists(i)}
  /\ UNCHANGED <<rows, present, job, orphans, bootVars, tainted>>

\* Its place in the line, of which it has one at most.
GiveUpPlace(c) ==
  \/ \E k \in DOMAIN line :
       line[k] = c /\ line' = SubSeq(line, 1, k - 1) \o SubSeq(line, k + 1, Len(line))
  \/ (\A k \in DOMAIN line : line[k] # c) /\ UNCHANGED line

\* The client leaves and its request is dropped: its place in the line or its permit is
\* given up, but an uninstall command goes on.  What the query in hand was to change
\* may have been changed.
Leave(c) ==
  LET ids == Ids(c)
      names == {d.name : d \in client[c].deps}
  IN  /\ Cancels
      /\ client[c].stage \notin {"idle", "spawn"}
      /\ Done(c)
      /\ GiveUpPlace(c)
      /\ stuck' = stuck \cup {i \in ids : Exists(i)}
      /\ IF client[c].stage = "uninstall"
         THEN orphans' = orphans \cup names /\ tainted' = tainted \cup names
         ELSE UNCHANGED <<orphans, tainted>>
      /\ \/ client[c].stage = "mark" /\ \A i \in ids : SetStatus(i, "installing")
         \/ client[c].stage = "waiting" /\ Holds(c) /\ \A i \in ids : SetStatus(i, "removing")
         \/ UNCHANGED rows
      /\ UNCHANGED <<present, job, bootVars>>

OrphanEnds(n) ==
  /\ n \in orphans
  /\ orphans' = orphans \ {n}
  /\ present' \in {present, present \ {n}}
  /\ UNCHANGED <<rows, job, line, client, bootVars, stuck, tainted>>

\* The server dies, and the commands it started with it, each having had its effect or
\* not; the machine may come back without any package (a container made anew).
Crash ==
  LET installing == {job[w].dep.name : w \in {v \in Worker : job[v].stage = "running"}}
      removing == orphans \cup UNION {{d.name : d \in client[c].deps} :
                     c \in {b \in Client : client[b].stage = "uninstall"}}
  IN  /\ up /\ crashes < MaxCrash
      /\ up' = FALSE /\ crashes' = crashes + 1
      /\ present' \in {{}, present, present \cup installing, present \ removing}
      /\ job' = [w \in Worker |-> Free] /\ todo' = {} /\ line' = <<>>
      /\ client' = [c \in Client |-> Idle]
      /\ orphans' = {}
      /\ released' = FALSE
      /\ UNCHANGED <<rows, stuck, tainted>>

\* Faulty: the rows to install are listed before their status is reset.
RestartListsFirst ==
  LET again == {i \in Id : Exists(i) /\ rows[i].st # "removed"}
      deps == {Copy(i) : i \in {k \in again : rows[k].st = "installing"}}
  IN  /\ ~up /\ up' = TRUE
      /\ rows' = [i \in Id |-> IF i \in again THEN [rows[i] EXCEPT !.st = "installing"]
                               ELSE rows[i]]
      /\ stuck' = {}
      /\ IF deps = {} THEN released' = TRUE /\ UNCHANGED <<job, todo>>
         ELSE \E d \in deps :
                /\ todo' = deps \ {d}
                /\ job' = [job EXCEPT ![Boot] = [stage |-> "spawned", dep |-> d]]
                /\ UNCHANGED released
      /\ UNCHANGED <<present, line, client, orphans, crashes, tainted>>

\* Faulty: returns early, without a message to the startup tasks, if there is no row.
RestartSilent ==
  /\ ~up /\ up' = TRUE
  /\ \A i \in Id : ~Exists(i)
  /\ stuck' = {}
  /\ UNCHANGED <<rows, present, job, todo, line, client, orphans, released, crashes, tainted>>

\* install_on_startup: every row but the removed is to be installed again.
Restart ==
  LET again == {i \in Id : Exists(i) /\ rows[i].st # "removed"}
      deps == {Copy(i) : i \in again}
  IN  /\ ~up /\ up' = TRUE
      /\ rows' = [i \in Id |-> IF i \in again THEN [rows[i] EXCEPT !.st = "installing"]
                               ELSE rows[i]]
      /\ stuck' = {}
      /\ IF deps = {} THEN released' = TRUE /\ UNCHANGED <<job, todo>>
         ELSE \E d \in deps :
                /\ todo' = deps \ {d}
                /\ job' = [job EXCEPT ![Boot] = [stage |-> "spawned", dep |-> d]]
                /\ UNCHANGED released
      /\ UNCHANGED <<present, line, client, orphans, crashes, tainted>>

-----------------------------------------------------------------------------
Request(c) ==
  \/ \E names \in SUBSET Package : Create(c, names)
  \/ \E i \in Id : Reinstall(c, i) \/ Delete(c, i)

Serve(c) ==
  \/ Insert(c) \/ Fetch(c) \/ CreateFails(c)
  \/ Mark(c) \/ MarkFails(c) \/ Spawn(c)
  \/ WaitPermit(c) \/ Uninstall(c) \/ Uninstalled(c) \/ MarkRemoved(c) \/ Erase(c)

Work(w) == Acquire(w) \/ Install(w) \/ Installed(w) \/ Report(w)

Next ==
  \/ \E c \in Client : Request(c) \/ Serve(c) \/ Leave(c)
  \/ \E w \in Worker : Work(w)
  \/ \E i \in Id, n \in Package : Rename(i, n)
  \/ \E n \in Package : OrphanEnds(n)
  \/ Crash \/ Restart

Spec == Init /\ [][Next]_vars

\* Requests and jobs are polled; package managers exit (there is no timeout); whoever runs
\* the server starts it again.
Fairness ==
  /\ \A c \in Client : WF_vars(Serve(c))
  /\ \A w \in Worker : WF_vars(Work(w))
  /\ WF_vars(Restart)

FairSpec == Spec /\ Fairness

-----------------------------------------------------------------------------
(* Properties.                                                               *)

\* Whoever is past the permit still holds it: of the jobs, and of the deletes whose request
\* is there, in whatever order they came and whichever others left the queue, only the
\* first in line runs a command.  It does not speak of an uninstall whose client left:
\* that one goes on without the permit (orphans).
OneAtATime ==
  /\ \A w \in Worker : job[w].stage \in {"running", "good", "bad"} => Holds(w)
  /\ \A c \in Client :
       client[c].stage \in {"uninstall", "uninstalled", "erase"} => Holds(c)

\* Someone is going to settle row i.
InHand(i) ==
  \/ \E w \in Worker : job[w] # Free /\ job[w].dep.id = i
  \/ \E d \in todo : d.id = i
  \/ \E c \in Client : client[c].at = i \/ \E d \in client[c].deps : d.id = i

\* A row that says "installing" or "removing" is being worked on, however requests for the
\* same row overlap, unless a step for it was lost since the last start.
NothingForgotten ==
  up => \A i \in Id \ stuck : rows[i].st \in {"installing", "removing"} => InHand(i)

\* A row says "installed" only if the package is there, also while other requests delete
\* and reinstall it; except for packages that were renamed or entered twice, and those
\* whose uninstall goes on after its client left or was asked for on a row now gone.
InstalledIsPresent ==
  up => \A i \in Id : rows[i].st = "installed" =>
    rows[i].name \in present \/ rows[i].name \in tainted

\* A row waits for its install for a bounded time only, however many others are asked for.
InstallSettles ==
  \A i \in Id : up /\ rows[i].st = "installing" ~>
    rows[i].st # "installing" \/ i \in stuck \/ ~up

\* The startup tasks, which wait until every row was tried, get their turn: requests that
\* come in meanwhile cannot hold them off.
StartupTasksRun == up ~> released \/ ~up
=============================================================================
