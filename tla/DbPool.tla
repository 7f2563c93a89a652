------------------------------- MODULE DbPool -------------------------------
(***************************************************************************)
(* The database file and the pool of connections to it: requests that use   *)
(* the pool, restores that exchange the file under it (src/api/backup.rs,   *)
(* AppState::reinit_database), backups that copy it while it is used        *)
(* (src/scheduler/backup_scheduler.rs), the schema (src/models/db.rs), and  *)
(* a crash with the startup after it (src/main.rs).                         *)
(*                                                                          *)
(* The pool stands behind tokio's RwLock, which is fair: a reader waits     *)
(* behind a writer that waits.  A request may take it twice.  Removing the  *)
(* data directory does not close connections: they go on using the file     *)
(* they opened, which no path leads to any more.                            *)
(*                                                                          *)
(* Requests and restores are handlers: axum drops one with its client,      *)
(* wherever it awaits.  A removal of the directory goes on in the blocking  *)
(* pool then, which is Clear, at its effect, and a client that leaves.      *)
(*                                                                          *)
(* A file is known by a number.  What SQLite does (the write-ahead log, a   *)
(* checkpoint, opening a missing file) and what sqlx does (a closed pool,   *)
(* connections opened when needed) is external.  Left out: the states in    *)
(* the middle of a removal that succeeds, the one-time code a restore asks  *)
(* for, scripts and logs in the data directory, the archive format, the     *)
(* limit of 20 connections, WebDAV's protocol.                              *)
(***************************************************************************)
EXTENDS Naturals, Sequences, FiniteSets

Seqs == INSTANCE SequencesExt

CONSTANTS
  Request,      \* requests that write a row each
  Nested,       \* those whose service holds one guard and takes another
  Restorer,     \* requests that restore a backup
  Backup,       \* scheduled or manual backups
  Boot,         \* the pool opened at start
  MaxFiles,     \* bound on the database files there ever are
  MaxEvents,    \* bound on the restores, backups and events there ever are
  AutoRestore,  \* is AUTO_RESTORE_ON_STARTUP set?
  Fails,        \* may a step of a restore fail?
  Cancels,      \* may clients leave before they have their answer?
  None          \* no value

ASSUME PoolAssumption ==
  /\ Nested \subseteq Request
  /\ Request \cap Restorer = {} /\ Boot \notin Restorer
  /\ MaxFiles \in Nat \ {0} /\ MaxEvents \in Nat
  /\ AutoRestore \in BOOLEAN /\ Fails \in BOOLEAN /\ Cancels \in BOOLEAN
  /\ None \notin Request \cup Restorer \cup Backup \cup {Boot} \cup 0..MaxFiles

VARIABLES
  \* the machine
  disk,      \* what the data directory holds: 0 if there is none, a file, or None, no file
  files,     \* the database files: rows in the file and in its write-ahead log, schema
  made,      \* number of files made so far
  \* the server
  up,        \* does it listen?
  pools,     \* pools: open?, files its idle connections are of, connections in use
  cur,       \* the pool behind the lock
  guards,    \* guards held on the lock: "read", a reader's second one "again", "write"
  queue,     \* guards waited for
  req,       \* each request: its stage and the file of its connection
  res,       \* each restore: its stage and the file it opened
  bak,       \* each backup in progress: what it has copied
  events,    \* number of them so far
  \* histories
  sure,      \* requests that began on a settled server, and no restore since
  spoilt,    \* a restore ended between removing the file and closing the pool, or two overlapped
  dead,      \* one ended after it had closed the pool, before the exchange
  mixed,     \* restores that overlapped with another
  owed,      \* rows each backup has to contain
  torn       \* backups during which a checkpoint or a restore moved rows

machine == <<disk, files, made>>
lock == <<guards, queue>>
history == <<sure, spoilt, dead, mixed, owed, torn>>
vars == <<machine, up, pools, cur, lock, req, res, bak, events, history>>

\* What init_db sees to: tables, columns added to them later, default settings and users.
Parts == {"tables", "columns", "defaults"}
File == [db : SUBSET Request, wal : SUBSET Request, schema : SUBSET Parts]
PoolId == Restorer \cup {Boot}
Actor == Request \cup Restorer
Guard == Actor \X {"read", "again", "write"}
ReqStages == {"new", "asked", "conn", "stored", "again", "acked", "failed"}
ResStages == {"new", "cleared", "close", "closing", "open", "migrate",
              "swap", "done", "failed"}

TypeOK ==
  /\ disk \in 0..MaxFiles \cup {None}
  /\ made \in 0..MaxFiles
  /\ files \in [1..MaxFiles -> File]
  /\ up \in BOOLEAN
  /\ pools \in [PoolId -> [open : BOOLEAN, on : SUBSET (1..MaxFiles), out : SUBSET Request]]
  /\ cur \in PoolId
  /\ guards \subseteq Guard /\ queue \in Seq(Guard)
  /\ req \in [Request -> [at : ReqStages, file : 0..MaxFiles]]
  /\ res \in [Restorer -> [at : ResStages, file : 0..MaxFiles]]
  /\ bak \in [Backup -> [db : (SUBSET Request) \cup {None}, wal : (SUBSET Request) \cup {None}]]
  /\ events \in 0..MaxEvents
  /\ sure \subseteq Request /\ spoilt \in BOOLEAN /\ dead \in BOOLEAN /\ mixed \subseteq Restorer
  /\ owed \in [Backup -> SUBSET Request] /\ torn \subseteq Backup

-----------------------------------------------------------------------------
(* The lock.                                                                 *)

Free(g) == IF g[2] = "write" THEN guards = {} ELSE \A h \in guards : h[2] # "write"

Ask(g) ==
  IF queue = <<>> /\ Free(g)
  THEN guards' = guards \cup {g} /\ UNCHANGED queue
  ELSE queue' = Append(queue, g) /\ UNCHANGED guards

Drop(gs) == guards' = guards \ gs /\ UNCHANGED queue

Holds(a, n) == <<a, n>> \in guards

\* A handler is dropped: its guards, and its place in the queue.
Forsake(a) ==
  /\ guards' = {g \in guards : g[1] # a}
  /\ \/ (\A i \in DOMAIN queue : queue[i][1] # a) /\ UNCHANGED queue
     \/ \E i \in DOMAIN queue : queue[i][1] = a /\ queue' = Seqs!RemoveAt(queue, i)

\* In the order they asked.
Grant ==
  /\ queue # <<>> /\ Free(Head(queue))
  /\ guards' = guards \cup {Head(queue)}
  /\ queue' = Tail(queue)
  /\ UNCHANGED <<machine, up, pools, cur, req, res, bak, events, history>>

-----------------------------------------------------------------------------
(* Files and pools.                                                          *)

NoFile == [db |-> {}, wal |-> {}, schema |-> {}]
\* What is restored: a database from before the requests, of an older release.
Archived == [NoFile EXCEPT !.schema = {"tables"}]
NoBackup == [db |-> None, wal |-> None]
\* The bound on what disturbs the requests.
Event == events < MaxEvents /\ events' = events + 1
Shut == [open |-> FALSE, on |-> {}, out |-> {}]
Opened(i) == [open |-> TRUE, on |-> {i}, out |-> {}]
Busy == \E s \in Restorer : res[s].at \notin {"new", "done", "failed"}
FileRows(i) == files[i].db \cup files[i].wal

\* A new file in the data directory.
MakeFile(content) ==
  /\ made < MaxFiles /\ made' = made + 1
  /\ files' = [files EXCEPT ![made + 1] = content]
  /\ disk' = made + 1

\* mode=rwc: a connection opens the file there is, or makes an empty one.
OpenFile(i) ==
  \/ disk \in 1..MaxFiles /\ i = disk /\ UNCHANGED <<disk, files, made>>
  \/ disk = None /\ i = made + 1 /\ MakeFile(NoFile)

Init ==
  /\ disk = 1 /\ made = 1
  /\ files = [i \in 1..MaxFiles |-> IF i = 1 THEN [NoFile EXCEPT !.schema = Parts] ELSE NoFile]
  /\ up = TRUE /\ cur = Boot
  /\ pools = [p \in PoolId |-> IF p = Boot THEN Opened(1) ELSE Shut]
  /\ guards = {} /\ queue = <<>>
  /\ req = [r \in Request |-> [at |-> "new", file |-> 0]]
  /\ res = [s \in Restorer |-> [at |-> "new", file |-> 0]]
  /\ bak = [b \in Backup |-> NoBackup]
  /\ events = 0
  /\ sure = {} /\ spoilt = FALSE /\ dead = FALSE /\ mixed = {}
  /\ owed = [b \in Backup |-> {}] /\ torn = {}

-----------------------------------------------------------------------------
(* A request: a guard, a connection, a statement; for some a second guard to *)
(* read the row back, while the first is held.                               *)

Begin(r) ==
  /\ up /\ req[r].at = "new"
  /\ req' = [req EXCEPT ![r].at = "asked"]
  /\ Ask(<<r, "read">>)
  /\ sure' = sure \cup {q \in {r} : ~Busy /\ ~spoilt}
  /\ UNCHANGED <<machine, up, pools, cur, res, bak, events, spoilt, dead, mixed, owed, torn>>

Answer(r, at) ==
  /\ req' = [req EXCEPT ![r] = [at |-> at, file |-> 0]]
  /\ Drop({<<r, "read">>, <<r, "again">>})

\* PoolClosed, or the data directory is missing.
NoConnection(r) ==
  /\ req[r].at = "asked" /\ Holds(r, "read")
  /\ ~pools[cur].open \/ disk = 0
  /\ Answer(r, "failed")
  /\ UNCHANGED <<machine, up, pools, cur, res, bak, events, history>>

\* An idle connection, of whatever file it was opened on, or a new one.
Acquire(r) ==
  /\ req[r].at = "asked" /\ Holds(r, "read") /\ pools[cur].open
  /\ \E i \in 1..MaxFiles :
       /\ \/ i \in pools[cur].on /\ UNCHANGED <<disk, files, made>>
          \/ OpenFile(i)
       /\ req' = [req EXCEPT ![r] = [at |-> "conn", file |-> i]]
  /\ pools' = [pools EXCEPT ![cur].out = @ \cup {r}]
  /\ UNCHANGED <<up, cur, lock, res, bak, events, history>>

\* The connection goes back, to be closed if its pool is.
GiveBack(r) ==
  pools' = [pools EXCEPT ![cur].out = @ \ {r},
                         ![cur].on = IF pools[cur].open THEN @ \cup {req[r].file} ELSE @]

Execute(r) ==
  /\ req[r].at = "conn"
  /\ GiveBack(r)
  /\ LET i == req[r].file
         ok == files[i].schema = Parts
     IN  /\ files' = IF ok THEN [files EXCEPT ![i].wal = @ \cup {r}] ELSE files
         /\ IF ok /\ r \in Nested
            THEN req' = [req EXCEPT ![r] = [at |-> "stored", file |-> 0]] /\ UNCHANGED lock
            ELSE Answer(r, IF ok THEN "acked" ELSE "failed")
  /\ UNCHANGED <<disk, made, up, cur, res, bak, events, history>>

\* get asks for a guard of its own.  The connection is back already, so a restore that
\* waited for it may have come between.
AskAgain(r) ==
  /\ req[r].at = "stored"
  /\ req' = [req EXCEPT ![r].at = "again"]
  /\ Ask(<<r, "again">>)
  /\ UNCHANGED <<machine, up, pools, cur, res, bak, events, history>>

\* It reads the row, on a pool that may have been closed meanwhile.
ReadBack(r) ==
  /\ req[r].at = "again" /\ Holds(r, "again")
  /\ Answer(r, IF pools[cur].open THEN "acked" ELSE "failed")
  /\ UNCHANGED <<machine, up, pools, cur, res, bak, events, history>>

\* Its client leaves; a statement that is being executed may yet write its row.
LeaveRequest(r) ==
  /\ Cancels /\ req[r].at \in {"asked", "conn", "stored", "again"}
  /\ req' = [req EXCEPT ![r] = [at |-> "failed", file |-> 0]]
  /\ Forsake(r)
  /\ IF req[r].at = "conn"
     THEN /\ GiveBack(r)
          /\ \/ UNCHANGED files
             \/ /\ files[req[r].file].schema = Parts
                /\ files' = [files EXCEPT ![req[r].file].wal = @ \cup {r}]
     ELSE UNCHANGED <<pools, files>>
  /\ UNCHANGED <<disk, made, up, cur, res, bak, events, history>>

-----------------------------------------------------------------------------
(* restore_backup.                                                           *)

At(s, a) == res[s].at = a
Go(s, a) == res' = [res EXCEPT ![s].at = a]
Others(s) == {t \in Restorer \ {s} : res[t].at \notin {"new", "done", "failed"}}

Copying == {b \in Backup : bak[b] # NoBackup}

\* The archive has been received, and a copy made of the data directory, whose errors are
\* ignored.  Then remove_dir_all; when it fails the file may be gone all the same.
Clear(s) ==
  /\ up /\ At(s, "new") /\ Event
  /\ \/ disk' = 0 /\ Go(s, "cleared") /\ UNCHANGED spoilt
     \/ /\ Fails /\ disk # 0
        /\ disk' \in {disk, None} /\ Go(s, "failed")
        /\ spoilt' = TRUE
  /\ sure' = {}
  /\ torn' = torn \cup Copying
  /\ mixed' = IF Others(s) = {} THEN mixed ELSE mixed \cup Others(s) \cup {s}
  /\ UNCHANGED <<files, made, up, pools, cur, lock, req, bak, dead, owed>>

\* Faulty: the database is not initialised again.
ExtractOnly(s) ==
  /\ At(s, "cleared")
  /\ MakeFile(Archived)
  /\ Go(s, "done")
  /\ sure' = {}
  /\ torn' = torn \cup Copying
  /\ UNCHANGED <<up, pools, cur, lock, req, bak, events, spoilt, dead, mixed, owed>>

\* Afterwards reinit_database asks for a guard to read.
Extract(s) ==
  /\ At(s, "cleared")
  /\ \/ /\ MakeFile(Archived)
        /\ Go(s, "close") /\ Ask(<<s, "read">>)
        /\ UNCHANGED spoilt
     \/ /\ Fails
        /\ disk' \in {disk, None} /\ Go(s, "failed")
        /\ spoilt' = TRUE
        /\ UNCHANGED <<files, made, lock>>
  /\ sure' = {}
  /\ torn' = torn \cup Copying
  /\ UNCHANGED <<up, pools, cur, req, bak, events, dead, mixed, owed>>

\* close: from now on nobody gets a connection of this pool.
Close(s) ==
  /\ At(s, "close") /\ Holds(s, "read")
  /\ pools' = [pools EXCEPT ![cur].open = FALSE, ![cur].on = {}]
  /\ Go(s, "closing")
  /\ UNCHANGED <<machine, up, cur, lock, req, bak, events, history>>

\* Faulty: the guard is kept to the end of the function.
ClosedKeepsGuard(s) ==
  /\ At(s, "closing") /\ pools[cur].out = {}
  /\ Go(s, "open")
  /\ UNCHANGED <<machine, up, pools, cur, lock, req, bak, events, history>>

\* It returns when the connections in use are back; then the guard is dropped.
Closed(s) ==
  /\ At(s, "closing") /\ pools[cur].out = {}
  /\ Go(s, "open")
  /\ Drop({<<s, "read">>})
  /\ UNCHANGED <<machine, up, pools, cur, req, bak, events, history>>

\* Faulty: the path is used as it is.
OpenWhatThereIs(s) ==
  /\ At(s, "open")
  /\ res' = [res EXCEPT ![s] = [at |-> "migrate", file |-> disk]]
  /\ pools' = [pools EXCEPT ![s] = Opened(disk)]
  /\ UNCHANGED <<machine, up, cur, lock, req, bak, events, history>>

\* init_db: the directory is made if need be, and a first connection opened.
OpenPool(s) ==
  /\ At(s, "open")
  /\ \E i \in 1..MaxFiles :
       /\ \/ OpenFile(i)
          \/ disk = 0 /\ i = made + 1 /\ MakeFile(NoFile)
       /\ res' = [res EXCEPT ![s] = [at |-> "migrate", file |-> i]]
       /\ pools' = [pools EXCEPT ![s] = Opened(i)]
  /\ UNCHANGED <<up, cur, lock, req, bak, events, history>>

\* The statements of init_db leave alone what is there.
Adds(s, part) ==
  /\ At(s, "migrate") /\ part \notin files[res[s].file].schema
  /\ files' = [files EXCEPT ![res[s].file].schema = @ \cup {part}]
  /\ UNCHANGED <<disk, made, up, pools, cur, lock, req, res, bak, events, history>>

CreateTables(s) == Adds(s, "tables")
AddColumns(s) == Adds(s, "columns") /\ "tables" \in files[res[s].file].schema
InsertDefaults(s) == Adds(s, "defaults") /\ "columns" \in files[res[s].file].schema

\* Afterwards reinit_database asks for the guard to write.
Migrated(s) ==
  /\ At(s, "migrate") /\ files[res[s].file].schema = Parts
  /\ Go(s, "swap") /\ Ask(<<s, "write">>)
  /\ UNCHANGED <<machine, up, pools, cur, req, bak, events, history>>

Migrate(s) == CreateTables(s) \/ AddColumns(s) \/ InsertDefaults(s) \/ Migrated(s)

\* init_db fails: the old pool stays where it is, closed.
ReinitFails(s) ==
  /\ Fails /\ res[s].at \in {"open", "migrate"}
  /\ Go(s, "failed")
  /\ pools' = [pools EXCEPT ![s] = Shut]
  /\ dead' = TRUE
  /\ UNCHANGED <<machine, up, cur, lock, req, bak, events, sure, spoilt, mixed, owed, torn>>

\* Faulty: the closed pool is kept.
SwapNothing(s) ==
  /\ At(s, "swap") /\ Holds(s, "write")
  /\ Drop({<<s, "write">>})
  /\ Go(s, "done")
  /\ UNCHANGED <<machine, up, pools, cur, req, bak, events, history>>

\* The only time the pool is exchanged; the old one is dropped.
Swap(s) ==
  /\ At(s, "swap") /\ Holds(s, "write")
  /\ cur' = s
  /\ Drop({<<s, "write">>})
  /\ Go(s, "done")
  /\ dead' = FALSE
  /\ spoilt' = (s \in mixed)
  /\ UNCHANGED <<machine, up, pools, req, bak, events, sure, mixed, owed, torn>>

\* Its client leaves: what it has done so far stays as it is, and the pool that it was
\* opening is dropped.
LeaveRestore(s) ==
  /\ Cancels /\ res[s].at \notin {"new", "done", "failed"}
  /\ Go(s, "failed") /\ Forsake(s)
  /\ pools' = [pools EXCEPT ![s] = Shut]
  /\ IF res[s].at \in {"cleared", "close"}
     THEN spoilt' = TRUE /\ UNCHANGED dead
     ELSE dead' = TRUE /\ UNCHANGED spoilt
  /\ UNCHANGED <<machine, up, cur, req, bak, events, sure, mixed, owed, torn>>

-----------------------------------------------------------------------------
(* perform_backup: the file and its log are read at different times.         *)

BakIdle == UNCHANGED <<machine, up, pools, cur, lock, req, res, sure, spoilt, dead, mixed>>

\* What is in the database when the copy begins has to be in the archive.
Started(b) == bak[b] # NoBackup
Begins(b) ==
  IF Started(b) THEN UNCHANGED <<owed, events>>
  ELSE owed' = [owed EXCEPT ![b] = FileRows(disk)] /\ Event

CopyDb(b) ==
  /\ up /\ bak[b].db = None /\ disk \in 1..MaxFiles
  /\ bak' = [bak EXCEPT ![b].db = files[disk].db]
  /\ Begins(b) /\ UNCHANGED torn
  /\ BakIdle

\* Faulty: only the file itself is archived.
SkipWal(b) ==
  /\ up /\ bak[b].wal = None /\ disk \in 1..MaxFiles
  /\ bak' = [bak EXCEPT ![b].wal = {}]
  /\ Begins(b) /\ UNCHANGED torn
  /\ BakIdle

CopyWal(b) ==
  /\ up /\ bak[b].wal = None /\ disk \in 1..MaxFiles
  /\ bak' = [bak EXCEPT ![b].wal = files[disk].wal]
  /\ Begins(b) /\ UNCHANGED torn
  /\ BakIdle

Copied(b) == bak[b].db \cup bak[b].wal

EndBackup(b) ==
  /\ bak' = [bak EXCEPT ![b] = NoBackup]
  /\ owed' = [owed EXCEPT ![b] = {}] /\ torn' = torn \ {b}
  /\ UNCHANGED events
  /\ BakIdle

\* The archive is uploaded; cleanup_old_backups removes older ones, if max_backups is set.
Upload(b) ==
  /\ up /\ None \notin {bak[b].db, bak[b].wal}
  /\ EndBackup(b)

\* A file or directory is missing, or WebDAV does not answer.
BackupFails(b) ==
  /\ up /\ Started(b)
  /\ None \in {bak[b].db, bak[b].wal} /\ disk \notin 1..MaxFiles
  /\ EndBackup(b)

\* SQLite moves rows from the log to the file.  Nobody but a backup can tell.
Checkpoint(i) ==
  /\ Copying # {} /\ files[i].wal # {}
  /\ files' = [files EXCEPT ![i].db = FileRows(i), ![i].wal = {}]
  /\ torn' = torn \cup Copying
  /\ UNCHANGED <<disk, made, up, pools, cur, lock, req, res, bak, events,
                 sure, spoilt, dead, mixed, owed>>

-----------------------------------------------------------------------------
(* Crash and start.                                                          *)

\* Whoever was in progress is gone; the files are as they are.
Crash ==
  /\ up /\ Event
  /\ up' = FALSE
  /\ pools' = [p \in PoolId |-> Shut] /\ cur' = Boot
  /\ guards' = {} /\ queue' = <<>>
  /\ req' = [r \in Request |->
       IF req[r].at \in {"new", "acked"} THEN req[r] ELSE [at |-> "failed", file |-> 0]]
  /\ res' = [s \in Restorer |->
       IF res[s].at \in {"new", "done"} THEN res[s] ELSE [at |-> "failed", file |-> 0]]
  /\ bak' = [b \in Backup |-> NoBackup]
  /\ owed' = [b \in Backup |-> {}] /\ torn' = {}
  /\ spoilt' = FALSE /\ dead' = FALSE
  /\ UNCHANGED <<machine, sure, mixed>>

\* restore_latest_backup, if configured; an error is logged, and what it left is used.
BootRestore ==
  /\ ~up /\ AutoRestore
  /\ \/ MakeFile(Archived)
     \/ Fails /\ disk' \in {disk, 0, None} /\ UNCHANGED <<files, made>>
  /\ sure' = {}
  /\ UNCHANGED <<up, pools, cur, lock, req, res, bak, events, spoilt, dead, mixed, owed, torn>>

\* init_db; an error of it ends the program.
BootInit ==
  /\ ~up
  /\ \E i \in 1..MaxFiles :
       /\ \/ /\ disk \in 1..MaxFiles /\ i = disk
             /\ files' = [files EXCEPT ![i].schema = Parts]
             /\ UNCHANGED <<disk, made>>
          \/ disk \notin 1..MaxFiles /\ i = made + 1 /\ MakeFile([NoFile EXCEPT !.schema = Parts])
       /\ pools' = [pools EXCEPT ![Boot] = Opened(i)]
  /\ up' = TRUE
  /\ UNCHANGED <<cur, lock, req, res, bak, events, history>>

-----------------------------------------------------------------------------
RequestStep(r) == NoConnection(r) \/ Acquire(r) \/ Execute(r) \/ AskAgain(r) \/ ReadBack(r)
RestoreStep(s) ==
  \/ Extract(s) \/ Close(s) \/ Closed(s)
  \/ OpenPool(s) \/ Migrate(s) \/ ReinitFails(s) \/ Swap(s)
BackupStep(b) == CopyDb(b) \/ CopyWal(b) \/ Upload(b) \/ BackupFails(b)

Next ==
  \/ Grant
  \/ \E r \in Request : Begin(r) \/ RequestStep(r) \/ LeaveRequest(r)
  \/ \E s \in Restorer : Clear(s) \/ RestoreStep(s) \/ LeaveRestore(s)
  \/ \E b \in Backup : BackupStep(b)
  \/ \E i \in 1..MaxFiles : Checkpoint(i)
  \/ Crash \/ BootRestore \/ BootInit

Spec == Init /\ [][Next]_vars

\* tokio polls every future; nobody is made to ask, and the server need not crash.
FairSpec ==
  /\ Spec
  /\ WF_vars(Grant)
  /\ \A r \in Request : WF_vars(RequestStep(r))
  /\ \A s \in Restorer : WF_vars(RestoreStep(s))

-----------------------------------------------------------------------------
(* Properties.                                                               *)

\* A row that was acknowledged by a settled server stays in the file a restart would
\* open, until a restore replaces that file: no connection of an older file is left in
\* the pool.  A server is not settled after a restore that failed, or was cut short by its
\* client, between the removal of the data directory and the closing of the pool, or that
\* overlapped with another; the next restore that goes through settles it.
SureRowsKept ==
  \A r \in sure : req[r].at = "acked" => disk \in 1..MaxFiles /\ r \in FileRows(disk)

\* While no restore is in progress the pool is open, unless the last restore that closed it
\* failed, or its client left, before it was exchanged: then it stays closed until a restart
\* or another restore.
OpenUnlessDead == up /\ ~Busy /\ ~dead => pools[cur].open

\* An archive made of a running server contains every row that was in the database when
\* the copy began, unless SQLite checkpointed or a restore ran meanwhile.
BackupWhole ==
  [][\A b \in Backup : Upload(b) => owed[b] \subseteq Copied(b) \/ b \in torn]_vars

\* A reader holds a guard and waits for another behind a writer, who waits for it.
Jammed ==
  \E r \in Request : Holds(r, "read") /\
    \E i, j \in DOMAIN queue : i < j /\ queue[i][2] = "write" /\ queue[j] = <<r, "again">>

\* Has a step of its own to take, whatever others do.
Proceeds(a) ==
  \/ a \in Request /\ \/ req[a].at = "asked" /\ Holds(a, "read")
                      \/ req[a].at \in {"conn", "stored"}
                      \/ req[a].at = "again" /\ Holds(a, "again")
  \/ a \in Restorer /\ \/ At(a, "close") /\ Holds(a, "read")
                       \/ At(a, "closing") /\ pools[cur].out = {}
                       \/ At(a, "swap") /\ Holds(a, "write")

\* Nobody waits in a circle, but for that one: the head of the queue is granted or waits for a
\* holder who goes on, and who closes a pool waits for a connection that comes back without
\* the lock.
NobodyStuck ==
  /\ queue # <<>> /\ ~Jammed => Free(Head(queue)) \/ \E g \in guards : Proceeds(g[1])
  /\ \A s \in Restorer : At(s, "closing") => Proceeds(s) \/ \E r \in pools[cur].out : Proceeds(r)

ReqPending(r) == req[r].at \in {"asked", "conn", "stored", "again"}
ResPending(s) == res[s].at \notin {"new", "done", "failed"}

\* Every request and every restore ends, however they queue for the lock, unless a
\* request with two guards and a restore wait for each other.
EveryoneServed ==
  /\ \A r \in Request : ReqPending(r) ~> (~ReqPending(r) \/ Jammed)
  /\ \A s \in Restorer : ResPending(s) ~> (~ResPending(s) \/ Jammed)
=============================================================================
