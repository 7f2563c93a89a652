---------------------------- MODULE DbPoolProofs ----------------------------
(***************************************************************************)
(* Proofs about DbPool, for any number of requests, restores, backups and   *)
(* files, and clients that may leave: the types, that the pool is open      *)
(* unless its exchange failed or was cut short, that acknowledged rows stay *)
(* reachable, that archives are whole, and that nobody waits in a circle,   *)
(* but for the one Jammed describes.                                        *)
(***************************************************************************)
EXTENDS DbPool, SequenceTheorems, TLAPS

-----------------------------------------------------------------------------
(* The invariant.                                                            *)

MachineOK ==
  /\ disk \in 0..MaxFiles \cup {None} /\ made \in 0..MaxFiles
  /\ files \in [1..MaxFiles -> File]

PoolsOK ==
  /\ pools \in [PoolId -> [open : BOOLEAN, on : SUBSET (1..MaxFiles), out : SUBSET Request]]
  /\ cur \in PoolId

GuardsOK == guards \subseteq Guard /\ queue \in Seq(Guard)

ReqOK ==
  /\ req \in [Request -> [at : ReqStages, file : 0..MaxFiles]]
  /\ \A r \in Request : req[r].at = "conn" => req[r].file \in 1..MaxFiles

ResOK ==
  /\ res \in [Restorer -> [at : ResStages, file : 0..MaxFiles]]
  /\ \A s \in Restorer : res[s].at = "migrate" => res[s].file \in 1..MaxFiles

BakOK ==
  /\ bak \in [Backup -> [db : (SUBSET Request) \cup {None}, wal : (SUBSET Request) \cup {None}]]
  /\ owed \in [Backup -> SUBSET Request] /\ torn \subseteq Backup

RestOK ==
  /\ up \in BOOLEAN /\ events \in 0..MaxEvents
  /\ sure \subseteq Request /\ spoilt \in BOOLEAN /\ dead \in BOOLEAN /\ mixed \subseteq Restorer

TypeInv == MachineOK /\ PoolsOK /\ GuardsOK /\ ReqOK /\ ResOK /\ BakOK /\ RestOK

Working(s) == res[s].at \notin {"new", "done", "failed"}
Exchanging == {"open", "migrate", "swap"}

\* A writer is alone.
Exclusive == \A g \in guards : g[2] = "write" => guards = {g}

\* Who uses a connection, or waits for the last of them, holds a guard.
LockOK ==
  /\ Exclusive
  /\ \A r \in Request : req[r].at \in {"conn", "stored", "again"} => Holds(r, "read")
  /\ \A s \in Restorer : res[s].at = "closing" => Holds(s, "read")

\* Pools are opened before they are put behind the lock, and a closed one is waited for
\* until its connections are back.
PoolOK ==
  /\ cur # Boot => res[cur].at = "done"
  /\ \A s \in Restorer : res[s].at \in {"migrate", "swap"} => pools[s].open
  /\ ~pools[cur].open => pools[cur].on = {}
  /\ \A s \in Restorer : res[s].at = "closing" => ~pools[cur].open
  /\ \A r \in Request : req[r].at = "conn" => r \in pools[cur].out
  /\ up /\ ~dead /\ ~pools[cur].open =>
       \E s \in Restorer : res[s].at \in {"closing"} \cup Exchanging
  /\ \A s \in Restorer : res[s].at \in Exchanging /\ ~spoilt =>
       ~pools[cur].open /\ pools[cur].out = {}

DownOK ==
  ~up => /\ cur = Boot
         /\ \A s \in Restorer : ~Working(s)
         /\ \A r \in Request : req[r].at \notin {"asked", "conn", "stored", "again"}
         /\ \A b \in Backup : bak[b] = NoBackup

\* A restore that overlaps with none is the only one at work.
AloneOK ==
  \A s \in Restorer : Working(s) /\ s \notin mixed => \A t \in Restorer \ {s} : ~Working(t)

\* The file in the data directory is the one that is used, once no restore is at work.
FileOK ==
  /\ up /\ ~spoilt /\ (\A s \in Restorer : res[s].at # "cleared") => disk \in 1..MaxFiles
  /\ \A s \in Restorer : s \notin mixed /\ res[s].at \in {"migrate", "swap"} =>
       disk \in 1..MaxFiles /\ pools[s].on \subseteq {disk}
  /\ up /\ ~spoilt /\ (\A s \in Restorer : ~Working(s)) =>
       /\ pools[cur].on \subseteq {disk}
       /\ pools[cur].open => \A r \in Request : req[r].at = "conn" => req[r].file = disk

SureOK ==
  /\ sure # {} => ~spoilt /\ \A s \in Restorer : ~Working(s)
  /\ \A r \in sure : req[r].at \in {"stored", "again", "acked"} =>
       disk \in 1..MaxFiles /\ r \in FileRows(disk)
  /\ \A r \in sure : req[r].at = "conn" => req[r].file = disk

\* What a backup has copied, while the database file stays as it is.
BackupOK ==
  \A b \in Backup : Started(b) /\ b \notin torn =>
    /\ disk \in 1..MaxFiles
    /\ owed[b] \subseteq FileRows(disk)
    /\ bak[b].db # None => bak[b].db = files[disk].db
    /\ bak[b].wal # None => owed[b] \ files[disk].db \subseteq bak[b].wal

Inv == TypeInv /\ LockOK /\ PoolOK /\ DownOK /\ AloneOK /\ FileOK /\ SureOK /\ BackupOK

-----------------------------------------------------------------------------
(* What the parts of an action do.                                           *)

LEMMA AskEffect ==
  ASSUME GuardsOK, Exclusive, NEW g \in Guard, Ask(g)
  PROVE  GuardsOK' /\ Exclusive' /\ guards \subseteq guards'
BY DEF GuardsOK, Exclusive, Ask, Free

LEMMA DropEffect ==
  ASSUME GuardsOK, Exclusive, NEW gs, Drop(gs)
  PROVE  GuardsOK' /\ Exclusive' /\ guards' = guards \ gs
BY DEF GuardsOK, Exclusive, Drop

LEMMA GrantEffect ==
  ASSUME GuardsOK, Exclusive, Grant
  PROVE  GuardsOK' /\ Exclusive' /\ guards \subseteq guards'
<1>1. Head(queue) \in Guard /\ Tail(queue) \in Seq(Guard)
  BY HeadTailProperties DEF GuardsOK, Grant
<1> QED
  BY <1>1 DEF GuardsOK, Exclusive, Grant, Free

LEMMA RemoveAtEffect ==
  ASSUME NEW S, NEW q \in Seq(S), NEW i \in DOMAIN q
  PROVE  /\ Seqs!RemoveAt(q, i) \in Seq(S)
         /\ Len(Seqs!RemoveAt(q, i)) = Len(q) - 1
         /\ \A j \in 1..Len(q) - 1 : Seqs!RemoveAt(q, i)[j] = IF j < i THEN q[j] ELSE q[j + 1]
<1> DEFINE t == SubSeq(q, 1, i - 1)
           u == SubSeq(q, i + 1, Len(q))
<1>1. Len(q) \in Nat /\ i \in 1..Len(q) /\ \A j \in 1..Len(q) : q[j] \in S
  OBVIOUS
<1>2. /\ t \in Seq(S) /\ Len(t) = i - 1
      /\ \A j \in 1..i - 1 : t[j] = q[j]
  BY <1>1, SubSeqProperties
<1>3. /\ u \in Seq(S) /\ Len(u) = Len(q) - i
      /\ \A j \in 1..Len(q) - i : u[j] = q[i + j]
  <2>1. \A j \in i + 1..Len(q) : q[j] \in S
    BY <1>1
  <2>2. /\ u \in Seq(S) /\ Len(u) = IF i + 1 <= Len(q) THEN Len(q) - (i + 1) + 1 ELSE 0
        /\ \A j \in 1..Len(q) - (i + 1) + 1 : u[j] = q[i + 1 + j - 1]
    BY <1>1, <2>1, SubSeqProperties
  <2> QED
    BY <1>1, <2>2
<1>4. /\ t \o u \in Seq(S) /\ Len(t \o u) = Len(t) + Len(u)
      /\ \A j \in 1..Len(t) + Len(u) : (t \o u)[j] = IF j <= Len(t) THEN t[j] ELSE u[j - Len(t)]
  <2> HIDE DEF t, u
  <2> QED
    BY <1>2, <1>3, ConcatProperties
<1>5. Seqs!RemoveAt(q, i) = t \o u
  BY DEF Seqs!RemoveAt
<1> HIDE DEF t, u
<1>6. ASSUME NEW j \in 1..Len(q) - 1 PROVE (t \o u)[j] = IF j < i THEN q[j] ELSE q[j + 1]
  <2>1. j \in 1..Len(t) + Len(u)
    BY <1>1, <1>2, <1>3
  <2>2. CASE j < i
    BY <1>1, <1>2, <1>4, <2>1, <2>2
  <2>3. CASE ~(j < i)
    <3>1. j - (i - 1) \in 1..Len(q) - i /\ i + (j - (i - 1)) = j + 1 /\ ~(j <= i - 1)
      BY <1>1, <2>3
    <3>2. u[j - (i - 1)] = q[j + 1]
      BY <1>3, <3>1
    <3> QED
      BY <1>2, <1>4, <2>1, <2>3, <3>1, <3>2
  <2> QED
    BY <2>2, <2>3
<1>7. t \o u \in Seq(S) /\ Len(t \o u) = Len(q) - 1
  BY <1>1, <1>2, <1>3, <1>4
<1> QED
  BY <1>5, <1>6, <1>7, Zenon

LEMMA ForsakeEffect ==
  ASSUME GuardsOK, Exclusive, NEW a, Forsake(a)
  PROVE  GuardsOK' /\ Exclusive' /\ guards' = {g \in guards : g[1] # a}
<1>1. queue' \in Seq(Guard)
  BY RemoveAtEffect DEF GuardsOK, Forsake
<1> QED
  BY <1>1 DEF GuardsOK, Exclusive, Forsake

LEMMA MakeEffect ==
  ASSUME MachineOK, NEW f \in File, MakeFile(f)
  PROVE  MachineOK' /\ disk' \in 1..MaxFiles /\ disk' = made + 1
BY PoolAssumption DEF MachineOK, MakeFile

LEMMA NewFiles == NoFile \in File /\ Archived \in File /\ [NoFile EXCEPT !.schema = Parts] \in File
BY DEF NoFile, Archived, File, Parts

\* A connection opens the file there is.
LEMMA OpenEffect ==
  ASSUME MachineOK, NEW i \in 1..MaxFiles, OpenFile(i)
  PROVE  /\ MachineOK' /\ disk' = i
         /\ disk \in 1..MaxFiles => files' = files /\ disk' = disk
<1>1. CASE disk \in 1..MaxFiles /\ i = disk /\ UNCHANGED <<disk, files, made>>
  BY <1>1 DEF MachineOK
<1>2. CASE disk = None /\ i = made + 1 /\ MakeFile(NoFile)
  BY <1>2, NewFiles, MakeEffect, PoolAssumption
<1> QED
  BY <1>1, <1>2 DEF OpenFile

LEMMA GoEffect ==
  ASSUME ResOK, NEW s \in Restorer, NEW a \in ResStages \ {"migrate"}, Go(s, a)
  PROVE  /\ ResOK' /\ res'[s].at = a
         /\ \A t \in Restorer \ {s} : res'[t] = res[t]
BY DEF ResOK, Go

LEMMA AnswerEffect ==
  ASSUME ReqOK, NEW r \in Request, NEW a \in {"acked", "failed"}, Answer(r, a)
  PROVE  /\ ReqOK' /\ req'[r].at = a
         /\ \A q \in Request \ {r} : req'[q] = req[q]
         /\ Drop({<<r, "read">>, <<r, "again">>})
BY PoolAssumption DEF ReqOK, ReqStages, Answer

\* The files a backup copies belong to the backup only.
LEMMA BackupSteps ==
  \A b \in Backup : BackupStep(b) =>
    UNCHANGED <<machine, up, pools, cur, lock, req, res, sure, spoilt, dead, mixed>>
BY DEF BackupStep, CopyDb, CopyWal, Upload, BackupFails, EndBackup, BakIdle

-----------------------------------------------------------------------------
(* Steps of requests.                                                        *)

LEMMA BeginEffect ==
  ASSUME TypeInv, Exclusive, NEW r \in Request, Begin(r)
  PROVE  /\ TypeInv' /\ Exclusive' /\ guards \subseteq guards'
         /\ req'[r].at = "asked" /\ \A q \in Request \ {r} : req'[q] = req[q]
<1>1. <<r, "read">> \in Guard
  BY DEF Guard, Actor
<1>2. GuardsOK' /\ Exclusive' /\ guards \subseteq guards'
  BY <1>1, AskEffect DEF TypeInv, Begin
<1>3. ReqOK' /\ req'[r].at = "asked" /\ \A q \in Request \ {r} : req'[q] = req[q]
  BY DEF TypeInv, ReqOK, ReqStages, Begin
<1>4. RestOK'
  BY DEF TypeInv, RestOK, Begin
<1> QED
  BY <1>2, <1>3, <1>4 DEF TypeInv, MachineOK, PoolsOK, ResOK, BakOK, Begin, machine

LEMMA AcquireEffect ==
  ASSUME TypeInv, NEW r \in Request, Acquire(r)
  PROVE  /\ TypeInv'
         /\ \E i \in 1..MaxFiles :
              /\ \/ i \in pools[cur].on /\ UNCHANGED <<disk, files>>
                 \/ /\ disk' = i
                    /\ disk \in 1..MaxFiles => files' = files /\ disk' = disk
              /\ req'[r].at = "conn" /\ req'[r].file = i
         /\ \A q \in Request \ {r} : req'[q] = req[q]
         /\ pools'[cur].open = pools[cur].open /\ pools'[cur].on = pools[cur].on
         /\ pools'[cur].out = pools[cur].out \cup {r}
         /\ \A p \in PoolId \ {cur} : pools'[p] = pools[p]
<1>1. PICK i \in 1..MaxFiles :
        /\ \/ i \in pools[cur].on /\ UNCHANGED <<disk, files, made>>
           \/ OpenFile(i)
        /\ req' = [req EXCEPT ![r] = [at |-> "conn", file |-> i]]
  BY DEF Acquire
<1>2. /\ MachineOK'
      /\ \/ i \in pools[cur].on /\ UNCHANGED <<disk, files>>
         \/ /\ disk' = i
            /\ disk \in 1..MaxFiles => files' = files /\ disk' = disk
  <2>1. CASE i \in pools[cur].on /\ UNCHANGED <<disk, files, made>>
    BY <2>1 DEF TypeInv, MachineOK
  <2>2. CASE OpenFile(i)
    BY <2>2, OpenEffect DEF TypeInv
  <2> QED
    BY <1>1, <2>1, <2>2
<1>3. /\ ReqOK' /\ req'[r].at = "conn" /\ req'[r].file = i
      /\ \A q \in Request \ {r} : req'[q] = req[q]
  BY <1>1 DEF TypeInv, ReqOK, ReqStages
<1>4. /\ PoolsOK'
      /\ pools'[cur].open = pools[cur].open /\ pools'[cur].on = pools[cur].on
      /\ pools'[cur].out = pools[cur].out \cup {r}
      /\ \A p \in PoolId \ {cur} : pools'[p] = pools[p]
  BY DEF TypeInv, PoolsOK, Acquire
<1>5. GuardsOK' /\ ResOK' /\ BakOK' /\ RestOK'
  BY DEF TypeInv, GuardsOK, ResOK, BakOK, RestOK, Acquire, lock, history
<1> QED
  BY <1>2, <1>3, <1>4, <1>5 DEF TypeInv

LEMMA GiveBackEffect ==
  ASSUME PoolsOK, NEW r \in Request, req[r].file \in 1..MaxFiles, GiveBack(r), cur' = cur
  PROVE  /\ PoolsOK'
         /\ pools'[cur].open = pools[cur].open
         /\ pools'[cur].on = IF pools[cur].open THEN pools[cur].on \cup {req[r].file} ELSE pools[cur].on
         /\ pools'[cur].out = pools[cur].out \ {r}
         /\ \A p \in PoolId \ {cur} : pools'[p] = pools[p]
BY DEF PoolsOK, GiveBack

\* The statement writes its row, on a file with the whole schema, or fails.
LEMMA ExecuteEffect ==
  ASSUME TypeInv, Exclusive, NEW r \in Request, Execute(r)
  PROVE  /\ TypeInv' /\ Exclusive'
         /\ guards \ {<<r, "read">>, <<r, "again">>} \subseteq guards'
         /\ req'[r].at \in {"stored", "acked", "failed"}
         /\ req'[r].at = "stored" => guards \subseteq guards'
         /\ req'[r].at \in {"stored", "again", "acked"} => r \in files'[req[r].file].wal
         /\ \A q \in Request \ {r} : req'[q] = req[q]
         /\ \A i \in 1..MaxFiles : /\ files'[i].db = files[i].db
                                   /\ files[i].wal \subseteq files'[i].wal
         /\ pools'[cur].open = pools[cur].open
         /\ pools'[cur].on = IF pools[cur].open THEN pools[cur].on \cup {req[r].file} ELSE pools[cur].on
         /\ pools'[cur].out = pools[cur].out \ {r}
         /\ \A p \in PoolId \ {cur} : pools'[p] = pools[p]
<1>1. PICK i \in 1..MaxFiles : i = req[r].file
  BY DEF TypeInv, ReqOK, Execute
<1>2. PICK ok \in BOOLEAN :
        /\ files' = IF ok THEN [files EXCEPT ![i].wal = @ \cup {r}] ELSE files
        /\ IF ok /\ r \in Nested
           THEN req' = [req EXCEPT ![r] = [at |-> "stored", file |-> 0]] /\ UNCHANGED lock
           ELSE Answer(r, IF ok THEN "acked" ELSE "failed")
  BY <1>1 DEF Execute
<1>3. /\ PoolsOK'
      /\ pools'[cur].open = pools[cur].open
      /\ pools'[cur].on = IF pools[cur].open THEN pools[cur].on \cup {i} ELSE pools[cur].on
      /\ pools'[cur].out = pools[cur].out \ {r}
      /\ \A p \in PoolId \ {cur} : pools'[p] = pools[p]
  BY <1>1, GiveBackEffect DEF TypeInv, Execute
<1>4. /\ MachineOK' /\ (ok => r \in files'[i].wal)
      /\ \A k \in 1..MaxFiles : files'[k].db = files[k].db /\ files[k].wal \subseteq files'[k].wal
  <2>1. disk' = disk /\ made' = made
    BY DEF Execute
  <2>2. CASE ok
    BY <1>2, <2>1, <2>2 DEF TypeInv, MachineOK, File
  <2>3. CASE ~ok
    BY <1>2, <2>1, <2>3 DEF TypeInv, MachineOK, File
  <2> QED
    BY <2>2, <2>3
<1>5. /\ GuardsOK' /\ Exclusive' /\ ReqOK'
      /\ guards \ {<<r, "read">>, <<r, "again">>} \subseteq guards'
      /\ req'[r].at \in {"stored", "acked", "failed"}
      /\ req'[r].at = "stored" => guards \subseteq guards'
      /\ req'[r].at \in {"stored", "again", "acked"} => ok
      /\ \A q \in Request \ {r} : req'[q] = req[q]
  <2>1. CASE ok /\ r \in Nested
    <3>1. req' = [req EXCEPT ![r] = [at |-> "stored", file |-> 0]] /\ UNCHANGED <<guards, queue>>
      BY <1>2, <2>1 DEF lock
    <3>2. ReqOK' /\ req'[r].at = "stored" /\ \A q \in Request \ {r} : req'[q] = req[q]
      BY <3>1, PoolAssumption DEF TypeInv, ReqOK, ReqStages
    <3>3. GuardsOK' /\ Exclusive' /\ guards' = guards
      BY <3>1 DEF TypeInv, GuardsOK, Exclusive
    <3> QED
      BY <2>1, <3>2, <3>3
  <2>2. CASE ~(ok /\ r \in Nested)
    <3>1. PICK a \in {"acked", "failed"} : Answer(r, a) /\ (a = "acked" => ok)
      BY <1>2, <2>2
    <3>2. /\ ReqOK' /\ req'[r].at = a /\ \A q \in Request \ {r} : req'[q] = req[q]
          /\ Drop({<<r, "read">>, <<r, "again">>})
      BY <3>1, AnswerEffect DEF TypeInv
    <3>3. GuardsOK' /\ Exclusive' /\ guards' = guards \ {<<r, "read">>, <<r, "again">>}
      BY <3>2, DropEffect DEF TypeInv
    <3> QED
      BY <3>1, <3>2, <3>3
  <2> QED
    BY <2>1, <2>2
<1>6. ResOK' /\ BakOK' /\ RestOK'
  BY DEF TypeInv, ResOK, BakOK, RestOK, Execute, history
<1> QED
  BY <1>1, <1>3, <1>4, <1>5, <1>6 DEF TypeInv

LEMMA AskAgainEffect ==
  ASSUME TypeInv, Exclusive, NEW r \in Request, AskAgain(r)
  PROVE  /\ TypeInv' /\ Exclusive' /\ guards \subseteq guards'
         /\ req[r].at = "stored" /\ req'[r].at = "again"
         /\ \A q \in Request \ {r} : req'[q] = req[q]
         /\ UNCHANGED <<machine, up, pools, cur, res, bak, events, history>>
<1>1. <<r, "again">> \in Guard
  BY DEF Guard, Actor
<1>2. GuardsOK' /\ Exclusive' /\ guards \subseteq guards'
  BY <1>1, AskEffect DEF TypeInv, AskAgain
<1>3. /\ ReqOK' /\ req[r].at = "stored" /\ req'[r].at = "again"
      /\ \A q \in Request \ {r} : req'[q] = req[q]
  BY DEF TypeInv, ReqOK, ReqStages, AskAgain
<1>4. UNCHANGED <<machine, up, pools, cur, res, bak, events, history>>
  BY DEF AskAgain
<1>5. MachineOK' /\ PoolsOK' /\ ResOK' /\ BakOK' /\ RestOK'
  BY <1>4 DEF TypeInv, MachineOK, PoolsOK, ResOK, BakOK, RestOK, machine, history
<1> QED
  BY <1>2, <1>3, <1>4, <1>5 DEF TypeInv

\* A request that ends, one way or the other.
LEMMA EndEffect ==
  ASSUME TypeInv, Exclusive, NEW r \in Request, NoConnection(r) \/ ReadBack(r)
  PROVE  /\ TypeInv' /\ Exclusive'
         /\ guards' = guards \ {<<r, "read">>, <<r, "again">>}
         /\ req'[r].at \in {"acked", "failed"}
         /\ req'[r].at = "acked" => req[r].at = "again"
         /\ \A q \in Request \ {r} : req'[q] = req[q]
         /\ UNCHANGED <<machine, up, pools, cur, res, bak, events, history>>
<1>1. PICK a \in {"acked", "failed"} : Answer(r, a) /\ (a = "acked" => req[r].at = "again")
  BY DEF NoConnection, ReadBack
<1>2. /\ ReqOK' /\ req'[r].at = a /\ \A q \in Request \ {r} : req'[q] = req[q]
      /\ Drop({<<r, "read">>, <<r, "again">>})
  BY <1>1, AnswerEffect DEF TypeInv
<1>3. GuardsOK' /\ Exclusive' /\ guards' = guards \ {<<r, "read">>, <<r, "again">>}
  BY <1>2, DropEffect DEF TypeInv
<1>4. UNCHANGED <<machine, up, pools, cur, res, bak, events, history>>
  BY DEF NoConnection, ReadBack
<1>5. MachineOK' /\ PoolsOK' /\ ResOK' /\ BakOK' /\ RestOK'
  BY <1>4 DEF TypeInv, MachineOK, PoolsOK, ResOK, BakOK, RestOK, machine, history
<1> QED
  BY <1>1, <1>2, <1>3, <1>4, <1>5 DEF TypeInv

\* A request whose client leaves may have written its row, and gives its connection back.
LEMMA LeaveRequestEffect ==
  ASSUME TypeInv, Exclusive, NEW r \in Request, LeaveRequest(r)
  PROVE  /\ TypeInv' /\ Exclusive'
         /\ guards' = {g \in guards : g[1] # r}
         /\ req'[r].at = "failed" /\ \A q \in Request \ {r} : req'[q] = req[q]
         /\ \A i \in 1..MaxFiles : /\ files'[i].db = files[i].db
                                   /\ files[i].wal \subseteq files'[i].wal
         /\ req[r].at # "conn" => UNCHANGED pools
         /\ req[r].at = "conn" =>
              /\ pools'[cur].open = pools[cur].open
              /\ pools'[cur].on = IF pools[cur].open THEN pools[cur].on \cup {req[r].file} ELSE pools[cur].on
              /\ pools'[cur].out = pools[cur].out \ {r}
              /\ \A p \in PoolId \ {cur} : pools'[p] = pools[p]
         /\ UNCHANGED <<disk, made, up, cur, res, bak, events, history>>
<1>1. GuardsOK' /\ Exclusive' /\ guards' = {g \in guards : g[1] # r}
  BY ForsakeEffect DEF TypeInv, LeaveRequest
<1>2. ReqOK' /\ req'[r].at = "failed" /\ \A q \in Request \ {r} : req'[q] = req[q]
  BY PoolAssumption DEF TypeInv, ReqOK, ReqStages, LeaveRequest
<1>3. UNCHANGED <<disk, made, up, cur, res, bak, events, history>>
  BY DEF LeaveRequest
<1>4. /\ PoolsOK'
      /\ req[r].at # "conn" => UNCHANGED pools
      /\ req[r].at = "conn" =>
           /\ pools'[cur].open = pools[cur].open
           /\ pools'[cur].on = IF pools[cur].open THEN pools[cur].on \cup {req[r].file} ELSE pools[cur].on
           /\ pools'[cur].out = pools[cur].out \ {r}
           /\ \A p \in PoolId \ {cur} : pools'[p] = pools[p]
  <2>1. CASE req[r].at = "conn"
    <3>1. GiveBack(r) /\ req[r].file \in 1..MaxFiles /\ PoolsOK
      BY <2>1 DEF LeaveRequest, TypeInv, ReqOK
    <3> QED
      BY <1>3, <2>1, <3>1, GiveBackEffect
  <2>2. CASE req[r].at # "conn"
    BY <1>3, <2>2 DEF LeaveRequest, TypeInv, PoolsOK
  <2> QED
    BY <2>1, <2>2
<1>5. /\ MachineOK'
      /\ \A i \in 1..MaxFiles : files'[i].db = files[i].db /\ files[i].wal \subseteq files'[i].wal
  <2>1. disk' = disk /\ made' = made
    BY <1>3
  <2>2. CASE UNCHANGED files
    BY <2>1, <2>2 DEF TypeInv, MachineOK, File
  <2>3. CASE req[r].file \in 1..MaxFiles /\ files' = [files EXCEPT ![req[r].file].wal = @ \cup {r}]
    BY <2>1, <2>3 DEF TypeInv, MachineOK, File
  <2> QED
    BY <2>2, <2>3 DEF LeaveRequest, TypeInv, ReqOK
<1>6. ResOK' /\ BakOK' /\ RestOK'
  BY <1>3 DEF TypeInv, ResOK, BakOK, RestOK, history
<1> QED
  BY <1>1, <1>2, <1>3, <1>4, <1>5, <1>6 DEF TypeInv

-----------------------------------------------------------------------------
(* Steps of restores.                                                        *)

LEMMA ClearEffect ==
  ASSUME TypeInv, NEW s \in Restorer, Clear(s)
  PROVE  /\ TypeInv'
         /\ \/ res'[s].at = "cleared" /\ spoilt' = spoilt
            \/ res'[s].at = "failed" /\ spoilt' = TRUE
         /\ \A t \in Restorer \ {s} : res'[t] = res[t]
<1>1. PICK a \in {"cleared", "failed"} :
        /\ Go(s, a)
        /\ IF a = "cleared" THEN disk' = 0 /\ spoilt' = spoilt
           ELSE disk' \in {disk, None} /\ spoilt' = TRUE
  BY DEF Clear
<1>2. ResOK' /\ res'[s].at = a /\ \A t \in Restorer \ {s} : res'[t] = res[t]
  BY <1>1, GoEffect DEF TypeInv, ResStages
<1>3. MachineOK' /\ PoolsOK' /\ GuardsOK' /\ ReqOK'
  BY <1>1, PoolAssumption DEF TypeInv, MachineOK, PoolsOK, GuardsOK, ReqOK, Clear, lock
<1>4. BakOK'
  BY DEF TypeInv, BakOK, Clear, Copying
<1>5. RestOK'
  <2>1. events' \in 0..MaxEvents
    BY PoolAssumption DEF TypeInv, RestOK, Clear, Event
  <2>2. spoilt' \in BOOLEAN
    BY <1>1 DEF TypeInv, RestOK
  <2>3. mixed' \subseteq Restorer
    BY DEF TypeInv, RestOK, Clear, Others
  <2>4. sure' = {} /\ UNCHANGED <<up, dead>>
    BY DEF Clear
  <2> QED
    BY <2>1, <2>2, <2>3, <2>4 DEF TypeInv, RestOK
<1> QED
  BY <1>1, <1>2, <1>3, <1>4, <1>5 DEF TypeInv

LEMMA ExtractEffect ==
  ASSUME TypeInv, Exclusive, NEW s \in Restorer, Extract(s)
  PROVE  /\ TypeInv' /\ Exclusive' /\ guards \subseteq guards'
         /\ \/ res'[s].at = "close" /\ spoilt' = spoilt /\ disk' \in 1..MaxFiles
            \/ res'[s].at = "failed" /\ spoilt' = TRUE
         /\ \A t \in Restorer \ {s} : res'[t] = res[t]
<1>1. CASE MakeFile(Archived) /\ Go(s, "close") /\ Ask(<<s, "read">>) /\ UNCHANGED spoilt
  <2>1. <<s, "read">> \in Guard
    BY DEF Guard, Actor
  <2>2. GuardsOK' /\ Exclusive' /\ guards \subseteq guards'
    BY <1>1, <2>1, AskEffect DEF TypeInv
  <2>3. ResOK' /\ res'[s].at = "close" /\ \A t \in Restorer \ {s} : res'[t] = res[t]
    BY <1>1, GoEffect DEF TypeInv, ResStages
  <2>4. MachineOK' /\ disk' \in 1..MaxFiles
    BY <1>1, NewFiles, MakeEffect DEF TypeInv
  <2>5. PoolsOK' /\ ReqOK'
    BY DEF TypeInv, PoolsOK, ReqOK, Extract
  <2>6. BakOK' /\ RestOK'
    BY <1>1 DEF TypeInv, BakOK, RestOK, Extract, Copying
  <2> QED
    BY <1>1, <2>2, <2>3, <2>4, <2>5, <2>6 DEF TypeInv
<1>2. CASE disk' \in {disk, None} /\ Go(s, "failed") /\ spoilt' = TRUE /\ UNCHANGED <<files, made, lock>>
  <2>1. ResOK' /\ res'[s].at = "failed" /\ \A t \in Restorer \ {s} : res'[t] = res[t]
    BY <1>2, GoEffect DEF TypeInv, ResStages
  <2>2. MachineOK' /\ GuardsOK' /\ Exclusive' /\ guards' = guards
    BY <1>2 DEF TypeInv, MachineOK, GuardsOK, Exclusive, lock
  <2>3. PoolsOK' /\ ReqOK'
    BY DEF TypeInv, PoolsOK, ReqOK, Extract
  <2>4. BakOK' /\ RestOK'
    BY <1>2 DEF TypeInv, BakOK, RestOK, Extract, Copying
  <2> QED
    BY <1>2, <2>1, <2>2, <2>3, <2>4 DEF TypeInv
<1> QED
  BY <1>1, <1>2 DEF Extract

LEMMA CloseEffect ==
  ASSUME TypeInv, NEW s \in Restorer, Close(s)
  PROVE  /\ TypeInv'
         /\ res'[s].at = "closing" /\ \A t \in Restorer \ {s} : res'[t] = res[t]
         /\ ~pools'[cur].open /\ pools'[cur].on = {} /\ pools'[cur].out = pools[cur].out
         /\ \A p \in PoolId \ {cur} : pools'[p] = pools[p]
<1>1. ResOK' /\ res'[s].at = "closing" /\ \A t \in Restorer \ {s} : res'[t] = res[t]
  BY GoEffect DEF TypeInv, ResStages, Close
<1>2. /\ PoolsOK'
      /\ ~pools'[cur].open /\ pools'[cur].on = {} /\ pools'[cur].out = pools[cur].out
      /\ \A p \in PoolId \ {cur} : pools'[p] = pools[p]
  BY DEF TypeInv, PoolsOK, Close
<1> QED
  BY <1>1, <1>2 DEF TypeInv, MachineOK, GuardsOK, ReqOK, BakOK, RestOK, Close, machine, lock, history

LEMMA ClosedEffect ==
  ASSUME TypeInv, Exclusive, NEW s \in Restorer, Closed(s)
  PROVE  /\ TypeInv' /\ Exclusive' /\ guards' = guards \ {<<s, "read">>}
         /\ res'[s].at = "open" /\ \A t \in Restorer \ {s} : res'[t] = res[t]
<1>1. ResOK' /\ res'[s].at = "open" /\ \A t \in Restorer \ {s} : res'[t] = res[t]
  BY GoEffect DEF TypeInv, ResStages, Closed
<1>2. GuardsOK' /\ Exclusive' /\ guards' = guards \ {<<s, "read">>}
  BY DropEffect DEF TypeInv, Closed
<1> QED
  BY <1>1, <1>2 DEF TypeInv, MachineOK, PoolsOK, ReqOK, BakOK, RestOK, Closed, machine, history

LEMMA OpenPoolEffect ==
  ASSUME TypeInv, NEW s \in Restorer, OpenPool(s)
  PROVE  /\ TypeInv' /\ disk' \in 1..MaxFiles
         /\ res'[s].at = "migrate" /\ \A t \in Restorer \ {s} : res'[t] = res[t]
         /\ pools'[s].open /\ pools'[s].on = {disk'}
         /\ \A p \in PoolId \ {s} : pools'[p] = pools[p]
         /\ disk \in 1..MaxFiles => files' = files /\ disk' = disk
<1>1. PICK i \in 1..MaxFiles :
        /\ OpenFile(i) \/ (disk = 0 /\ i = made + 1 /\ MakeFile(NoFile))
        /\ res' = [res EXCEPT ![s] = [at |-> "migrate", file |-> i]]
        /\ pools' = [pools EXCEPT ![s] = Opened(i)]
  BY DEF OpenPool
<1>2. MachineOK' /\ disk' = i /\ (disk \in 1..MaxFiles => files' = files /\ disk' = disk)
  <2>1. CASE OpenFile(i)
    BY <2>1, OpenEffect DEF TypeInv
  <2>2. CASE disk = 0 /\ i = made + 1 /\ MakeFile(NoFile)
    BY <2>2, NewFiles, MakeEffect DEF TypeInv
  <2> QED
    BY <1>1, <2>1, <2>2
<1>3. ResOK' /\ res'[s].at = "migrate" /\ \A t \in Restorer \ {s} : res'[t] = res[t]
  BY <1>1 DEF TypeInv, ResOK, ResStages
<1>4. /\ PoolsOK' /\ pools'[s].open /\ pools'[s].on = {i}
      /\ \A p \in PoolId \ {s} : pools'[p] = pools[p]
  <2>2. pools' = [pools EXCEPT ![s] = [open |-> TRUE, on |-> {i}, out |-> {}]] /\ cur' = cur
    BY <1>1 DEF OpenPool, Opened
  <2> QED
    BY <2>2 DEF TypeInv, PoolsOK, PoolId
<1> QED
  BY <1>2, <1>3, <1>4 DEF TypeInv, GuardsOK, ReqOK, BakOK, RestOK, OpenPool, lock, history

\* The schema of a file changes, and no row.
LEMMA AddsEffect ==
  ASSUME TypeInv, NEW s \in Restorer, NEW part \in Parts, Adds(s, part)
  PROVE  /\ TypeInv' /\ UNCHANGED <<lock, res>> /\ res[s].at = "migrate"
         /\ \A i \in 1..MaxFiles : files'[i].db = files[i].db /\ files'[i].wal = files[i].wal
<1>1. PICK i \in 1..MaxFiles : i = res[s].file
  BY DEF TypeInv, ResOK, Adds, At
<1>2. MachineOK' /\ \A k \in 1..MaxFiles : files'[k].db = files[k].db /\ files'[k].wal = files[k].wal
  BY <1>1 DEF TypeInv, MachineOK, File, Adds
<1> QED
  BY <1>2 DEF TypeInv, PoolsOK, GuardsOK, ReqOK, ResOK, BakOK, RestOK, Adds, At, lock, history

LEMMA MigrateCases ==
  ASSUME NEW s \in Restorer, Migrate(s)
  PROVE  (\E part \in Parts : Adds(s, part)) \/ Migrated(s)
BY DEF Migrate, CreateTables, AddColumns, InsertDefaults, Parts

LEMMA MigrateSame ==
  ASSUME NEW s \in Restorer, Migrate(s)
  PROVE  /\ res[s].at = "migrate"
         /\ UNCHANGED <<disk, made, up, pools, cur, req, bak, events, history>>
BY MigrateCases DEF Adds, Migrated, At, machine

LEMMA MigrateEffect ==
  ASSUME TypeInv, Exclusive, NEW s \in Restorer, Migrate(s)
  PROVE  /\ TypeInv' /\ Exclusive' /\ guards \subseteq guards'
         /\ res'[s].at \in {"migrate", "swap"} /\ \A t \in Restorer \ {s} : res'[t] = res[t]
         /\ \A i \in 1..MaxFiles : files'[i].db = files[i].db /\ files'[i].wal = files[i].wal
<1>1. CASE Migrated(s)
  <2>1. <<s, "write">> \in Guard
    BY DEF Guard, Actor
  <2>2. GuardsOK' /\ Exclusive' /\ guards \subseteq guards'
    BY <1>1, <2>1, AskEffect DEF TypeInv, Migrated
  <2>3. ResOK' /\ res'[s].at = "swap" /\ \A t \in Restorer \ {s} : res'[t] = res[t]
    BY <1>1, GoEffect DEF TypeInv, ResStages, Migrated
  <2> QED
    BY <1>1, <2>2, <2>3 DEF TypeInv, MachineOK, PoolsOK, ReqOK, BakOK, RestOK, Migrated, machine, history
<1>2. ASSUME NEW part \in Parts, Adds(s, part)
      PROVE  /\ TypeInv' /\ Exclusive' /\ guards' = guards /\ res' = res /\ res[s].at = "migrate"
             /\ \A i \in 1..MaxFiles : files'[i].db = files[i].db /\ files'[i].wal = files[i].wal
  <2>1. /\ TypeInv' /\ guards' = guards /\ res' = res /\ res[s].at = "migrate"
        /\ \A i \in 1..MaxFiles : files'[i].db = files[i].db /\ files'[i].wal = files[i].wal
    BY <1>2, AddsEffect DEF lock
  <2> QED
    BY <2>1 DEF Exclusive
<1> QED
  BY <1>1, <1>2, MigrateCases

LEMMA ReinitFailsEffect ==
  ASSUME TypeInv, NEW s \in Restorer, ReinitFails(s)
  PROVE  /\ TypeInv'
         /\ res'[s].at = "failed" /\ \A t \in Restorer \ {s} : res'[t] = res[t]
         /\ \A p \in PoolId \ {s} : pools'[p] = pools[p]
<1>1. ResOK' /\ res'[s].at = "failed" /\ \A t \in Restorer \ {s} : res'[t] = res[t]
  BY GoEffect DEF TypeInv, ResStages, ReinitFails
<1>2. PoolsOK' /\ \A p \in PoolId \ {s} : pools'[p] = pools[p]
  BY DEF TypeInv, PoolsOK, PoolId, Shut, ReinitFails
<1> QED
  BY <1>1, <1>2 DEF TypeInv, MachineOK, GuardsOK, ReqOK, BakOK, RestOK, ReinitFails, machine, lock

LEMMA SwapEffect ==
  ASSUME TypeInv, Exclusive, NEW s \in Restorer, Swap(s)
  PROVE  /\ TypeInv' /\ Exclusive'
         /\ guards = {<<s, "write">>} /\ guards' = {}
         /\ res'[s].at = "done" /\ \A t \in Restorer \ {s} : res'[t] = res[t]
<1>1. ResOK' /\ res'[s].at = "done" /\ \A t \in Restorer \ {s} : res'[t] = res[t]
  BY GoEffect DEF TypeInv, ResStages, Swap
<1>2. GuardsOK' /\ Exclusive' /\ guards = {<<s, "write">>} /\ guards' = {}
  BY DropEffect DEF TypeInv, Swap, Exclusive, Holds
<1>3. PoolsOK'
  BY DEF TypeInv, PoolsOK, PoolId, Swap
<1>4. RestOK'
  <2>1. dead' = FALSE /\ spoilt' \in BOOLEAN /\ UNCHANGED <<up, events, sure, mixed>>
    BY DEF Swap
  <2> QED
    BY <2>1 DEF TypeInv, RestOK
<1> QED
  BY <1>1, <1>2, <1>3, <1>4 DEF TypeInv, MachineOK, ReqOK, BakOK, Swap, machine

\* A restore whose client leaves gives up its guards, and the pool it was opening.
LEMMA LeaveRestoreEffect ==
  ASSUME TypeInv, Exclusive, NEW s \in Restorer, LeaveRestore(s)
  PROVE  /\ TypeInv' /\ Exclusive'
         /\ guards' = {g \in guards : g[1] # s}
         /\ Working(s) /\ res'[s].at = "failed" /\ \A t \in Restorer \ {s} : res'[t] = res[t]
         /\ pools'[s] = Shut /\ \A p \in PoolId \ {s} : pools'[p] = pools[p]
         /\ IF res[s].at \in {"cleared", "close"} THEN spoilt' /\ dead' = dead
            ELSE dead' /\ spoilt' = spoilt
         /\ UNCHANGED <<machine, up, cur, req, bak, events, sure, mixed, owed, torn>>
<1>1. GuardsOK' /\ Exclusive' /\ guards' = {g \in guards : g[1] # s}
  BY ForsakeEffect DEF TypeInv, LeaveRestore
<1>2. ResOK' /\ res'[s].at = "failed" /\ \A t \in Restorer \ {s} : res'[t] = res[t]
  BY GoEffect DEF TypeInv, ResStages, LeaveRestore
<1>3. /\ PoolsOK'
      /\ pools'[s] = Shut /\ \A p \in PoolId \ {s} : pools'[p] = pools[p]
  BY DEF TypeInv, PoolsOK, PoolId, Shut, LeaveRestore
<1>4. /\ UNCHANGED <<machine, up, cur, req, bak, events, sure, mixed, owed, torn>>
      /\ IF res[s].at \in {"cleared", "close"} THEN spoilt' = TRUE /\ dead' = dead
         ELSE dead' = TRUE /\ spoilt' = spoilt
  BY DEF LeaveRestore
<1>5. MachineOK' /\ ReqOK' /\ BakOK' /\ RestOK'
  BY <1>4 DEF TypeInv, MachineOK, ReqOK, BakOK, RestOK, machine
<1>6. Working(s)
  BY DEF LeaveRestore, Working
<1> QED
  BY <1>1, <1>2, <1>3, <1>4, <1>5, <1>6 DEF TypeInv

-----------------------------------------------------------------------------
(* Backups, crash and start.                                                 *)

LEMMA BackupTyped ==
  ASSUME TypeInv, NEW b \in Backup, BackupStep(b)
  PROVE  TypeInv'
<1>1. MachineOK' /\ PoolsOK' /\ GuardsOK' /\ ReqOK' /\ ResOK'
  BY BackupSteps DEF TypeInv, MachineOK, PoolsOK, GuardsOK, ReqOK, ResOK, machine, lock
<1>2. bak[b] \in [db : (SUBSET Request) \cup {None}, wal : (SUBSET Request) \cup {None}]
  BY DEF TypeInv, BakOK
<1>3. CASE CopyDb(b) \/ CopyWal(b)
  <2>1. /\ disk \in 1..MaxFiles /\ FileRows(disk) \subseteq Request
        /\ files[disk].db \subseteq Request /\ files[disk].wal \subseteq Request
    BY <1>3 DEF TypeInv, MachineOK, File, FileRows, CopyDb, CopyWal
  <2>2. BakOK'
    BY <1>2, <1>3, <2>1 DEF TypeInv, BakOK, CopyDb, CopyWal, Begins
  <2>3. RestOK'
    BY <1>3, PoolAssumption DEF TypeInv, RestOK, CopyDb, CopyWal, Begins, Event, BakIdle
  <2> QED
    BY <1>1, <2>2, <2>3 DEF TypeInv
<1>4. CASE Upload(b) \/ BackupFails(b)
  <2>1. EndBackup(b)
    BY <1>4 DEF Upload, BackupFails
  <2>2. BakOK'
    BY <2>1 DEF TypeInv, BakOK, EndBackup, NoBackup
  <2>3. RestOK'
    BY <2>1 DEF TypeInv, RestOK, EndBackup, BakIdle
  <2> QED
    BY <1>1, <2>2, <2>3 DEF TypeInv
<1> QED
  BY <1>3, <1>4 DEF BackupStep

LEMMA CheckpointEffect ==
  ASSUME TypeInv, NEW i \in 1..MaxFiles, Checkpoint(i)
  PROVE  TypeInv' /\ \A k \in 1..MaxFiles : FileRows(k)' = FileRows(k)
<1>1. MachineOK' /\ \A k \in 1..MaxFiles : FileRows(k)' = FileRows(k)
  BY DEF TypeInv, MachineOK, File, FileRows, Checkpoint
<1>2. BakOK'
  BY DEF TypeInv, BakOK, Checkpoint, Copying
<1> QED
  BY <1>1, <1>2 DEF TypeInv, PoolsOK, GuardsOK, ReqOK, ResOK, RestOK, Checkpoint, lock

LEMMA CrashEffect ==
  ASSUME TypeInv, Crash
  PROVE  /\ TypeInv' /\ Exclusive' /\ guards' = {}
         /\ \A r \in Request : req'[r].at \in {"new", "acked", "failed"}
                               /\ (req'[r].at = "acked" => req[r].at = "acked")
         /\ \A s \in Restorer : res'[s].at \in {"new", "done", "failed"}
         /\ ~pools'[cur'].open /\ pools'[cur'].on = {}
<1>1. GuardsOK' /\ Exclusive' /\ guards' = {}
  BY DEF GuardsOK, Exclusive, Crash
<1>2. /\ ReqOK'
      /\ \A r \in Request : req'[r].at \in {"new", "acked", "failed"}
                            /\ (req'[r].at = "acked" => req[r].at = "acked")
  BY PoolAssumption DEF TypeInv, ReqOK, ReqStages, Crash
<1>3. ResOK' /\ \A s \in Restorer : res'[s].at \in {"new", "done", "failed"}
  BY PoolAssumption DEF TypeInv, ResOK, ResStages, Crash
<1>4. PoolsOK' /\ ~pools'[cur'].open /\ pools'[cur'].on = {}
  BY DEF PoolsOK, PoolId, Shut, Crash
<1>5. BakOK'
  BY DEF BakOK, NoBackup, Crash
<1>6. MachineOK' /\ RestOK'
  <2>1. events' \in 0..MaxEvents
    <3>1. events \in 0..MaxEvents /\ events < MaxEvents /\ events' = events + 1
      BY DEF TypeInv, RestOK, Event, Crash
    <3> QED
      BY <3>1, PoolAssumption
  <2>2. up' = FALSE /\ spoilt' = FALSE /\ dead' = FALSE /\ UNCHANGED <<machine, sure, mixed>>
    BY DEF Crash
  <2> QED
    BY <2>1, <2>2 DEF TypeInv, MachineOK, RestOK, machine
<1> QED
  BY <1>1, <1>2, <1>3, <1>4, <1>5, <1>6 DEF TypeInv

LEMMA BootRestoreTyped ==
  ASSUME TypeInv, BootRestore
  PROVE  TypeInv'
<1>1. MachineOK'
  <2>1. CASE MakeFile(Archived)
    BY <2>1, NewFiles, MakeEffect DEF TypeInv
  <2>2. CASE disk' \in {disk, 0, None} /\ UNCHANGED <<files, made>>
    BY <2>2, PoolAssumption DEF TypeInv, MachineOK
  <2> QED
    BY <2>1, <2>2 DEF BootRestore
<1>2. RestOK'
  BY DEF TypeInv, RestOK, BootRestore
<1> QED
  BY <1>1, <1>2 DEF TypeInv, PoolsOK, GuardsOK, ReqOK, ResOK, BakOK, BootRestore, lock

LEMMA BootInitEffect ==
  ASSUME TypeInv, BootInit
  PROVE  /\ TypeInv' /\ disk' \in 1..MaxFiles
         /\ pools'[Boot].open /\ pools'[Boot].on = {disk'}
         /\ \A p \in PoolId \ {Boot} : pools'[p] = pools[p]
         /\ disk \in 1..MaxFiles =>
              disk' = disk /\ \A i \in 1..MaxFiles : FileRows(i)' = FileRows(i)
<1>1. PICK i \in 1..MaxFiles :
        /\ \/ /\ disk \in 1..MaxFiles /\ i = disk
              /\ files' = [files EXCEPT ![i].schema = Parts]
              /\ UNCHANGED <<disk, made>>
           \/ disk \notin 1..MaxFiles /\ i = made + 1 /\ MakeFile([NoFile EXCEPT !.schema = Parts])
        /\ pools' = [pools EXCEPT ![Boot] = Opened(i)]
  BY DEF BootInit
<1>2. /\ MachineOK' /\ disk' = i
      /\ disk \in 1..MaxFiles =>
           disk' = disk /\ \A k \in 1..MaxFiles : FileRows(k)' = FileRows(k)
  <2>1. CASE /\ disk \in 1..MaxFiles /\ i = disk
             /\ files' = [files EXCEPT ![i].schema = Parts]
             /\ UNCHANGED <<disk, made>>
    BY <2>1 DEF TypeInv, MachineOK, File, FileRows, Parts
  <2>2. CASE disk \notin 1..MaxFiles /\ i = made + 1 /\ MakeFile([NoFile EXCEPT !.schema = Parts])
    BY <2>2, NewFiles, MakeEffect DEF TypeInv
  <2> QED
    BY <1>1, <2>1, <2>2
<1>3. /\ PoolsOK' /\ pools'[Boot].open /\ pools'[Boot].on = {i}
      /\ \A p \in PoolId \ {Boot} : pools'[p] = pools[p]
  <2>2. pools' = [pools EXCEPT ![Boot] = [open |-> TRUE, on |-> {i}, out |-> {}]] /\ cur' = cur
    BY <1>1 DEF BootInit, Opened
  <2> QED
    BY <2>2 DEF TypeInv, PoolsOK, PoolId
<1> QED
  BY <1>2, <1>3 DEF TypeInv, GuardsOK, ReqOK, ResOK, BakOK, RestOK, BootInit, lock, history

-----------------------------------------------------------------------------
(* The types and the lock.                                                   *)

LEMMA TypeStep ==
  ASSUME TypeInv, Exclusive, Next
  PROVE  TypeInv'
<1>1. CASE Grant
  BY <1>1, GrantEffect DEF TypeInv, MachineOK, PoolsOK, ReqOK, ResOK, BakOK, RestOK, Grant,
     machine, history
<1>2. ASSUME NEW r \in Request, Begin(r) \/ RequestStep(r) PROVE TypeInv'
  BY <1>2, BeginEffect, AcquireEffect, ExecuteEffect, AskAgainEffect, EndEffect DEF RequestStep
<1>3. ASSUME NEW s \in Restorer, Clear(s) \/ RestoreStep(s) PROVE TypeInv'
  BY <1>3, ClearEffect, ExtractEffect, CloseEffect, ClosedEffect, OpenPoolEffect, MigrateEffect,
     ReinitFailsEffect, SwapEffect DEF RestoreStep
<1>4. ASSUME NEW r \in Request, LeaveRequest(r) PROVE TypeInv'
  BY <1>4, LeaveRequestEffect
<1>5. ASSUME NEW s \in Restorer, LeaveRestore(s) PROVE TypeInv'
  BY <1>5, LeaveRestoreEffect
<1> QED
  BY <1>1, <1>2, <1>3, <1>4, <1>5, BackupTyped, CheckpointEffect, CrashEffect, BootRestoreTyped,
     BootInitEffect DEF Next

\* Steps that give up no guard, or only those of someone who needs them no more.
LEMMA LockKept ==
  ASSUME LockOK, Exclusive',
         \A r \in Request : req'[r].at \in {"conn", "stored", "again"} =>
           (req[r].at \in {"conn", "stored", "again"} \/ Holds(r, "read")) /\ (Holds(r, "read") => Holds(r, "read")'),
         \A s \in Restorer : res'[s].at = "closing" =>
           (res[s].at = "closing" \/ Holds(s, "read")) /\ (Holds(s, "read") => Holds(s, "read")')
  PROVE  LockOK'
BY DEF LockOK

LEMMA LockStep ==
  ASSUME TypeInv, LockOK, Next
  PROVE  LockOK'
<1> USE DEF LockOK
<1>1. CASE Grant
  BY <1>1, GrantEffect, LockKept DEF TypeInv, Grant, Holds
<1>2. ASSUME NEW r \in Request, Begin(r) \/ AskAgain(r) PROVE LockOK'
  <2>1. res' = res
    BY <1>2 DEF Begin, AskAgain
  <2>2. /\ Exclusive' /\ guards \subseteq guards' /\ \A q \in Request \ {r} : req'[q] = req[q]
        /\ req'[r].at = "asked" \/ req[r].at = "stored"
    BY <1>2, BeginEffect, AskAgainEffect
  <2> QED
    BY <2>1, <2>2, LockKept DEF Holds
<1>3. ASSUME NEW r \in Request, NoConnection(r) \/ ReadBack(r) PROVE LockOK'
  <2>1. res' = res /\ \A s \in Restorer : s # r
    BY <1>3, PoolAssumption DEF NoConnection, ReadBack
  <2> QED
    BY <1>3, <2>1, EndEffect, LockKept DEF Holds
<1>4. ASSUME NEW r \in Request, Acquire(r) PROVE LockOK'
  <2>1. guards' = guards /\ res' = res /\ Holds(r, "read")
    BY <1>4 DEF Acquire, lock
  <2>2. Exclusive'
    BY <2>1 DEF Exclusive
  <2>3. \A q \in Request \ {r} : req'[q] = req[q]
    BY <1>4, AcquireEffect
  <2> QED
    BY <2>1, <2>2, <2>3, LockKept DEF Holds
<1>5. ASSUME NEW r \in Request, Execute(r) PROVE LockOK'
  <2>1. res' = res /\ req[r].at = "conn" /\ \A s \in Restorer : s # r
    BY <1>5, PoolAssumption DEF Execute
  <2>2. /\ Exclusive' /\ guards \ {<<r, "read">>, <<r, "again">>} \subseteq guards'
        /\ req'[r].at \in {"stored", "acked", "failed"}
        /\ req'[r].at = "stored" => guards \subseteq guards'
        /\ \A q \in Request \ {r} : req'[q] = req[q]
    BY <1>5, ExecuteEffect
  <2> QED
    BY <2>1, <2>2, LockKept DEF Holds
<1>6. ASSUME NEW s \in Restorer, Clear(s) \/ OpenPool(s) \/ ReinitFails(s) PROVE LockOK'
  <2>1. guards' = guards /\ req' = req
    BY <1>6 DEF Clear, OpenPool, ReinitFails, lock
  <2>2. res'[s].at # "closing" /\ \A t \in Restorer \ {s} : res'[t] = res[t]
    BY <1>6, ClearEffect, OpenPoolEffect, ReinitFailsEffect
  <2> QED
    BY <2>1, <2>2, LockKept DEF Holds, Exclusive
<1>7. ASSUME NEW s \in Restorer, Extract(s) \/ Migrate(s) PROVE LockOK'
  <2>1. req' = req
    BY <1>7, MigrateSame DEF Extract
  <2>2. /\ Exclusive' /\ guards \subseteq guards'
        /\ res'[s].at # "closing" /\ \A t \in Restorer \ {s} : res'[t] = res[t]
    BY <1>7, ExtractEffect, MigrateEffect
  <2> QED
    BY <2>1, <2>2, LockKept DEF Holds
<1>8. ASSUME NEW s \in Restorer, Close(s) PROVE LockOK'
  <2>1. guards' = guards /\ req' = req /\ Holds(s, "read")
    BY <1>8 DEF Close, lock
  <2>2. \A t \in Restorer \ {s} : res'[t] = res[t]
    BY <1>8, CloseEffect
  <2> QED
    BY <2>1, <2>2, LockKept DEF Holds, Exclusive
<1>9. ASSUME NEW s \in Restorer, Closed(s) PROVE LockOK'
  <2>1. req' = req /\ \A r \in Request : r # s
    BY <1>9, PoolAssumption DEF Closed
  <2> QED
    BY <1>9, <2>1, ClosedEffect, LockKept DEF Holds
<1>10. ASSUME NEW s \in Restorer, Swap(s) PROVE LockOK'
  <2>1. req' = req
    BY <1>10 DEF Swap
  <2>2. /\ Exclusive' /\ guards = {<<s, "write">>}
        /\ res'[s].at = "done" /\ \A t \in Restorer \ {s} : res'[t] = res[t]
    BY <1>10, SwapEffect
  <2>3. \A a : ~Holds(a, "read")
    BY <2>2 DEF Holds
  <2> QED
    BY <2>1, <2>2, <2>3, LockKept
<1>11. CASE Crash
  BY <1>11, CrashEffect
<1>12. UNCHANGED <<guards, req, res>> => LockOK'
  BY DEF Exclusive, Holds
<1>13. \A b \in Backup : BackupStep(b) => UNCHANGED <<guards, req, res>>
  BY BackupSteps DEF lock
<1>14. /\ \A i \in 1..MaxFiles : Checkpoint(i) => UNCHANGED <<guards, req, res>>
       /\ BootRestore \/ BootInit => UNCHANGED <<guards, req, res>>
  BY DEF Checkpoint, BootRestore, BootInit, lock
<1>15. ASSUME NEW r \in Request, LeaveRequest(r) PROVE LockOK'
  <2>1. /\ res' = res /\ Exclusive' /\ guards' = {g \in guards : g[1] # r}
        /\ req'[r].at = "failed" /\ \A q \in Request \ {r} : req'[q] = req[q]
    BY <1>15, LeaveRequestEffect
  <2>2. \A a : a # r /\ Holds(a, "read") => Holds(a, "read")'
    BY <2>1 DEF Holds
  <2> QED
    BY <2>1, <2>2, LockKept, PoolAssumption
<1>16. ASSUME NEW s \in Restorer, LeaveRestore(s) PROVE LockOK'
  <2>1. /\ req' = req /\ Exclusive' /\ guards' = {g \in guards : g[1] # s}
        /\ res'[s].at = "failed" /\ \A t \in Restorer \ {s} : res'[t] = res[t]
    BY <1>16, LeaveRestoreEffect
  <2>2. \A a : a # s /\ Holds(a, "read") => Holds(a, "read")'
    BY <2>1 DEF Holds
  <2> QED
    BY <2>1, <2>2, LockKept, PoolAssumption
<1> QED
  BY <1>1, <1>2, <1>3, <1>4, <1>5, <1>6, <1>7, <1>8, <1>9, <1>10, <1>11, <1>12, <1>13, <1>14,
     <1>15, <1>16
     DEF Next, RequestStep, RestoreStep

-----------------------------------------------------------------------------
(* The pool.                                                                 *)

\* The pool behind the lock is of no restore at work.
LEMMA CurDone ==
  ASSUME PoolOK, NEW s \in Restorer, res[s].at # "done"
  PROVE  cur # s
BY PoolAssumption DEF PoolOK

LEMMA PoolSame ==
  ASSUME PoolOK, UNCHANGED <<pools, cur, res, up, dead, spoilt>>,
         \A r \in Request : req'[r].at = "conn" => req[r].at = "conn"
  PROVE  PoolOK'
BY DEF PoolOK

\* A restore that has not come to the pool yet.
LEMMA PoolBefore ==
  ASSUME TypeInv, PoolOK, UNCHANGED <<pools, cur, up, dead, req>>, spoilt => spoilt',
         NEW s \in Restorer, res[s].at \in {"new", "cleared"},
         res'[s].at \in {"cleared", "close", "failed"},
         \A t \in Restorer \ {s} : res'[t] = res[t]
  PROVE  PoolOK'
<1>1. cur # s
  BY CurDone
<1>2. cur \in PoolId
  BY DEF TypeInv, PoolsOK
<1>3. ASSUME NEW t \in Restorer, res[t].at \in {"closing"} \cup Exchanging PROVE res'[t].at = res[t].at
  BY <1>3 DEF Exchanging
<1>4. ASSUME NEW t \in Restorer, res'[t].at \in {"closing"} \cup Exchanging PROVE res[t].at = res'[t].at
  BY <1>4 DEF Exchanging
<1> QED
  BY <1>1, <1>2, <1>3, <1>4 DEF PoolOK, PoolId, Exchanging

LEMMA PoolRequests ==
  ASSUME TypeInv, LockOK, PoolOK, NEW r \in Request, Begin(r) \/ RequestStep(r)
  PROVE  PoolOK'
<1>1. CASE Begin(r)
  <2>1. UNCHANGED <<pools, cur, res, up, dead, spoilt>>
    BY <1>1 DEF Begin
  <2> QED
    BY <1>1, <2>1, BeginEffect, PoolSame DEF LockOK
<1>2. CASE NoConnection(r) \/ AskAgain(r) \/ ReadBack(r)
  <2>1. UNCHANGED <<pools, cur, res, up, dead, spoilt>>
    BY <1>2 DEF NoConnection, AskAgain, ReadBack, history
  <2> QED
    BY <1>2, <2>1, AskAgainEffect, EndEffect, PoolSame DEF LockOK
<1>3. CASE Acquire(r)
  <2>1. UNCHANGED <<cur, res, up, dead, spoilt>> /\ pools[cur].open
    BY <1>3 DEF Acquire, history
  <2>2. /\ \A q \in Request \ {r} : req'[q] = req[q]
        /\ pools'[cur].open /\ pools'[cur].on = pools[cur].on
        /\ pools'[cur].out = pools[cur].out \cup {r}
        /\ \A p \in PoolId \ {cur} : pools'[p] = pools[p]
    BY <1>3, <2>1, AcquireEffect
  <2> QED
    BY <2>1, <2>2 DEF PoolOK, PoolId
<1>4. CASE Execute(r)
  <2>1. UNCHANGED <<cur, res, up, dead, spoilt>>
    BY <1>4 DEF Execute, history
  <2>2. /\ req'[r].at # "conn" /\ \A q \in Request \ {r} : req'[q] = req[q]
        /\ pools'[cur].open = pools[cur].open /\ (~pools[cur].open => pools'[cur].on = pools[cur].on)
        /\ pools'[cur].out = pools[cur].out \ {r}
        /\ \A p \in PoolId \ {cur} : pools'[p] = pools[p]
    BY <1>4, ExecuteEffect DEF LockOK
  <2> QED
    BY <2>1, <2>2 DEF PoolOK, PoolId
<1> QED
  BY <1>1, <1>2, <1>3, <1>4 DEF RequestStep

LEMMA PoolRestores ==
  ASSUME TypeInv, LockOK, PoolOK, AloneOK, NEW s \in Restorer, Clear(s) \/ RestoreStep(s)
  PROVE  PoolOK'
<1>1. CASE Clear(s)
  <2>1. UNCHANGED <<pools, cur, up, dead, req>> /\ res[s].at = "new"
    BY <1>1 DEF Clear, At
  <2> QED
    BY <1>1, <2>1, ClearEffect, PoolBefore
<1>2. CASE Extract(s)
  <2>1. UNCHANGED <<pools, cur, up, dead, req>> /\ res[s].at = "cleared"
    BY <1>2 DEF Extract, At
  <2> QED
    BY <1>2, <2>1, ExtractEffect, PoolBefore DEF LockOK
<1>3. CASE Close(s)
  <2>1. UNCHANGED <<cur, up, dead, req, spoilt>> /\ res[s].at = "close"
    BY <1>3 DEF Close, At, history
  <2>2. /\ res'[s].at = "closing" /\ \A t \in Restorer \ {s} : res'[t] = res[t]
        /\ ~pools'[cur].open /\ pools'[cur].on = {} /\ pools'[cur].out = pools[cur].out
        /\ \A p \in PoolId \ {cur} : pools'[p] = pools[p]
    BY <1>3, CloseEffect
  <2>3. cur # s /\ \A t \in Restorer : res'[t].at \in {"migrate", "swap"} => t # cur
    BY <2>1, <2>2, CurDone
  <2>4. \A t \in Restorer : res'[t].at \in {"migrate", "swap"} => pools'[t].open
    BY <2>2, <2>3 DEF PoolOK, PoolId
  <2>5. \A t \in Restorer : res'[t].at \in Exchanging => res[t].at \in Exchanging
    BY <2>2 DEF Exchanging
  <2>6. cur # Boot => res'[cur].at = "done"
    BY <2>2, <2>3 DEF PoolOK, TypeInv, PoolsOK, PoolId
  <2>7. \A r \in Request : req[r].at = "conn" => r \in pools'[cur].out
    BY <2>2 DEF PoolOK
  <2>8. \A t \in Restorer : res'[t].at \in Exchanging /\ ~spoilt => pools'[cur].out = {}
    BY <2>2, <2>5 DEF PoolOK
  <2> QED
    BY <2>1, <2>2, <2>4, <2>6, <2>7, <2>8 DEF PoolOK
<1>4. CASE Closed(s)
  <2>1. UNCHANGED <<pools, cur, up, dead, req, spoilt>> /\ res[s].at = "closing" /\ pools[cur].out = {}
    BY <1>4 DEF Closed, At, history
  <2>2. res'[s].at = "open" /\ \A t \in Restorer \ {s} : res'[t] = res[t]
    BY <1>4, ClosedEffect DEF LockOK
  <2>3. cur # s
    BY <2>1, CurDone
  <2>4. ~pools[cur].open
    BY <2>1 DEF PoolOK
  <2>5. cur # Boot => res'[cur].at = "done"
    BY <2>2, <2>3 DEF PoolOK, TypeInv, PoolsOK, PoolId
  <2>6. \A t \in Restorer : /\ res'[t].at \in {"migrate", "swap"} => pools[t].open
                            /\ res'[t].at = "closing" => res[t].at = "closing"
    BY <2>2 DEF PoolOK
  <2> QED
    BY <2>1, <2>2, <2>4, <2>5, <2>6 DEF PoolOK, Exchanging
<1>5. CASE OpenPool(s)
  <2>1. UNCHANGED <<cur, up, dead, req, spoilt>> /\ res[s].at = "open" /\ cur \in PoolId
    BY <1>5 DEF OpenPool, At, history, TypeInv, PoolsOK
  <2>2. /\ res'[s].at = "migrate" /\ \A t \in Restorer \ {s} : res'[t] = res[t]
        /\ pools'[s].open /\ \A p \in PoolId \ {s} : pools'[p] = pools[p]
    BY <1>5, OpenPoolEffect
  <2>3. cur # s
    BY <2>1, CurDone
  <2> QED
    BY <2>1, <2>2, <2>3 DEF PoolOK, Exchanging, PoolId
<1>6. CASE Migrate(s)
  <2>1. UNCHANGED <<pools, cur, up, dead, req, spoilt>> /\ res[s].at = "migrate"
    BY <1>6, MigrateSame DEF history
  <2>2. res'[s].at \in {"migrate", "swap"} /\ \A t \in Restorer \ {s} : res'[t] = res[t]
    BY <1>6, MigrateEffect DEF LockOK
  <2>3. cur # s
    BY <2>1, CurDone
  <2>4. cur # Boot => res'[cur].at = "done"
    BY <2>2, <2>3 DEF PoolOK, TypeInv, PoolsOK, PoolId
  <2>5. /\ pools[s].open
        /\ res[s].at \in Exchanging /\ res'[s].at \in Exchanging /\ res'[s].at # "closing"
    BY <2>1, <2>2 DEF PoolOK, Exchanging
  <2>6. \A t \in Restorer : res'[t].at \in {"migrate", "swap"} => pools[t].open
    BY <2>2, <2>5 DEF PoolOK
  <2>7. \A t \in Restorer : res'[t].at = "closing" => ~pools[cur].open
    BY <2>2, <2>5 DEF PoolOK
  <2>8. \A t \in Restorer : res'[t].at \in Exchanging /\ ~spoilt => ~pools[cur].open /\ pools[cur].out = {}
    BY <2>2, <2>5 DEF PoolOK
  <2>9. up /\ ~dead /\ ~pools[cur].open => \E t \in Restorer : res'[t].at \in {"closing"} \cup Exchanging
    <3>1. s \in Restorer /\ res'[s].at \in {"closing"} \cup Exchanging
      BY <2>5
    <3> QED
      BY <3>1
  <2>10. /\ ~pools[cur].open => pools[cur].on = {}
         /\ \A r \in Request : req[r].at = "conn" => r \in pools[cur].out
    BY DEF PoolOK
  <2>11. pools' = pools /\ cur' = cur /\ up' = up /\ dead' = dead /\ req' = req /\ spoilt' = spoilt
    BY <2>1
  <2> QED
    BY <2>4, <2>6, <2>7, <2>8, <2>9, <2>10, <2>11 DEF PoolOK
<1>7. CASE ReinitFails(s)
  <2>1. /\ UNCHANGED <<cur, up, req, spoilt>> /\ res[s].at \in {"open", "migrate"} /\ dead'
        /\ cur \in PoolId
    BY <1>7 DEF ReinitFails, TypeInv, PoolsOK
  <2>2. /\ res'[s].at = "failed" /\ \A t \in Restorer \ {s} : res'[t] = res[t]
        /\ \A p \in PoolId \ {s} : pools'[p] = pools[p]
    BY <1>7, ReinitFailsEffect
  <2>3. cur # s
    BY <2>1, CurDone
  <2> QED
    BY <2>1, <2>2, <2>3 DEF PoolOK, Exchanging, PoolId
<1>8. CASE Swap(s)
  <2>1. /\ cur' = s /\ UNCHANGED <<pools, up, req>> /\ res[s].at = "swap"
        /\ spoilt' = (s \in mixed)
    BY <1>8 DEF Swap, At
  <2>2. /\ guards = {<<s, "write">>}
        /\ res'[s].at = "done" /\ \A t \in Restorer \ {s} : res'[t] = res[t]
    BY <1>8, SwapEffect DEF LockOK
  <2>3. pools[s].open
    BY <2>1 DEF PoolOK
  <2>4. /\ \A t \in Restorer : res'[t].at # "closing"
        /\ \A r \in Request : req'[r].at # "conn"
    BY <2>1, <2>2 DEF LockOK, Holds
  <2>5. ~spoilt' => \A t \in Restorer : res'[t].at \notin Exchanging
    BY <2>1, <2>2 DEF AloneOK, Working, Exchanging
  <2> QED
    BY <2>1, <2>2, <2>3, <2>4, <2>5 DEF PoolOK, Exchanging
<1> QED
  BY <1>1, <1>2, <1>3, <1>4, <1>5, <1>6, <1>7, <1>8 DEF RestoreStep

\* Clients that leave.
LEMMA PoolLeaves ==
  ASSUME TypeInv, LockOK, PoolOK,
         (\E r \in Request : LeaveRequest(r)) \/ (\E s \in Restorer : LeaveRestore(s))
  PROVE  PoolOK'
<1>1. ASSUME NEW r \in Request, LeaveRequest(r) PROVE PoolOK'
  <2>1. /\ UNCHANGED <<cur, res, up, dead, spoilt>>
        /\ req'[r].at # "conn" /\ \A q \in Request \ {r} : req'[q] = req[q]
    BY <1>1, LeaveRequestEffect DEF LockOK, history
  <2>2. CASE req[r].at # "conn"
    BY <1>1, <2>1, <2>2, LeaveRequestEffect, PoolSame DEF LockOK
  <2>3. CASE req[r].at = "conn"
    <3>1. /\ pools'[cur].open = pools[cur].open /\ (~pools[cur].open => pools'[cur].on = pools[cur].on)
          /\ pools'[cur].out = pools[cur].out \ {r}
          /\ \A p \in PoolId \ {cur} : pools'[p] = pools[p]
      BY <1>1, <2>3, LeaveRequestEffect DEF LockOK
    <3> QED
      BY <2>1, <3>1 DEF PoolOK, PoolId
  <2> QED
    BY <2>2, <2>3
<1>2. ASSUME NEW s \in Restorer, LeaveRestore(s) PROVE PoolOK'
  <2>1. /\ Working(s) /\ res'[s].at = "failed" /\ \A t \in Restorer \ {s} : res'[t] = res[t]
        /\ \A p \in PoolId \ {s} : pools'[p] = pools[p]
        /\ IF res[s].at \in {"cleared", "close"} THEN spoilt' /\ dead' = dead
           ELSE dead' /\ spoilt' = spoilt
        /\ UNCHANGED <<up, cur, req>>
    BY <1>2, LeaveRestoreEffect DEF LockOK
  <2>2. cur # s /\ cur \in PoolId
    BY <2>1, CurDone DEF TypeInv, PoolsOK, Working
  <2>3. pools'[cur] = pools[cur] /\ (cur # Boot => res'[cur].at = "done")
    BY <2>1, <2>2 DEF PoolOK, PoolId
  <2>4. \A t \in Restorer : /\ res'[t].at \in {"migrate", "swap"} => pools'[t].open
                            /\ res'[t].at = "closing" => ~pools[cur].open
    BY <2>1 DEF PoolOK, PoolId
  <2>5. \A t \in Restorer : res'[t].at \in Exchanging /\ ~spoilt' =>
          ~pools[cur].open /\ pools[cur].out = {}
    BY <2>1 DEF PoolOK, Exchanging
  <2>6. up' /\ ~dead' /\ ~pools'[cur'].open =>
          \E t \in Restorer : res'[t].at \in {"closing"} \cup Exchanging
    <3> SUFFICES ASSUME up', ~dead', ~pools'[cur'].open
                 PROVE  \E t \in Restorer : res'[t].at \in {"closing"} \cup Exchanging
      OBVIOUS
    <3>1. PICK t \in Restorer : res[t].at \in {"closing"} \cup Exchanging
      BY <2>1, <2>3 DEF PoolOK
    <3>2. t # s
      BY <2>1, <3>1 DEF Exchanging
    <3> QED
      BY <2>1, <3>1, <3>2
  <2>7. /\ ~pools[cur].open => pools[cur].on = {}
        /\ \A r \in Request : req[r].at = "conn" => r \in pools[cur].out
    BY DEF PoolOK
  <2>8. cur' = cur /\ req' = req /\ pools'[cur'] = pools[cur]
    BY <2>1, <2>3
  <2>9. /\ cur' # Boot => res'[cur'].at = "done"
        /\ \A t \in Restorer : res'[t].at \in {"migrate", "swap"} => pools'[t].open
        /\ ~pools'[cur'].open => pools'[cur'].on = {}
        /\ \A t \in Restorer : res'[t].at = "closing" => ~pools'[cur'].open
        /\ \A r \in Request : req'[r].at = "conn" => r \in pools'[cur'].out
    BY <2>3, <2>4, <2>7, <2>8
  <2>10. \A t \in Restorer : res'[t].at \in Exchanging /\ ~spoilt' =>
           ~pools'[cur'].open /\ pools'[cur'].out = {}
    BY <2>5, <2>8
  <2> QED
    BY <2>6, <2>9, <2>10 DEF PoolOK
<1> QED
  BY <1>1, <1>2

LEMMA PoolStep ==
  ASSUME TypeInv, LockOK, PoolOK, AloneOK, DownOK, Next
  PROVE  PoolOK'
<1>1. UNCHANGED <<pools, cur, res, up, dead, spoilt, req>> => PoolOK'
  BY PoolSame
<1>2. CASE Grant \/ BootRestore \/ \E i \in 1..MaxFiles : Checkpoint(i)
  BY <1>1, <1>2 DEF Grant, BootRestore, Checkpoint, history
<1>3. ASSUME NEW b \in Backup, BackupStep(b) PROVE PoolOK'
  BY <1>1, <1>3, BackupSteps
<1>4. CASE Crash
  <2>1. up' = FALSE /\ cur' = Boot
    BY <1>4 DEF Crash
  <2> QED
    BY <1>4, <2>1, CrashEffect DEF PoolOK, Exchanging
<1>5. CASE BootInit
  <2>1. ~up /\ UNCHANGED <<cur, res, req>>
    BY <1>5 DEF BootInit
  <2>2. cur = Boot /\ (\A s \in Restorer : ~Working(s)) /\ \A r \in Request : req[r].at # "conn"
    BY <2>1 DEF DownOK
  <2>3. pools'[Boot].open
    BY <1>5, BootInitEffect
  <2> QED
    BY <2>1, <2>2, <2>3 DEF PoolOK, Working, Exchanging
<1> QED
  BY <1>2, <1>3, <1>4, <1>5, PoolRequests, PoolRestores, PoolLeaves DEF Next

-----------------------------------------------------------------------------
(* While the server is down, and restores that overlap.                      *)

LEMMA DownStep ==
  ASSUME TypeInv, DownOK, Next
  PROVE  DownOK'
<1>1. CASE up' = TRUE
  BY <1>1 DEF DownOK
<1>2. CASE Crash
  <2>1. cur' = Boot /\ \A b \in Backup : bak'[b] = NoBackup
    BY <1>2 DEF Crash
  <2> QED
    BY <1>2, <2>1, CrashEffect DEF DownOK, Working
<1>3. CASE ~up /\ (Grant \/ BootRestore)
  BY <1>3 DEF DownOK, Grant, BootRestore, Working, lock
<1>4. up \/ Grant \/ BootRestore \/ BootInit
  <2>1. SUFFICES ASSUME ~up PROVE Grant \/ BootRestore \/ BootInit
    OBVIOUS
  <2>2. ASSUME NEW r \in Request, Begin(r) \/ RequestStep(r) \/ LeaveRequest(r) PROVE FALSE
    BY <2>1, <2>2 DEF DownOK, Begin, RequestStep, NoConnection, Acquire, Execute, AskAgain, ReadBack,
       LeaveRequest
  <2>3. ASSUME NEW s \in Restorer, Clear(s) \/ RestoreStep(s) \/ LeaveRestore(s) PROVE FALSE
    <3>1. ~Clear(s) /\ ~Working(s)
      BY <2>1 DEF DownOK, Clear
    <3> QED
      BY <2>3, <3>1, MigrateSame DEF Working, RestoreStep, Extract, Close, Closed, OpenPool, ReinitFails,
         Swap, At, LeaveRestore
  <2>4. ASSUME NEW b \in Backup, BackupStep(b) PROVE FALSE
    BY <2>1, <2>4 DEF BackupStep, CopyDb, CopyWal, Upload, BackupFails
  <2>5. ASSUME NEW i \in 1..MaxFiles, Checkpoint(i) PROVE FALSE
    BY <2>1, <2>5 DEF DownOK, Checkpoint, Copying
  <2>6. ~Crash
    BY <2>1 DEF Crash
  <2> QED
    BY <2>2, <2>3, <2>4, <2>5, <2>6 DEF Next
<1>5. Crash \/ up' = TRUE \/ up' = up
  <2>1. ASSUME NEW b \in Backup, BackupStep(b) PROVE up' = up
    BY <2>1, BackupSteps
  <2>2. ASSUME NEW s \in Restorer, Migrate(s) PROVE up' = up
    BY <2>2, MigrateSame
  <2> QED
    BY <2>1, <2>2 DEF Next, Grant, Begin, RequestStep, NoConnection, Acquire, Execute, AskAgain, ReadBack, Clear,
       RestoreStep, Extract, Close, Closed, OpenPool, ReinitFails, Swap, Checkpoint,
       BootRestore, BootInit, LeaveRequest, LeaveRestore
<1> QED
  BY <1>1, <1>2, <1>3, <1>4, <1>5 DEF DownOK, BootInit

\* No step but Clear sets a restore to work.
LEMMA AloneKept ==
  ASSUME AloneOK, UNCHANGED mixed, \A s \in Restorer : Working(s)' => Working(s)
  PROVE  AloneOK'
BY DEF AloneOK

LEMMA AloneStep ==
  ASSUME TypeInv, LockOK, AloneOK, Next
  PROVE  AloneOK'
<1>1. ASSUME NEW s \in Restorer, Clear(s) PROVE AloneOK'
  <2>1. \A t \in Restorer \ {s} : res'[t] = res[t]
    BY <1>1, ClearEffect
  <2>2. mixed' = IF Others(s) = {} THEN mixed ELSE mixed \cup Others(s) \cup {s}
    BY <1>1 DEF Clear
  <2>3. \A t \in Restorer : t \in Others(s) <=> t # s /\ Working(t)
    BY DEF Others, Working
  <2>4. CASE Others(s) = {}
    BY <2>1, <2>3, <2>4 DEF AloneOK, Working
  <2>5. CASE Others(s) # {}
    BY <2>1, <2>2, <2>3, <2>5 DEF AloneOK, Working
  <2> QED
    BY <2>4, <2>5
<1>2. ASSUME NEW s \in Restorer, RestoreStep(s) PROVE AloneOK'
  <2>1. /\ Working(s) /\ UNCHANGED mixed
    BY <1>2, MigrateSame DEF RestoreStep, Extract, Close, Closed, OpenPool, ReinitFails, Swap, At,
       Working, history
  <2>2. \A t \in Restorer \ {s} : res'[t] = res[t]
    BY <1>2, ExtractEffect, CloseEffect, ClosedEffect, OpenPoolEffect, MigrateEffect,
       ReinitFailsEffect, SwapEffect DEF RestoreStep, LockOK
  <2> QED
    BY <2>1, <2>2, AloneKept DEF Working
<1>3. UNCHANGED <<res, mixed>> => AloneOK'
  BY AloneKept DEF Working
<1>4. \A r \in Request : Begin(r) \/ RequestStep(r) => UNCHANGED <<res, mixed>>
  BY DEF Begin, RequestStep, NoConnection, Acquire, Execute, AskAgain, ReadBack, history
<1>5. \A b \in Backup : BackupStep(b) => UNCHANGED <<res, mixed>>
  BY BackupSteps
<1>6. Grant \/ BootRestore \/ BootInit \/ (\E i \in 1..MaxFiles : Checkpoint(i)) => UNCHANGED <<res, mixed>>
  BY DEF Grant, BootRestore, BootInit, Checkpoint, history
<1>7. CASE Crash
  BY <1>7, CrashEffect DEF AloneOK, Working
<1>8. ASSUME NEW r \in Request, LeaveRequest(r) PROVE UNCHANGED <<res, mixed>>
  BY <1>8 DEF LeaveRequest, history
<1>9. ASSUME NEW s \in Restorer, LeaveRestore(s) PROVE AloneOK'
  BY <1>9, LeaveRestoreEffect, AloneKept DEF Working, LockOK
<1> QED
  BY <1>1, <1>2, <1>3, <1>4, <1>5, <1>6, <1>7, <1>8, <1>9 DEF Next

-----------------------------------------------------------------------------
(* The file that is used.                                                    *)

LEMMA FileSame ==
  ASSUME FileOK, UNCHANGED <<disk, pools, cur, res, mixed, spoilt, up>>,
         \A r \in Request : req'[r].at = "conn" => req[r].at = "conn" /\ req'[r] = req[r]
  PROVE  FileOK'
BY DEF FileOK, Working

\* A connection that comes back is of the file that is used, or of a pool that is closed.
LEMMA FileReturned ==
  ASSUME TypeInv, PoolOK, FileOK, NEW r \in Request, req[r].at = "conn", req'[r].at # "conn",
         \A q \in Request \ {r} : req'[q] = req[q],
         pools'[cur].open = pools[cur].open,
         pools'[cur].on = IF pools[cur].open THEN pools[cur].on \cup {req[r].file} ELSE pools[cur].on,
         \A p \in PoolId \ {cur} : pools'[p] = pools[p],
         UNCHANGED <<disk, cur, res, mixed, spoilt, up>>
  PROVE  FileOK'
<1>1. ASSUME NEW s \in Restorer, s \notin mixed, res[s].at \in {"migrate", "swap"}
      PROVE  disk \in 1..MaxFiles /\ pools'[s].on \subseteq {disk}
  <2>1. s # cur /\ s \in PoolId
    BY <1>1, CurDone DEF PoolId
  <2> QED
    BY <1>1, <2>1 DEF FileOK
<1>2. ASSUME up, ~spoilt, \A s \in Restorer : ~Working(s)
      PROVE  /\ pools'[cur].on \subseteq {disk}
             /\ pools'[cur].open => \A q \in Request : req'[q].at = "conn" => req'[q].file = disk
  BY <1>2 DEF FileOK
<1> QED
  BY <1>1, <1>2 DEF FileOK, Working

LEMMA FileRequests ==
  ASSUME TypeInv, LockOK, PoolOK, FileOK, NEW r \in Request, Begin(r) \/ RequestStep(r)
  PROVE  FileOK'
<1>1. CASE Begin(r)
  <2>1. UNCHANGED <<disk, pools, cur, res, mixed, spoilt, up>>
    BY <1>1 DEF Begin, machine
  <2> QED
    BY <1>1, <2>1, BeginEffect, FileSame DEF LockOK
<1>2. CASE NoConnection(r) \/ AskAgain(r) \/ ReadBack(r)
  <2>1. UNCHANGED <<disk, pools, cur, res, mixed, spoilt, up>>
    BY <1>2 DEF NoConnection, AskAgain, ReadBack, machine, history
  <2> QED
    BY <1>2, <2>1, AskAgainEffect, EndEffect, FileSame DEF LockOK
<1>3. ASSUME NEW s \in Restorer, Working(s) PROVE s # cur /\ s \in PoolId
  BY <1>3, CurDone DEF Working, PoolId
<1>4. CASE Acquire(r)
  <2>1. UNCHANGED <<cur, res, mixed, spoilt, up>> /\ pools[cur].open
    BY <1>4 DEF Acquire, history
  <2>2. PICK i \in 1..MaxFiles :
          /\ \/ i \in pools[cur].on /\ UNCHANGED <<disk, files>>
             \/ /\ disk' = i
                /\ disk \in 1..MaxFiles => files' = files /\ disk' = disk
          /\ req'[r].at = "conn" /\ req'[r].file = i
    BY <1>4, AcquireEffect
  <2>3. /\ \A q \in Request \ {r} : req'[q] = req[q]
        /\ pools'[cur].on = pools[cur].on
        /\ \A p \in PoolId \ {cur} : pools'[p] = pools[p]
    BY <1>4, AcquireEffect
  <2>4. disk \in 1..MaxFiles => disk' = disk
    BY <2>2
  <2>5. up /\ ~spoilt /\ (\A s \in Restorer : res[s].at # "cleared") => disk' \in 1..MaxFiles
    BY <2>4 DEF FileOK
  <2>6. ASSUME NEW s \in Restorer, s \notin mixed, res[s].at \in {"migrate", "swap"}
        PROVE  disk' \in 1..MaxFiles /\ pools'[s].on \subseteq {disk'}
    BY <1>3, <2>3, <2>4, <2>6 DEF FileOK, Working
  <2>7. ASSUME up, ~spoilt, \A s \in Restorer : ~Working(s)
        PROVE  /\ pools'[cur].on \subseteq {disk'}
               /\ \A q \in Request : req'[q].at = "conn" => req'[q].file = disk'
    <3>1. disk \in 1..MaxFiles /\ pools[cur].on \subseteq {disk}
      BY <2>7 DEF FileOK, Working
    <3>2. i = disk
      BY <2>2, <3>1
    <3>3. \A q \in Request : req[q].at = "conn" => req[q].file = disk
      BY <2>1, <2>7 DEF FileOK
    <3> QED
      BY <2>2, <2>3, <2>4, <3>1, <3>2, <3>3
  <2> QED
    BY <2>1, <2>5, <2>6, <2>7 DEF FileOK, Working
<1>5. CASE Execute(r)
  <2>1. UNCHANGED <<disk, cur, res, mixed, spoilt, up>> /\ req[r].at = "conn"
    BY <1>5 DEF Execute, history
  <2>2. /\ req'[r].at # "conn" /\ \A q \in Request \ {r} : req'[q] = req[q]
        /\ pools'[cur].open = pools[cur].open
        /\ pools'[cur].on = IF pools[cur].open THEN pools[cur].on \cup {req[r].file} ELSE pools[cur].on
        /\ \A p \in PoolId \ {cur} : pools'[p] = pools[p]
    BY <1>5, ExecuteEffect DEF LockOK
  <2> QED
    BY <2>1, <2>2, FileReturned
<1> QED
  BY <1>1, <1>2, <1>4, <1>5 DEF RequestStep

LEMMA FileRestores ==
  ASSUME TypeInv, LockOK, PoolOK, AloneOK, FileOK, NEW s \in Restorer, Clear(s) \/ RestoreStep(s)
  PROVE  FileOK'
<1>1. CASE Clear(s)
  <2>1. /\ \/ res'[s].at = "cleared"
           \/ res'[s].at = "failed" /\ spoilt' = TRUE
        /\ \A t \in Restorer \ {s} : res'[t] = res[t]
    BY <1>1, ClearEffect
  <2>2. mixed' = IF Others(s) = {} THEN mixed ELSE mixed \cup Others(s) \cup {s}
    BY <1>1 DEF Clear
  <2>3. ASSUME NEW t \in Restorer, res'[t].at \in {"migrate", "swap"} PROVE t \in mixed'
    <3>1. t # s /\ res[t].at \in {"migrate", "swap"}
      BY <2>1, <2>3
    <3>2. t \in Others(s)
      BY <3>1 DEF Others
    <3> QED
      BY <2>2, <3>2
  <2>4. spoilt' \/ ~(\A t \in Restorer : res'[t].at # "cleared")
    BY <2>1
  <2>5. spoilt' \/ ~(\A t \in Restorer : res'[t].at \in {"new", "done", "failed"})
    BY <2>1
  <2> QED
    BY <2>3, <2>4, <2>5 DEF FileOK, Working
<1>2. Working(s) => \A t \in Restorer \ {s} : t \notin mixed => res[t].at \notin {"migrate", "swap"}
  BY DEF AloneOK, Working
<1>3. CASE Extract(s)
  <2>1. mixed' = mixed /\ up' = up /\ Working(s)
    BY <1>3 DEF Extract, At, Working
  <2>2. /\ \/ res'[s].at = "close" /\ disk' \in 1..MaxFiles
           \/ res'[s].at = "failed" /\ spoilt' = TRUE
        /\ \A t \in Restorer \ {s} : res'[t] = res[t]
    BY <1>3, ExtractEffect DEF LockOK
  <2>3. \A t \in Restorer : res'[t].at \in {"migrate", "swap"} => t \in mixed'
    BY <1>2, <2>1, <2>2
  <2>4. spoilt' \/ disk' \in 1..MaxFiles
    BY <2>2
  <2>5. spoilt' \/ ~(\A t \in Restorer : res'[t].at \in {"new", "done", "failed"})
    BY <2>2
  <2> QED
    BY <2>3, <2>4, <2>5 DEF FileOK, Working
<1>4. CASE Close(s) \/ Closed(s) \/ Migrate(s)
  <2>1. /\ UNCHANGED <<disk, cur, up, mixed, spoilt>>
        /\ res[s].at \in {"close", "closing", "migrate"}
    BY <1>4, MigrateSame DEF Close, Closed, At, machine, history
  <2>2. /\ res'[s].at \in {"closing", "open", "migrate", "swap"}
        /\ res'[s].at \in {"migrate", "swap"} => res[s].at = "migrate"
        /\ \A t \in Restorer \ {s} : res'[t] = res[t]
    BY <1>4, <2>1, CloseEffect, ClosedEffect, MigrateEffect, MigrateSame DEF LockOK
  <2>3. \A p \in PoolId \ {cur} : pools'[p] = pools[p]
    <3>1. CASE Close(s)
      BY <3>1, CloseEffect
    <3>2. CASE Closed(s) \/ Migrate(s)
      BY <3>2, MigrateSame DEF Closed
    <3> QED
      BY <1>4, <3>1, <3>2
  <2>4. \A t \in Restorer : res'[t].at \in {"migrate", "swap"} =>
          res[t].at \in {"migrate", "swap"} /\ t # cur /\ pools'[t] = pools[t]
    BY <2>2, <2>3, CurDone DEF PoolId
  <2>5. \A t \in Restorer : t \notin mixed' /\ res'[t].at \in {"migrate", "swap"} =>
          disk' \in 1..MaxFiles /\ pools'[t].on \subseteq {disk'}
    BY <2>1, <2>4 DEF FileOK
  <2>6. (\A t \in Restorer : res'[t].at # "cleared") => \A t \in Restorer : res[t].at # "cleared"
    BY <2>1, <2>2
  <2>7. ~(\A t \in Restorer : res'[t].at \in {"new", "done", "failed"})
    BY <2>2
  <2> QED
    BY <2>1, <2>5, <2>6, <2>7 DEF FileOK, Working
<1>5. CASE OpenPool(s)
  <2>1. mixed' = mixed /\ Working(s)
    BY <1>5 DEF OpenPool, At, Working, history
  <2>2. /\ disk' \in 1..MaxFiles /\ res'[s].at = "migrate" /\ pools'[s].on = {disk'}
        /\ \A t \in Restorer \ {s} : res'[t] = res[t]
    BY <1>5, OpenPoolEffect
  <2>3. \A t \in Restorer : t \notin mixed' /\ res'[t].at \in {"migrate", "swap"} => t = s
    BY <1>2, <2>1, <2>2
  <2>4. ~(\A t \in Restorer : res'[t].at \in {"new", "done", "failed"})
    BY <2>2
  <2> QED
    BY <2>2, <2>3, <2>4 DEF FileOK, Working
<1>6. CASE ReinitFails(s)
  <2>1. UNCHANGED <<disk, cur, up, mixed, spoilt, req>> /\ res[s].at \in {"open", "migrate"}
    BY <1>6 DEF ReinitFails, machine
  <2>2. /\ res'[s].at = "failed" /\ \A t \in Restorer \ {s} : res'[t] = res[t]
        /\ \A p \in PoolId \ {s} : pools'[p] = pools[p]
    BY <1>6, ReinitFailsEffect
  <2>3. cur # s /\ cur \in PoolId
    BY <2>1, CurDone DEF TypeInv, PoolsOK
  <2>4. ~spoilt => pools'[cur].on = {} /\ \A r \in Request : req[r].at # "conn"
    BY <2>1, <2>2, <2>3 DEF PoolOK, Exchanging
  <2>5. \A t \in Restorer : t \notin mixed /\ res'[t].at \in {"migrate", "swap"} =>
          disk \in 1..MaxFiles /\ pools'[t].on \subseteq {disk}
    BY <2>2 DEF FileOK, PoolId
  <2>6. (\A t \in Restorer : res'[t].at # "cleared") => \A t \in Restorer : res[t].at # "cleared"
    BY <2>1, <2>2
  <2> QED
    BY <2>1, <2>4, <2>5, <2>6 DEF FileOK
<1>7. CASE Swap(s)
  <2>1. /\ cur' = s /\ UNCHANGED <<disk, pools, up, mixed, req>> /\ res[s].at = "swap"
        /\ spoilt' = (s \in mixed)
    BY <1>7 DEF Swap, At, machine
  <2>2. /\ guards = {<<s, "write">>}
        /\ res'[s].at = "done" /\ \A t \in Restorer \ {s} : res'[t] = res[t]
    BY <1>7, SwapEffect DEF LockOK
  <2>3. \A r \in Request : req'[r].at # "conn"
    BY <2>1, <2>2 DEF LockOK, Holds
  <2>4. ~spoilt' => disk' \in 1..MaxFiles /\ pools'[cur'].on \subseteq {disk'}
    BY <2>1 DEF FileOK
  <2>5. \A t \in Restorer : t \notin mixed' /\ res'[t].at \in {"migrate", "swap"} =>
          disk' \in 1..MaxFiles /\ pools'[t].on \subseteq {disk'}
    BY <2>1, <2>2 DEF FileOK
  <2> QED
    BY <2>3, <2>4, <2>5 DEF FileOK
<1> QED
  BY <1>1, <1>3, <1>4, <1>5, <1>6, <1>7 DEF RestoreStep

LEMMA FileLeaves ==
  ASSUME TypeInv, LockOK, PoolOK, FileOK,
         (\E r \in Request : LeaveRequest(r)) \/ (\E s \in Restorer : LeaveRestore(s))
  PROVE  FileOK'
<1>1. ASSUME NEW r \in Request, LeaveRequest(r) PROVE FileOK'
  <2>1. /\ UNCHANGED <<disk, cur, res, mixed, spoilt, up>>
        /\ req'[r].at # "conn" /\ \A q \in Request \ {r} : req'[q] = req[q]
    BY <1>1, LeaveRequestEffect DEF LockOK, history
  <2>2. CASE req[r].at # "conn"
    <3>1. pools' = pools
      BY <1>1, <2>2, LeaveRequestEffect DEF LockOK
    <3>2. \A q \in Request : req'[q].at = "conn" => req[q].at = "conn" /\ req'[q] = req[q]
      BY <2>1
    <3> QED
      BY <2>1, <3>1, <3>2, FileSame
  <2>3. CASE req[r].at = "conn"
    <3>1. /\ pools'[cur].open = pools[cur].open
          /\ pools'[cur].on = IF pools[cur].open THEN pools[cur].on \cup {req[r].file} ELSE pools[cur].on
          /\ \A p \in PoolId \ {cur} : pools'[p] = pools[p]
      BY <1>1, <2>3, LeaveRequestEffect DEF LockOK
    <3> QED
      BY <2>1, <2>3, <3>1, FileReturned
  <2> QED
    BY <2>2, <2>3
<1>2. ASSUME NEW s \in Restorer, LeaveRestore(s) PROVE FileOK'
  <2>1. /\ Working(s) /\ res'[s].at = "failed" /\ \A t \in Restorer \ {s} : res'[t] = res[t]
        /\ \A p \in PoolId \ {s} : pools'[p] = pools[p]
        /\ res[s].at \in {"cleared", "close"} => spoilt'
        /\ res[s].at \notin {"cleared", "close"} => spoilt' = spoilt
        /\ UNCHANGED <<disk, up, cur, req, mixed>>
    BY <1>2, LeaveRestoreEffect DEF LockOK, machine
  <2>2. cur # s /\ cur \in PoolId
    BY <2>1, CurDone DEF TypeInv, PoolsOK, Working
  <2>3. pools'[cur] = pools[cur]
    BY <2>1, <2>2
  <2>4. ASSUME up, ~spoilt', \A t \in Restorer : res'[t].at # "cleared"
        PROVE  disk \in 1..MaxFiles
    BY <2>1, <2>4 DEF FileOK
  <2>5. \A t \in Restorer : t \notin mixed /\ res'[t].at \in {"migrate", "swap"} =>
          disk \in 1..MaxFiles /\ pools'[t].on \subseteq {disk}
    BY <2>1 DEF FileOK, PoolId
  <2>6. ASSUME ~spoilt'
        PROVE  ~pools[cur].open /\ pools[cur].on = {}
    <3>1. ~spoilt /\ res[s].at \in {"closing"} \cup Exchanging
      BY <2>1, <2>6 DEF TypeInv, ResOK, ResStages, Working, Exchanging
    <3> QED
      BY <3>1 DEF PoolOK, Exchanging
  <2> QED
    BY <2>1, <2>3, <2>4, <2>5, <2>6 DEF FileOK
<1> QED
  BY <1>1, <1>2

LEMMA FileStep ==
  ASSUME TypeInv, LockOK, PoolOK, AloneOK, DownOK, FileOK, Next
  PROVE  FileOK'
<1>1. UNCHANGED <<disk, pools, cur, res, mixed, spoilt, up, req>> => FileOK'
  BY FileSame
<1>2. CASE Grant \/ \E i \in 1..MaxFiles : Checkpoint(i)
  BY <1>1, <1>2 DEF Grant, Checkpoint, machine, history
<1>3. ASSUME NEW b \in Backup, BackupStep(b) PROVE FileOK'
  BY <1>1, <1>3, BackupSteps DEF machine
<1>4. CASE Crash
  <2>1. up' = FALSE
    BY <1>4 DEF Crash
  <2> QED
    BY <1>4, <2>1, CrashEffect DEF FileOK
<1>5. CASE BootRestore
  <2>1. up' = FALSE /\ UNCHANGED res /\ \A s \in Restorer : ~Working(s)
    BY <1>5 DEF BootRestore, DownOK, TypeInv, RestOK
  <2> QED
    BY <2>1 DEF FileOK, Working
<1>6. CASE BootInit
  <2>1. ~up /\ UNCHANGED <<cur, res, req>>
    BY <1>6 DEF BootInit
  <2>2. cur = Boot /\ (\A s \in Restorer : ~Working(s)) /\ \A r \in Request : req[r].at # "conn"
    BY <2>1 DEF DownOK
  <2>3. disk' \in 1..MaxFiles /\ pools'[Boot].on = {disk'}
    BY <1>6, BootInitEffect
  <2> QED
    BY <2>1, <2>2, <2>3 DEF FileOK, Working
<1> QED
  BY <1>2, <1>3, <1>4, <1>5, <1>6, FileRequests, FileRestores, FileLeaves DEF Next

-----------------------------------------------------------------------------
(* Rows that were acknowledged.                                              *)

\* Rows stay in the file, and nobody gets past the statement.
LEMMA SureKept ==
  ASSUME SureOK, UNCHANGED <<sure, spoilt, res>>,
         disk \in 1..MaxFiles => disk' = disk /\ FileRows(disk) \subseteq FileRows(disk)',
         \A r \in Request : req'[r].at \in {"stored", "again", "acked"} => req[r].at \in {"stored", "again", "acked"},
         \A r \in sure : req'[r].at = "conn" => req'[r] = req[r] \/ req'[r].file = disk',
         sure \subseteq Request, ReqOK
  PROVE  SureOK'
<1>1. \A r \in sure : req'[r].at \in {"stored", "again", "acked"} => disk' \in 1..MaxFiles /\ r \in FileRows(disk)'
  BY DEF SureOK
<1>2. ASSUME NEW r \in sure, req'[r].at = "conn", req'[r] = req[r] PROVE req'[r].file = disk'
  <2>1. req[r].file = disk /\ req[r].file \in 1..MaxFiles
    BY <1>2 DEF SureOK, ReqOK
  <2> QED
    BY <1>2, <2>1
<1> QED
  BY <1>1, <1>2 DEF SureOK, Working

LEMMA SureRequests ==
  ASSUME TypeInv, LockOK, DownOK, FileOK, SureOK, NEW r \in Request, Begin(r) \/ RequestStep(r)
  PROVE  SureOK'
<1>1. sure \subseteq Request /\ ReqOK
  BY DEF TypeInv, RestOK
<1>2. CASE Begin(r)
  <2>1. UNCHANGED <<disk, files, res, spoilt>> /\ sure' = sure \cup {q \in {r} : ~Busy /\ ~spoilt}
    BY <1>2 DEF Begin, machine
  <2>2. req'[r].at = "asked" /\ \A q \in Request \ {r} : req'[q] = req[q]
    BY <1>2, BeginEffect DEF LockOK
  <2>3. sure' # {} => ~spoilt /\ \A s \in Restorer : ~Working(s)
    BY <2>1 DEF SureOK, Busy, Working
  <2>4. ASSUME NEW q \in sure', req'[q].at \in {"stored", "again", "acked"}
        PROVE  disk \in 1..MaxFiles /\ q \in FileRows(disk)
    <3>1. q # r /\ q \in sure /\ req'[q] = req[q]
      BY <1>1, <2>1, <2>2, <2>4
    <3> QED
      BY <2>4, <3>1 DEF SureOK
  <2>5. ASSUME NEW q \in sure', req'[q].at = "conn" PROVE req'[q].file = disk
    <3>1. q # r /\ q \in sure /\ req'[q] = req[q]
      BY <1>1, <2>1, <2>2, <2>5
    <3> QED
      BY <2>5, <3>1 DEF SureOK
  <2> QED
    BY <2>1, <2>3, <2>4, <2>5 DEF SureOK, Working, FileRows
<1>3. CASE NoConnection(r) \/ AskAgain(r) \/ ReadBack(r)
  <2>1. UNCHANGED <<sure, spoilt, res, disk, files>>
    BY <1>3 DEF NoConnection, AskAgain, ReadBack, machine, history
  <2>2. \A q \in Request :
          /\ req'[q].at \in {"stored", "again", "acked"} => req[q].at \in {"stored", "again", "acked"}
          /\ req'[q].at = "conn" => req'[q] = req[q]
    BY <1>3, AskAgainEffect, EndEffect DEF LockOK
  <2> QED
    BY <1>1, <2>1, <2>2, SureKept DEF FileRows
<1>4. CASE Acquire(r)
  <2>1. UNCHANGED <<sure, spoilt, res>>
    BY <1>4 DEF Acquire, history
  <2>2. /\ disk \in 1..MaxFiles => disk' = disk /\ files' = files
        /\ \A q \in Request : req'[q].at \in {"stored", "again", "acked"} => req[q].at \in {"stored", "again", "acked"}
    BY <1>4, AcquireEffect
  <2>3. ASSUME NEW q \in sure, req'[q].at = "conn" PROVE req'[q] = req[q] \/ req'[q].file = disk'
    <3>1. q # r => req'[q] = req[q]
      BY <1>1, <1>4, AcquireEffect
    <3>2. ASSUME q = r PROVE req'[r].file = disk'
      <4>1. up /\ ~spoilt /\ \A s \in Restorer : ~Working(s)
        BY <1>4, <2>3 DEF Acquire, SureOK, DownOK
      <4>2. pools[cur].on \subseteq {disk}
        BY <4>1 DEF FileOK
      <4>3. \E i \in 1..MaxFiles :
              /\ (i \in pools[cur].on /\ disk' = disk) \/ disk' = i
              /\ req'[r].file = i
        BY <1>4, AcquireEffect
      <4> QED
        BY <4>2, <4>3
    <3> QED
      BY <3>1, <3>2
  <2> QED
    BY <1>1, <2>1, <2>2, <2>3, SureKept DEF FileRows
<1>5. CASE Execute(r)
  <2>1. UNCHANGED <<sure, spoilt, res, disk>> /\ req[r].at = "conn"
    BY <1>5 DEF Execute, history
  <2>2. /\ req'[r].at \in {"stored", "again", "acked"} => r \in files'[req[r].file].wal
        /\ \A q \in Request \ {r} : req'[q] = req[q]
    BY <1>5, ExecuteEffect DEF LockOK
  <2>3. ASSUME NEW i \in 1..MaxFiles PROVE FileRows(i) \subseteq FileRows(i)'
    BY <1>5, ExecuteEffect DEF FileRows, LockOK
  <2>4. ASSUME NEW q \in sure, req'[q].at \in {"stored", "again", "acked"}
        PROVE  disk \in 1..MaxFiles /\ q \in FileRows(disk)'
    <3>1. CASE q = r
      <4>2. disk \in 1..MaxFiles /\ req[r].file = disk
        BY <1>1, <2>1, <2>4, <3>1 DEF SureOK, ReqOK
      <4> QED
        BY <2>1, <2>2, <2>4, <3>1, <4>2 DEF FileRows
    <3>2. CASE q # r
      <4>1. disk \in 1..MaxFiles /\ q \in FileRows(disk)
        BY <1>1, <2>2, <2>4, <3>2 DEF SureOK
      <4> QED
        BY <2>1, <2>3, <4>1 DEF FileRows
    <3> QED
      BY <3>1, <3>2
  <2>5. ASSUME NEW q \in sure, req'[q].at = "conn" PROVE req'[q].file = disk
    <3>1. q # r /\ req'[q] = req[q]
      BY <1>1, <1>5, <2>2, <2>5, ExecuteEffect DEF LockOK
    <3> QED
      BY <2>5, <3>1 DEF SureOK
  <2> QED
    BY <2>1, <2>4, <2>5 DEF SureOK, Working
<1> QED
  BY <1>2, <1>3, <1>4, <1>5 DEF RequestStep

LEMMA SureStep ==
  ASSUME TypeInv, LockOK, DownOK, FileOK, SureOK, Next
  PROVE  SureOK'
<1>1. sure \subseteq Request /\ ReqOK
  BY DEF TypeInv, RestOK
<1>2. UNCHANGED <<sure, spoilt, res, disk, files, req>> => SureOK'
  BY <1>1, SureKept DEF FileRows
<1>3. sure' = {} => SureOK'
  BY DEF SureOK
<1>4. ASSUME NEW s \in Restorer, Clear(s) \/ RestoreStep(s) PROVE sure' = {}
  <2>1. CASE Clear(s) \/ Extract(s)
    BY <2>1 DEF Clear, Extract
  <2>2. CASE Close(s) \/ Closed(s) \/ OpenPool(s) \/ Migrate(s) \/ ReinitFails(s) \/ Swap(s)
    <3>1. Working(s)
      BY <2>2, MigrateSame DEF Close, Closed, OpenPool, ReinitFails, Swap, At, Working
    <3>2. sure' = sure
      BY <2>2, MigrateSame DEF Close, Closed, OpenPool, ReinitFails, Swap, history
    <3> QED
      BY <3>1, <3>2 DEF SureOK
  <2> QED
    BY <1>4, <2>1, <2>2 DEF RestoreStep
<1>5. CASE Grant
  BY <1>2, <1>5 DEF Grant, machine, history
<1>6. ASSUME NEW b \in Backup, BackupStep(b) PROVE SureOK'
  BY <1>2, <1>6, BackupSteps DEF machine
<1>7. ASSUME NEW i \in 1..MaxFiles, Checkpoint(i) PROVE SureOK'
  <2>1. UNCHANGED <<sure, spoilt, res, disk, req>>
    BY <1>7 DEF Checkpoint
  <2>2. \A k \in 1..MaxFiles : FileRows(k)' = FileRows(k)
    BY <1>7, CheckpointEffect
  <2>3. disk \in 1..MaxFiles => FileRows(disk)' = FileRows(disk)
    BY <2>1, <2>2 DEF FileRows
  <2> QED
    BY <1>1, <2>1, <2>3, SureKept
<1>8. CASE Crash
  <2>1. UNCHANGED <<sure, disk, files>> /\ spoilt' = FALSE
    BY <1>8 DEF Crash, machine
  <2>2. /\ \A r \in Request : /\ req'[r].at \notin {"conn", "stored", "again"}
                              /\ req'[r].at = "acked" => req[r].at = "acked"
        /\ \A s \in Restorer : res'[s].at \in {"new", "done", "failed"}
    BY <1>8, CrashEffect
  <2> QED
    BY <1>1, <2>1, <2>2 DEF SureOK, Working, FileRows
<1>9. CASE BootRestore
  BY <1>3, <1>9 DEF BootRestore
<1>10. CASE BootInit
  <2>1. UNCHANGED <<sure, spoilt, res, req>>
    BY <1>10 DEF BootInit, history
  <2>2. disk \in 1..MaxFiles => disk' = disk /\ FileRows(disk)' = FileRows(disk)
    <3>1. disk \in 1..MaxFiles => disk' = disk /\ \A i \in 1..MaxFiles : FileRows(i)' = FileRows(i)
      BY <1>10, BootInitEffect
    <3> QED
      BY <3>1 DEF FileRows
  <2> QED
    BY <1>1, <2>1, <2>2, SureKept
<1>11. ASSUME NEW r \in Request, LeaveRequest(r) PROVE SureOK'
  <2>1. /\ UNCHANGED <<sure, spoilt, res, disk>>
        /\ req'[r].at = "failed" /\ \A q \in Request \ {r} : req'[q] = req[q]
        /\ \A i \in 1..MaxFiles : files'[i].db = files[i].db /\ files[i].wal \subseteq files'[i].wal
    BY <1>11, LeaveRequestEffect DEF LockOK, history
  <2>2. disk \in 1..MaxFiles => disk' = disk /\ FileRows(disk) \subseteq FileRows(disk)'
    BY <2>1 DEF FileRows
  <2>3. \A q \in Request :
          /\ req'[q].at \in {"stored", "again", "acked"} => req[q].at \in {"stored", "again", "acked"}
          /\ req'[q].at = "conn" => req'[q] = req[q]
    BY <2>1
  <2> QED
    BY <1>1, <2>1, <2>2, <2>3, SureKept
<1>12. ASSUME NEW s \in Restorer, LeaveRestore(s) PROVE SureOK'
  <2>1. Working(s) /\ sure' = sure
    BY <1>12, LeaveRestoreEffect DEF LockOK
  <2>2. sure = {}
    BY <2>1 DEF SureOK
  <2> QED
    BY <1>3, <2>1, <2>2
<1> QED
  BY <1>3, <1>4, <1>5, <1>6, <1>7, <1>8, <1>9, <1>10, <1>11, <1>12, SureRequests DEF Next

-----------------------------------------------------------------------------
(* What a backup copies.                                                     *)

\* Rows may be added to the log.
LEMMA BackupKept ==
  ASSUME BackupOK, UNCHANGED <<bak, owed>>, torn \subseteq torn',
         disk \in 1..MaxFiles => /\ disk' = disk
                                 /\ files'[disk].db = files[disk].db
                                 /\ files[disk].wal \subseteq files'[disk].wal
  PROVE  BackupOK'
<1> SUFFICES ASSUME NEW b \in Backup, Started(b)', b \notin torn'
             PROVE  /\ disk' \in 1..MaxFiles
                    /\ owed'[b] \subseteq FileRows(disk)'
                    /\ bak'[b].db # None => bak'[b].db = files'[disk'].db
                    /\ bak'[b].wal # None => owed'[b] \ files'[disk'].db \subseteq bak'[b].wal
  BY DEF BackupOK
<1>1. /\ disk \in 1..MaxFiles /\ owed[b] \subseteq FileRows(disk)
      /\ bak[b].db # None => bak[b].db = files[disk].db
      /\ bak[b].wal # None => owed[b] \ files[disk].db \subseteq bak[b].wal
  BY DEF BackupOK, Started
<1> QED
  BY <1>1 DEF FileRows

\* Or the backups in progress do not count any more.
LEMMA BackupTorn ==
  ASSUME UNCHANGED bak, Copying \subseteq torn'
  PROVE  BackupOK'
BY DEF BackupOK, Copying, Started

LEMMA BackupBackups ==
  ASSUME TypeInv, BackupOK, NEW b \in Backup, BackupStep(b)
  PROVE  BackupOK'
<1>1. UNCHANGED <<disk, files>>
  BY BackupSteps DEF machine
<1>2. bak[b] \in [db : (SUBSET Request) \cup {None}, wal : (SUBSET Request) \cup {None}]
  BY DEF TypeInv, BakOK
<1>3. CASE Upload(b) \/ BackupFails(b)
  <2>1. EndBackup(b)
    BY <1>3 DEF Upload, BackupFails
  <2>2. bak'[b] = NoBackup
    BY <2>1 DEF EndBackup, TypeInv, BakOK
  <2>3. \A c \in Backup \ {b} : bak'[c] = bak[c] /\ owed'[c] = owed[c] /\ (c \in torn => c \in torn')
    BY <2>1 DEF EndBackup, TypeInv, BakOK
  <2>4. ASSUME NEW c \in Backup, Started(c)', c \notin torn'
        PROVE  /\ disk' \in 1..MaxFiles /\ owed'[c] \subseteq FileRows(disk)'
               /\ bak'[c].db # None => bak'[c].db = files'[disk'].db
               /\ bak'[c].wal # None => owed'[c] \ files'[disk'].db \subseteq bak'[c].wal
    <3>1. c # b
      BY <2>2, <2>4 DEF Started
    <3>2. bak'[c] = bak[c] /\ owed'[c] = owed[c] /\ c \notin torn
      BY <2>3, <2>4, <3>1
    <3> QED
      BY <1>1, <2>4, <3>2 DEF BackupOK, Started, FileRows
  <2> QED
    BY <2>4 DEF BackupOK
<1>4. CASE CopyDb(b) \/ CopyWal(b)
  <2>1. disk \in 1..MaxFiles /\ torn' = torn
    BY <1>4 DEF CopyDb, CopyWal
  <2>2. \A c \in Backup \ {b} : bak'[c] = bak[c] /\ owed'[c] = owed[c]
    BY <1>4 DEF CopyDb, CopyWal, Begins, TypeInv, BakOK
  <2>3. owed'[b] = IF Started(b) THEN owed[b] ELSE FileRows(disk)
    BY <1>4 DEF CopyDb, CopyWal, Begins, TypeInv, BakOK
  <2>4. ASSUME b \notin torn
        PROVE  /\ owed'[b] \subseteq FileRows(disk)
               /\ bak[b].db # None => bak[b].db = files[disk].db
               /\ bak[b].wal # None => owed'[b] \ files[disk].db \subseteq bak[b].wal
    <3>1. CASE Started(b)
      BY <2>3, <2>4, <3>1 DEF BackupOK
    <3>2. CASE ~Started(b)
      BY <2>3, <3>2 DEF Started, NoBackup
    <3> QED
      BY <3>1, <3>2
  <2>5. \/ bak'[b].db = files[disk].db /\ bak'[b].wal = bak[b].wal
        \/ bak'[b].db = bak[b].db /\ bak'[b].wal = files[disk].wal
    <3>1. CASE CopyDb(b)
      BY <1>2, <3>1 DEF CopyDb, TypeInv, BakOK
    <3>2. CASE CopyWal(b)
      BY <1>2, <3>2 DEF CopyWal, TypeInv, BakOK
    <3> QED
      BY <1>4, <3>1, <3>2
  <2>6. ASSUME b \notin torn
        PROVE  /\ owed'[b] \subseteq FileRows(disk)
               /\ bak'[b].db # None => bak'[b].db = files[disk].db
               /\ bak'[b].wal # None => owed'[b] \ files[disk].db \subseteq bak'[b].wal
    BY <2>4, <2>5, <2>6 DEF FileRows
  <2>7. ASSUME NEW c \in Backup, Started(c)', c \notin torn'
        PROVE  /\ disk' \in 1..MaxFiles /\ owed'[c] \subseteq FileRows(disk)'
               /\ bak'[c].db # None => bak'[c].db = files'[disk'].db
               /\ bak'[c].wal # None => owed'[c] \ files'[disk'].db \subseteq bak'[c].wal
    <3>1. CASE c = b
      BY <1>1, <2>1, <2>6, <2>7, <3>1 DEF FileRows
    <3>2. CASE c # b
      BY <1>1, <2>1, <2>2, <2>7, <3>2 DEF BackupOK, Started, FileRows
    <3> QED
      BY <3>1, <3>2
  <2> QED
    BY <2>7 DEF BackupOK
<1> QED
  BY <1>3, <1>4 DEF BackupStep

LEMMA BackupStepKept ==
  ASSUME TypeInv, LockOK, DownOK, BackupOK, Next
  PROVE  BackupOK'
<1>1. UNCHANGED <<bak, owed, torn, disk, files>> => BackupOK'
  BY BackupKept
<1>2. ASSUME NEW r \in Request, Begin(r) \/ RequestStep(r) PROVE BackupOK'
  <2>1. UNCHANGED <<bak, owed, torn>>
    BY <1>2 DEF Begin, RequestStep, NoConnection, Acquire, Execute, AskAgain, ReadBack, history
  <2>2. CASE Begin(r) \/ NoConnection(r) \/ AskAgain(r) \/ ReadBack(r)
    BY <1>1, <2>1, <2>2 DEF Begin, NoConnection, AskAgain, ReadBack, machine
  <2>3. CASE Acquire(r)
    <3>1. disk \in 1..MaxFiles => disk' = disk /\ files' = files
      BY <2>3, AcquireEffect
    <3> QED
      BY <2>1, <3>1, BackupKept
  <2>4. CASE Execute(r)
    <3>1. disk' = disk
      BY <2>4 DEF Execute
    <3>2. \A i \in 1..MaxFiles : files'[i].db = files[i].db /\ files[i].wal \subseteq files'[i].wal
      BY <2>4, ExecuteEffect DEF LockOK
    <3> QED
      BY <2>1, <3>1, <3>2, BackupKept
  <2> QED
    BY <1>2, <2>2, <2>3, <2>4 DEF RequestStep
<1>3. ASSUME NEW s \in Restorer, Clear(s) \/ RestoreStep(s) PROVE BackupOK'
  <2>1. CASE Clear(s) \/ Extract(s)
    <3>1. UNCHANGED bak /\ Copying \subseteq torn'
      BY <2>1 DEF Clear, Extract
    <3> QED
      BY <3>1, BackupTorn
  <2>2. CASE Close(s) \/ Closed(s) \/ ReinitFails(s) \/ Swap(s)
    BY <1>1, <2>2 DEF Close, Closed, ReinitFails, Swap, machine, history
  <2>3. CASE OpenPool(s)
    <3>1. UNCHANGED <<bak, owed, torn>>
      BY <2>3 DEF OpenPool, history
    <3>2. disk \in 1..MaxFiles => disk' = disk /\ files' = files
      BY <2>3, OpenPoolEffect
    <3> QED
      BY <3>1, <3>2, BackupKept
  <2>4. CASE Migrate(s)
    <3>1. UNCHANGED <<bak, owed, torn, disk>>
      BY <2>4, MigrateSame DEF history
    <3>2. \A i \in 1..MaxFiles : files'[i].db = files[i].db /\ files'[i].wal = files[i].wal
      BY <2>4, MigrateEffect DEF LockOK
    <3> QED
      BY <3>1, <3>2, BackupKept
  <2> QED
    BY <1>3, <2>1, <2>2, <2>3, <2>4 DEF RestoreStep
<1>4. ASSUME NEW i \in 1..MaxFiles, Checkpoint(i) PROVE BackupOK'
  <2>1. UNCHANGED bak /\ Copying \subseteq torn'
    BY <1>4 DEF Checkpoint
  <2> QED
    BY <2>1, BackupTorn
<1>5. CASE Grant
  BY <1>1, <1>5 DEF Grant, machine, history
<1>6. CASE Crash
  <2>1. \A b \in Backup : bak'[b] = NoBackup
    BY <1>6 DEF Crash
  <2> QED
    BY <2>1 DEF BackupOK, Started
<1>7. CASE BootRestore \/ BootInit
  <2>1. ~up /\ UNCHANGED bak
    BY <1>7 DEF BootRestore, BootInit
  <2>2. \A b \in Backup : bak[b] = NoBackup
    BY <2>1 DEF DownOK
  <2> QED
    BY <2>1, <2>2 DEF BackupOK, Started
<1>8. ASSUME NEW r \in Request, LeaveRequest(r) PROVE BackupOK'
  <2>1. /\ UNCHANGED <<bak, owed, torn, disk>>
        /\ \A i \in 1..MaxFiles : files'[i].db = files[i].db /\ files[i].wal \subseteq files'[i].wal
    BY <1>8, LeaveRequestEffect DEF LockOK, history
  <2> QED
    BY <2>1, BackupKept
<1>9. ASSUME NEW s \in Restorer, LeaveRestore(s) PROVE BackupOK'
  BY <1>1, <1>9 DEF LeaveRestore, machine
<1> QED
  BY <1>2, <1>3, <1>4, <1>5, <1>6, <1>7, <1>8, <1>9, BackupBackups DEF Next

-----------------------------------------------------------------------------
(* The theorems.                                                             *)

LEMMA InvInit ==
  ASSUME Init
  PROVE  Inv
<1>1. TypeInv
  <2>1. MachineOK
    <3>1. disk \in 0..MaxFiles \cup {None} /\ made \in 0..MaxFiles
      BY PoolAssumption DEF Init
    <3>2. files \in [1..MaxFiles -> File]
      BY NewFiles DEF Init
    <3> QED
      BY <3>1, <3>2 DEF MachineOK
  <2>2. PoolsOK
    BY PoolAssumption DEF Init, PoolsOK, PoolId, Opened, Shut
  <2>3. GuardsOK /\ ReqOK /\ ResOK
    BY PoolAssumption DEF Init, GuardsOK, ReqOK, ResOK, ReqStages, ResStages
  <2>4. BakOK
    BY DEF Init, BakOK, NoBackup
  <2>5. RestOK
    <3>1. events \in 0..MaxEvents
      BY PoolAssumption DEF Init
    <3> QED
      BY <3>1 DEF Init, RestOK
  <2> QED
    BY <2>1, <2>2, <2>3, <2>4, <2>5 DEF TypeInv
<1>2. LockOK /\ DownOK /\ AloneOK /\ SureOK /\ BackupOK
  BY DEF Init, LockOK, Exclusive, DownOK, AloneOK, SureOK, BackupOK, Working, Started
<1>3. /\ cur = Boot /\ Boot \in PoolId /\ disk = 1 /\ 1 \in 1..MaxFiles
      /\ pools[Boot] = Opened(1)
      /\ \A r \in Request : req[r].at = "new"
      /\ \A s \in Restorer : res[s].at = "new"
  BY PoolAssumption DEF Init, PoolId
<1>4. PoolOK /\ FileOK
  BY <1>3 DEF PoolOK, FileOK, Opened, Exchanging
<1> QED
  BY <1>1, <1>2, <1>4 DEF Inv

LEMMA InvNext ==
  ASSUME Inv, [Next]_vars
  PROVE  Inv'
<1> USE DEF Inv
<1>1. CASE Next
  <2>1. Exclusive
    BY DEF LockOK
  <2> QED
    BY <1>1, <2>1, TypeStep, LockStep, PoolStep, DownStep, AloneStep, FileStep, SureStep, BackupStepKept
<1>2. CASE UNCHANGED vars
  <2> USE <1>2 DEF vars, machine, lock, history
  <2>1. TypeInv'
    BY DEF TypeInv, MachineOK, PoolsOK, GuardsOK, ReqOK, ResOK, BakOK, RestOK
  <2>2. LockOK' /\ DownOK' /\ AloneOK'
    BY DEF LockOK, Exclusive, Holds, DownOK, AloneOK, Working
  <2>3. PoolOK'
    BY PoolSame
  <2>4. FileOK' /\ BackupOK'
    BY FileSame, BackupKept
  <2>5. SureOK'
    BY SureKept DEF TypeInv, RestOK, FileRows
  <2> QED
    BY <2>1, <2>2, <2>3, <2>4, <2>5
<1> QED
  BY <1>1, <1>2

LEMMA InvHolds == Spec => []Inv
BY InvInit, InvNext, PTL DEF Spec

\* Every variable has its type, for any number of requests, restores, backups and files:
\* the server's pool and lock (src/main.rs) and the database file (src/models/db.rs).
THEOREM TypeCorrect == Spec => []TypeOK
<1>1. Inv => TypeOK
  BY DEF Inv, TypeInv, TypeOK, MachineOK, PoolsOK, GuardsOK, ReqOK, ResOK, BakOK, RestOK
<1> QED
  BY <1>1, InvHolds, PTL

\* reinit_database never leaves the server with a closed pool, unless it failed, or its
\* client left, after it had closed it and before it put a new one in its place.
THEOREM OpenUnlessDeadHolds == Spec => []OpenUnlessDead
<1>1. Inv => OpenUnlessDead
  BY DEF Inv, PoolOK, OpenUnlessDead, Busy, Exchanging
<1> QED
  BY <1>1, InvHolds, PTL

\* A row that a settled server acknowledged is in the file a restart would open: the pools
\* that reinit_database exchanges leave no connection of a file that was removed.  After a
\* restore that failed or was cut short once the data directory was gone (Clear, Extract,
\* LeaveRestore), or overlapped with another, the server is not settled.
THEOREM SureRowsKeptHolds == Spec => []SureRowsKept
<1>1. Inv => SureRowsKept
  BY DEF Inv, SureOK, SureRowsKept
<1> QED
  BY <1>1, InvHolds, PTL

\* perform_backup, which copies the file and its log one after the other, misses no row
\* that was there when it began, unless rows were moved under it.
THEOREM BackupWholeHolds == Spec => BackupWhole
<1>1. ASSUME Inv, NEW b \in Backup, Upload(b) PROVE owed[b] \subseteq Copied(b) \/ b \in torn
  <2>1. Started(b) /\ bak[b].db # None /\ bak[b].wal # None
    BY <1>1 DEF Upload, Started, NoBackup
  <2>2. b \notin torn => bak[b].db = files[disk].db /\ owed[b] \ files[disk].db \subseteq bak[b].wal
    BY <1>1, <2>1 DEF Inv, BackupOK
  <2> QED
    BY <2>2 DEF Copied
<1>2. Inv /\ [Next]_vars => [\A b \in Backup : Upload(b) => owed[b] \subseteq Copied(b) \/ b \in torn]_vars
  BY <1>1
<1> QED
  BY <1>2, InvHolds, PTL DEF Spec, BackupWhole

-----------------------------------------------------------------------------
(* Who waits for whom.                                                       *)

InLine(g) == \E i \in DOMAIN queue : queue[i] = g

\* The stages at which a guard is waited for, and at which it is held.
Awaits(g) ==
  \/ g[1] \in Request /\ \/ g[2] = "read" /\ req[g[1]].at = "asked"
                         \/ g[2] = "again" /\ req[g[1]].at = "again"
  \/ g[1] \in Restorer /\ \/ g[2] = "read" /\ res[g[1]].at = "close"
                          \/ g[2] = "write" /\ res[g[1]].at = "swap"

Keeps(g) ==
  \/ Awaits(g)
  \/ g[1] \in Request /\ g[2] = "read" /\ req[g[1]].at \in {"conn", "stored", "again"}
  \/ g[1] \in Restorer /\ g[2] = "read" /\ res[g[1]].at = "closing"

\* A guard is waited for once, and not by who holds it.
Orderly ==
  /\ \A i \in DOMAIN queue : queue[i] \notin guards
  /\ \A i, j \in DOMAIN queue : queue[i] = queue[j] => i = j

StagesOK ==
  /\ \A g \in guards : Keeps(g)
  /\ \A g \in Guard : InLine(g) => Awaits(g)
  /\ \A r \in Request : req[r].at = "again" =>
       <<r, "again">> \in guards \/ InLine(<<r, "again">>)

\* Connections are used by requests at work on the pool behind the lock.
OutOK == \A p \in PoolId : \A r \in pools[p].out : p = cur /\ req[r].at = "conn"

\* The effects on the queue.
LEMMA AskLine ==
  ASSUME GuardsOK, Orderly, NEW g \in Guard, Ask(g), ~InLine(g), g \notin guards
  PROVE  /\ Orderly'
         /\ g \in guards' \/ InLine(g)'
         /\ \A h \in Guard \ {g} : (h \in guards' <=> h \in guards) /\ (InLine(h)' <=> InLine(h))
<1>1. CASE guards' = guards \cup {g} /\ queue' = queue
  BY <1>1 DEF Orderly, InLine
<1>2. CASE queue' = Append(queue, g) /\ guards' = guards
  <2>1. /\ Len(queue') = Len(queue) + 1 /\ DOMAIN queue' = 1..Len(queue) + 1
        /\ DOMAIN queue = 1..Len(queue) /\ Len(queue) \in Nat
        /\ queue'[Len(queue) + 1] = g /\ \A i \in 1..Len(queue) : queue'[i] = queue[i]
    BY <1>2, AppendProperties DEF GuardsOK
  <2>2. \A i \in DOMAIN queue' : i \in DOMAIN queue \/ i = Len(queue) + 1
    BY <2>1
  <2>3. \A i \in DOMAIN queue : i \in DOMAIN queue' /\ queue'[i] = queue[i] /\ queue[i] # g
    BY <2>1 DEF InLine
  <2>4. Len(queue) + 1 \in DOMAIN queue'
    BY <2>1
  <2>5. Orderly'
    BY <1>2, <2>1, <2>2, <2>3 DEF Orderly
  <2>6. InLine(g)'
    BY <2>1, <2>4 DEF InLine
  <2>7. \A h \in Guard \ {g} : InLine(h)' <=> InLine(h)
    BY <2>1, <2>2, <2>3 DEF InLine
  <2> QED
    BY <1>2, <2>5, <2>6, <2>7
<1> QED
  BY <1>1, <1>2 DEF Ask

LEMMA GrantLine ==
  ASSUME GuardsOK, Orderly, Grant
  PROVE  /\ Orderly'
         /\ \A h \in Guard : /\ h \in guards' => h \in guards \/ InLine(h)
                             /\ InLine(h)' => InLine(h)
                             /\ h \in guards \/ InLine(h) => h \in guards' \/ InLine(h)'
<1>1. queue # <<>> /\ guards' = guards \cup {Head(queue)} /\ queue' = Tail(queue)
  BY DEF Grant
<1>2. /\ Head(queue) = queue[1] /\ Len(queue) \in Nat /\ DOMAIN queue = 1..Len(queue)
      /\ 1 \in DOMAIN queue
  BY <1>1 DEF GuardsOK
<1>3. DOMAIN queue' = 1..Len(queue) - 1 /\ \A i \in 1..Len(queue) - 1 : queue'[i] = queue[i + 1]
  BY <1>1, <1>2 DEF GuardsOK
<1>4. \A i \in DOMAIN queue' : i + 1 \in DOMAIN queue /\ i + 1 # 1 /\ queue'[i] = queue[i + 1]
  BY <1>2, <1>3
<1>5. \A i \in DOMAIN queue : i = 1 \/ (i - 1 \in DOMAIN queue' /\ queue'[i - 1] = queue[i])
  BY <1>2, <1>3
<1>6. \A i \in DOMAIN queue' : queue'[i] # queue[1]
  BY <1>2, <1>4 DEF Orderly
<1>7. \A i \in DOMAIN queue' : queue'[i] \notin guards'
  BY <1>1, <1>2, <1>4, <1>6 DEF Orderly
<1>8. \A i, j \in DOMAIN queue' : queue'[i] = queue'[j] => i = j
  <2> SUFFICES ASSUME NEW i \in DOMAIN queue', NEW j \in DOMAIN queue', queue'[i] = queue'[j]
               PROVE  i = j
    OBVIOUS
  <2>1. i + 1 = j + 1
    BY <1>4 DEF Orderly
  <2> QED
    BY <1>2, <1>3, <2>1
<1>9. \A h : InLine(h)' => InLine(h)
  BY <1>4 DEF InLine
<1>10. \A h : InLine(h) => h = queue[1] \/ InLine(h)'
  BY <1>5 DEF InLine
<1>11. InLine(queue[1])
  BY <1>2 DEF InLine
<1> QED
  BY <1>1, <1>2, <1>7, <1>8, <1>9, <1>10, <1>11 DEF Orderly

LEMMA DropLine ==
  ASSUME Orderly, NEW gs, Drop(gs)
  PROVE  Orderly' /\ guards' = guards \ gs /\ \A h : InLine(h)' <=> InLine(h)
BY DEF Orderly, Drop, InLine

\* A place given up leaves the others in their order.
LEMMA ForsakeLine ==
  ASSUME GuardsOK, Orderly, NEW a, Forsake(a),
         \A g, h \in Guard : InLine(g) /\ InLine(h) /\ g[1] = a /\ h[1] = a => g = h
  PROVE  /\ Orderly'
         /\ \A g \in Guard : InLine(g)' <=> InLine(g) /\ g[1] # a
<1>1. queue \in Seq(Guard) /\ Len(queue) \in Nat /\ DOMAIN queue = 1..Len(queue)
      /\ \A i \in DOMAIN queue : queue[i] \in Guard /\ InLine(queue[i])
  BY DEF GuardsOK, InLine
<1>2. guards' \subseteq guards
  BY DEF Forsake
<1>3. CASE (\A i \in DOMAIN queue : queue[i][1] # a) /\ queue' = queue
  BY <1>2, <1>3 DEF Orderly, InLine
<1>4. ASSUME NEW i \in DOMAIN queue, queue[i][1] = a, queue' = Seqs!RemoveAt(queue, i)
      PROVE  /\ Orderly'
             /\ \A g \in Guard : InLine(g)' <=> InLine(g) /\ g[1] # a
  <2>1. /\ DOMAIN queue' = 1..Len(queue) - 1
        /\ \A j \in 1..Len(queue) - 1 : queue'[j] = IF j < i THEN queue[j] ELSE queue[j + 1]
    <3>1. /\ queue' \in Seq(Guard) /\ Len(queue') = Len(queue) - 1
          /\ \A j \in 1..Len(queue) - 1 : queue'[j] = IF j < i THEN queue[j] ELSE queue[j + 1]
      <4>1. /\ Seqs!RemoveAt(queue, i) \in Seq(Guard)
            /\ Len(Seqs!RemoveAt(queue, i)) = Len(queue) - 1
            /\ \A j \in 1..Len(queue) - 1 :
                 Seqs!RemoveAt(queue, i)[j] = IF j < i THEN queue[j] ELSE queue[j + 1]
        BY <1>1, RemoveAtEffect
      <4> QED
        BY <1>4, <4>1
    <3> QED
      BY <1>1, <3>1
  <2> DEFINE from(j) == IF j < i THEN j ELSE j + 1
             to(j) == IF j < i THEN j ELSE j - 1
  <2>2. \A j \in DOMAIN queue' : /\ from(j) \in DOMAIN queue /\ from(j) # i
                                 /\ queue'[j] = queue[from(j)]
    BY <1>1, <1>4, <2>1
  <2>3. \A j \in DOMAIN queue : j # i => to(j) \in DOMAIN queue' /\ from(to(j)) = j
    BY <1>1, <1>4, <2>1
  <2>4. \A j, k \in DOMAIN queue' : from(j) = from(k) => j = k
    BY <2>1
  <2> HIDE DEF from, to
  <2>5. \A j \in DOMAIN queue : j # i => queue[j][1] # a
    BY <1>1, <1>4 DEF Orderly
  <2>6. Orderly'
    BY <1>2, <2>2, <2>4 DEF Orderly
  <2>7. ASSUME NEW g \in Guard, InLine(g)' PROVE InLine(g) /\ g[1] # a
    BY <2>2, <2>5, <2>7 DEF InLine
  <2>8. ASSUME NEW g \in Guard, InLine(g), g[1] # a PROVE InLine(g)'
    <3>1. PICK j \in DOMAIN queue : queue[j] = g
      BY <2>8 DEF InLine
    <3>2. j # i
      BY <1>4, <2>8, <3>1
    <3>3. to(j) \in DOMAIN queue' /\ queue'[to(j)] = g
      BY <2>2, <2>3, <3>1, <3>2
    <3> QED
      BY <3>3 DEF InLine
  <2> QED
    BY <2>6, <2>7, <2>8
<1> QED
  BY <1>3, <1>4 DEF Forsake

\* A step of one actor leaves the stages of the others.
Moved(a) ==
  /\ \A r \in Request \ {a} : req'[r] = req[r]
  /\ \A s \in Restorer \ {a} : res'[s] = res[s]

LEMMA StagesStep ==
  ASSUME GuardsOK, GuardsOK', StagesOK, NEW a \in Actor, Moved(a),
         \A g \in Guard : g[1] # a =>
           (g \in guards' <=> g \in guards) /\ (InLine(g)' <=> InLine(g)),
         \A g \in Guard : g[1] = a =>
           (g \in guards' => Keeps(g)') /\ (InLine(g)' => Awaits(g)'),
         a \in Request /\ req'[a].at = "again" =>
           <<a, "again">> \in guards' \/ InLine(<<a, "again">>)'
  PROVE  StagesOK'
<1>1. \A g \in Guard : g[1] # a => (Awaits(g) => Awaits(g)') /\ (Keeps(g) => Keeps(g)')
  BY DEF Moved, Awaits, Keeps
<1>2. \A g \in guards' : g \in Guard
  BY DEF GuardsOK
<1>3. \A g \in guards' : Keeps(g)'
  BY <1>1, <1>2 DEF StagesOK
<1>4. \A g \in Guard : InLine(g)' => Awaits(g)'
  BY <1>1 DEF StagesOK
<1>5. \A r \in Request : req'[r].at = "again" =>
        <<r, "again">> \in guards' \/ InLine(<<r, "again">>)'
  <2> SUFFICES ASSUME NEW r \in Request, req'[r].at = "again", r # a
               PROVE  <<r, "again">> \in guards' \/ InLine(<<r, "again">>)'
    OBVIOUS
  <2>1. req[r].at = "again" /\ <<r, "again">> \in Guard
    BY DEF Moved, Guard, Actor
  <2>2. <<r, "again">>[1] # a
    OBVIOUS
  <2> QED
    BY <2>1, <2>2 DEF StagesOK
<1> QED
  BY <1>3, <1>4, <1>5 DEF StagesOK

\* An actor that asks for a guard at the stage at which it is waited for, and had none of
\* the kind before,
LEMMA StagesAsk ==
  ASSUME GuardsOK, GuardsOK', Orderly, StagesOK, NEW a \in Actor, Moved(a),
         NEW g \in Guard, g[1] = a, Ask(g), ~Keeps(g), Awaits(g)',
         \A h \in Guard \ {g} : h[1] = a => (h \in guards => Keeps(h)') /\ ~InLine(h),
         a \in Request /\ req'[a].at = "again" => g[2] = "again"
  PROVE  Orderly' /\ StagesOK'
<1>1. ~InLine(g) /\ g \notin guards
  BY DEF StagesOK, Keeps
<1>2. /\ Orderly'
      /\ g \in guards' \/ InLine(g)'
      /\ \A h \in Guard \ {g} : (h \in guards' <=> h \in guards) /\ (InLine(h)' <=> InLine(h))
  BY <1>1, AskLine
<1>3. \A h \in Guard : h[1] = a => (h \in guards' => Keeps(h)') /\ (InLine(h)' => Awaits(h)')
  BY <1>2 DEF Keeps
<1>4. a \in Request /\ req'[a].at = "again" =>
        <<a, "again">> \in guards' \/ InLine(<<a, "again">>)'
  <2> SUFFICES ASSUME a \in Request, req'[a].at = "again"
               PROVE  <<a, "again">> \in guards' \/ InLine(<<a, "again">>)'
    OBVIOUS
  <2>1. g = <<a, "again">>
    BY DEF Guard
  <2> QED
    BY <1>2, <2>1
<1> QED
  BY <1>2, <1>3, <1>4, StagesStep

\* one that gives up guards, and waits for none,
LEMMA StagesDrop ==
  ASSUME GuardsOK, GuardsOK', Orderly, StagesOK, NEW a \in Actor, Moved(a),
         NEW gs, Drop(gs), \A g \in Guard \cap gs : g[1] = a,
         \A g \in Guard : g[1] = a => ~InLine(g) /\ (g \in guards \ gs => Keeps(g)'),
         a \in Request => req'[a].at # "again"
  PROVE  Orderly' /\ StagesOK'
<1>1. Orderly' /\ guards' = guards \ gs /\ \A h : InLine(h)' <=> InLine(h)
  BY DropLine
<1> QED
  BY <1>1, StagesStep

\* and one that does neither.
LEMMA StagesGo ==
  ASSUME GuardsOK, GuardsOK', Orderly, StagesOK, NEW a \in Actor, Moved(a), UNCHANGED lock,
         \A g \in Guard : g[1] = a => ~InLine(g) /\ (g \in guards => Keeps(g)'),
         a \in Request => req'[a].at # "again"
  PROVE  Orderly' /\ StagesOK'
<1>1. Orderly' /\ guards' = guards /\ \A h : InLine(h)' <=> InLine(h)
  BY DEF lock, Orderly, InLine
<1> QED
  BY <1>1, StagesStep

\* A guard of a request, or of a restore.
LEMMA GuardsOf ==
  ASSUME NEW g \in Guard
  PROVE  /\ g = <<g[1], g[2]>> /\ g[2] \in {"read", "again", "write"}
         /\ g[1] \in Request => g[1] \notin Restorer
BY PoolAssumption DEF Guard

\* One that leaves altogether.
LEMMA StagesForsake ==
  ASSUME GuardsOK, GuardsOK', Orderly, StagesOK, NEW a \in Actor, Moved(a), Forsake(a),
         a \in Request => req'[a].at # "again"
  PROVE  Orderly' /\ StagesOK'
<1>1. ASSUME NEW g \in Guard, NEW h \in Guard, InLine(g), InLine(h), g[1] = a, h[1] = a
      PROVE  g = h
  <2>1. Awaits(g) /\ Awaits(h)
    BY <1>1 DEF StagesOK
  <2>2. g = <<a, g[2]>> /\ h = <<a, h[2]>> /\ (a \in Request => a \notin Restorer)
    BY <1>1, GuardsOf
  <2> QED
    BY <1>1, <2>1, <2>2 DEF Awaits
<1>2. /\ Orderly'
      /\ \A g \in Guard : InLine(g)' <=> InLine(g) /\ g[1] # a
  BY <1>1, ForsakeLine
<1>3. \A g \in Guard : g \in guards' <=> g \in guards /\ g[1] # a
  BY DEF Forsake
<1> QED
  BY <1>2, <1>3, StagesStep

LineOK == Orderly /\ StagesOK

LEMMA LineRequests ==
  ASSUME Inv, LineOK, GuardsOK', NEW r \in Request, Begin(r) \/ RequestStep(r)
  PROVE  LineOK'
<1>. r \in Actor /\ GuardsOK /\ ReqOK /\ LockOK /\ Orderly /\ StagesOK
  BY DEF Actor, Inv, TypeInv, LineOK
<1> SUFFICES Orderly' /\ StagesOK'
  BY DEF LineOK
<1>t. TypeInv /\ Exclusive
  BY DEF Inv, LockOK
<1>r. <<r, "read">> \in Guard /\ <<r, "again">> \in Guard /\ <<r, "read">>[1] = r /\ <<r, "again">>[1] = r
  BY DEF Guard, Actor
<1>h. \A g \in guards : Keeps(g) /\ g \in Guard
  BY DEF StagesOK, GuardsOK
<1>l. \A g \in Guard : InLine(g) => Awaits(g)
  BY DEF StagesOK
<1>m. res' = res /\ (\A q \in Request \ {r} : req'[q] = req[q]) => Moved(r)
  BY DEF Moved
<1>1. CASE Begin(r)
  <2>1. res' = res /\ req[r].at = "new" /\ Ask(<<r, "read">>)
    BY <1>1 DEF Begin
  <2>2. req'[r].at = "asked" /\ Moved(r)
    BY <1>1, <1>t, <1>m, <2>1, BeginEffect
  <2>3. \A g \in Guard : g[1] = r => ~Keeps(g) /\ ~Awaits(g)
    BY <2>1, GuardsOf DEF Keeps, Awaits
  <2>4. Awaits(<<r, "read">>)'
    BY <2>2 DEF Awaits
  <2> QED
    BY <1>r, <1>h, <1>l, <2>1, <2>2, <2>3, <2>4, StagesAsk
<1>2. CASE NoConnection(r) \/ ReadBack(r)
  <2>1. res' = res /\ req'[r].at \in {"acked", "failed"} /\ Moved(r)
    BY <1>2, <1>t, <1>m, EndEffect
  <2>2. Drop({<<r, "read">>, <<r, "again">>})
    BY <1>2 DEF NoConnection, ReadBack, Answer
  <2>3. \/ req[r].at = "asked" /\ <<r, "read">> \in guards
        \/ req[r].at = "again" /\ <<r, "again">> \in guards
    BY <1>2 DEF NoConnection, ReadBack, Holds
  <2>4. \A g \in Guard : g[1] = r => ~InLine(g)
    <3> SUFFICES ASSUME NEW g \in Guard, g[1] = r, InLine(g) PROVE FALSE
      OBVIOUS
    <3>1. Awaits(g) /\ g \notin guards
      BY <1>l DEF Orderly, InLine
    <3>2. g = <<r, g[2]>> /\ r \notin Restorer
      BY GuardsOf
    <3>3. (g[2] = "read" /\ req[r].at = "asked") \/ (g[2] = "again" /\ req[r].at = "again")
      BY <3>1, <3>2 DEF Awaits
    <3> QED
      BY <2>3, <3>1, <3>2, <3>3
  <2>5. \A g \in Guard : g[1] = r => g \notin guards \ {<<r, "read">>, <<r, "again">>}
    BY <1>h, GuardsOf DEF Keeps, Awaits
  <2> QED
    BY <1>r, <2>1, <2>2, <2>4, <2>5, StagesDrop
<1>3. CASE Acquire(r)
  <2>1. res' = res /\ UNCHANGED lock /\ req[r].at = "asked" /\ <<r, "read">> \in guards
    BY <1>3 DEF Acquire, Holds
  <2>2. req'[r].at = "conn" /\ Moved(r)
    BY <1>3, <1>t, <1>m, <2>1, AcquireEffect
  <2>3. \A g \in Guard : g[1] = r => ~InLine(g)
    <3> SUFFICES ASSUME NEW g \in Guard, g[1] = r, InLine(g) PROVE FALSE
      OBVIOUS
    <3>1. Awaits(g) /\ g \notin guards
      BY <1>l DEF Orderly, InLine
    <3> QED
      BY <2>1, <3>1, GuardsOf DEF Awaits
  <2>4. \A g \in guards : g[1] = r => Keeps(g)'
    BY <1>h, <2>1, <2>2, GuardsOf DEF Keeps, Awaits
  <2> QED
    BY <2>1, <2>2, <2>3, <2>4, StagesGo
<1>4. CASE Execute(r)
  <2>1. res' = res /\ req[r].at = "conn"
    BY <1>4 DEF Execute
  <2>2. req'[r].at \in {"stored", "acked", "failed"} /\ Moved(r)
    BY <1>4, <1>t, <1>m, <2>1, ExecuteEffect
  <2>3. \A g \in Guard : g[1] = r => ~InLine(g)
    BY <1>l, <2>1, GuardsOf DEF Awaits
  <2>4. \A g \in guards : g[1] = r => g = <<r, "read">>
    BY <1>h, <2>1, GuardsOf DEF Keeps, Awaits
  <2>5. \/ req'[r].at = "stored" /\ UNCHANGED lock
        \/ Drop({<<r, "read">>, <<r, "again">>})
    <3>1. PICK ok \in BOOLEAN :
            IF ok /\ r \in Nested
            THEN req' = [req EXCEPT ![r] = [at |-> "stored", file |-> 0]] /\ UNCHANGED lock
            ELSE Answer(r, IF ok THEN "acked" ELSE "failed")
      <4>1. files[req[r].file].schema = Parts \/ files[req[r].file].schema # Parts
        OBVIOUS
      <4> QED
        BY <1>4, <4>1 DEF Execute
    <3>2. CASE ok /\ r \in Nested
      <4>1. req' = [req EXCEPT ![r] = [at |-> "stored", file |-> 0]] /\ UNCHANGED lock
        BY <3>1, <3>2
      <4> QED
        BY <4>1 DEF ReqOK
    <3>3. CASE ~(ok /\ r \in Nested)
      BY <3>1, <3>3 DEF Answer
    <3> QED
      BY <3>2, <3>3
  <2>6. CASE req'[r].at = "stored" /\ UNCHANGED lock
    <3>1. \A g \in guards : g[1] = r => Keeps(g)'
      BY <2>4, <2>6 DEF Keeps
    <3> QED
      BY <2>2, <2>3, <2>6, <3>1, StagesGo
  <2>7. CASE Drop({<<r, "read">>, <<r, "again">>})
    BY <1>r, <2>2, <2>3, <2>4, <2>7, StagesDrop
  <2> QED
    BY <2>5, <2>6, <2>7
<1>5. CASE AskAgain(r)
  <2>1. res' = res /\ req[r].at = "stored" /\ Ask(<<r, "again">>)
    BY <1>5 DEF AskAgain
  <2>2. req'[r].at = "again" /\ Moved(r)
    BY <1>5, <1>t, <1>m, <2>1, AskAgainEffect
  <2>3. ~Keeps(<<r, "again">>) /\ Awaits(<<r, "again">>)'
    BY <2>1, <2>2, GuardsOf, <1>r DEF Keeps, Awaits
  <2>4. \A g \in Guard : g[1] = r => ~InLine(g)
    BY <1>l, <2>1, GuardsOf DEF Awaits
  <2>5. \A g \in guards : g[1] = r => Keeps(g)'
    BY <1>h, <2>1, <2>2, GuardsOf DEF Keeps, Awaits
  <2> QED
    BY <1>r, <2>1, <2>2, <2>3, <2>4, <2>5, StagesAsk
<1> QED
  BY <1>1, <1>2, <1>3, <1>4, <1>5 DEF RequestStep

LEMMA LineRestores ==
  ASSUME Inv, LineOK, GuardsOK', NEW s \in Restorer, Clear(s) \/ RestoreStep(s)
  PROVE  LineOK'
<1>. s \in Actor /\ GuardsOK /\ ResOK /\ LockOK /\ Orderly /\ StagesOK
  BY DEF Actor, Inv, TypeInv, LineOK
<1> SUFFICES Orderly' /\ StagesOK'
  BY DEF LineOK
<1>t. TypeInv /\ Exclusive /\ s \notin Request
  BY PoolAssumption DEF Inv, LockOK
<1>r. /\ <<s, "read">> \in Guard /\ <<s, "write">> \in Guard
      /\ <<s, "read">>[1] = s /\ <<s, "write">>[1] = s
  BY DEF Guard, Actor
<1>h. \A g \in guards : Keeps(g) /\ g \in Guard
  BY DEF StagesOK, GuardsOK
<1>l. \A g \in Guard : InLine(g) => Awaits(g) /\ g \notin guards
  BY DEF StagesOK, Orderly, InLine
<1>m. req' = req /\ (\A t \in Restorer \ {s} : res'[t] = res[t]) => Moved(s)
  BY DEF Moved
<1>g. \A g \in Guard : g[1] = s => g = <<s, g[2]>>
  BY GuardsOf
<1>o. \A g \in Guard : g[1] = s /\ res[s].at \notin {"close", "closing", "swap"} =>
        ~Keeps(g) /\ ~Awaits(g)
  BY <1>t DEF Keeps, Awaits
<1>1. CASE Clear(s) \/ OpenPool(s) \/ ReinitFails(s)
  <2>1. req' = req /\ UNCHANGED lock /\ res[s].at \in {"new", "open", "migrate"}
    BY <1>1 DEF Clear, OpenPool, ReinitFails, At
  <2>2. Moved(s)
    BY <1>1, <1>t, <1>m, <2>1, ClearEffect, OpenPoolEffect, ReinitFailsEffect
  <2> QED
    BY <1>h, <1>l, <1>o, <1>t, <2>1, <2>2, StagesGo
<1>2. CASE Extract(s)
  <2>1. req' = req /\ res[s].at = "cleared"
    BY <1>2 DEF Extract, At
  <2>2. Moved(s)
    BY <1>2, <1>t, <1>m, <2>1, ExtractEffect
  <2>3. CASE Go(s, "close") /\ Ask(<<s, "read">>)
    <3>1. Awaits(<<s, "read">>)'
      BY <2>3 DEF Awaits, Go, ResOK
    <3> QED
      BY <1>r, <1>h, <1>l, <1>o, <1>t, <2>1, <2>2, <2>3, <3>1, StagesAsk
  <2>4. CASE UNCHANGED lock
    BY <1>h, <1>l, <1>o, <1>t, <2>1, <2>2, <2>4, StagesGo
  <2> QED
    BY <1>2, <2>3, <2>4 DEF Extract
<1>3. CASE Migrate(s)
  <2>1. req' = req /\ res[s].at = "migrate"
    BY <1>3, MigrateSame
  <2>2. Moved(s)
    BY <1>3, <1>t, <1>m, <2>1, MigrateEffect
  <2>3. CASE Go(s, "swap") /\ Ask(<<s, "write">>)
    <3>1. Awaits(<<s, "write">>)'
      BY <2>3 DEF Awaits, Go, ResOK
    <3> QED
      BY <1>r, <1>h, <1>l, <1>o, <1>t, <2>1, <2>2, <2>3, <3>1, StagesAsk
  <2>4. CASE UNCHANGED lock
    BY <1>h, <1>l, <1>o, <1>t, <2>1, <2>2, <2>4, StagesGo
  <2> QED
    BY <1>3, <2>3, <2>4, MigrateCases DEF Migrated, Adds
<1>4. CASE Close(s)
  <2>1. req' = req /\ UNCHANGED lock /\ res[s].at = "close" /\ <<s, "read">> \in guards
    BY <1>4 DEF Close, At, Holds
  <2>2. res'[s].at = "closing" /\ Moved(s)
    BY <1>4, <1>t, <1>m, <2>1, CloseEffect
  <2>3. \A g \in Guard : g[1] = s => ~InLine(g)
    BY <1>l, <1>g, <1>t, <2>1 DEF Awaits
  <2>4. \A g \in guards : g[1] = s => Keeps(g)'
    BY <1>h, <1>t, <2>1, <2>2 DEF Keeps, Awaits
  <2> QED
    BY <1>t, <2>1, <2>2, <2>3, <2>4, StagesGo
<1>5. CASE Closed(s)
  <2>1. req' = req /\ Drop({<<s, "read">>}) /\ res[s].at = "closing"
    BY <1>5 DEF Closed, At
  <2>2. Moved(s)
    BY <1>5, <1>t, <1>m, <2>1, ClosedEffect
  <2>3. \A g \in Guard : g[1] = s => ~InLine(g)
    BY <1>l, <1>t, <2>1 DEF Awaits
  <2>4. \A g \in guards : g[1] = s => g = <<s, "read">>
    BY <1>h, <1>g, <1>t, <2>1 DEF Keeps, Awaits
  <2> QED
    BY <1>r, <1>t, <2>1, <2>2, <2>3, <2>4, StagesDrop
<1>6. CASE Swap(s)
  <2>1. req' = req /\ Drop({<<s, "write">>}) /\ res[s].at = "swap" /\ <<s, "write">> \in guards
    BY <1>6 DEF Swap, At, Holds
  <2>2. guards = {<<s, "write">>} /\ Moved(s)
    BY <1>6, <1>t, <1>m, <2>1, SwapEffect
  <2>3. \A g \in Guard : g[1] = s => ~InLine(g)
    BY <1>l, <1>g, <1>t, <2>1 DEF Awaits
  <2> QED
    BY <1>r, <1>t, <2>1, <2>2, <2>3, StagesDrop
<1> QED
  BY <1>1, <1>2, <1>3, <1>4, <1>5, <1>6 DEF RestoreStep

LEMMA LineSame ==
  ASSUME LineOK, UNCHANGED <<lock, req, res>>
  PROVE  LineOK'
BY DEF LineOK, lock, Orderly, StagesOK, InLine, Keeps, Awaits

LEMMA LineStep ==
  ASSUME Inv, LineOK, [Next]_vars
  PROVE  LineOK'
<1>. GuardsOK /\ GuardsOK'
  BY InvNext DEF Inv, TypeInv
<1>1. CASE Grant
  <2>1. /\ Orderly'
        /\ \A h \in Guard : /\ h \in guards' => h \in guards \/ InLine(h)
                            /\ InLine(h)' => InLine(h)
                            /\ h \in guards \/ InLine(h) => h \in guards' \/ InLine(h)'
    BY <1>1, GrantLine DEF LineOK
  <2>2. req' = req /\ res' = res
    BY <1>1 DEF Grant
  <2>3. \A g : (Keeps(g)' <=> Keeps(g)) /\ (Awaits(g)' <=> Awaits(g))
    BY <2>2 DEF Keeps, Awaits
  <2>4. \A g \in guards' : g \in Guard
    BY DEF GuardsOK
  <2>5. \A g \in guards' : Keeps(g)'
    BY <2>1, <2>3, <2>4 DEF LineOK, StagesOK, Keeps
  <2>6. \A g \in Guard : InLine(g)' => Awaits(g)'
    BY <2>1, <2>3 DEF LineOK, StagesOK
  <2>7. \A r \in Request : <<r, "again">> \in Guard
    BY DEF Guard, Actor
  <2>8. \A r \in Request : req'[r].at = "again" =>
          <<r, "again">> \in guards' \/ InLine(<<r, "again">>)'
    BY <2>1, <2>2, <2>7 DEF LineOK, StagesOK
  <2> QED
    BY <2>1, <2>5, <2>6, <2>8 DEF LineOK, StagesOK
<1>2. CASE Crash
  <2>1. guards' = {} /\ queue' = <<>>
    BY <1>2 DEF Crash
  <2>2. \A r \in Request : req'[r].at # "again"
    BY <1>2, CrashEffect DEF Inv
  <2>3. DOMAIN queue' = {}
    BY <2>1
  <2> QED
    BY <2>1, <2>2, <2>3 DEF LineOK, Orderly, StagesOK, InLine
<1>3. \A b \in Backup : BackupStep(b) => UNCHANGED <<lock, req, res>>
  BY BackupSteps
<1>4. \A i \in 1..MaxFiles : Checkpoint(i) => UNCHANGED <<lock, req, res>>
  BY DEF Checkpoint
<1>5. BootRestore \/ BootInit \/ UNCHANGED vars => UNCHANGED <<lock, req, res>>
  BY DEF BootRestore, BootInit, vars
<1>6. ASSUME NEW r \in Request, LeaveRequest(r) PROVE LineOK'
  <2>1. /\ res' = res /\ req'[r].at = "failed" /\ \A q \in Request \ {r} : req'[q] = req[q]
        /\ Forsake(r) /\ r \in Actor
    BY <1>6, LeaveRequestEffect DEF Inv, LockOK, LeaveRequest, Actor
  <2>2. Moved(r)
    BY <2>1 DEF Moved
  <2> QED
    BY <2>1, <2>2, StagesForsake DEF LineOK
<1>7. ASSUME NEW s \in Restorer, LeaveRestore(s) PROVE LineOK'
  <2>1. /\ req' = req /\ \A t \in Restorer \ {s} : res'[t] = res[t]
        /\ Forsake(s) /\ s \in Actor /\ s \notin Request
    BY <1>7, LeaveRestoreEffect, PoolAssumption DEF Inv, LockOK, LeaveRestore, Actor
  <2>2. Moved(s)
    BY <2>1 DEF Moved
  <2> QED
    BY <2>1, <2>2, StagesForsake DEF LineOK
<1> QED
  BY <1>1, <1>2, <1>3, <1>4, <1>5, <1>6, <1>7, LineSame, LineRequests, LineRestores DEF Next

-----------------------------------------------------------------------------
(* Connections in use.                                                       *)

\* Steps that leave connections with who has them.
LEMMA OutKept ==
  ASSUME OutOK, cur' = cur,
         \A p \in PoolId : pools'[p].out \subseteq pools[p].out,
         \A r \in Request : req[r].at = "conn" =>
           req'[r].at = "conn" \/ \A p \in PoolId : r \notin pools'[p].out,
         \A p \in PoolId : pools[p].out \subseteq Request
  PROVE  OutOK'
BY DEF OutOK

LEMMA OutStep ==
  ASSUME Inv, OutOK, [Next]_vars
  PROVE  OutOK'
<1>. /\ TypeInv /\ Exclusive /\ PoolsOK /\ cur \in PoolId
     /\ \A p \in PoolId : pools[p].out \subseteq Request
  BY DEF Inv, LockOK, TypeInv, PoolsOK
<1>1. ASSUME NEW r \in Request, Begin(r) \/ NoConnection(r) \/ AskAgain(r) \/ ReadBack(r)
      PROVE  OutOK'
  <2>1. UNCHANGED <<pools, cur>> /\ req[r].at # "conn"
    BY <1>1 DEF Begin, NoConnection, AskAgain, ReadBack
  <2>2. \A q \in Request \ {r} : req'[q] = req[q]
    BY <1>1, BeginEffect, EndEffect, AskAgainEffect
  <2> QED
    BY <2>1, <2>2, OutKept
<1>2. ASSUME NEW r \in Request, Acquire(r) PROVE OutOK'
  <2>1. cur' = cur
    BY <1>2 DEF Acquire
  <2>2. /\ req'[r].at = "conn" /\ \A q \in Request \ {r} : req'[q] = req[q]
        /\ pools'[cur].out = pools[cur].out \cup {r}
        /\ \A p \in PoolId \ {cur} : pools'[p] = pools[p]
    BY <1>2, AcquireEffect
  <2> QED
    BY <2>1, <2>2 DEF OutOK
<1>3. ASSUME NEW r \in Request, Execute(r) PROVE OutOK'
  <2>1. cur' = cur
    BY <1>3 DEF Execute
  <2>2. /\ \A q \in Request \ {r} : req'[q] = req[q]
        /\ pools'[cur].out = pools[cur].out \ {r}
        /\ \A p \in PoolId \ {cur} : pools'[p] = pools[p]
    BY <1>3, ExecuteEffect
  <2> QED
    BY <2>1, <2>2 DEF OutOK
<1>4. ASSUME NEW s \in Restorer, Clear(s) \/ Extract(s) \/ Closed(s) \/ Migrate(s)
      PROVE  UNCHANGED <<pools, cur, req>>
  BY <1>4, MigrateSame DEF Clear, Extract, Closed
<1>5. ASSUME NEW s \in Restorer, Close(s) PROVE OutOK'
  <2>1. cur' = cur /\ req' = req
    BY <1>5 DEF Close
  <2>2. pools'[cur].out = pools[cur].out /\ \A p \in PoolId \ {cur} : pools'[p] = pools[p]
    BY <1>5, CloseEffect
  <2> QED
    BY <2>1, <2>2, OutKept
<1>6. ASSUME NEW s \in Restorer, OpenPool(s) \/ ReinitFails(s) PROVE OutOK'
  <2>1. cur' = cur /\ req' = req
    BY <1>6 DEF OpenPool, ReinitFails
  <2>2. pools'[s].out = {} /\ \A p \in PoolId \ {s} : pools'[p] = pools[p]
    BY <1>6 DEF OpenPool, ReinitFails, PoolsOK, PoolId, Opened, Shut
  <2> QED
    BY <2>1, <2>2, OutKept
<1>7. ASSUME NEW s \in Restorer, Swap(s) PROVE OutOK'
  <2>1. guards = {<<s, "write">>} /\ UNCHANGED pools
    BY <1>7, SwapEffect DEF Swap
  <2>2. \A r \in Request : req[r].at # "conn"
    BY <2>1 DEF Inv, LockOK, Holds
  <2>3. \A p \in PoolId : pools[p].out = {}
    BY <2>2 DEF OutOK
  <2> QED
    BY <2>1, <2>3 DEF OutOK
<1>8. CASE Crash
  <2>1. \A p \in PoolId : pools'[p].out = {}
    BY <1>8 DEF Crash, Shut
  <2> QED
    BY <2>1 DEF OutOK
<1>9. CASE BootInit
  <2>1. cur' = cur /\ req' = req
    BY <1>9 DEF BootInit
  <2>2. pools'[Boot].out = {} /\ \A p \in PoolId \ {Boot} : pools'[p] = pools[p]
    BY <1>9 DEF BootInit, PoolsOK, PoolId, Opened
  <2> QED
    BY <2>1, <2>2, OutKept
<1>10. UNCHANGED <<pools, cur, req>> => OutOK'
  BY DEF OutOK
<1>13. ASSUME NEW r \in Request, LeaveRequest(r) PROVE OutOK'
  <2>1. cur' = cur /\ \A q \in Request \ {r} : req'[q] = req[q]
    BY <1>13, LeaveRequestEffect
  <2>2. CASE req[r].at = "conn"
    <3>1. /\ pools'[cur].out = pools[cur].out \ {r}
          /\ \A p \in PoolId \ {cur} : pools'[p] = pools[p]
      BY <1>13, <2>2, LeaveRequestEffect
    <3> QED
      BY <2>1, <3>1 DEF OutOK
  <2>3. CASE req[r].at # "conn"
    <3>1. pools' = pools
      BY <1>13, <2>3, LeaveRequestEffect
    <3> QED
      BY <2>1, <2>3, <3>1, OutKept
  <2> QED
    BY <2>2, <2>3
<1>14. ASSUME NEW s \in Restorer, LeaveRestore(s) PROVE OutOK'
  <2>1. cur' = cur /\ req' = req /\ pools'[s] = Shut /\ \A p \in PoolId \ {s} : pools'[p] = pools[p]
    BY <1>14, LeaveRestoreEffect
  <2>2. \A p \in PoolId : pools'[p].out \subseteq pools[p].out
    BY <2>1 DEF Shut
  <2> QED
    BY <2>1, <2>2, OutKept
<1>11. \A b \in Backup : BackupStep(b) => UNCHANGED <<pools, cur, req>>
  BY BackupSteps
<1>12. /\ \A i \in 1..MaxFiles : Checkpoint(i) => UNCHANGED <<pools, cur, req>>
       /\ Grant \/ BootRestore \/ UNCHANGED vars => UNCHANGED <<pools, cur, req>>
  BY DEF Checkpoint, Grant, BootRestore, vars
<1> QED
  BY <1>1, <1>2, <1>3, <1>4, <1>5, <1>6, <1>7, <1>8, <1>9, <1>10, <1>11, <1>12,
     <1>13, <1>14
     DEF Next, RequestStep, RestoreStep

\* Who holds a guard goes on, or is a request that waits for its second one, or a restore
\* that waits for a connection.
LEMMA HoldersProceed ==
  ASSUME Inv, LineOK, OutOK, NEW g \in guards
  PROVE  \/ Proceeds(g[1])
         \/ /\ g[1] \in Request /\ g = <<g[1], "read">> /\ InLine(<<g[1], "again">>)
         \/ At(g[1], "closing") /\ \E r \in pools[cur].out : Proceeds(r) /\ <<r, "read">> \in guards
<1>1. g \in Guard /\ Keeps(g) /\ g = <<g[1], g[2]>>
  BY GuardsOf DEF Inv, TypeInv, GuardsOK, LineOK, StagesOK
<1>2. CASE g[1] \in Request /\ req[g[1]].at # "again"
  BY <1>1, <1>2, GuardsOf DEF Keeps, Awaits, Proceeds, Holds
<1>3. CASE g[1] \in Request /\ req[g[1]].at = "again"
  <2>1. CASE Holds(g[1], "again")
    BY <1>3, <2>1 DEF Proceeds
  <2>2. CASE ~Holds(g[1], "again")
    <3>1. g[2] # "again"
      BY <1>1, <2>2 DEF Holds
    <3>2. g = <<g[1], "read">>
      BY <1>1, <1>3, <3>1, GuardsOf DEF Keeps, Awaits
    <3>3. InLine(<<g[1], "again">>)
      BY <1>3, <2>2 DEF LineOK, StagesOK, Holds
    <3> QED
      BY <1>3, <3>2, <3>3
  <2> QED
    BY <2>1, <2>2
<1>4. CASE g[1] \in Restorer /\ res[g[1]].at # "closing"
  BY <1>1, <1>4, GuardsOf DEF Keeps, Awaits, Proceeds, Holds, At
<1>5. CASE g[1] \in Restorer /\ res[g[1]].at = "closing"
  <2>1. CASE pools[cur].out = {}
    BY <1>5, <2>1 DEF Proceeds, At
  <2>2. CASE pools[cur].out # {}
    <3>1. PICK r \in pools[cur].out : TRUE
      BY <2>2
    <3>2. r \in Request /\ req[r].at = "conn"
      BY <3>1 DEF OutOK, Inv, TypeInv, PoolsOK
    <3>3. <<r, "read">> \in guards
      BY <3>2 DEF Inv, LockOK, Holds
    <3> QED
      BY <1>5, <3>1, <3>2, <3>3 DEF Proceeds, At
  <2> QED
    BY <2>1, <2>2
<1> QED
  BY <1>1, <1>2, <1>3, <1>4, <1>5 DEF Guard, Actor

\* Whoever waits, for the lock of the pool or for its connections, waits for somebody who
\* has a step to take, or is in the one circle that Jammed describes: for any number of
\* requests and restores, in whatever order they asked.
THEOREM NobodyStuckHolds == Spec => []NobodyStuck
<1>1. Init => LineOK /\ OutOK
  BY DEF Init, LineOK, Orderly, StagesOK, InLine, OutOK, Opened, Shut
<1>2. ASSUME Inv, LineOK, OutOK, queue # <<>>, ~Jammed, ~Free(Head(queue))
      PROVE  \E g \in guards : Proceeds(g[1])
  <2> SUFFICES ASSUME \A g \in guards : ~Proceeds(g[1]) PROVE FALSE
    OBVIOUS
  <2>1. /\ Head(queue) = queue[1] /\ 1 \in DOMAIN queue /\ DOMAIN queue = 1..Len(queue)
        /\ Head(queue) \in Guard
    BY <1>2, HeadTailProperties DEF Inv, TypeInv, GuardsOK
  <2>2. \A g \in guards : ~At(g[1], "closing") \/ ~\E r \in pools[cur].out : Proceeds(r) /\ <<r, "read">> \in guards
    <3>1. \A r : <<r, "read">>[1] = r
      OBVIOUS
    <3> QED
      BY <3>1
  <2>3. \A g \in guards : g[1] \in Request /\ g = <<g[1], "read">> /\ InLine(<<g[1], "again">>)
    BY <1>2, <2>2, HoldersProceed
  <2>4. \A g \in guards : g[2] = "read"
    <3>1. \A a : <<a, "read">>[2] = "read"
      OBVIOUS
    <3> QED
      BY <2>3, <3>1
  <2>5. queue[1][2] = "write" /\ guards # {}
    BY <1>2, <2>1, <2>4 DEF Free
  <2>6. PICK g \in guards : TRUE
    BY <2>5
  <2>7. g[1] \in Request /\ Holds(g[1], "read")
    BY <2>3, <2>6 DEF Holds
  <2>8. PICK j \in DOMAIN queue : queue[j] = <<g[1], "again">>
    BY <2>3, <2>6 DEF InLine
  <2>9. j # 1
    BY <2>5, <2>8
  <2>10. 1 < j
    BY <2>1, <2>8, <2>9 DEF Inv, TypeInv, GuardsOK
  <2> QED
    BY <1>2, <2>1, <2>5, <2>7, <2>8, <2>10 DEF Jammed
<1>3. ASSUME Inv, OutOK, NEW s \in Restorer, At(s, "closing")
      PROVE  Proceeds(s) \/ \E r \in pools[cur].out : Proceeds(r)
  <2>1. \A r \in pools[cur].out : r \in Request /\ req[r].at = "conn"
    BY <1>3 DEF OutOK, Inv, TypeInv, PoolsOK
  <2> QED
    BY <1>3, <2>1 DEF Proceeds
<1>4. Inv /\ LineOK /\ OutOK => NobodyStuck
  BY <1>2, <1>3 DEF NobodyStuck
<1>5. Inv /\ LineOK /\ OutOK /\ [Next]_vars => LineOK' /\ OutOK'
  BY LineStep, OutStep
<1> QED
  BY <1>1, <1>4, <1>5, InvHolds, PTL DEF Spec
=============================================================================
