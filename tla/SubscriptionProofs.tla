------------------------- MODULE SubscriptionProofs -------------------------
(***************************************************************************)
(* Proofs about Subscription, for any number of subscriptions, runs,        *)
(* deletes, edits and tasks: its types, that a subscription shown as        *)
(* running is being run, that a run nothing disturbed imports what it       *)
(* reports, and that a deleted subscription leaves no directory.            *)
(***************************************************************************)
EXTENDS Subscription, TLAPS

-----------------------------------------------------------------------------
(* Types.                                                                    *)

RunRec == [at : RunStages, dir : Dir \cup {NoDir},
           outcome : {"success", "failed"}, loader : BOOLEAN]
DelRec == [at : DelStages, dir : Dir \cup {NoDir}]
DirStates == {"absent", "partial", "repo"}

\* The types of what runs and deletes work on, which need nothing else.
PartTypeOK ==
  /\ rows \in [Sub -> [st : {"unborn", "here", "gone"}, name : Name]]
  /\ del \in [Handler -> DelRec]
  /\ run \in [Run -> RunRec]
  /\ status \in [Sub -> {"none", "running", "success", "failed"}]
  /\ dir \in [Dir -> DirStates]

LEMMA NoRunType == NoRun \in RunRec /\ NoRun.at = "idle"
BY DEF NoRun, RunRec, RunStages

LEMMA NoDelType == NoDel \in DelRec /\ NoDel.at = "idle"
BY DEF NoDel, DelRec, DelStages

\* A run goes on: it had begun, and still has the directory it began with.
Advances(r) ==
  /\ run' \in [Run -> RunRec]
  /\ \A q \in Run \ {r} : run'[q] = run[q]
  /\ run'[r].dir = run[r].dir
  /\ At(r) \notin {"idle", "got"} /\ run'[r].at \notin {"idle", "got"}

\* A run has ended.
Over(r) ==
  /\ run' \in [Run -> RunRec]
  /\ \A q \in Run \ {r} : run'[q] = run[q]
  /\ run'[r] = NoRun
  /\ alone' = alone \ {r}

LEMMA MovesType ==
  ASSUME PartTypeOK, NEW r \in Run, NEW s \in RunStages \ {"idle", "got"}, Moves(r, s),
         At(r) \notin {"idle", "got"}
  PROVE  Advances(r)
<1>1. run'[r] = [run[r] EXCEPT !.at = s] /\ \A q \in Run \ {r} : run'[q] = run[q]
  BY DEF Moves, PartTypeOK
<1>2. run[r] \in RunRec
  BY DEF PartTypeOK
<1>3. run'[r] \in RunRec /\ run'[r].dir = run[r].dir /\ run'[r].at = s
  BY <1>1, <1>2 DEF RunRec
<1>4. run' \in [Run -> RunRec]
  BY <1>1, <1>3 DEF PartTypeOK, Moves
<1> QED
  BY <1>1, <1>3, <1>4 DEF Advances

\* So does a run that knows its outcome, or its loader.
LEMMA OutcomeType ==
  ASSUME PartTypeOK, NEW r \in Run, NEW s \in RunStages \ {"idle", "got"},
         NEW o \in {"success", "failed"}, At(r) \notin {"idle", "got"},
         \/ run' = [run EXCEPT ![r].at = s, ![r].outcome = o]
         \/ run' = [run EXCEPT ![r].at = s, ![r].loader = TRUE]
  PROVE  Advances(r)
<1>1. /\ \/ run'[r] = [run[r] EXCEPT !.at = s, !.outcome = o]
         \/ run'[r] = [run[r] EXCEPT !.at = s, !.loader = TRUE]
      /\ \A q \in Run \ {r} : run'[q] = run[q]
  BY DEF PartTypeOK
<1>2. run[r] \in RunRec
  BY DEF PartTypeOK
<1>3. run'[r] \in RunRec /\ run'[r].dir = run[r].dir /\ run'[r].at = s
  BY <1>1, <1>2 DEF RunRec
<1>4. run' \in [Run -> RunRec]
  BY <1>1, <1>3 DEF PartTypeOK
<1> QED
  BY <1>1, <1>3, <1>4 DEF Advances

LEMMA EndsType ==
  ASSUME PartTypeOK, NEW r \in Run, Ends(r)
  PROVE  Over(r)
BY NoRunType DEF Ends, Over, PartTypeOK

-----------------------------------------------------------------------------
(* What the steps of a run do.                                               *)

\* git changes nothing but the directory of the run; a step of the import nothing but
\* groups and tasks; a run that ends in the import has no status written.
RunStep(r) ==
  \/ Advances(r) /\ UNCHANGED <<status, stuck>>
  \/ Over(r) /\ UNCHANGED status /\ stuck' = stuck \cup {SubOf(r)}
  \/ Over(r) /\ SetStatus(SubOf(r), run[r].outcome) /\ stuck' = stuck \ {SubOf(r)}

LEMMA GitSteps ==
  ASSUME PartTypeOK, NEW r \in Run, GitStep(r)
  PROVE  /\ Advances(r) /\ UNCHANGED <<rows, del, status, stuck, messy>>
         /\ UNCHANGED dir \/ \E d \in DirStates : DirBecomes(r, d)
<1>1. UNCHANGED <<rows, del, status, stuck, messy>>
  BY DEF GitStep, EnsureDir, Pull, ResetAndPull, RemoveDir, Clone, CloneEnds, rest, rowVars
<1>2. UNCHANGED dir \/ \E d \in DirStates : DirBecomes(r, d)
  BY DEF GitStep, EnsureDir, Pull, ResetAndPull, RemoveDir, Clone, CloneEnds, DirStates
<1>3. At(r) \notin {"idle", "got"}
  BY DEF GitStep, EnsureDir, Pull, ResetAndPull, RemoveDir, Clone, CloneEnds
<1>4. Fails(r) => Advances(r)
  <2>1. "write" \in RunStages \ {"idle", "got"}
    BY DEF RunStages
  <2> QED
    BY <1>3, <2>1, OutcomeType DEF Fails
<1>5. ASSUME NEW s \in {"pull", "reset", "remove", "clone", "cloning", "sync"}, Moves(r, s)
      PROVE  Advances(r)
  <2>1. s \in RunStages \ {"idle", "got"}
    BY DEF RunStages
  <2> QED
    BY <1>3, <1>5, <2>1, MovesType
<1>6. \/ Fails(r) \/ UNCHANGED run
      \/ \E s \in {"pull", "reset", "remove", "clone", "cloning", "sync"} : Moves(r, s)
  BY DEF GitStep, EnsureDir, Pull, ResetAndPull, RemoveDir, Clone, CloneEnds
<1>7. UNCHANGED run => Advances(r)
  BY <1>3 DEF Advances, PartTypeOK, At
<1> QED
  BY <1>1, <1>2, <1>4, <1>5, <1>6, <1>7

LEMMA SyncSteps ==
  ASSUME PartTypeOK, NEW r \in Run, SyncStep(r)
  PROVE  RunStep(r) /\ At(r) \notin {"idle", "got"} /\ UNCHANGED <<rows, del, dir, messy>>
<1>1. At(r) \notin {"idle", "got"}
  BY DEF SyncStep, ReadDir, FindGroup, InsertGroup, CountTasks, UpdateTasks, CreateTask, Conclude
<1>2. UNCHANGED <<rows, del, dir, messy>>
  BY DEF SyncStep, ReadDir, FindGroup, InsertGroup, CountTasks, UpdateTasks, CreateTask, Conclude,
         SyncFails, rest, rowVars
<1>3. SyncFails(r) \/ Conclude(r) => RunStep(r)
  BY EndsType DEF SyncFails, Conclude, RunStep
<1>4. ASSUME NEW s \in {"group", "insert", "count"}, Moves(r, s), UNCHANGED <<status, stuck>>
      PROVE  RunStep(r)
  <2>1. s \in RunStages \ {"idle", "got"}
    BY DEF RunStages
  <2> QED
    BY <1>1, <1>4, <2>1, MovesType DEF RunStep
<1>5. ASSUME UNCHANGED <<status, stuck>>,
             run' = [run EXCEPT ![r].at = "write", ![r].outcome = "success"]
      PROVE  RunStep(r)
  <2>1. "write" \in RunStages \ {"idle", "got"}
    BY DEF RunStages
  <2> QED
    BY <1>1, <1>5, <2>1, OutcomeType DEF RunStep
<1>6. ASSUME UNCHANGED <<status, stuck>>, NEW s \in {"create", "update"},
             run' = [run EXCEPT ![r].at = s, ![r].loader = TRUE]
      PROVE  RunStep(r)
  <2>1. s \in RunStages \ {"idle", "got"}
    BY DEF RunStages
  <2> QED
    BY <1>1, <1>6, <2>1, OutcomeType DEF RunStep
<1>7. ReadDir(r) \/ FindGroup(r) => RunStep(r)
  BY <1>3, <1>4 DEF ReadDir, FindGroup, rest
<1>8. InsertGroup(r) => RunStep(r)
  BY <1>3, <1>4 DEF InsertGroup
<1>9. CountTasks(r) => RunStep(r)
  BY <1>5, <1>6 DEF CountTasks
<1>10. UpdateTasks(r) \/ CreateTask(r) => RunStep(r)
  BY <1>3, <1>5 DEF UpdateTasks, CreateTask, Succeeds
<1> QED
  BY <1>1, <1>2, <1>3, <1>7, <1>8, <1>9, <1>10 DEF SyncStep

\* A status that is written is a status, and of a row that is there.
LEMMA SetStatusType ==
  ASSUME PartTypeOK, NEW s, NEW v \in {"running", "success", "failed"}, SetStatus(s, v)
  PROVE  /\ status' \in [Sub -> {"none", "running", "success", "failed"}]
         /\ \A u \in Sub : status'[u] = IF u = s /\ Exists(s) THEN v ELSE status[u]
BY DEF SetStatus, PartTypeOK

\* The run of a row begins in the directory of its name.
LEMMA BeginType ==
  ASSUME PartTypeOK, NEW r \in Run, NEW s \in Sub, Begin(r, s)
  PROVE  /\ run' \in [Run -> RunRec]
         /\ \A q \in Run \ {r} : run'[q] = run[q]
         /\ run'[r].dir = <<s, rows[s].name>> /\ run'[r].at = "got"
         /\ <<s, rows[s].name>> \in Dir
<1>1. <<s, rows[s].name>> \in Dir
  BY DEF PartTypeOK, Dir
<1> DEFINE new == [NoRun EXCEPT !.at = "got", !.dir = <<s, rows[s].name>>]
<1>2. new \in RunRec /\ new.at = "got" /\ new.dir = <<s, rows[s].name>>
  BY <1>1 DEF NoRun, RunRec, RunStages
<1>3. run' = [run EXCEPT ![r] = new]
  BY DEF Begin
<1> HIDE DEF new
<1> QED
  BY <1>1, <1>2, <1>3 DEF PartTypeOK

\* The run is marked.
LEMMA MarkType ==
  ASSUME PartTypeOK, NEW r \in Run, At(r) = "got", Moves(r, "ensured")
  PROVE  /\ run' \in [Run -> RunRec]
         /\ \A q \in Run \ {r} : run'[q] = run[q]
         /\ run'[r].dir = run[r].dir /\ run'[r].at = "ensured"
<1>1. run'[r] = [run[r] EXCEPT !.at = "ensured"] /\ \A q \in Run \ {r} : run'[q] = run[q]
  BY DEF Moves, PartTypeOK
<1>2. run[r] \in RunRec
  BY DEF PartTypeOK
<1>3. run'[r] \in RunRec /\ run'[r].dir = run[r].dir /\ run'[r].at = "ensured"
  BY <1>1, <1>2 DEF RunRec, RunStages
<1> QED
  BY <1>1, <1>3 DEF PartTypeOK, Moves

\* Only a row that is not there yet may appear; a row keeps its name but for a rename.
LEMMA SetRowType ==
  ASSUME PartTypeOK, NEW s \in Sub, NEW st \in {"here", "gone"}, NEW n \in Name, SetRow(s, st, n)
  PROVE  /\ rows' \in [Sub -> [st : {"unborn", "here", "gone"}, name : Name]]
         /\ rows'[s].st = st /\ rows'[s].name = n
         /\ \A u \in Sub \ {s} : rows'[u] = rows[u]
BY DEF SetRow, PartTypeOK

\* How a delete moves.
LEMMA DelType ==
  ASSUME PartTypeOK, NEW h \in Handler,
         \/ \E s \in Sub : DeleteGet(h, s)
         \/ DeleteDir(h) \/ RemovalEnds(h) \/ DeleteRow(h) \/ DeleteEnds(h)
  PROVE  /\ del' \in [Handler -> DelRec]
         /\ \A g \in Handler \ {h} : del'[g] = del[g]
         /\ UNCHANGED <<run, status, stuck>>
<1>0. \A st \in DelStages : [del[h] EXCEPT !.at = st] \in DelRec
  BY DEF DelRec, PartTypeOK
<1>1. CASE \E s \in Sub : DeleteGet(h, s)
  <2>1. PICK s \in Sub : DeleteGet(h, s)
    BY <1>1
  <2>2. [at |-> "found", dir |-> <<s, rows[s].name>>] \in DelRec
    BY DEF DelRec, DelStages, Dir, PartTypeOK
  <2> QED
    BY <2>1, <2>2 DEF DeleteGet, PartTypeOK
<1>2. ASSUME NEW st \in DelStages, del' = [del EXCEPT ![h].at = st]
      PROVE  del' \in [Handler -> DelRec] /\ \A g \in Handler \ {h} : del'[g] = del[g]
  <2>1. del' = [del EXCEPT ![h] = [del[h] EXCEPT !.at = st]]
    BY <1>2
  <2> QED
    BY <1>0, <2>1 DEF PartTypeOK
<1>3. CASE DeleteDir(h)
  BY <1>2, <1>3 DEF DeleteDir, DelStages
<1>4. CASE RemovalEnds(h)
  <2>1. [at |-> "removed", dir |-> del[h].dir] \in DelRec
    BY DEF DelRec, DelStages, PartTypeOK
  <2> QED
    BY <1>4, <2>1, NoDelType DEF RemovalEnds, PartTypeOK
<1>5. CASE DeleteRow(h)
  BY <1>5, NoDelType DEF DeleteRow, PartTypeOK
<1>6. CASE DeleteEnds(h)
  BY <1>2, <1>6, NoDelType DEF DeleteEnds, DelStages, PartTypeOK
<1> QED
  BY <1>1, <1>3, <1>4, <1>5, <1>6

\* At the start.
LEMMA InitPart ==
  ASSUME Init
  PROVE  /\ PartTypeOK
         /\ \A r \in Run : At(r) = "idle"
         /\ \A h \in Handler : del[h].at = "idle"
<1>1. rows \in [Sub -> [st : {"unborn", "here", "gone"}, name : Name]]
  BY DEF Init
<1>2. run \in [Run -> RunRec] /\ del \in [Handler -> DelRec]
  BY NoRunType, NoDelType DEF Init
<1>3. /\ status \in [Sub -> {"none", "running", "success", "failed"}]
      /\ dir \in [Dir -> DirStates]
  BY DEF Init, DirStates
<1> QED
  BY <1>1, <1>2, <1>3, NoRunType, NoDelType DEF Init, PartTypeOK, At

\* Every step keeps these types.
LEMMA NextPart ==
  ASSUME PartTypeOK, [Next]_vars
  PROVE  PartTypeOK'
<1>1. ASSUME NEW r \in Run, NEW s \in Sub, Begin(r, s) PROVE PartTypeOK'
  BY <1>1, BeginType DEF Begin, rowVars, PartTypeOK
<1>2. ASSUME NEW r \in Run, MarkRunning(r) PROVE PartTypeOK'
  BY <1>2, MarkType, SetStatusType DEF MarkRunning, rowVars, PartTypeOK
<1>3. ASSUME NEW r \in Run, MarkFails(r) PROVE PartTypeOK'
  BY <1>3, EndsType DEF MarkFails, Over, rowVars, PartTypeOK
<1>4. ASSUME NEW r \in Run, CancelRun(r) PROVE PartTypeOK'
  BY <1>4, EndsType, SetStatusType DEF CancelRun, Over, rowVars, PartTypeOK
<1>5. ASSUME NEW r \in Run, GitStep(r) PROVE PartTypeOK'
  <2>1. dir' \in [Dir -> DirStates]
    BY <1>5, GitSteps DEF DirBecomes, PartTypeOK
  <2> QED
    BY <1>5, <2>1, GitSteps DEF Advances, PartTypeOK
<1>6. ASSUME NEW r \in Run, SyncStep(r) PROVE PartTypeOK'
  <2>1. run[r].outcome \in {"success", "failed"}
    BY DEF PartTypeOK, RunRec
  <2> QED
    BY <1>6, <2>1, SyncSteps, SetStatusType DEF RunStep, Advances, Over, PartTypeOK
<1>7. ASSUME NEW s \in Sub, NEW n \in Name, Create(s, n) \/ Rename(s, n) PROVE PartTypeOK'
  BY <1>7, SetRowType DEF Create, Rename, PartTypeOK
<1>8. ASSUME NEW h \in Handler, \E s \in Sub : DeleteGet(h, s) PROVE PartTypeOK'
  BY <1>8, DelType DEF DeleteGet, PartTypeOK
<1>9. ASSUME NEW h \in Handler, DeleteDir(h) \/ RemovalEnds(h) PROVE PartTypeOK'
  <2>1. dir' \in [Dir -> DirStates] /\ UNCHANGED rows
    BY <1>9 DEF DeleteDir, RemovalEnds, PartTypeOK, DirStates
  <2> QED
    BY <1>9, <2>1, DelType DEF PartTypeOK
<1>15. ASSUME NEW h \in Handler, Removes(h) PROVE PartTypeOK'
  <2>1. dir' \in [Dir -> DirStates]
    BY <1>15 DEF Removes, PartTypeOK, DirStates
  <2> QED
    BY <1>15, <2>1 DEF Removes, PartTypeOK
<1>10. ASSUME NEW h \in Handler, DeleteRow(h) PROVE PartTypeOK'
  <2>1. rows' \in [Sub -> [st : {"unborn", "here", "gone"}, name : Name]]
    BY <1>10 DEF DeleteRow, SetRow, PartTypeOK
  <2> QED
    BY <1>10, <2>1, DelType DEF DeleteRow, PartTypeOK
<1>11. ASSUME NEW h \in Handler, DeleteEnds(h) PROVE PartTypeOK'
  BY <1>11, DelType DEF DeleteEnds, PartTypeOK
<1>12. ASSUME UserDeletesTasks PROVE PartTypeOK'
  BY <1>12 DEF UserDeletesTasks, rowVars, PartTypeOK
<1>13. ASSUME Crash PROVE PartTypeOK'
  BY <1>13, NoRunType, NoDelType DEF Crash, PartTypeOK
<1>14. ASSUME UNCHANGED vars PROVE PartTypeOK'
  BY <1>14 DEF vars, rowVars, PartTypeOK
<1> QED
  BY <1>1, <1>2, <1>3, <1>4, <1>5, <1>6, <1>7, <1>8, <1>9, <1>10, <1>11, <1>12, <1>13, <1>14,
     <1>15
  DEF Next

-----------------------------------------------------------------------------
(* What runs and deletes are about.                                          *)

\* What runs and deletes work on has been a row; one that has not has no status.
BornInv ==
  /\ \A r \in Run : At(r) # "idle" => run[r].dir \in Dir /\ rows[SubOf(r)].st # "unborn"
  /\ \A h \in Handler : del[h].at # "idle" => del[h].dir \in Dir /\ rows[del[h].dir[1]].st # "unborn"
  /\ \A s \in Sub : rows[s].st = "unborn" => status[s] = "none"

\* Steps that write no row: what they begin works on a row that is there.
LEMMA BornKept ==
  ASSUME BornInv, UNCHANGED rows,
         \A r \in Run : At(r)' # "idle" =>
           \/ At(r) # "idle" /\ run'[r].dir = run[r].dir
           \/ run'[r].dir \in Dir /\ Exists(run'[r].dir[1]),
         \A h \in Handler : del'[h].at # "idle" =>
           \/ del[h].at # "idle" /\ del'[h].dir = del[h].dir
           \/ del'[h].dir \in Dir /\ Exists(del'[h].dir[1]),
         \A s \in Sub : status'[s] # status[s] => Exists(s)
  PROVE  BornInv'
<1>1. \A r \in Run : At(r)' # "idle" => run'[r].dir \in Dir /\ rows'[SubOf(r)'].st # "unborn"
  BY DEF BornInv, Exists, SubOf
<1>2. \A h \in Handler : del'[h].at # "idle" => del'[h].dir \in Dir /\ rows'[del'[h].dir[1]].st # "unborn"
  BY DEF BornInv, Exists
<1>3. \A s \in Sub : rows'[s].st = "unborn" => status'[s] = "none"
  BY DEF BornInv, Exists
<1> QED
  BY <1>1, <1>2, <1>3 DEF BornInv

\* Steps that write a row.
LEMMA BornWrite ==
  ASSUME BornInv, NEW s \in Sub, rows'[s].st # "unborn", \A u \in Sub \ {s} : rows'[u] = rows[u],
         UNCHANGED <<run, status>>,
         \A h \in Handler : del'[h].at # "idle" => del'[h] = del[h]
  PROVE  BornInv'
<1>1. \A u \in Sub : rows[u].st # "unborn" => rows'[u].st # "unborn"
  OBVIOUS
<1>2. \A d \in Dir : d[1] \in Sub
  BY DEF Dir
<1> QED
  BY <1>1, <1>2 DEF BornInv, At, SubOf

\* No step breaks it.
LEMMA NextBorn ==
  ASSUME PartTypeOK, BornInv, [Next]_vars
  PROVE  BornInv'
<1>1. ASSUME NEW r \in Run, NEW s \in Sub, Begin(r, s) PROVE BornInv'
  <2>1. UNCHANGED <<rows, del, status>> /\ Exists(s)
    BY <1>1 DEF Begin, rowVars
  <2> QED
    <3>1. \A q \in Run \ {r} : run'[q] = run[q]
      BY <1>1, BeginType
    <3>2. run'[r].dir = <<s, rows[s].name>> /\ <<s, rows[s].name>> \in Dir
      BY <1>1, BeginType
    <3>3. run'[r].dir \in Dir /\ run'[r].dir[1] = s
      BY <3>2
    <3> QED
      BY <2>1, <3>1, <3>3, BornKept DEF At
<1>2. ASSUME NEW r \in Run, MarkRunning(r) PROVE BornInv'
  <2>1. UNCHANGED <<rows, del>> /\ At(r) = "got"
    <3>1. UNCHANGED rowVars /\ At(r) = "got"
      BY <1>2 DEF MarkRunning
    <3> QED
      BY <3>1 DEF rowVars
  <2>2. \A s \in Sub : status'[s] # status[s] => Exists(s)
    BY <1>2, SetStatusType DEF MarkRunning
  <2> QED
    <3>1. /\ \A q \in Run \ {r} : run'[q] = run[q]
          /\ run'[r].dir = run[r].dir /\ run[r].at # "idle"
      BY <1>2, <2>1, MarkType DEF At, MarkRunning
    <3> QED
      BY <2>1, <2>2, <3>1, BornKept DEF At
<1>3. ASSUME NEW r \in Run, MarkFails(r) \/ CancelRun(r) PROVE BornInv'
  <2>1. UNCHANGED <<rows, del>> /\ Ends(r)
    BY <1>3 DEF MarkFails, CancelRun, rowVars
  <2>2. \A s \in Sub : status'[s] # status[s] => Exists(s)
    BY <1>3, SetStatusType DEF MarkFails, CancelRun
  <2> QED
    BY <2>1, <2>2, EndsType, NoRunType, BornKept DEF At, Over
<1>4. ASSUME NEW r \in Run, GitStep(r) PROVE BornInv'
  BY <1>4, GitSteps, BornKept DEF At, Advances
<1>5. ASSUME NEW r \in Run, SyncStep(r) PROVE BornInv'
  <2>1. UNCHANGED <<rows, del>> /\ RunStep(r)
    BY <1>5, SyncSteps
  <2>2. run[r].outcome \in {"success", "failed"}
    BY DEF PartTypeOK, RunRec
  <2>3. \A s \in Sub : status'[s] # status[s] => Exists(s)
    BY <2>1, <2>2, SetStatusType DEF RunStep
  <2>4. Advances(r) \/ Over(r)
    BY <2>1 DEF RunStep
  <2> QED
    BY <2>1, <2>3, <2>4, NoRunType, BornKept DEF At, Over, Advances
<1>6. ASSUME NEW s \in Sub, NEW n \in Name, Create(s, n) \/ Rename(s, n) PROVE BornInv'
  BY <1>6, SetRowType, BornWrite DEF Create, Rename
<1>7. ASSUME NEW h \in Handler, NEW s \in Sub, DeleteGet(h, s) PROVE BornInv'
  <2>1. del' = [del EXCEPT ![h] = [at |-> "found", dir |-> <<s, rows[s].name>>]]
        /\ Exists(s) /\ UNCHANGED <<rows, run, status>> /\ <<s, rows[s].name>> \in Dir
    BY <1>7 DEF DeleteGet, PartTypeOK, Dir
  <2>2. del'[h].dir = <<s, rows[s].name>> /\ \A g \in Handler \ {h} : del'[g] = del[g]
    BY <2>1 DEF PartTypeOK
  <2> QED
    BY <2>1, <2>2, BornKept DEF At
<1>8. ASSUME NEW h \in Handler, DeleteDir(h) \/ RemovalEnds(h) \/ DeleteEnds(h) PROVE BornInv'
  <2>1. UNCHANGED <<rows, run, status>> /\ \A g \in Handler \ {h} : del'[g] = del[g]
    BY <1>8, DelType DEF DeleteDir, RemovalEnds, DeleteEnds
  <2>2. del'[h].at # "idle" => del[h].at # "idle" /\ del'[h].dir = del[h].dir
    <3>1. del[h] \in DelRec /\ del \in [Handler -> DelRec]
      BY DEF PartTypeOK
    <3>2. CASE DeleteDir(h)
      BY <3>1, <3>2 DEF DeleteDir, DelRec
    <3>3. CASE RemovalEnds(h)
      BY <3>1, <3>3, NoDelType DEF RemovalEnds
    <3>4. CASE DeleteEnds(h)
      BY <3>1, <3>4, NoDelType DEF DeleteEnds, DelRec
    <3> QED
      BY <1>8, <3>2, <3>3, <3>4
  <2> QED
    BY <2>1, <2>2, BornKept DEF At
<1>12. ASSUME NEW h \in Handler, Removes(h) PROVE BornInv'
  <2>1. UNCHANGED <<rows, del, run, status>>
    BY <1>12 DEF Removes
  <2> QED
    BY <2>1, BornKept DEF At
<1>9. ASSUME NEW h \in Handler, DeleteRow(h) PROVE BornInv'
  <2>1. /\ UNCHANGED <<run, status>> /\ \A g \in Handler \ {h} : del'[g] = del[g]
        /\ del'[h] = NoDel /\ del[h].at = "removed"
    BY <1>9, DelType DEF DeleteRow, PartTypeOK
  <2>2. del[h].dir[1] \in Sub
    BY <2>1 DEF BornInv, Dir
  <2>3. CASE SetRow(del[h].dir[1], "gone", rows[del[h].dir[1]].name)
    <3>1. rows[del[h].dir[1]].name \in Name
      BY <2>2 DEF PartTypeOK
    <3> QED
      BY <2>1, <2>2, <2>3, <3>1, SetRowType, NoDelType, BornWrite
  <2>4. CASE UNCHANGED rows
    BY <2>1, <2>4, NoDelType, BornKept DEF At
  <2> QED
    BY <1>9, <2>3, <2>4 DEF DeleteRow
<1>10. ASSUME UserDeletesTasks \/ UNCHANGED vars PROVE BornInv'
  <2>1. UNCHANGED <<rows, del, run, status>>
    BY <1>10 DEF UserDeletesTasks, vars, rowVars
  <2> QED
    BY <2>1, BornKept DEF At
<1>11. ASSUME Crash PROVE BornInv'
  <2>1. /\ UNCHANGED <<rows, status>>
        /\ \A r \in Run : run'[r] = NoRun
        /\ \A h \in Handler : del'[h] = NoDel
    BY <1>11 DEF Crash
  <2> QED
    BY <2>1, NoRunType, NoDelType, BornKept DEF At
<1> QED
  BY <1>1, <1>2, <1>3, <1>4, <1>5, <1>6, <1>7, <1>8, <1>9, <1>10, <1>11, <1>12
  DEF Next

-----------------------------------------------------------------------------
(* Types of the rest.                                                        *)

\* Counters, groups, tasks and histories.
RestTypeOK ==
  /\ edits \in 0..MaxEdits /\ crashes \in 0..MaxCrashes
  /\ group \in BOOLEAN
  /\ tasks \in [Task -> Dir \cup {NoDir}]
  /\ stuck \subseteq Sub /\ messy \subseteq Sub /\ alone \subseteq Run

\* A run that is in progress, and a delete, are about a subscription.
LEMMA OfSub ==
  ASSUME BornInv
  PROVE  /\ \A r \in Run : At(r) # "idle" => run[r].dir \in Dir /\ SubOf(r) \in Sub
         /\ \A h \in Handler : del[h].at # "idle" => del[h].dir[1] \in Sub
BY DEF BornInv, Dir, SubOf

\* Steps of a run, but for what they write of the import: its group and its tasks.
LEMMA RestOfRun ==
  ASSUME RestTypeOK, BornInv, NEW r \in Run, At(r) # "idle",
         UNCHANGED <<edits, crashes, messy>>,
         stuck' \in {stuck, stuck \cup {SubOf(r)}, stuck \ {SubOf(r)}},
         alone' \in {alone, alone \ {r}},
         group' \in {group, TRUE}, tasks' \in [Task -> Dir \cup {NoDir}]
  PROVE  RestTypeOK'
<1>1. SubOf(r) \in Sub
  BY OfSub
<1>2. stuck' \subseteq Sub /\ alone' \subseteq Run
  BY <1>1 DEF RestTypeOK
<1>3. group' \in BOOLEAN
  BY DEF RestTypeOK
<1> QED
  BY <1>2, <1>3 DEF RestTypeOK

\* Every step keeps these types too.
LEMMA NextRest ==
  ASSUME PartTypeOK, BornInv, RestTypeOK, [Next]_vars
  PROVE  RestTypeOK'
<1>0. tasks \in [Task -> Dir \cup {NoDir}]
  BY DEF RestTypeOK
<1>1. ASSUME NEW r \in Run, NEW s \in Sub, Begin(r, s) PROVE RestTypeOK'
  <2>1. alone' \subseteq Run /\ messy' \subseteq Sub
    BY <1>1 DEF Begin, RestTypeOK
  <2> QED
    BY <1>1, <2>1 DEF Begin, RestTypeOK, rowVars
<1>2. ASSUME NEW r \in Run, MarkRunning(r) \/ MarkFails(r) PROVE RestTypeOK'
  <2>1. UNCHANGED <<edits, crashes, messy, stuck, group, tasks>> /\ alone' \subseteq alone
    BY <1>2 DEF MarkRunning, MarkFails, Ends, rowVars
  <2> QED
    BY <2>1 DEF RestTypeOK
<1>3. ASSUME NEW r \in Run, CancelRun(r) PROVE RestTypeOK'
  <2>1. /\ At(r) # "idle" /\ UNCHANGED <<edits, crashes, messy, group, tasks>>
        /\ stuck' \in {stuck, stuck \cup {SubOf(r)}} /\ alone' = alone \ {r}
    BY <1>3 DEF CancelRun, Ends, rowVars
  <2> QED
    BY <1>0, <2>1, RestOfRun
<1>4. ASSUME NEW r \in Run, GitStep(r) PROVE RestTypeOK'
  <2>1. UNCHANGED <<edits, crashes, messy, stuck, group, tasks, alone>>
    BY <1>4 DEF GitStep, EnsureDir, Pull, ResetAndPull, RemoveDir, Clone, CloneEnds, rest, rowVars
  <2> QED
    BY <2>1 DEF RestTypeOK
<1>5. ASSUME NEW r \in Run, ReadDir(r) \/ FindGroup(r) \/ InsertGroup(r) \/ CountTasks(r) \/ Conclude(r)
      PROVE  RestTypeOK'
  <2>1. At(r) # "idle" /\ UNCHANGED <<edits, crashes, messy, tasks>>
    BY <1>5 DEF ReadDir, FindGroup, InsertGroup, CountTasks, Conclude, SyncFails, rest, rowVars
  <2>2. group' \in {group, TRUE}
    BY <1>5 DEF ReadDir, FindGroup, InsertGroup, CountTasks, Conclude, SyncFails, rest
  <2>3. alone' \in {alone, alone \ {r}}
    BY <1>5 DEF ReadDir, FindGroup, InsertGroup, CountTasks, Conclude, SyncFails, Ends, rest
  <2>4. stuck' \in {stuck, stuck \cup {SubOf(r)}, stuck \ {SubOf(r)}}
    BY <1>5 DEF ReadDir, FindGroup, InsertGroup, CountTasks, Conclude, SyncFails, rest
  <2> QED
    BY <1>0, <2>1, <2>2, <2>3, <2>4, RestOfRun
<1>6. ASSUME NEW r \in Run, UpdateTasks(r) \/ CreateTask(r) PROVE RestTypeOK'
  <2>1. /\ At(r) # "idle" /\ UNCHANGED <<edits, crashes, messy, group>>
        /\ alone' \in {alone, alone \ {r}}
        /\ stuck' \in {stuck, stuck \cup {SubOf(r)}}
    BY <1>6 DEF UpdateTasks, CreateTask, SyncFails, Ends, rowVars
  <2>2. run[r].dir \in Dir
    BY <2>1, OfSub
  <2>3. tasks' \in [Task -> Dir \cup {NoDir}]
    BY <1>0, <1>6, <2>2 DEF UpdateTasks, CreateTask, SyncFails
  <2> QED
    BY <2>1, <2>3, RestOfRun
<1>7. ASSUME NEW s \in Sub, NEW st, NEW n, SetRow(s, st, n), messy' \subseteq messy \cup {s},
             UNCHANGED <<group, tasks, stuck, alone>>
      PROVE  RestTypeOK'
  <2>1. edits' \in 0..MaxEdits
    BY <1>7, RunAssumption DEF SetRow, RestTypeOK
  <2> QED
    BY <1>7, <2>1 DEF SetRow, RestTypeOK
<1>8. ASSUME NEW s \in Sub, NEW n \in Name, Create(s, n) \/ Rename(s, n) PROVE RestTypeOK'
  BY <1>7, <1>8 DEF Create, Rename
<1>9. ASSUME NEW h \in Handler, (\E s \in Sub : DeleteGet(h, s)) \/ DeleteEnds(h) PROVE RestTypeOK'
  <2>1. UNCHANGED <<edits, crashes, group, tasks, stuck, messy, alone>>
    BY <1>9 DEF DeleteGet, DeleteEnds
  <2> QED
    BY <2>1 DEF RestTypeOK
<1>10. ASSUME NEW h \in Handler, DeleteDir(h) \/ Removes(h) \/ RemovalEnds(h) PROVE RestTypeOK'
  <2>1. /\ UNCHANGED <<edits, crashes, group, tasks, stuck>>
        /\ alone' \subseteq alone /\ messy' \subseteq messy \cup {del[h].dir[1]}
    BY <1>10 DEF DeleteDir, Removes, RemovalEnds
  <2>2. del[h].dir[1] \in Sub
    BY <1>10, OfSub DEF DeleteDir, Removes, RemovalEnds
  <2> QED
    BY <2>1, <2>2 DEF RestTypeOK
<1>11. ASSUME NEW h \in Handler, DeleteRow(h) PROVE RestTypeOK'
  <2>1. del[h].dir[1] \in Sub
    BY <1>11, OfSub DEF DeleteRow
  <2>2. UNCHANGED <<group, tasks, stuck, messy, alone>>
    BY <1>11 DEF DeleteRow
  <2>3. CASE UNCHANGED <<edits, crashes>>
    BY <2>2, <2>3 DEF RestTypeOK
  <2>4. CASE SetRow(del[h].dir[1], "gone", rows[del[h].dir[1]].name)
    BY <1>7, <2>1, <2>2, <2>4
  <2> QED
    BY <1>11, <2>3, <2>4 DEF DeleteRow
<1>12. ASSUME UserDeletesTasks PROVE RestTypeOK'
  BY <1>12 DEF UserDeletesTasks, rowVars, RestTypeOK
<1>13. ASSUME Crash PROVE RestTypeOK'
  <2>1. crashes' \in 0..MaxCrashes
    BY <1>13, RunAssumption DEF Crash, RestTypeOK
  <2> QED
    BY <1>13, <2>1 DEF Crash, RestTypeOK
<1>14. ASSUME UNCHANGED vars PROVE RestTypeOK'
  BY <1>14 DEF vars, rowVars, RestTypeOK
<1> QED
  BY <1>1, <1>2, <1>3, <1>4, <1>5, <1>6, <1>8, <1>9, <1>10, <1>11, <1>12, <1>13, <1>14
  DEF Next, SyncStep

\* At the start.
LEMMA InitTypes ==
  ASSUME Init
  PROVE  PartTypeOK /\ BornInv /\ RestTypeOK
<1>1. \A s \in Sub : status[s] = "none"
  BY DEF Init
<1>2. edits \in 0..MaxEdits /\ crashes \in 0..MaxCrashes
  BY RunAssumption DEF Init
<1>3. group = FALSE /\ tasks \in [Task -> Dir \cup {NoDir}] /\ stuck = {} /\ messy = {} /\ alone = {}
  BY DEF Init
<1>4. group \in BOOLEAN
  BY <1>3
<1>5. RestTypeOK
  BY <1>2, <1>3, <1>4 DEF RestTypeOK
<1> QED
  BY <1>1, <1>5, InitPart DEF BornInv

\* Every variable keeps its type: what runs and deletes work on is of a subscription that
\* was once there, and what they write is of its directories and tasks.
THEOREM TypeCorrect == Spec => []TypeOK
<1>1. Init => PartTypeOK /\ BornInv /\ RestTypeOK
  BY InitTypes
<1>2. PartTypeOK /\ BornInv /\ RestTypeOK /\ [Next]_vars => PartTypeOK' /\ BornInv' /\ RestTypeOK'
  BY NextPart, NextBorn, NextRest
<1>3. PartTypeOK /\ RestTypeOK => TypeOK
  BY DEF PartTypeOK, RestTypeOK, TypeOK, RunRec, DelRec, DirStates
<1> QED
  BY <1>1, <1>2, <1>3, PTL DEF Spec

-----------------------------------------------------------------------------
(* Running means run.                                                        *)

\* A run that has been marked is in progress.
Marked(r) == At(r) \notin {"idle", "got"}

\* Steps that leave the rows alone, and for every status a run that may write it.
LEMMA RunningKept ==
  ASSUME RunningMeansRun, UNCHANGED rows,
         \A s \in Sub : status'[s] = "running" =>
           \/ s \in stuck' \/ \E r \in Run : Marked(r)' /\ SubOf(r)' = s
           \/ /\ status[s] = "running" /\ (s \in stuck => s \in stuck')
              /\ \A r \in Run : Marked(r) /\ SubOf(r) = s => Marked(r)' /\ SubOf(r)' = s
           \/ ~Exists(s)
  PROVE  RunningMeansRun'
BY DEF RunningMeansRun, Exists, Marked, At

\* No step breaks it.
LEMMA NextRunning ==
  ASSUME PartTypeOK, BornInv, RunningMeansRun, [Next]_vars
  PROVE  RunningMeansRun'
<1>1. ASSUME NEW r \in Run, NEW s \in Sub, Begin(r, s) PROVE RunningMeansRun'
  <2>1. UNCHANGED <<rows, status, stuck>> /\ ~Marked(r)
    BY <1>1 DEF Begin, rowVars, Marked
  <2>2. \A q \in Run \ {r} : run'[q] = run[q]
    BY <1>1, BeginType
  <2> QED
    BY <2>1, <2>2, RunningKept DEF Marked, At, SubOf
<1>2. ASSUME NEW r \in Run, MarkRunning(r) PROVE RunningMeansRun'
  <2>1. UNCHANGED <<rows, stuck>> /\ ~Marked(r) /\ At(r) = "got" /\ SetStatus(SubOf(r), "running")
    BY <1>2 DEF MarkRunning, rowVars, Marked
  <2>2. \A q \in Run \ {r} : run'[q] = run[q]
    BY <1>2, <2>1, MarkType DEF MarkRunning
  <2>3. Marked(r)' /\ SubOf(r)' = SubOf(r)
    BY <1>2, <2>1, MarkType DEF MarkRunning, Marked, At, SubOf
  <2>4. \A s \in Sub : status'[s] = status[s] \/ s = SubOf(r)
    BY <2>1, SetStatusType
  <2> QED
    BY <2>1, <2>2, <2>3, <2>4, RunningKept DEF Marked, At, SubOf
<1>3. ASSUME NEW r \in Run, MarkFails(r) \/ CancelRun(r) PROVE RunningMeansRun'
  <2>1. UNCHANGED rows /\ Ends(r) /\ ~Marked(r)
    BY <1>3 DEF MarkFails, CancelRun, rowVars, Marked
  <2>2. \A q \in Run \ {r} : run'[q] = run[q]
    BY <2>1, EndsType DEF Over
  <2>3. \A s \in Sub : (s \in stuck => s \in stuck') /\ (status'[s] = status[s] \/ s \in stuck')
    BY <1>3, SetStatusType DEF MarkFails, CancelRun
  <2> QED
    BY <2>1, <2>2, <2>3, RunningKept DEF Marked, At, SubOf
<1>4. ASSUME NEW r \in Run, GitStep(r) PROVE RunningMeansRun'
  <2>1. UNCHANGED <<rows, status, stuck>> /\ Advances(r)
    BY <1>4, GitSteps
  <2> QED
    BY <2>1, RunningKept DEF Advances, Marked, At, SubOf
<1>5. ASSUME NEW r \in Run, SyncStep(r) PROVE RunningMeansRun'
  <2>1. UNCHANGED rows /\ RunStep(r)
    BY <1>5, SyncSteps
  <2>2. CASE Advances(r) /\ UNCHANGED <<status, stuck>>
    BY <2>1, <2>2, RunningKept DEF Advances, Marked, At, SubOf
  <2>3. CASE Over(r) /\ UNCHANGED status /\ stuck' = stuck \cup {SubOf(r)}
    BY <2>1, <2>3, RunningKept DEF Over, Marked, At, SubOf
  <2>4. CASE Over(r) /\ SetStatus(SubOf(r), run[r].outcome) /\ stuck' = stuck \ {SubOf(r)}
    <3>1. run[r].outcome \in {"success", "failed"}
      BY DEF PartTypeOK, RunRec
    <3>2. \A s \in Sub : status'[s] = IF s = SubOf(r) /\ Exists(s) THEN run[r].outcome ELSE status[s]
      BY <2>4, <3>1, SetStatusType
    <3>3. \A s \in Sub : s = SubOf(r) /\ status'[s] = "running" => ~Exists(s)
      BY <3>1, <3>2
    <3>4. \A q \in Run \ {r} : run'[q] = run[q]
      BY <2>4 DEF Over
    <3>5. \A s \in Sub \ {SubOf(r)} : status'[s] = status[s] /\ (s \in stuck => s \in stuck')
      BY <2>4, <3>2
    <3> QED
      BY <2>1, <3>3, <3>4, <3>5, RunningKept DEF Marked, At, SubOf
  <2> QED
    BY <2>1, <2>2, <2>3, <2>4 DEF RunStep
<1>6. ASSUME NEW s \in Sub, NEW n \in Name, Create(s, n) \/ Rename(s, n) PROVE RunningMeansRun'
  <2>1. /\ UNCHANGED <<run, status, stuck>>
        /\ \A u \in Sub \ {s} : rows'[u] = rows[u]
        /\ rows[s].st = "unborn" \/ Exists(s)
    BY <1>6, SetRowType DEF Create, Rename
  <2> QED
    BY <2>1 DEF RunningMeansRun, BornInv, Exists, At, SubOf
<1>7. ASSUME NEW h \in Handler, (\E s \in Sub : DeleteGet(h, s)) \/ DeleteDir(h) \/ Removes(h)
                                   \/ RemovalEnds(h) \/ DeleteEnds(h)
      PROVE  RunningMeansRun'
  <2>1. UNCHANGED <<rows, run, status, stuck>>
    BY <1>7 DEF DeleteGet, DeleteDir, Removes, RemovalEnds, DeleteEnds
  <2> QED
    BY <2>1, RunningKept DEF Marked, At, SubOf
<1>8. ASSUME NEW h \in Handler, DeleteRow(h) PROVE RunningMeansRun'
  <2>1. /\ UNCHANGED <<run, status, stuck>>
        /\ \A u \in Sub : Exists(u)' => rows'[u] = rows[u]
    BY <1>8 DEF DeleteRow, SetRow, PartTypeOK, Exists
  <2> QED
    BY <2>1 DEF RunningMeansRun, Exists, At, SubOf
<1>9. ASSUME UserDeletesTasks \/ UNCHANGED vars PROVE RunningMeansRun'
  <2>1. UNCHANGED <<rows, run, status, stuck>>
    BY <1>9 DEF UserDeletesTasks, vars, rowVars
  <2> QED
    BY <2>1, RunningKept DEF Marked, At, SubOf
<1>10. ASSUME Crash PROVE RunningMeansRun'
  BY <1>10, RunningKept DEF Crash
<1> QED
  BY <1>1, <1>2, <1>3, <1>4, <1>5, <1>6, <1>7, <1>8, <1>9, <1>10 DEF Next

\* A subscription shown as running is being run, or its run is known to have ended
\* without a status, for any number of runs that overlap.
THEOREM RunningMeansRunHolds == Spec => []RunningMeansRun
<1>1. Init => PartTypeOK /\ BornInv /\ RunningMeansRun
  <2> SUFFICES ASSUME Init PROVE PartTypeOK /\ BornInv /\ RunningMeansRun
    OBVIOUS
  <2>1. \A s \in Sub : status[s] = "none"
    BY DEF Init
  <2> QED
    BY <2>1, InitPart DEF BornInv, RunningMeansRun
<1>2. PartTypeOK /\ BornInv /\ RunningMeansRun /\ [Next]_vars
        => PartTypeOK' /\ BornInv' /\ RunningMeansRun'
  BY NextPart, NextBorn, NextRunning
<1> QED
  BY <1>1, <1>2, PTL DEF Spec

-----------------------------------------------------------------------------
(* A run that nothing disturbs imports what it reports.                      *)

\* No other run is in progress.
Sole(r) == \A q \in Run \ {r} : At(q) = "idle"

Importing == {"sync", "group", "insert", "count", "update", "create"}

\* From the pull or the clone on it has a repository.
HasRepo(r) ==
  At(r) \in Importing \/ (At(r) = "write" /\ run[r].outcome = "success") => MyDir(r) = "repo"

\* It creates a task if there is none and updates what there is; in the end all are its own.
HasTasks(r) ==
  /\ At(r) = "update" => Imported # {}
  /\ At(r) = "create" => Imported = {}
  /\ At(r) \notin {"update", "create", "write"} => ~run[r].loader
  /\ At(r) = "write" /\ run[r].loader => Imported # {} /\ \A t \in Imported : tasks[t] = run[r].dir

AloneInv == \A r \in alone : r \in Run /\ At(r) # "idle" /\ Sole(r) /\ HasRepo(r) /\ HasTasks(r)

\* A step of a run: only the run itself can be the one that nothing disturbs.
LEMMA AloneStep ==
  ASSUME AloneInv, NEW r \in Run, At(r) # "idle", alone' \subseteq alone,
         \A q \in Run \ {r} : run'[q] = run[q],
         r \in alone /\ r \in alone' => run'[r].at # "idle" /\ HasRepo(r)' /\ HasTasks(r)'
  PROVE  AloneInv'
<1> SUFFICES ASSUME NEW a \in alone'
             PROVE  a \in Run /\ At(a)' # "idle" /\ Sole(a)' /\ HasRepo(a)' /\ HasTasks(a)'
  BY DEF AloneInv
<1>1. a \in alone /\ a \in Run /\ Sole(a)
  BY DEF AloneInv
<1>2. a = r
  BY <1>1 DEF Sole
<1>3. Sole(r)'
  BY <1>1, <1>2 DEF Sole, At
<1> QED
  BY <1>1, <1>2, <1>3 DEF At

\* A step of somebody else, which spares the directory and the tasks.
LEMMA AloneSpared ==
  ASSUME AloneInv, UNCHANGED <<run, tasks>>, alone' \subseteq alone,
         \A r \in alone' : dir'[run[r].dir] = dir[run[r].dir]
  PROVE  AloneInv'
<1> SUFFICES ASSUME NEW a \in alone'
             PROVE  a \in Run /\ At(a)' # "idle" /\ Sole(a)' /\ HasRepo(a)' /\ HasTasks(a)'
  BY DEF AloneInv
<1>1. a \in Run /\ At(a) # "idle" /\ Sole(a) /\ HasRepo(a) /\ HasTasks(a)
  BY DEF AloneInv
<1>2. At(a)' = At(a) /\ MyDir(a)' = MyDir(a) /\ Imported' = Imported
  BY DEF At, MyDir, Imported
<1>3. Sole(a)'
  BY <1>1 DEF Sole, At
<1> QED
  BY <1>1, <1>2, <1>3 DEF HasRepo, HasTasks

\* What the steps write of a run.
LEMMA RunBecomes ==
  ASSUME PartTypeOK, NEW r \in Run, NEW s
  PROVE  /\ Moves(r, s) => /\ run'[r] = [run[r] EXCEPT !.at = s]
                           /\ run'[r].at = s /\ run'[r].dir = run[r].dir
                           /\ run'[r].loader = run[r].loader
         /\ run' = [run EXCEPT ![r].at = s, ![r].outcome = "success"] =>
              run'[r].at = s /\ run'[r].dir = run[r].dir /\ run'[r].loader = run[r].loader
         /\ run' = [run EXCEPT ![r].at = s, ![r].loader = TRUE] =>
              run'[r].at = s /\ run'[r].dir = run[r].dir /\ run'[r].loader = TRUE
<1>1. run \in [Run -> RunRec] /\ run[r] \in RunRec
  BY DEF PartTypeOK
<1> QED
  BY <1>1 DEF Moves, RunRec

\* git leads to the import only with a repository.
LEMMA AloneGit ==
  ASSUME PartTypeOK, BornInv, AloneInv, NEW r \in Run, GitStep(r)
  PROVE  AloneInv'
<1>1. /\ At(r) # "idle" /\ UNCHANGED <<alone, tasks>>
      /\ \A q \in Run \ {r} : run'[q] = run[q]
      /\ run'[r].at \notin {"idle", "got"}
  BY GitSteps DEF GitStep, EnsureDir, Pull, ResetAndPull, RemoveDir, Clone, CloneEnds, rest, Advances
<1> SUFFICES ASSUME r \in alone PROVE HasRepo(r)' /\ HasTasks(r)'
  BY <1>1, AloneStep
<1>2. At(r) \in {"ensured", "pull", "reset", "remove", "clone", "cloning"}
  BY DEF GitStep, EnsureDir, Pull, ResetAndPull, RemoveDir, Clone, CloneEnds
<1>3. ~run[r].loader
  BY <1>2 DEF AloneInv, HasTasks
<1>4. \/ Fails(r)
      \/ UNCHANGED run /\ At(r) = "remove"
      \/ \E s \in {"pull", "reset", "remove", "clone", "cloning"} : Moves(r, s)
      \/ Moves(r, "sync") /\ MyDir(r) = "repo" /\ UNCHANGED dir
      \/ Moves(r, "sync") /\ DirBecomes(r, "repo")
  BY DEF GitStep, EnsureDir, Pull, ResetAndPull, RemoveDir, Clone, CloneEnds
<1>5. CASE Fails(r)
  <2>1. run'[r].at = "write" /\ run'[r].outcome = "failed" /\ run'[r].loader = run[r].loader
    <3>1. run \in [Run -> RunRec] /\ run[r] \in RunRec
      BY DEF PartTypeOK
    <3> QED
      BY <1>5, <3>1 DEF Fails, RunRec
  <2> QED
    BY <1>3, <2>1 DEF HasRepo, HasTasks, At, Importing
<1>6. ASSUME NEW s \in {"pull", "reset", "remove", "clone", "cloning"}, Moves(r, s)
      PROVE  HasRepo(r)' /\ HasTasks(r)'
  <2>1. run'[r].at = s /\ ~run'[r].loader
    BY <1>3, <1>6, RunBecomes
  <2> QED
    BY <2>1 DEF HasRepo, HasTasks, At, Importing
<1>7. ASSUME Moves(r, "sync"), (MyDir(r) = "repo" /\ UNCHANGED dir) \/ DirBecomes(r, "repo")
      PROVE  HasRepo(r)' /\ HasTasks(r)'
  <2>1. run'[r].at = "sync" /\ ~run'[r].loader /\ run'[r].dir = run[r].dir
    BY <1>3, <1>7, RunBecomes
  <2>2. run[r].dir \in Dir
    BY <1>1, OfSub
  <2>3. MyDir(r)' = "repo"
    BY <1>7, <2>1, <2>2 DEF MyDir, DirBecomes, PartTypeOK
  <2> QED
    BY <2>1, <2>3 DEF HasRepo, HasTasks, At
<1>8. ASSUME UNCHANGED run, At(r) = "remove" PROVE HasRepo(r)' /\ HasTasks(r)'
  BY <1>3, <1>8 DEF HasRepo, HasTasks, At, Importing
<1> QED
  BY <1>4, <1>5, <1>6, <1>7, <1>8

\* The import leaves the repository alone, and decides by the tasks there are.
LEMMA AloneSync ==
  ASSUME PartTypeOK, RestTypeOK, BornInv, AloneInv, NEW r \in Run, SyncStep(r)
  PROVE  AloneInv'
<1>1. /\ At(r) \in Importing \cup {"write"} /\ UNCHANGED dir
      /\ \A q \in Run \ {r} : run'[q] = run[q]
      /\ Over(r) \/ Advances(r)
  BY SyncSteps DEF SyncStep, ReadDir, FindGroup, InsertGroup, CountTasks, UpdateTasks, CreateTask,
                   Conclude, RunStep, Over, Advances, Importing
<1>2. alone' \in {alone, alone \ {r}}
  BY DEF SyncStep, ReadDir, FindGroup, InsertGroup, CountTasks, UpdateTasks, CreateTask, Conclude,
         SyncFails, Ends, rest
<1> SUFFICES ASSUME r \in alone, r \in alone'
             PROVE  run'[r].at # "idle" /\ HasRepo(r)' /\ HasTasks(r)'
  <2>1. At(r) # "idle"
    BY <1>1 DEF Importing
  <2> QED
    BY <1>1, <1>2, <2>1, AloneStep
<1>3. Advances(r) /\ At(r) # "write"
  <2>1. Advances(r)
    BY <1>1 DEF Over
  <2>2. ~Conclude(r)
    BY DEF Conclude, Ends
  <2> QED
    BY <2>1, <2>2 DEF SyncStep, ReadDir, FindGroup, InsertGroup, CountTasks, UpdateTasks, CreateTask
<1>4. ~SyncFails(r) /\ ~Conclude(r)
  BY DEF SyncFails, Conclude, Ends
<1>5. MyDir(r)' = "repo" /\ run'[r].at # "idle" /\ run'[r].dir = run[r].dir
  BY <1>1, <1>3 DEF AloneInv, HasRepo, MyDir, Advances
<1>6. HasRepo(r)'
  BY <1>5 DEF HasRepo
<1>7. ASSUME NEW s \in {"group", "insert", "count"}, Moves(r, s), At(r) \in {"sync", "group", "insert"}
      PROVE  HasTasks(r)'
  <2>1. run'[r].at = s /\ ~run'[r].loader
    BY <1>7, RunBecomes DEF AloneInv, HasTasks
  <2> QED
    BY <2>1 DEF HasTasks, At
<1>8. CASE ReadDir(r) \/ FindGroup(r) \/ InsertGroup(r)
  BY <1>4, <1>5, <1>6, <1>7, <1>8 DEF ReadDir, FindGroup, InsertGroup
<1>9. CASE CountTasks(r)
  <2>1. Imported' = Imported /\ ~run[r].loader
    BY <1>9 DEF CountTasks, Imported, AloneInv, HasTasks
  <2>2. \/ run' = [run EXCEPT ![r].at = "write", ![r].outcome = "success"]
        \/ run' = [run EXCEPT ![r].at = "update", ![r].loader = TRUE] /\ Imported # {}
        \/ run' = [run EXCEPT ![r].at = "create", ![r].loader = TRUE] /\ Imported = {}
    BY <1>9 DEF CountTasks
  <2>3. CASE run' = [run EXCEPT ![r].at = "write", ![r].outcome = "success"]
    <3>1. run'[r].at = "write" /\ ~run'[r].loader
      BY <2>1, <2>3, RunBecomes
    <3> QED
      BY <1>5, <1>6, <3>1 DEF HasTasks, At
  <2>4. ASSUME NEW s \in {"update", "create"}, run' = [run EXCEPT ![r].at = s, ![r].loader = TRUE],
               s = "update" => Imported # {}, s = "create" => Imported = {}
        PROVE  HasTasks(r)'
    <3>1. run'[r].at = s
      BY <2>4, RunBecomes
    <3> QED
      BY <2>1, <2>4, <3>1 DEF HasTasks, At
  <2> QED
    BY <1>5, <1>6, <2>2, <2>3, <2>4
<1>10. ASSUME Succeeds(r), Imported' # {}, \A t \in Imported' : tasks'[t] = run[r].dir
       PROVE  HasTasks(r)'
  <2>1. run'[r].at = "write" /\ run'[r].dir = run[r].dir
    BY <1>10, RunBecomes DEF Succeeds
  <2> QED
    BY <1>10, <2>1 DEF HasTasks, At
<1>11. run[r].dir # NoDir
  <2>1. run[r].dir \in Dir
    BY <1>3, OfSub DEF Advances
  <2> QED
    BY <2>1, RunAssumption DEF Dir, NoDir
<1>12. CASE UpdateTasks(r)
  <2>1. tasks' = [t \in Task |-> IF t \in Imported THEN run[r].dir ELSE NoDir] /\ Succeeds(r)
    BY <1>12 DEF UpdateTasks
  <2>2. Imported # {}
    BY <1>12 DEF UpdateTasks, AloneInv, HasTasks
  <2>3. Imported' = Imported /\ \A t \in Imported : tasks'[t] = run[r].dir
    BY <1>11, <2>1 DEF Imported
  <2> QED
    BY <1>5, <1>6, <1>10, <2>1, <2>2, <2>3
<1>13. CASE CreateTask(r)
  <2>1. PICK t \in Task : tasks' = [tasks EXCEPT ![t] = run[r].dir]
    BY <1>4, <1>13 DEF CreateTask
  <2>2. Succeeds(r) /\ Imported = {}
    BY <1>4, <1>13 DEF CreateTask, AloneInv, HasTasks
  <2>3. Imported' = {t} /\ tasks'[t] = run[r].dir
    BY <1>11, <2>1, <2>2 DEF Imported, RestTypeOK
  <2> QED
    BY <1>5, <1>6, <1>10, <2>2, <2>3
<1> QED
  BY <1>4, <1>8, <1>9, <1>12, <1>13 DEF SyncStep

\* No step breaks it.
LEMMA NextAlone ==
  ASSUME PartTypeOK, RestTypeOK, BornInv, AloneInv, [Next]_vars
  PROVE  AloneInv'
<1>1. ASSUME NEW r \in Run, NEW s \in Sub, Begin(r, s) PROVE AloneInv'
  <2>1. CASE alone' = {}
    BY <2>1 DEF AloneInv
  <2>2. CASE alone' = {r} /\ \A q \in Run : At(q) = "idle"
    <3>1. run'[r].at = "got" /\ \A q \in Run \ {r} : run'[q] = run[q]
      BY <1>1, BeginType
    <3>2. ~run'[r].loader
      BY <1>1 DEF Begin, NoRun, PartTypeOK
    <3>3. Sole(r)' /\ HasRepo(r)' /\ HasTasks(r)'
      BY <2>2, <3>1, <3>2 DEF Sole, HasRepo, HasTasks, At, Importing
    <3> QED
      BY <2>2, <3>1, <3>3 DEF AloneInv, At
  <2> QED
    BY <1>1, <2>1, <2>2 DEF Begin
<1>2. ASSUME NEW r \in Run, MarkRunning(r) PROVE AloneInv'
  <2>1. At(r) = "got" /\ Moves(r, "ensured") /\ UNCHANGED alone
    BY <1>2 DEF MarkRunning
  <2>2. run'[r].at = "ensured" /\ run'[r].loader = run[r].loader /\ \A q \in Run \ {r} : run'[q] = run[q]
    BY <2>1, MarkType, RunBecomes
  <2>3. r \in alone => HasRepo(r)' /\ HasTasks(r)'
    BY <2>1, <2>2 DEF AloneInv, HasRepo, HasTasks, At, Importing
  <2> QED
    BY <2>1, <2>2, <2>3, AloneStep
<1>3. ASSUME NEW r \in Run, MarkFails(r) \/ CancelRun(r) PROVE AloneInv'
  <2>1. At(r) = "got" /\ Ends(r)
    BY <1>3 DEF MarkFails, CancelRun
  <2>2. alone' = alone \ {r} /\ \A q \in Run \ {r} : run'[q] = run[q]
    BY <2>1, EndsType DEF Ends, Over
  <2> QED
    BY <2>1, <2>2, AloneStep
<1>4. ASSUME NEW r \in Run, GitStep(r) \/ SyncStep(r) PROVE AloneInv'
  BY <1>4, AloneGit, AloneSync
<1>5. ASSUME UNCHANGED <<run, tasks, dir, alone>> PROVE AloneInv'
  BY <1>5, AloneSpared
<1>6. ASSUME NEW s \in Sub, NEW n \in Name, Create(s, n) \/ Rename(s, n) PROVE AloneInv'
  BY <1>5, <1>6 DEF Create, Rename
<1>7. ASSUME NEW h \in Handler,
             \/ \E s \in Sub : DeleteGet(h, s)
             \/ DeleteDir(h) \/ DeleteRow(h) \/ DeleteEnds(h)
      PROVE  AloneInv'
  BY <1>5, <1>7 DEF DeleteGet, DeleteDir, DeleteRow, DeleteEnds
<1>8. ASSUME NEW h \in Handler, Removes(h) \/ RemovalEnds(h) PROVE AloneInv'
  <2>1. UNCHANGED <<run, tasks>> /\ alone' = {r \in alone : run[r].dir # del[h].dir}
    BY <1>8 DEF Removes, RemovalEnds
  <2>2. \A r \in alone' : dir'[run[r].dir] = dir[run[r].dir]
    <3>1. \A r \in alone' : run[r].dir \in Dir
      BY <2>1, OfSub DEF AloneInv
    <3> QED
      BY <1>8, <2>1, <3>1 DEF Removes, RemovalEnds, PartTypeOK
  <2> QED
    BY <2>1, <2>2, AloneSpared
<1>9. ASSUME UserDeletesTasks \/ Crash PROVE AloneInv'
  BY <1>9 DEF UserDeletesTasks, Crash, AloneInv
<1>10. ASSUME UNCHANGED vars PROVE AloneInv'
  BY <1>5, <1>10 DEF vars
<1>11. ASSUME NEW h \in Handler,
              DeleteDir(h) \/ Removes(h) \/ RemovalEnds(h) \/ DeleteRow(h) \/ DeleteEnds(h)
       PROVE  AloneInv'
  BY <1>7, <1>8, <1>11
<1>12. ASSUME NEW h \in Handler, NEW s \in Sub, DeleteGet(h, s) PROVE AloneInv'
  BY <1>7, <1>12
<1> QED
  BY <1>1, <1>2, <1>3, <1>4, <1>6, <1>9, <1>10, <1>11, <1>12 DEF Next

\* A run that nothing disturbed reports success only of a repository that is there, with
\* its loader imported and no task of that name that runs another file, however many
\* other runs and deletes came before it.
THEOREM AloneImportsHolds == Spec => []AloneImports
<1>1. Init => PartTypeOK /\ BornInv /\ RestTypeOK /\ AloneInv
  BY InitTypes DEF Init, AloneInv
<1>2. PartTypeOK /\ BornInv /\ RestTypeOK /\ AloneInv /\ [Next]_vars
        => PartTypeOK' /\ BornInv' /\ RestTypeOK' /\ AloneInv'
  BY NextPart, NextBorn, NextRest, NextAlone
<1>3. AloneInv => AloneImports
  BY DEF AloneInv, HasRepo, HasTasks, AloneImports
<1> QED
  BY <1>1, <1>2, <1>3, PTL DEF Spec

-----------------------------------------------------------------------------
(* A deleted subscription leaves no directory.                               *)

\* The directories, runs and deletes of a subscription whose directories are not messy: all
\* are about the one of its name, and none is left once a delete has removed it.
Clean(s) ==
  s \notin messy =>
    /\ \A n \in Name : dir[<<s, n>>] # "absent" => Exists(s) /\ n = rows[s].name
    /\ \A r \in Run : At(r) # "idle" /\ SubOf(r) = s => Exists(s) /\ run[r].dir = <<s, rows[s].name>>
    /\ \A h \in Handler : del[h].at # "idle" /\ del[h].dir[1] = s =>
         /\ del[h].dir = <<s, rows[s].name>>
         /\ del[h].at = "removed" => dir[<<s, rows[s].name>>] = "absent" /\ ~Active(s)

\* Steps that begin no run and no delete of it, and make no directory but that of a run.
LEMMA CleanKept ==
  ASSUME NEW s \in Sub, PartTypeOK, Clean(s), rows'[s] = rows[s], messy \subseteq messy',
         \A r \in Run : At(r)' # "idle" /\ SubOf(r)' = s => At(r) # "idle" /\ run'[r].dir = run[r].dir,
         \A h \in Handler : del'[h].at # "idle" /\ del'[h].dir[1] = s =>
           /\ del[h].at # "idle" /\ del'[h].dir = del[h].dir
           /\ del'[h].at = "removed" => del[h].at = "removed",
         \A n \in Name : dir'[<<s, n>>] # "absent" =>
           \/ dir[<<s, n>>] # "absent"
           \/ \E r \in Run : At(r) # "idle" /\ run[r].dir = <<s, n>>
  PROVE  Clean(s)'
<1> SUFFICES ASSUME s \notin messy' PROVE Clean(s)'
  BY DEF Clean
<1>1. s \notin messy /\ (Exists(s)' <=> Exists(s)) /\ rows[s].name \in Name
  BY DEF Exists, PartTypeOK
<1>2. \A r \in Run, n \in Name : At(r) # "idle" /\ run[r].dir = <<s, n>> =>
        Active(s) /\ Exists(s) /\ n = rows[s].name
  BY <1>1 DEF Clean, Active, SubOf
<1>3. \A n \in Name : dir'[<<s, n>>] # "absent" => Exists(s) /\ n = rows[s].name
  BY <1>1, <1>2 DEF Clean
<1>4. Active(s)' => Active(s)
  BY DEF Active, SubOf
<1>5. \A r \in Run : At(r)' # "idle" /\ SubOf(r)' = s => Exists(s) /\ run'[r].dir = <<s, rows[s].name>>
  BY <1>1 DEF Clean, SubOf
<1>6. ASSUME NEW h \in Handler, del'[h].at # "idle", del'[h].dir[1] = s
      PROVE  /\ del'[h].dir = <<s, rows[s].name>>
             /\ del'[h].at = "removed" => dir'[<<s, rows[s].name>>] = "absent" /\ ~Active(s)'
  <2>1. del[h].at # "idle" /\ del[h].dir[1] = s /\ del'[h].dir = del[h].dir
    BY <1>6
  <2>2. del[h].dir = <<s, rows[s].name>>
    BY <1>1, <2>1 DEF Clean
  <2>3. del'[h].at = "removed" => dir[<<s, rows[s].name>>] = "absent" /\ ~Active(s)
    BY <1>1, <1>6, <2>1 DEF Clean
  <2> QED
    BY <1>1, <1>2, <1>4, <2>1, <2>2, <2>3
<1> QED
  BY <1>1, <1>3, <1>5, <1>6 DEF Clean

\* Steps of runs that have begun.
LEMMA CleanRun ==
  ASSUME NEW s \in Sub, PartTypeOK, Clean(s), UNCHANGED <<rows, del, messy>>,
         NEW r \in Run, At(r) # "idle", \A q \in Run \ {r} : run'[q] = run[q],
         run'[r].dir = run[r].dir \/ run'[r] = NoRun,
         UNCHANGED dir \/ \E d \in DirStates : DirBecomes(r, d)
  PROVE  Clean(s)'
<1>1. \A q \in Run : At(q)' # "idle" => At(q) # "idle" /\ run'[q].dir = run[q].dir
  BY NoRunType DEF At
<1>2. \A d \in Dir : dir'[d] = dir[d] \/ d = run[r].dir
  BY DEF DirBecomes, PartTypeOK
<1>3. \A n \in Name : dir'[<<s, n>>] # "absent" =>
        \/ dir[<<s, n>>] # "absent"
        \/ \E q \in Run : At(q) # "idle" /\ run[q].dir = <<s, n>>
  BY <1>2 DEF Dir
<1> QED
  BY <1>1, <1>3, CleanKept

\* No step breaks it.
LEMMA NextClean ==
  ASSUME PartTypeOK, PartTypeOK', BornInv, \A s \in Sub : Clean(s), [Next]_vars, NEW s \in Sub
  PROVE  Clean(s)'
<1>1. ASSUME NEW r \in Run, NEW u \in Sub, Begin(r, u) PROVE Clean(s)'
  <2>1. UNCHANGED <<rows, del, dir>> /\ messy \subseteq messy' /\ Exists(u)
    BY <1>1 DEF Begin, rowVars
  <2>2. /\ \A q \in Run \ {r} : run'[q] = run[q]
        /\ run'[r].dir = <<u, rows[u].name>>
    BY <1>1, BeginType
  <2>3. CASE s # u
    <3>1. SubOf(r)' # s
      BY <2>2, <2>3 DEF SubOf
    <3> QED
      BY <2>1, <2>2, <3>1, CleanKept DEF At, SubOf
  <2>4. CASE s = u
    <3>1. s \notin messy' => \A h \in Handler : ~(del[h].at = "removed" /\ del[h].dir[1] = s)
      BY <1>1, <2>4 DEF Begin
    <3> QED
      BY <2>1, <2>2, <2>4, <3>1 DEF Clean, At, SubOf, Exists
  <2> QED
    BY <2>3, <2>4
<1>2. ASSUME NEW r \in Run, MarkRunning(r) PROVE Clean(s)'
  <2>1. UNCHANGED <<rowVars, dir, messy>> /\ At(r) = "got" /\ Moves(r, "ensured")
    BY <1>2 DEF MarkRunning
  <2> QED
    BY <2>1, MarkType, CleanRun DEF rowVars
<1>3. ASSUME NEW r \in Run, MarkFails(r) \/ CancelRun(r) PROVE Clean(s)'
  <2>1. UNCHANGED <<rowVars, dir, messy>> /\ At(r) = "got" /\ Ends(r)
    BY <1>3 DEF MarkFails, CancelRun
  <2> QED
    BY <2>1, EndsType, CleanRun DEF rowVars, Over
<1>4. ASSUME NEW r \in Run, GitStep(r) PROVE Clean(s)'
  BY <1>4, GitSteps, CleanRun DEF Advances
<1>5. ASSUME NEW r \in Run, SyncStep(r) PROVE Clean(s)'
  BY <1>5, SyncSteps, CleanRun DEF RunStep, Advances, Over
<1>6. ASSUME NEW u \in Sub, NEW n \in Name, Create(u, n) \/ Rename(u, n) PROVE Clean(s)'
  <2>1. /\ UNCHANGED <<del, run, dir>> /\ messy \subseteq messy'
        /\ \A v \in Sub \ {u} : rows'[v] = rows[v]
    BY <1>6, SetRowType DEF Create, Rename
  <2>2. CASE s # u
    BY <2>1, <2>2, CleanKept DEF At, SubOf
  <2>3. CASE s = u /\ Rename(u, n)
    BY <2>3 DEF Rename, Clean
  <2>4. CASE s = u /\ Create(u, n)
    <3>1. rows[s].st = "unborn" /\ ~Exists(s) /\ messy' = messy
      BY <2>4 DEF Create, Exists
    <3>2. \A h \in Handler : del[h].at # "idle" => del[h].dir[1] # s
      BY <3>1 DEF BornInv
    <3> QED
      BY <2>1, <3>1, <3>2 DEF Clean, At, SubOf
  <2> QED
    BY <1>6, <2>2, <2>3, <2>4
<1>7. ASSUME NEW h \in Handler, NEW u \in Sub, DeleteGet(h, u) PROVE Clean(s)'
  <2>1. /\ UNCHANGED <<rows, run, dir, messy>> /\ del'[h].at = "found"
        /\ del'[h].dir = <<u, rows[u].name>> /\ \A g \in Handler \ {h} : del'[g] = del[g]
    BY <1>7 DEF DeleteGet, PartTypeOK
  <2>2. Active(s)' <=> Active(s)
    BY <2>1 DEF Active, At, SubOf
  <2> QED
    BY <2>1, <2>2 DEF Clean, At, SubOf, Exists
<1>8. ASSUME NEW h \in Handler, DeleteDir(h) \/ RemovalEnds(h), del'[h].at = "removed"
      PROVE  Clean(s)'
  <2> DEFINE d == del[h].dir
  <2>1. /\ UNCHANGED <<rows, run>> /\ messy \subseteq messy' /\ del[h].at \in {"found", "removing"}
        /\ \A g \in Handler \ {h} : del'[g] = del[g]
    BY <1>8, DelType, NoDelType DEF DeleteDir, RemovalEnds, PartTypeOK
  <2>2. del'[h].dir = d
    BY <1>8, NoDelType DEF DeleteDir, RemovalEnds, PartTypeOK, DelRec
  <2>3. d \in Dir /\ \A e \in Dir : dir'[e] = dir[e] \/ (e = d /\ dir'[e] = "absent")
    BY <1>8, <2>1 DEF DeleteDir, RemovalEnds, PartTypeOK, BornInv
  <2>4. \A n \in Name : dir'[<<s, n>>] # "absent" => dir[<<s, n>>] # "absent"
    BY <2>3 DEF Dir
  <2>5. CASE s # d[1] \/ s \in messy'
    BY <2>1, <2>2, <2>4, <2>5, CleanKept DEF At, SubOf, Clean
  <2>6. CASE s = d[1] /\ s \notin messy'
    <3>1. dir'[d] = "absent" /\ ~Active(s) /\ s \notin messy
      <4>1. CASE DeleteDir(h)
        <5>1. dir[d] = "absent"
          BY <1>8, <2>1, <4>1 DEF DeleteDir, PartTypeOK, DelRec
        <5> QED
          BY <2>1, <2>6, <4>1, <5>1 DEF DeleteDir
      <4>2. CASE RemovalEnds(h)
        <5>1. del[h].at = "removing"
          BY <2>1, <4>2 DEF RemovalEnds
        <5> QED
          BY <2>1, <2>3, <2>6, <4>2, <5>1 DEF RemovalEnds, PartTypeOK
      <4> QED
        BY <1>8, <4>1, <4>2
    <3>2. d = <<s, rows[s].name>>
      BY <2>1, <2>6, <3>1 DEF Clean
    <3>3. dir'[<<s, rows[s].name>>] = "absent" /\ ~Active(s)'
      BY <2>1, <3>1, <3>2 DEF Active, At, SubOf
    <3>4. \A n \in Name : dir'[<<s, n>>] # "absent" => Exists(s)' /\ n = rows'[s].name
      BY <2>1, <2>4, <3>1 DEF Clean, Exists
    <3>5. \A r \in Run : At(r)' # "idle" /\ SubOf(r)' = s =>
            Exists(s)' /\ run'[r].dir = <<s, rows'[s].name>>
      BY <2>1, <3>1 DEF Clean, Exists, At, SubOf
    <3>6. \A g \in Handler : del'[g].at # "idle" /\ del'[g].dir[1] = s => del'[g].dir = <<s, rows'[s].name>>
      BY <2>1, <2>2, <3>1, <3>2 DEF Clean
    <3> QED
      BY <2>1, <3>3, <3>4, <3>5, <3>6 DEF Clean
  <2> QED
    BY <2>5, <2>6
<1>13. ASSUME NEW h \in Handler, DeleteDir(h) \/ RemovalEnds(h), del'[h].at # "removed"
       PROVE  Clean(s)'
  <2>1. /\ UNCHANGED <<rows, run>> /\ messy \subseteq messy'
        /\ \A g \in Handler \ {h} : del'[g] = del[g]
    BY <1>13, DelType DEF DeleteDir, RemovalEnds
  <2>2. del'[h].at # "idle" => del[h].at # "idle" /\ del'[h].dir = del[h].dir
    BY <1>13, NoDelType DEF DeleteDir, RemovalEnds, PartTypeOK, DelRec
  <2>3. \A e \in Dir : dir'[e] # "absent" => dir[e] # "absent"
    BY <1>13 DEF DeleteDir, RemovalEnds, PartTypeOK
  <2>4. \A n \in Name : dir'[<<s, n>>] # "absent" => dir[<<s, n>>] # "absent"
    BY <2>3 DEF Dir
  <2> QED
    BY <1>13, <2>1, <2>2, <2>4, CleanKept DEF At, SubOf
<1>14. ASSUME NEW h \in Handler, Removes(h) PROVE Clean(s)'
  <2>1. UNCHANGED <<rows, del, run, messy>> /\ \A e \in Dir : dir'[e] # "absent" => dir[e] # "absent"
    BY <1>14 DEF Removes, PartTypeOK
  <2>2. \A n \in Name : dir'[<<s, n>>] # "absent" => dir[<<s, n>>] # "absent"
    BY <2>1 DEF Dir
  <2> QED
    BY <2>1, <2>2, CleanKept DEF At, SubOf
<1>9. ASSUME NEW h \in Handler, DeleteRow(h) PROVE Clean(s)'
  <2> DEFINE u == del[h].dir[1]
  <2>1. /\ UNCHANGED <<run, dir, messy>> /\ del[h].at = "removed" /\ del'[h] = NoDel
        /\ \A g \in Handler \ {h} : del'[g] = del[g]
    BY <1>9, DelType DEF DeleteRow, PartTypeOK
  <2>2. u \in Sub
    BY <2>1 DEF BornInv, Dir
  <2>3. CASE UNCHANGED rows \/ s # u
    <3>1. rows'[s] = rows[s]
      BY <1>9, <2>2, <2>3 DEF DeleteRow, SetRow, PartTypeOK
    <3> QED
      BY <2>1, <3>1, NoDelType, CleanKept DEF At, SubOf
  <2>4. CASE s = u /\ SetRow(u, "gone", rows[u].name)
    <3>1. rows'[s].name = rows[s].name /\ rows[s].name \in Name
      BY <2>4 DEF SetRow, PartTypeOK
    <3>2. s \notin messy => dir[<<s, rows[s].name>>] = "absent" /\ ~Active(s)
      BY <2>1, <2>4 DEF Clean
    <3>3. Active(s)' <=> Active(s)
      BY <2>1 DEF Active, At, SubOf
    <3>4. s \notin messy => \A n \in Name : dir'[<<s, n>>] = "absent"
      BY <2>1, <3>2 DEF Clean
    <3>5. \A g \in Handler : del'[g].at # "idle" => del'[g] = del[g]
      BY <2>1, NoDelType
    <3> QED
      BY <2>1, <3>1, <3>2, <3>3, <3>4, <3>5 DEF Clean, Active
  <2> QED
    BY <1>9, <2>3, <2>4 DEF DeleteRow
<1>10. ASSUME NEW h \in Handler, DeleteEnds(h) PROVE Clean(s)'
  <2>1. /\ UNCHANGED <<rows, run, dir, messy>>
        /\ \A g \in Handler \ {h} : del'[g] = del[g]
    BY <1>10, DelType DEF DeleteEnds
  <2>2. del'[h].at # "idle" =>
          del[h].at # "idle" /\ del'[h].dir = del[h].dir /\ del'[h].at # "removed"
    BY <1>10, NoDelType DEF DeleteEnds, PartTypeOK, DelRec
  <2> QED
    BY <2>1, <2>2, CleanKept DEF At, SubOf
<1>11. ASSUME UserDeletesTasks \/ UNCHANGED vars PROVE Clean(s)'
  <2>1. UNCHANGED <<rows, del, run, dir, messy>>
    BY <1>11 DEF UserDeletesTasks, vars, rowVars
  <2> QED
    BY <2>1, CleanKept DEF At, SubOf
<1>12. ASSUME Crash PROVE Clean(s)'
  <2>1. /\ UNCHANGED <<rows, dir, messy>>
        /\ \A r \in Run : run'[r] = NoRun
        /\ \A h \in Handler : del'[h] = NoDel
    BY <1>12 DEF Crash
  <2> QED
    BY <2>1, NoRunType, NoDelType, CleanKept DEF At, SubOf
<1> QED
  BY <1>1, <1>2, <1>3, <1>4, <1>5, <1>6, <1>7, <1>8, <1>9, <1>10, <1>11, <1>12, <1>13,
     <1>14
  DEF Next

\* Clean of every subscription.
AllClean == \A s \in Sub : Clean(s)

\* A deleted subscription leaves no directory, but for the known ways: a rename, a run
\* meanwhile, a removal that failed; whatever overlaps and whenever the server crashes.
THEOREM DeletedLeavesNothingHolds == Spec => []DeletedLeavesNothing
<1>1. Init => PartTypeOK /\ BornInv /\ AllClean
  <2> SUFFICES ASSUME Init PROVE PartTypeOK /\ BornInv /\ AllClean
    OBVIOUS
  <2>1. (\A s \in Sub : status[s] = "none") /\ \A d \in Dir : dir[d] = "absent"
    BY DEF Init
  <2>2. \A s \in Sub, n \in Name : dir[<<s, n>>] = "absent"
    BY <2>1 DEF Dir
  <2> QED
    BY <2>1, <2>2, InitPart DEF BornInv, AllClean, Clean
<1>2. PartTypeOK /\ BornInv /\ AllClean /\ [Next]_vars
        => PartTypeOK' /\ BornInv' /\ AllClean'
  <2> SUFFICES ASSUME PartTypeOK, BornInv, AllClean, [Next]_vars
               PROVE  PartTypeOK' /\ BornInv' /\ AllClean'
    OBVIOUS
  <2>1. PartTypeOK' /\ BornInv'
    BY NextPart, NextBorn
  <2>2. ASSUME NEW s \in Sub PROVE Clean(s)'
    BY <2>1, NextClean DEF AllClean
  <2> QED
    BY <2>1, <2>2 DEF AllClean
<1>3. AllClean => DeletedLeavesNothing
  BY DEF AllClean, Clean, DeletedLeavesNothing, Exists
<1> QED
  BY <1>1, <1>2, <1>3, PTL DEF Spec
=============================================================================
