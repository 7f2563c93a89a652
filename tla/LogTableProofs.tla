--------------------------- MODULE LogTableProofs ---------------------------
(***************************************************************************)
(* Proofs about LogTable, for any number of runs, tasks, kills and          *)
(* deletions and any limits: its types, that the table is bounded, and that *)
(* no trim takes the row with the latest start.                             *)
(***************************************************************************)
EXTENDS LogTable, FiniteSetTheorems, FunctionTheorems, TLAPS

-----------------------------------------------------------------------------
(* The statements.                                                           *)

\* What is there is a finite set of ids.
LEMMA FiniteIds ==
  ASSUME TableTypeOK
  PROVE  /\ IsFiniteSet(Ids) /\ Cardinality(Ids) \in Nat
         /\ \A i \in Ids : i \in Nat /\ i <= lastId /\ logs[i] \in Row
<1>1. Ids \subseteq 1..lastId /\ lastId \in Int /\ logs \in [Ids -> Row]
  BY DEF TableTypeOK, Ids
<1>2. IsFiniteSet(1..lastId)
  BY <1>1, FS_Interval
<1>3. IsFiniteSet(Ids)
  BY <1>1, <1>2, FS_Subset
<1> QED
  BY <1>1, <1>3, FS_CardinalityType

\* ORDER BY created_at DESC, id DESC is a strict and total order of the ids.
LEMMA PrecedesOrder ==
  ASSUME TableTypeOK
  PROVE  /\ \A i \in Ids : ~Precedes(i, i)
         /\ \A i, j \in Ids : i # j => Precedes(i, j) \/ Precedes(j, i)
         /\ \A i, j, k \in Ids : Precedes(i, j) /\ Precedes(j, k) => Precedes(i, k)
<1>1. \A i \in Ids : i \in Nat /\ logs[i].of \in Nat /\ logs[i].kill \in BOOLEAN
  BY FiniteIds DEF Row, Job
<1> QED
  BY <1>1 DEF Precedes, Later, CreatedAt

\* LIMIT n: of any ids, those not beyond the first n are at most n.
LEMMA KeptBounded ==
  ASSUME TableTypeOK, NEW S \in SUBSET Ids, NEW n \in Nat
  PROVE  IsFiniteSet(S \ Beyond(S, n)) /\ Cardinality(S \ Beyond(S, n)) <= n
<1> DEFINE Before(i) == {j \in S : Precedes(j, i)}
           Kept == S \ Beyond(S, n)
           rank == [i \in Kept |-> Cardinality(Before(i))]
<1>1. IsFiniteSet(S)
  BY FiniteIds, FS_Subset
<1>2. \A i \in S : IsFiniteSet(Before(i)) /\ Cardinality(Before(i)) \in Nat
  BY <1>1, FS_Subset, FS_CardinalityType
<1>3. \A i \in Kept : Cardinality(Before(i)) \in 0..(n - 1)
  BY <1>2 DEF Beyond
<1>4. ASSUME NEW i \in S, NEW j \in S, Precedes(i, j)
      PROVE  Cardinality(Before(i)) < Cardinality(Before(j))
  <2>1. i \notin Before(i) /\ Before(i) \cup {i} \subseteq Before(j)
    BY <1>4, PrecedesOrder
  <2>2. Cardinality(Before(i) \cup {i}) = Cardinality(Before(i)) + 1
    BY <1>2, <2>1, FS_AddElement
  <2>3. Cardinality(Before(i) \cup {i}) <= Cardinality(Before(j))
    BY <1>2, <2>1, FS_Subset
  <2> QED
    BY <1>2, <2>2, <2>3
<1>5. \A i, j \in Kept : rank[i] = rank[j] => i = j
  <2> SUFFICES ASSUME NEW i \in Kept, NEW j \in Kept, i # j PROVE rank[i] # rank[j]
    OBVIOUS
  <2>1. Precedes(i, j) \/ Precedes(j, i)
    BY PrecedesOrder
  <2>2. i \in S /\ j \in S /\ rank[i] = Cardinality(Before(i)) /\ rank[j] = Cardinality(Before(j))
    OBVIOUS
  <2>3. Cardinality(Before(i)) < Cardinality(Before(j)) \/ Cardinality(Before(j)) < Cardinality(Before(i))
    BY <1>4, <2>1, <2>2
  <2> HIDE DEF Before, rank
  <2> QED
    BY <1>2, <2>2, <2>3
<1>6. rank \in Injection(Kept, 0..(n - 1))
  <2>1. rank \in [Kept -> 0..(n - 1)]
    BY <1>3
  <2>2. \A i, j \in Kept : rank[i] = rank[j] => i = j
    BY <1>5
  <2> HIDE DEF rank, Kept
  <2> QED
    BY <2>1, <2>2, Fun_IsInj
<1>7. IsFiniteSet(0..(n - 1)) /\ Cardinality(0..(n - 1)) = n
  BY FS_Interval
<1> QED
  BY <1>6, <1>7, FS_Injection

\* A row nothing precedes is among the first.
LEMMA FirstKept ==
  ASSUME NEW S, NEW n \in Nat \ {0}, NEW i \in S, \A j \in S : ~Precedes(j, i)
  PROVE  i \notin Beyond(S, n)
<1>1. {j \in S : Precedes(j, i)} = {}
  OBVIOUS
<1> QED
  BY <1>1, FS_EmptySet DEF Beyond

\* DELETE: rows go, the others stay what they are.
Shrinks ==
  /\ Ids' \subseteq Ids
  /\ logs' \in [Ids' -> Row]
  /\ \A i \in Ids' : logs'[i] = logs[i]

LEMMA DeleteShrinks ==
  ASSUME TableTypeOK, NEW gone, Delete(gone)
  PROVE  Shrinks /\ Ids' = Ids \ gone
<1>1. logs \in [Ids -> Row]
  BY DEF TableTypeOK, Ids
<1> QED
  BY <1>1 DEF Delete, Shrinks, Ids

LEMMA KeepsAll ==
  ASSUME TableTypeOK, UNCHANGED logs
  PROVE  Shrinks /\ Ids' = Ids
BY DEF TableTypeOK, Shrinks, Ids

\* INSERT: a new id.
LEMMA InsertGrows ==
  ASSUME TableTypeOK, NEW a \in Row, Insert(a)
  PROVE  /\ lastId' = lastId + 1 /\ lastId' \notin Ids /\ Ids' = Ids \cup {lastId'}
         /\ logs' \in [Ids' -> Row] /\ logs'[lastId'] = a /\ \A i \in Ids : logs'[i] = logs[i]
         /\ Cardinality(Ids') = Cardinality(Ids) + 1
<1>1. lastId \in Nat /\ logs \in [Ids -> Row]
  BY DEF TableTypeOK, Ids
<1>2. lastId' = lastId + 1 /\ lastId' \notin Ids
  BY <1>1, FiniteIds DEF Insert
<1>3. logs' = [i \in Ids \cup {lastId'} |-> IF i = lastId' THEN a ELSE logs[i]]
  BY DEF Insert
<1>4. Ids' = Ids \cup {lastId'}
  BY <1>3 DEF Ids
<1>5. Cardinality(Ids') = Cardinality(Ids) + 1
  BY <1>2, <1>4, FiniteIds, FS_AddElement
<1> QED
  BY <1>1, <1>2, <1>3, <1>4, <1>5

-----------------------------------------------------------------------------
(* Its types.                                                                *)

\* The types of what is not the table.
RestTypeOK ==
  /\ job \in [Job -> [at : JobStages, task : Owner \cup {NoRow}, boot : BOOLEAN]]
  /\ killed \in [Job -> {"no", "killed", "logged"}]
  /\ daily \in {"asleep", "total", "task"}
  /\ loose \in Nat /\ newest \in Row \cup {NoRow} /\ lost \in BOOLEAN /\ extras \in 0..MaxExtras

\* A row is of a run that has inserted it, or of a kill that has; so a run that is to insert
\* one, or a kill, has none.
Rowed == {"inserted", "trimmed", "done"}
HasRow(a) == IF a.kill THEN killed[a.of] = "logged" ELSE job[a.of].at \in Rowed
OwnRows == \A i \in Ids : HasRow(logs[i])

TableInv == TableTypeOK /\ OwnRows

\* What no step takes back.
Goes ==
  \A j \in Job : /\ job[j].at \in Rowed => job'[j].at \in Rowed
                 /\ killed[j] = "logged" => killed'[j] = "logged"

\* The steps that insert,
Inserts(j) == KillLogs(j) \/ InsertRow(j) \/ InsertUnread(j)

\* and one that inserts nothing.
Quiet == Shrinks /\ UNCHANGED <<lastId, newest>>

LEMMA InitTable == TableInit => TableInv
<1> SUFFICES ASSUME TableInit PROVE TableInv
  OBVIOUS
<1>1. RestTypeOK
  <2>1. job \in [Job -> [at : JobStages, task : Owner \cup {NoRow}, boot : BOOLEAN]]
    BY DEF TableInit, JobStages
  <2>2. lost \in BOOLEAN
    BY DEF TableInit
  <2>3. extras \in 0..MaxExtras
    BY TableAssumption DEF TableInit
  <2> QED
    BY <2>1, <2>2, <2>3 DEF TableInit, RestTypeOK
<1>2. logs = [i \in {} |-> NoRow] /\ lastId = 0
  BY DEF TableInit
<1>3. DOMAIN logs = {} /\ logs \in [DOMAIN logs -> Row]
  BY <1>2
<1> QED
  BY <1>1, <1>2, <1>3 DEF TableInv, TableTypeOK, RestTypeOK, OwnRows, Ids

\* An update of a run's stage changes that alone.
LEMMA JobMoves ==
  ASSUME TableTypeOK, NEW j \in Job, NEW stage \in JobStages, JobTo(j, stage)
  PROVE  /\ job' \in [Job -> [at : JobStages, task : Owner \cup {NoRow}, boot : BOOLEAN]]
         /\ job'[j].at = stage /\ job'[j].task = job[j].task /\ job'[j].boot = job[j].boot
         /\ \A k \in Job \ {j} : job'[k] = job[k]
<1>1. job \in [Job -> [at : JobStages, task : Owner \cup {NoRow}, boot : BOOLEAN]]
  BY DEF TableTypeOK
<1>2. job' = [job EXCEPT ![j].at = stage]
  BY DEF JobTo
<1> QED
  BY <1>1, <1>2

\* Whatever a step does, the rest keeps its types, rows are inserted by three actions alone,
\* and what is done is not undone.
LEMMA JobStepRest ==
  ASSUME TableTypeOK, NEW j \in Job, JobStep(j)
  PROVE  RestTypeOK' /\ Goes /\ (Quiet \/ Inserts(j))
<1>. RestTypeOK
  BY DEF TableTypeOK, RestTypeOK
<1>k. UNCHANGED logs => Shrinks
  BY KeepsAll
<1>d. \A gone : Delete(gone) => Shrinks
  BY DeleteShrinks
<1>t. TrimTotal \/ MissTotal \/ TrimPerTask => Shrinks
  BY <1>k, <1>d DEF TrimTotal, MissTotal, TrimPerTask, KeepPerTask
<1>u. TrimTotal => loose' \in Nat
  BY DEF TrimTotal, RestTypeOK
<1>n. \A a \in Row : Insert(a) => newest' \in Row \cup {NoRow} /\ lost' \in BOOLEAN
  BY DEF Insert, RestTypeOK
<1>m. \A stage \in JobStages : JobTo(j, stage) =>
        /\ job' \in [Job -> [at : JobStages, task : Owner \cup {NoRow}, boot : BOOLEAN]]
        /\ job'[j].at = stage
        /\ \A k \in Job \ {j} : job'[k] = job[k]
  BY JobMoves
<1>1. CASE Begin(j)
  <2>1. Quiet
    BY <1>1, <1>k DEF Begin, Quiet
  <2>2. PICK t \in Owner, b \in BOOLEAN :
          job' = [job EXCEPT ![j] = [at |-> "running", task |-> t, boot |-> b]]
    BY <1>1 DEF Begin
  <2>3. job' \in [Job -> [at : JobStages, task : Owner \cup {NoRow}, boot : BOOLEAN]]
    BY <2>2 DEF RestTypeOK, JobStages
  <2>4. RestTypeOK'
    BY <1>1, <2>3 DEF Begin, RestTypeOK
  <2>5. Goes
    BY <1>1, <2>2 DEF Begin, Goes, JobAt, Rowed, RestTypeOK
  <2> QED
    BY <2>1, <2>4, <2>5
<1>2. CASE KillTask(j)
  <2>1. Quiet
    BY <1>2, <1>k DEF KillTask, Quiet
  <2>2. RestTypeOK'
    BY <1>2, TableAssumption DEF KillTask, Extra, RestTypeOK
  <2>3. Goes
    BY <1>2 DEF KillTask, Goes, RestTypeOK
  <2> QED
    BY <2>1, <2>2, <2>3
<1>3. CASE KillLogs(j)
  <2>1. [of |-> j, kill |-> TRUE] \in Row
    BY DEF Row
  <2>2. newest' \in Row \cup {NoRow} /\ lost' \in BOOLEAN
    BY <1>3, <1>n, <2>1 DEF KillLogs
  <2>3. RestTypeOK'
    BY <1>3, <2>2 DEF KillLogs, RestTypeOK
  <2>4. Goes
    BY <1>3 DEF KillLogs, Goes, RestTypeOK
  <2> QED
    BY <1>3, <2>3, <2>4 DEF Inserts
<1>3u. CASE KillUnlogged(j)
  <2>1. Quiet
    BY <1>3u, <1>k DEF KillUnlogged, Quiet
  <2>2. RestTypeOK'
    BY <1>3u DEF KillUnlogged, RestTypeOK
  <2>3. Goes
    BY <1>3u DEF KillUnlogged, Goes, RestTypeOK
  <2> QED
    BY <2>1, <2>2, <2>3
<1>4. CASE InsertRow(j)
  <2>1. [of |-> j, kill |-> FALSE] \in Row
    BY DEF Row
  <2>2. newest' \in Row \cup {NoRow} /\ lost' \in BOOLEAN
    BY <1>4, <1>n, <2>1 DEF InsertRow
  <2>3. JobTo(j, "inserted") /\ "inserted" \in JobStages /\ "inserted" \in Rowed
    BY <1>4 DEF InsertRow, JobStages, Rowed
  <2>4. loose' \in Nat
    BY <1>4 DEF InsertRow, RestTypeOK
  <2>5. RestTypeOK'
    BY <1>4, <1>m, <2>2, <2>3, <2>4 DEF InsertRow, RestTypeOK
  <2>6. Goes
    BY <1>4, <1>m, <2>3 DEF InsertRow, Goes
  <2> QED
    BY <1>4, <2>5, <2>6 DEF Inserts
<1>4u. CASE InsertUnread(j)
  <2>1. [of |-> j, kill |-> FALSE] \in Row
    BY DEF Row
  <2>2. newest' \in Row \cup {NoRow} /\ lost' \in BOOLEAN
    BY <1>4u, <1>n, <2>1 DEF InsertUnread
  <2>3. JobTo(j, "done") /\ "done" \in JobStages /\ "done" \in Rowed
    BY <1>4u DEF InsertUnread, JobStages, Rowed
  <2>4. RestTypeOK'
    BY <1>4u, <1>m, <2>2, <2>3 DEF InsertUnread, RestTypeOK
  <2>5. Goes
    BY <1>4u, <1>m, <2>3 DEF InsertUnread, Goes
  <2> QED
    BY <1>4u, <2>4, <2>5 DEF Inserts
<1>5. CASE NoInsert(j)
  <2>1. Quiet
    BY <1>5, <1>k DEF NoInsert, Quiet
  <2>2. JobTo(j, "done") /\ "done" \in JobStages /\ "done" \in Rowed
    BY <1>5 DEF NoInsert, JobStages, Rowed
  <2>3. RestTypeOK'
    BY <1>5, <1>m, <2>2 DEF NoInsert, RestTypeOK
  <2>4. Goes
    BY <1>5, <1>m, <2>2 DEF NoInsert, Goes
  <2> QED
    BY <2>1, <2>3, <2>4
<1>6. CASE TrimAfter(j)
  <2>1. Quiet
    BY <1>6, <1>t DEF TrimAfter, Quiet
  <2>2. JobTo(j, "trimmed") /\ "trimmed" \in JobStages /\ "trimmed" \in Rowed
    BY <1>6 DEF TrimAfter, JobStages, Rowed
  <2>0. loose' \in Nat
    BY <1>6, <1>u DEF TrimAfter, RestTypeOK
  <2>3. RestTypeOK'
    BY <1>6, <1>m, <2>0, <2>2 DEF TrimAfter, RestTypeOK
  <2>4. Goes
    BY <1>6, <1>m, <2>2 DEF TrimAfter, Goes
  <2> QED
    BY <2>1, <2>3, <2>4
<1>7. CASE TrimTaskAfter(j)
  <2>1. Quiet
    BY <1>7, <1>t DEF TrimTaskAfter, Quiet
  <2>2. JobTo(j, "done") /\ "done" \in JobStages /\ "done" \in Rowed
    BY <1>7 DEF TrimTaskAfter, JobStages, Rowed
  <2>3. RestTypeOK'
    BY <1>7, <1>m, <2>2 DEF TrimTaskAfter, RestTypeOK
  <2>4. Goes
    BY <1>7, <1>m, <2>2 DEF TrimTaskAfter, Goes
  <2> QED
    BY <2>1, <2>3, <2>4
<1>8. CASE TrimStartup(j)
  <2>1. Quiet
    BY <1>8, <1>k, <1>d DEF TrimStartup, Quiet
  <2>2. JobTo(j, "done") /\ "done" \in JobStages /\ "done" \in Rowed
    BY <1>8 DEF TrimStartup, JobStages, Rowed
  <2>3. RestTypeOK'
    BY <1>8, <1>m, <2>2 DEF TrimStartup, RestTypeOK
  <2>4. Goes
    BY <1>8, <1>m, <2>2 DEF TrimStartup, Goes
  <2> QED
    BY <2>1, <2>3, <2>4
<1>9. CASE Aborted(j)
  <2>1. Quiet
    BY <1>9, <1>k DEF Aborted, Quiet
  <2>2. JobTo(j, "done") /\ "done" \in JobStages /\ "done" \in Rowed
    BY <1>9 DEF Aborted, JobStages, Rowed
  <2>3. loose' \in Nat
    BY <1>9 DEF Aborted, RestTypeOK
  <2>4. RestTypeOK'
    BY <1>9, <1>m, <2>2, <2>3 DEF Aborted, RestTypeOK
  <2>5. Goes
    BY <1>9, <1>m, <2>2 DEF Aborted, Goes
  <2> QED
    BY <2>1, <2>4, <2>5
<1> QED
  BY <1>1, <1>2, <1>3, <1>3u, <1>4, <1>4u, <1>5, <1>6, <1>7, <1>8, <1>9 DEF JobStep

LEMMA NextRest ==
  ASSUME TableTypeOK, [TableNext]_tableVars
  PROVE  /\ RestTypeOK' /\ Goes
         /\ Quiet \/ \E j \in Job : Inserts(j)
<1>. RestTypeOK
  BY DEF TableTypeOK, RestTypeOK
<1>k. UNCHANGED logs => Shrinks
  BY KeepsAll
<1>d. \A gone : Delete(gone) => Shrinks
  BY DeleteShrinks
<1>t. TrimTotal \/ MissTotal \/ TrimPerTask => Shrinks
  BY <1>k, <1>d DEF TrimTotal, MissTotal, TrimPerTask, KeepPerTask
<1>1. CASE \E j \in Job : JobStep(j)
  BY <1>1, JobStepRest
<1>2. CASE CleanOld
  <2>1. PICK c \in Job :
          LET old == {i \in Ids : logs[i].of < c} IN Delete(old) /\ Removed(old)
    BY <1>2 DEF CleanOld
  <2>2. Quiet
    BY <1>2, <1>d, <2>1 DEF CleanOld, Quiet
  <2>3. lost' \in BOOLEAN
    BY <2>1 DEF Removed, RestTypeOK
  <2>4. RestTypeOK'
    BY <1>2, <2>3, TableAssumption DEF CleanOld, Extra, RestTypeOK
  <2>5. Goes
    BY <1>2 DEF CleanOld, Goes
  <2> QED
    BY <2>2, <2>4, <2>5
<1>3. CASE CleanTotal
  <2>1. Quiet
    BY <1>3, <1>t DEF CleanTotal, Quiet
  <2>2. loose' \in Nat
    BY <1>3 DEF CleanTotal, TrimTotal, RestTypeOK
  <2>3. RestTypeOK' /\ Goes
    BY <1>3, <2>2 DEF CleanTotal, RestTypeOK, Goes
  <2> QED
    BY <2>1, <2>3
<1>4. CASE CleanTask
  <2>1. Quiet
    BY <1>4, <1>t DEF CleanTask, Quiet
  <2>2. RestTypeOK' /\ Goes
    BY <1>4 DEF CleanTask, RestTypeOK, Goes
  <2> QED
    BY <2>1, <2>2
<1>5. CASE \E i \in Ids : UserDeletes(i)
  <2>1. PICK i \in Ids : UserDeletes(i)
    BY <1>5
  <2>2. Quiet
    BY <1>d, <2>1 DEF UserDeletes, Quiet
  <2>3. lost' \in BOOLEAN
    BY <2>1 DEF UserDeletes, Removed, RestTypeOK
  <2>4. RestTypeOK'
    BY <2>1, <2>3, TableAssumption DEF UserDeletes, Extra, RestTypeOK
  <2>5. Goes
    BY <2>1 DEF UserDeletes, Goes
  <2> QED
    BY <2>2, <2>4, <2>5
<1>6. CASE UNCHANGED tableVars
  <2>1. Quiet
    BY <1>6, <1>k DEF tableVars, Quiet
  <2>2. RestTypeOK' /\ Goes
    BY <1>6 DEF tableVars, RestTypeOK, Goes
  <2> QED
    BY <2>1, <2>2
<1> QED
  BY <1>1, <1>2, <1>3, <1>4, <1>5, <1>6 DEF TableNext

\* The types of the table and whose rows it has, after a step that only deletes,
LEMMA QuietInv ==
  ASSUME TableInv, RestTypeOK', Goes, Quiet
  PROVE  TableInv'
<1>1. Ids' \subseteq Ids /\ logs' \in [Ids' -> Row] /\ (\A i \in Ids' : logs'[i] = logs[i]) /\ lastId' = lastId
  BY DEF Quiet, Shrinks
<1>2. lastId \in Nat /\ Ids \subseteq 1..lastId /\ \A i, j \in Ids : logs[i] = logs[j] => i = j
  BY DEF TableInv, TableTypeOK, Ids
<1>3. lastId' \in Nat /\ Ids' \subseteq 1..lastId' /\ \A i, j \in Ids' : logs'[i] = logs'[j] => i = j
  BY <1>1, <1>2
<1>4. TableTypeOK'
  BY <1>1, <1>3 DEF TableTypeOK, RestTypeOK, Ids
<1>5. OwnRows'
  <2> SUFFICES ASSUME NEW i \in Ids' PROVE HasRow(logs[i])'
    BY DEF OwnRows
  <2>1. i \in Ids /\ logs'[i] = logs[i] /\ logs[i] \in Row
    BY <1>1
  <2>2. HasRow(logs[i])
    BY <2>1 DEF TableInv, OwnRows
  <2>3. logs[i].of \in Job
    BY <2>1 DEF Row
  <2> QED
    BY <2>1, <2>2, <2>3 DEF HasRow, Goes
<1> QED
  BY <1>4, <1>5 DEF TableInv

\* and after one that inserts a row that is not there.
LEMMA InsertInv ==
  ASSUME TableInv, RestTypeOK', Goes, NEW a \in Row, Insert(a), ~HasRow(a), HasRow(a)'
  PROVE  TableInv'
<1>. TableTypeOK /\ OwnRows
  BY DEF TableInv
<1>1. /\ lastId' = lastId + 1 /\ lastId' \notin Ids /\ Ids' = Ids \cup {lastId'}
      /\ logs' \in [Ids' -> Row] /\ logs'[lastId'] = a /\ \A i \in Ids : logs'[i] = logs[i]
  BY InsertGrows
<1>2. lastId \in Nat /\ Ids \subseteq 1..lastId /\ \A i, j \in Ids : logs[i] = logs[j] => i = j
  BY DEF TableTypeOK, Ids
<1>3. \A i \in Ids : logs[i] # a
  BY DEF OwnRows
<1>4. lastId' \in Nat /\ Ids' \subseteq 1..lastId'
  BY <1>1, <1>2
<1>5. \A i, j \in Ids' : logs'[i] = logs'[j] => i = j
  BY <1>1, <1>2, <1>3
<1>6. TableTypeOK'
  BY <1>1, <1>4, <1>5 DEF TableTypeOK, RestTypeOK, Ids
<1>7. OwnRows'
  <2> SUFFICES ASSUME NEW i \in Ids' PROVE HasRow(logs[i])'
    BY DEF OwnRows
  <2>1. CASE i = lastId'
    BY <1>1, <2>1 DEF HasRow
  <2>2. CASE i \in Ids
    <3>1. logs'[i] = logs[i] /\ logs[i] \in Row /\ HasRow(logs[i])
      BY <1>1, <2>2, FiniteIds DEF OwnRows
    <3>2. logs[i].of \in Job
      BY <3>1 DEF Row
    <3> QED
      BY <3>1, <3>2 DEF HasRow, Goes
  <2> QED
    BY <1>1, <2>1, <2>2
<1> QED
  BY <1>6, <1>7 DEF TableInv

LEMMA TableStep ==
  ASSUME TableInv, [TableNext]_tableVars
  PROVE  TableInv'
<1>. TableTypeOK /\ OwnRows
  BY DEF TableInv
<1>1. RestTypeOK' /\ Goes /\ (Quiet \/ \E j \in Job : Inserts(j))
  BY NextRest
<1>2. CASE Quiet
  BY <1>1, <1>2, QuietInv
<1>3. ASSUME NEW j \in Job, KillLogs(j) PROVE TableInv'
  <2> DEFINE a == [of |-> j, kill |-> TRUE]
  <2>1. a \in Row /\ Insert(a)
    BY <1>3 DEF KillLogs, Row
  <2>2. killed[j] = "killed" /\ killed'[j] = "logged"
    BY <1>3 DEF KillLogs, TableTypeOK
  <2>3. ~HasRow(a) /\ HasRow(a)'
    BY <2>2 DEF HasRow
  <2> QED
    BY <1>1, <2>1, <2>3, InsertInv
<1>4. ASSUME NEW j \in Job, InsertRow(j) PROVE TableInv'
  <2> DEFINE a == [of |-> j, kill |-> FALSE]
  <2>1. a \in Row /\ Insert(a)
    BY <1>4 DEF InsertRow, Row
  <2>2. job[j].at = "running" /\ JobTo(j, "inserted") /\ "inserted" \in JobStages
    BY <1>4 DEF InsertRow, JobAt, JobStages
  <2>3. job'[j].at = "inserted"
    BY <2>2, JobMoves
  <2>4. ~HasRow(a) /\ HasRow(a)'
    BY <2>2, <2>3 DEF HasRow, Rowed
  <2> QED
    BY <1>1, <2>1, <2>4, InsertInv
<1>5. ASSUME NEW j \in Job, InsertUnread(j) PROVE TableInv'
  <2> DEFINE a == [of |-> j, kill |-> FALSE]
  <2>1. a \in Row /\ Insert(a)
    BY <1>5 DEF InsertUnread, Row
  <2>2. job[j].at = "running" /\ JobTo(j, "done") /\ "done" \in JobStages
    BY <1>5 DEF InsertUnread, JobAt, JobStages
  <2>3. job'[j].at = "done"
    BY <2>2, JobMoves
  <2>4. ~HasRow(a) /\ HasRow(a)'
    BY <2>2, <2>3 DEF HasRow, Rowed
  <2> QED
    BY <1>1, <2>1, <2>4, InsertInv
<1> QED
  BY <1>1, <1>2, <1>3, <1>4, <1>5 DEF Inserts

\* The state keeps its types: above all no two rows are equal, which is that a run leaves
\* at most one row and a kill at most one, however they interleave with the trims.
THEOREM TableTypeCorrect == TableSpec => []TableTypeOK
<1>1. TableInit => TableInv
  BY InitTable
<1>2. TableInv /\ [TableNext]_tableVars => TableInv'
  BY TableStep
<1>3. TableInv => TableTypeOK
  BY DEF TableInv
<1> QED
  BY <1>1, <1>2, <1>3, PTL DEF TableSpec

-----------------------------------------------------------------------------
(* The row with the latest start.                                            *)

\* No limit is zero: each keeps at least one row.
Limited == Total > 0 /\ PerTask > 0 /\ Startup > 0

\* newest is no earlier than any row, and some row is newest unless that was deleted by age
\* or by a user.
LatestInv ==
  /\ Ids # {} => newest # NoRow
  /\ \A i \in Ids : ~Later(CreatedAt(logs[i]), CreatedAt(newest))
  /\ LatestStartKept

\* Nothing precedes it in the order of the trims,
LEMMA LatestIsFirst ==
  ASSUME TableTypeOK, LatestInv, NEW i \in Ids, logs[i] = newest
  PROVE  \A k \in Ids : ~Precedes(k, i)
<1> SUFFICES ASSUME NEW k \in Ids, Precedes(k, i) PROVE FALSE
  OBVIOUS
<1>1. ~Later(CreatedAt(logs[k]), CreatedAt(logs[i]))
  BY DEF LatestInv
<1>2. CreatedAt(logs[k]) = CreatedAt(logs[i]) /\ k > i
  BY <1>1 DEF Precedes
<1>3. logs[k] \in Row /\ logs[i] \in Row /\ i \in Nat
  BY FiniteIds
<1>4. logs[k] = logs[i]
  BY <1>2, <1>3 DEF CreatedAt, Row
<1>5. k = i
  BY <1>4 DEF TableTypeOK, Ids
<1> QED
  BY <1>2, <1>3, <1>5

\* so no trim takes it.
LEMMA TrimsSpare ==
  ASSUME TableTypeOK, LatestInv, Limited, NEW i \in Ids, logs[i] = newest
  PROVE  /\ TrimTotal \/ MissTotal => i \in Ids'
         /\ TrimPerTask => i \in Ids'
         /\ \A n \in {Startup, DefaultTotal} : Delete(Beyond(Ids, n)) => i \in Ids'
<1>1. \A k \in Ids : ~Precedes(k, i)
  BY LatestIsFirst
<1>0. {Total, Startup, DefaultTotal, PerTask, DefaultPerTask} \subseteq Nat \ {0}
  BY TableAssumption DEF Limited
<1>2. \A n \in {Total, Startup, DefaultTotal} : i \notin Beyond(Ids, n)
  BY <1>0, <1>1, FirstKept
<1>3. \A n \in {PerTask, DefaultPerTask}, t \in Owner :
        i \notin Beyond({k \in Ids : TaskOf(k) = t}, n)
  <2> SUFFICES ASSUME NEW n \in {PerTask, DefaultPerTask}, NEW t \in Owner
               PROVE  i \notin Beyond({k \in Ids : TaskOf(k) = t}, n)
    OBVIOUS
  <2>1. CASE TaskOf(i) = t
    BY <1>0, <1>1, <2>1, FirstKept
  <2>2. CASE TaskOf(i) # t
    BY <2>2 DEF Beyond
  <2> QED
    BY <2>1, <2>2
<1>4. \A n \in {PerTask, DefaultPerTask} :
        i \notin UNION {Beyond({k \in Ids : TaskOf(k) = t}, n) : t \in Owner}
  BY <1>3
<1>5. UNCHANGED logs => i \in Ids'
  BY KeepsAll
<1>6. \A gone : Delete(gone) /\ i \notin gone => i \in Ids'
  BY DeleteShrinks
<1> QED
  BY <1>2, <1>4, <1>5, <1>6 DEF TrimTotal, MissTotal, TrimPerTask, KeepPerTask

\* Nor do the others that delete, unless they say so.
Spares ==
  Limited /\ ~lost' => ~lost /\ \A i \in Ids : logs[i] = newest => i \in Ids'

LEMMA QuietSpares ==
  ASSUME TableTypeOK, LatestInv, [TableNext]_tableVars,
         ~\E j \in Job : Inserts(j)
  PROVE  Spares
<1>k. UNCHANGED <<logs, lost>> => Spares
  BY KeepsAll DEF Spares
<1>t. /\ (TrimTotal \/ MissTotal \/ TrimPerTask) /\ UNCHANGED lost => Spares
      /\ \A n \in {Startup, DefaultTotal} : Delete(Beyond(Ids, n)) /\ UNCHANGED lost => Spares
  BY TrimsSpare DEF Spares
<1>d. \A gone : Delete(gone) /\ Removed(gone) => Spares
  BY DeleteShrinks DEF Removed, Spares
<1>1. ASSUME NEW j \in Job, JobStep(j) PROVE Spares
  <2>1. CASE Begin(j) \/ KillTask(j) \/ KillUnlogged(j) \/ NoInsert(j) \/ Aborted(j)
    BY <1>k, <2>1 DEF Begin, KillTask, KillUnlogged, NoInsert, Aborted
  <2>2. CASE TrimAfter(j) \/ TrimTaskAfter(j)
    BY <1>t, <2>2 DEF TrimAfter, TrimTaskAfter
  <2>3. CASE TrimStartup(j)
    BY <1>k, <1>t, <2>3 DEF TrimStartup
  <2> QED
    BY <1>1, <2>1, <2>2, <2>3 DEF JobStep, Inserts
<1>2. CASE CleanOld
  BY <1>2, <1>d DEF CleanOld
<1>3. CASE CleanTotal \/ CleanTask
  BY <1>3, <1>t DEF CleanTotal, CleanTask
<1>4. ASSUME NEW i \in Ids, UserDeletes(i) PROVE Spares
  BY <1>4, <1>d DEF UserDeletes
<1>5. CASE UNCHANGED tableVars
  BY <1>5, <1>k DEF tableVars
<1> QED
  BY <1>1, <1>2, <1>3, <1>4, <1>5 DEF TableNext

\* A row that is inserted is the newest or is not later than it.
LEMMA InsertLatest ==
  ASSUME TableTypeOK, LatestInv, NEW a \in Row, Insert(a)
  PROVE  LatestInv'
<1>1. /\ Ids' = Ids \cup {lastId'} /\ logs'[lastId'] = a /\ \A i \in Ids : logs'[i] = logs[i]
  BY InsertGrows
<1>2. \A b \in Row : b # NoRow /\ b.of \in Nat /\ b.kill \in BOOLEAN
  BY TableAssumption DEF Row, Job
<1>3. \A i \in Ids : logs[i] \in Row
  BY FiniteIds
<1>4. CASE newest # NoRow /\ Later(CreatedAt(newest), CreatedAt(a))
  <2>1. newest' = newest /\ lost' = lost /\ newest \in Row
    BY <1>4 DEF Insert, TableTypeOK
  <2>2. ~Later(CreatedAt(a), CreatedAt(newest))
    BY <1>2, <1>4, <2>1 DEF Later, CreatedAt
  <2>3. \A i \in Ids' : ~Later(CreatedAt(logs'[i]), CreatedAt(newest'))
    BY <1>1, <2>1, <2>2 DEF LatestInv
  <2>4. LatestStartKept'
    BY <1>1, <2>1 DEF LatestInv, LatestStartKept, Rows
  <2> QED
    BY <1>2, <2>1, <2>3, <2>4 DEF LatestInv
<1>5. CASE ~(newest # NoRow /\ Later(CreatedAt(newest), CreatedAt(a)))
  <2>1. newest' = a
    BY <1>5 DEF Insert
  <2>2. \A i \in Ids : ~Later(CreatedAt(logs[i]), CreatedAt(a))
    <3> SUFFICES ASSUME NEW i \in Ids PROVE ~Later(CreatedAt(logs[i]), CreatedAt(a))
      OBVIOUS
    <3>1. newest \in Row /\ ~Later(CreatedAt(newest), CreatedAt(a))
      BY <1>5 DEF LatestInv, TableTypeOK
    <3>2. ~Later(CreatedAt(logs[i]), CreatedAt(newest))
      BY DEF LatestInv
    <3> QED
      BY <1>2, <1>3, <3>1, <3>2 DEF Later, CreatedAt
  <2>3. ~Later(CreatedAt(a), CreatedAt(a))
    BY <1>2 DEF Later, CreatedAt
  <2>4. \A i \in Ids' : ~Later(CreatedAt(logs'[i]), CreatedAt(newest'))
    BY <1>1, <2>1, <2>2, <2>3
  <2>5. LatestStartKept'
    BY <1>1, <2>1 DEF LatestStartKept, Rows
  <2> QED
    BY <1>2, <2>1, <2>4, <2>5 DEF LatestInv
<1> QED
  BY <1>4, <1>5

LEMMA QuietLatest ==
  ASSUME TableTypeOK, LatestInv, Quiet, Spares
  PROVE  LatestInv'
<1>1. Ids' \subseteq Ids /\ (\A i \in Ids' : logs'[i] = logs[i]) /\ newest' = newest
  BY DEF Quiet, Shrinks
<1>2. \A i \in Ids' : ~Later(CreatedAt(logs'[i]), CreatedAt(newest'))
  BY <1>1 DEF LatestInv
<1>3. ASSUME Limited, newest # NoRow, ~lost' PROVE newest \in Rows'
  <2>1. ~lost /\ \A i \in Ids : logs[i] = newest => i \in Ids'
    BY <1>3 DEF Spares
  <2>2. PICK i \in Ids : logs[i] = newest
    BY <1>3, <2>1 DEF LatestInv, LatestStartKept, Rows, Limited
  <2> QED
    BY <1>1, <2>1, <2>2 DEF Rows
<1> QED
  BY <1>1, <1>2, <1>3 DEF LatestInv, LatestStartKept, Limited

\* Unless a limit is zero: the row with the latest start survives every trim, of the two
\* limits and of the startup loop, in whatever order the runs end, trim and overlap and
\* whatever fails: it goes by age or by a user alone.
THEOREM LatestStartIsKept == TableSpec => []LatestStartKept
<1>1. TableInit => LatestInv
  <2> SUFFICES ASSUME TableInit PROVE LatestInv
    OBVIOUS
  <2>1. newest = NoRow /\ logs = [i \in {} |-> NoRow]
    BY DEF TableInit
  <2>2. Ids = {}
    BY <2>1 DEF Ids
  <2> QED
    BY <2>1, <2>2 DEF LatestInv, LatestStartKept
<1>2. TableTypeOK /\ LatestInv /\ [TableNext]_tableVars => LatestInv'
  <2> SUFFICES ASSUME TableTypeOK, LatestInv, [TableNext]_tableVars PROVE LatestInv'
    OBVIOUS
  <2>1. ASSUME NEW j \in Job, KillLogs(j) PROVE LatestInv'
    <3>1. [of |-> j, kill |-> TRUE] \in Row /\ Insert([of |-> j, kill |-> TRUE])
      BY <2>1 DEF KillLogs, Row
    <3> QED
      BY <3>1, InsertLatest
  <2>2. ASSUME NEW j \in Job, InsertRow(j) PROVE LatestInv'
    <3>1. [of |-> j, kill |-> FALSE] \in Row /\ Insert([of |-> j, kill |-> FALSE])
      BY <2>2 DEF InsertRow, Row
    <3> QED
      BY <3>1, InsertLatest
  <2>3. ASSUME NEW j \in Job, InsertUnread(j) PROVE LatestInv'
    <3>1. [of |-> j, kill |-> FALSE] \in Row /\ Insert([of |-> j, kill |-> FALSE])
      BY <2>3 DEF InsertUnread, Row
    <3> QED
      BY <3>1, InsertLatest
  <2>4. CASE ~\E j \in Job : Inserts(j)
    BY <2>4, NextRest, QuietSpares, QuietLatest
  <2> QED
    BY <2>1, <2>2, <2>3, <2>4 DEF Inserts
<1>3. LatestInv => LatestStartKept
  BY DEF LatestInv
<1> QED
  BY <1>1, <1>2, <1>3, TableTypeCorrect, PTL DEF TableSpec

-----------------------------------------------------------------------------
(* The size of the table.                                                    *)

\* The runs that have still to trim.
Pending == {j \in Job : JobAt(j, "inserted") /\ ~job[j].boot}

Within(rows, slack, pending) == TotalOn => rows <= Total + slack + pending

\* The arithmetic of a row with one more to account for it, of fewer rows, and of a trim.
LEMMA WithinArith ==
  ASSUME NEW r \in Nat, NEW s \in Nat, NEW p \in Nat
  PROVE  /\ Within(r, s, p) => Within(r + 1, s + 1, p) /\ Within(r + 1, s, p + 1)
         /\ \A q \in Nat : q <= r /\ Within(r, s, p) => Within(q, s, p)
         /\ p > 0 /\ Within(r, s, p) => Within(r, s + 1, p - 1)
         /\ r <= Total => Within(r, s, p)
BY TableAssumption DEF Within

LEMMA PendingFinite ==
  /\ IsFiniteSet(Pending) /\ Cardinality(Pending) \in Nat
  /\ IsFiniteSet(Pending') /\ Cardinality(Pending') \in Nat
<1>1. IsFiniteSet(Job)
  BY FS_Interval, TableAssumption DEF Job
<1>2. Pending \in SUBSET Job /\ Pending' \in SUBSET Job
  BY DEF Pending
<1> QED
  BY <1>1, <1>2, FS_Subset, FS_CardinalityType

\* What the stage of one run makes of the set.
LEMMA PendingMoves ==
  ASSUME TableTypeOK, NEW j \in Job, NEW stage \in JobStages, JobTo(j, stage)
  PROVE  /\ stage # "inserted" => Pending' = Pending \ {j}
         /\ stage = "inserted" /\ ~job[j].boot => Pending' = Pending \cup {j}
         /\ stage = "inserted" /\ job[j].boot => Pending' = Pending \ {j}
<1>1. /\ job'[j].at = stage /\ job'[j].boot = job[j].boot
      /\ \A k \in Job \ {j} : job'[k] = job[k]
  BY JobMoves
<1> QED
  BY <1>1 DEF Pending, JobAt

\* Fewer rows, or as many.
LEMMA ShrinksBounded ==
  ASSUME TableTypeOK, RowsBounded, Shrinks, UNCHANGED loose, Pending' = Pending
  PROVE  RowsBounded'
<1>1. Cardinality(Ids) \in Nat /\ Cardinality(Ids') \in Nat /\ Cardinality(Ids') <= Cardinality(Ids)
  BY FiniteIds, FS_Subset, FS_CardinalityType DEF Shrinks
<1>2. Within(Cardinality(Ids), loose, Cardinality(Pending))
  BY DEF RowsBounded, Within, Pending
<1>3. Within(Cardinality(Ids'), loose', Cardinality(Pending'))
  BY <1>1, <1>2, WithinArith, PendingFinite DEF TableTypeOK
<1> QED
  BY <1>3 DEF RowsBounded, Within, Pending

\* A trim by the limit of the total.
LEMMA TrimTotalBounded ==
  ASSUME TableTypeOK, TrimTotal
  PROVE  TotalOn => RowsBounded'
<1> SUFFICES ASSUME TotalOn PROVE RowsBounded'
  OBVIOUS
<1>1. Delete(Beyond(Ids, Total)) /\ loose' = 0
  BY DEF TrimTotal
<1>2. Ids' = Ids \ Beyond(Ids, Total)
  BY <1>1, DeleteShrinks
<1>3. IsFiniteSet(Ids') /\ Cardinality(Ids') <= Total
  BY <1>2, KeptBounded, TableAssumption
<1>4. Within(Cardinality(Ids'), loose', Cardinality(Pending'))
  BY <1>1, <1>3, WithinArith, PendingFinite, FS_CardinalityType
<1> QED
  BY <1>4 DEF RowsBounded, Within, Pending

LEMMA JobStepBounded ==
  ASSUME TableTypeOK, RowsBounded, NEW j \in Job, JobStep(j)
  PROVE  RowsBounded'
<1>k. UNCHANGED logs => Shrinks
  BY KeepsAll
<1>d. \A gone : Delete(gone) => Shrinks
  BY DeleteShrinks
<1>n. Cardinality(Ids) \in Nat /\ loose \in Nat /\ Cardinality(Pending) \in Nat
  BY FiniteIds, PendingFinite DEF TableTypeOK
<1>w. Within(Cardinality(Ids), loose, Cardinality(Pending))
  BY DEF RowsBounded, Within, Pending
<1>v. Within(Cardinality(Ids'), loose', Cardinality(Pending')) => RowsBounded'
  BY DEF RowsBounded, Within, Pending
<1>1. CASE Begin(j)
  <2>1. PICK t \in Owner, b \in BOOLEAN :
          job' = [job EXCEPT ![j] = [at |-> "running", task |-> t, boot |-> b]]
    BY <1>1 DEF Begin
  <2>2. j \notin Pending
    BY <1>1 DEF Begin, JobAt, Pending
  <2>3. job'[j].at = "running" /\ \A k \in Job \ {j} : job'[k] = job[k]
    BY <2>1 DEF TableTypeOK
  <2>4. Pending' = Pending
    BY <2>2, <2>3 DEF Pending, JobAt
  <2> QED
    BY <1>1, <1>k, <2>4, ShrinksBounded DEF Begin
<1>2. CASE KillTask(j)
  <2>1. Pending' = Pending
    BY <1>2 DEF KillTask, Pending, JobAt
  <2> QED
    BY <1>2, <1>k, <2>1, ShrinksBounded DEF KillTask
<1>3. CASE KillLogs(j)
  <2>1. [of |-> j, kill |-> TRUE] \in Row /\ Insert([of |-> j, kill |-> TRUE])
    BY <1>3 DEF KillLogs, Row
  <2>2. Cardinality(Ids') = Cardinality(Ids) + 1
    BY <2>1, InsertGrows
  <2>3. Pending' = Pending /\ loose' = loose + 1
    BY <1>3 DEF KillLogs, Pending, JobAt
  <2> QED
    BY <1>n, <1>w, <1>v, <2>2, <2>3, WithinArith
<1>4. CASE InsertRow(j)
  <2>1. [of |-> j, kill |-> FALSE] \in Row /\ Insert([of |-> j, kill |-> FALSE])
    BY <1>4 DEF InsertRow, Row
  <2>2. Cardinality(Ids') = Cardinality(Ids) + 1
    BY <2>1, InsertGrows
  <2>3. JobTo(j, "inserted") /\ "inserted" \in JobStages
    BY <1>4 DEF InsertRow, JobStages
  <2>4. j \notin Pending
    BY <1>4 DEF InsertRow, Pending, JobAt
  <2>5. CASE job[j].boot
    <3>1. Pending' = Pending /\ loose' = loose + 1
      BY <1>4, <2>3, <2>4, <2>5, PendingMoves DEF InsertRow
    <3> QED
      BY <1>n, <1>w, <1>v, <2>2, <3>1, WithinArith
  <2>6. CASE ~job[j].boot
    <3>1. Pending' = Pending \cup {j} /\ loose' = loose
      BY <1>4, <2>3, <2>6, PendingMoves DEF InsertRow
    <3>2. Cardinality(Pending') = Cardinality(Pending) + 1
      BY <2>4, <3>1, PendingFinite, FS_AddElement
    <3> QED
      BY <1>n, <1>w, <1>v, <2>2, <3>1, <3>2, WithinArith
  <2> QED
    BY <2>5, <2>6
<1>3u. CASE KillUnlogged(j)
  <2>1. Pending' = Pending
    BY <1>3u DEF KillUnlogged, Pending, JobAt
  <2> QED
    BY <1>3u, <1>k, <2>1, ShrinksBounded DEF KillUnlogged
<1>4u. CASE InsertUnread(j)
  <2>1. [of |-> j, kill |-> FALSE] \in Row /\ Insert([of |-> j, kill |-> FALSE])
    BY <1>4u DEF InsertUnread, Row
  <2>2. Cardinality(Ids') = Cardinality(Ids) + 1
    BY <2>1, InsertGrows
  <2>3. JobTo(j, "done") /\ "done" \in JobStages /\ j \notin Pending
    BY <1>4u DEF InsertUnread, JobStages, Pending, JobAt
  <2>4. Pending' = Pending /\ loose' = loose + 1
    BY <1>4u, <2>3, PendingMoves DEF InsertUnread
  <2> QED
    BY <1>n, <1>w, <1>v, <2>2, <2>4, WithinArith
<1>5. CASE NoInsert(j)
  <2>1. JobTo(j, "done") /\ "done" \in JobStages /\ j \notin Pending
    BY <1>5 DEF NoInsert, JobStages, Pending, JobAt
  <2>2. Pending' = Pending
    BY <2>1, PendingMoves
  <2> QED
    BY <1>5, <1>k, <2>2, ShrinksBounded DEF NoInsert
<1>6. CASE TrimAfter(j)
  <2>1. CASE TrimTotal
    BY <2>1, TrimTotalBounded DEF RowsBounded
  <2>2. CASE MissTotal /\ loose' = loose + 1
    <3>1. JobTo(j, "trimmed") /\ "trimmed" \in JobStages /\ j \in Pending
      BY <1>6 DEF TrimAfter, JobStages, Pending
    <3>2. Pending' = Pending \ {j}
      BY <3>1, PendingMoves
    <3>3. Cardinality(Pending') = Cardinality(Pending) - 1
      BY <3>1, <3>2, PendingFinite, FS_RemoveElement
    <3>4. Ids' \subseteq Ids
      BY <1>k, <1>d, <2>2 DEF MissTotal, Shrinks
    <3>5. Cardinality(Ids') \in Nat /\ Cardinality(Ids') <= Cardinality(Ids)
      BY <3>4, FiniteIds, FS_Subset, FS_CardinalityType
    <3>6. Within(Cardinality(Ids'), loose, Cardinality(Pending))
      BY <1>n, <1>w, <3>5, WithinArith
    <3>7. Cardinality(Pending) > 0
      BY <1>n, <3>3, PendingFinite
    <3> QED
      BY <1>n, <1>v, <2>2, <3>3, <3>5, <3>6, <3>7, WithinArith
  <2> QED
    BY <1>6, <2>1, <2>2 DEF TrimAfter
<1>7. CASE TrimTaskAfter(j)
  <2>1. JobTo(j, "done") /\ "done" \in JobStages /\ j \notin Pending
    BY <1>7 DEF TrimTaskAfter, JobStages, Pending, JobAt
  <2>2. Pending' = Pending
    BY <2>1, PendingMoves
  <2> QED
    BY <1>7, <1>k, <1>d, <2>2, ShrinksBounded DEF TrimTaskAfter, TrimPerTask, KeepPerTask
<1>8. CASE TrimStartup(j)
  <2>1. JobTo(j, "done") /\ "done" \in JobStages /\ j \notin Pending
    BY <1>8 DEF TrimStartup, JobStages, Pending
  <2>2. Pending' = Pending
    BY <2>1, PendingMoves
  <2> QED
    BY <1>8, <1>k, <1>d, <2>2, ShrinksBounded DEF TrimStartup
<1>9. CASE Aborted(j)
  <2>1. JobTo(j, "done") /\ "done" \in JobStages
    BY <1>9 DEF Aborted, JobStages
  <2>2. Pending' = Pending \ {j}
    BY <2>1, PendingMoves
  <2>3. CASE JobAt(j, "inserted")
    <3>1. j \in Pending /\ loose' = loose + 1 /\ Ids' = Ids
      BY <1>9, <2>3, KeepsAll DEF Aborted, Pending
    <3>2. Cardinality(Pending') = Cardinality(Pending) - 1
      BY <2>2, <3>1, PendingFinite, FS_RemoveElement
    <3>3. Cardinality(Pending) > 0
      BY <1>n, <3>2, PendingFinite
    <3> QED
      BY <1>n, <1>w, <1>v, <3>1, <3>2, <3>3, WithinArith
  <2>4. CASE ~JobAt(j, "inserted")
    <3>1. Pending' = Pending /\ loose' = loose
      BY <1>9, <2>2, <2>4 DEF Aborted, Pending
    <3> QED
      BY <1>9, <1>k, <3>1, ShrinksBounded DEF Aborted
  <2> QED
    BY <2>3, <2>4
<1> QED
  BY <1>1, <1>2, <1>3, <1>3u, <1>4, <1>4u, <1>5, <1>6, <1>7, <1>8, <1>9 DEF JobStep

LEMMA NextBounded ==
  ASSUME TableTypeOK, RowsBounded, [TableNext]_tableVars
  PROVE  RowsBounded'
<1>k. UNCHANGED logs => Shrinks
  BY KeepsAll
<1>d. \A gone : Delete(gone) => Shrinks
  BY DeleteShrinks
<1>p. UNCHANGED job => Pending' = Pending
  BY DEF Pending, JobAt
<1>1. CASE \E j \in Job : JobStep(j)
  BY <1>1, JobStepBounded
<1>2. CASE CleanOld
  BY <1>2, <1>d, <1>p, ShrinksBounded DEF CleanOld
<1>3. CASE CleanTotal
  <2>1. CASE TrimTotal
    BY <2>1, TrimTotalBounded DEF RowsBounded
  <2>2. CASE MissTotal /\ UNCHANGED loose
    BY <1>3, <1>k, <1>d, <1>p, <2>2, ShrinksBounded DEF CleanTotal, MissTotal
  <2> QED
    BY <1>3, <2>1, <2>2 DEF CleanTotal
<1>4. CASE CleanTask
  BY <1>4, <1>k, <1>d, <1>p, ShrinksBounded DEF CleanTask, TrimPerTask, KeepPerTask
<1>5. CASE \E i \in Ids : UserDeletes(i)
  BY <1>5, <1>d, <1>p, ShrinksBounded DEF UserDeletes
<1>6. CASE UNCHANGED tableVars
  BY <1>6, <1>k, <1>p, ShrinksBounded DEF tableVars
<1> QED
  BY <1>1, <1>2, <1>3, <1>4, <1>5, <1>6 DEF TableNext

\* The table is bounded: by the limit of the total, with the rows of the runs that have
\* still to trim and of those that, since the last trim in total that did not fail,
\* have not trimmed or have tried in vain.
THEOREM RowsAreBounded == TableSpec => []RowsBounded
<1>1. TableInit => RowsBounded
  <2> SUFFICES ASSUME TableInit PROVE RowsBounded
    OBVIOUS
  <2>1. loose = 0 /\ logs = [i \in {} |-> NoRow]
    BY DEF TableInit
  <2>2. Ids = {} /\ Cardinality(Ids) = 0
    BY <2>1, FS_EmptySet DEF Ids
  <2>3. Within(Cardinality(Ids), loose, Cardinality(Pending))
    BY <2>1, <2>2, PendingFinite, WithinArith, TableAssumption
  <2> QED
    BY <2>3 DEF RowsBounded, Within, Pending
<1>2. TableTypeOK /\ RowsBounded /\ [TableNext]_tableVars => RowsBounded'
  BY NextBounded
<1> QED
  BY <1>1, <1>2, TableTypeCorrect, PTL DEF TableSpec

=============================================================================
