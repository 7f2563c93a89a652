--------------------------- MODULE AtomicSchedule ---------------------------
(***************************************************************************)
(* What a scheduler promises that reloads its jobs under one lock: whoever  *)
(* looks finds the jobs of one state of the table, of no other, and of no   *)
(* two states at once, or fewer of them.  It may find none while a reload   *)
(* stands between its drain and its query, or after one that failed.        *)
(***************************************************************************)
CONSTANTS
  Sub,  \* ids of the rows
  Row   \* the rows there can be, each with a field "wanted": it should have a job

VARIABLES
  table,    \* the rows
  schedule  \* the jobs: pairs of an id and the row the job was made of

vars == <<table, schedule>>

\* One job for every wanted row.
Wanted(t) == {[sub |-> s, row |-> t[s]] : s \in {u \in Sub : t[u].wanted}}

Init ==
  /\ table \in [Sub -> Row]
  /\ schedule = {}

Edit(s) ==
  /\ \E r \in Row : table' = [table EXCEPT ![s] = r]
  /\ UNCHANGED schedule

\* A restore replaces the whole table.
Replace ==
  /\ table' \in [Sub -> Row]
  /\ UNCHANGED schedule

\* A reload begins, or the server stops.
Clear ==
  /\ schedule' = {}
  /\ UNCHANGED table

\* A reload reads the table: all its jobs take effect at once, and none are left over.
Load ==
  /\ schedule = {}
  /\ schedule' = Wanted(table)
  /\ UNCHANGED table

\* A reload is cut short: some of its jobs are missing.
Lose ==
  /\ schedule' \subseteq schedule
  /\ UNCHANGED table

Next == Replace \/ Clear \/ Load \/ Lose \/ \E s \in Sub : Edit(s)

Spec == Init /\ [][Next]_vars

\* No row has two jobs, not even of different states of it: an expression that was
\* edited fires no more once the new one does.
OneJobEach == \A i, j \in schedule : i.sub = j.sub => i = j
=============================================================================
