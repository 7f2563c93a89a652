--------------------------- MODULE MCTaskExecutor ---------------------------
(* Instances of TaskExecutor for TLC. *)
EXTENDS TaskExecutor, TLC

Symmetry == Permutations(Exec) \cup Permutations(Task) \cup Permutations(Pid)
=============================================================================
