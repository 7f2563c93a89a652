-------------------------- MODULE MCTaskScheduler --------------------------
(* Instances of TaskScheduler for TLC. *)
EXTENDS TaskScheduler, TLC

Symmetry == Permutations(Handler) \cup Permutations(Task)
=============================================================================
