------------------------ MODULE MCDependenceService ------------------------
(* Instances of DependenceService for TLC. *)
EXTENDS DependenceService, TLC

Symmetry ==
  Permutations(Id) \cup Permutations(Package) \cup Permutations(Client) \cup Permutations(Job)
=============================================================================
