--------------------------- MODULE MCSubscription ---------------------------
(* Instances of Subscription for TLC. *)
EXTENDS Subscription, TLC

Symmetry ==
  Permutations(Handler) \cup Permutations(Run) \cup Permutations(Sub) \cup Permutations(Name)
    \cup Permutations(Task)
=============================================================================
