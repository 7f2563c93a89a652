---------------------- MODULE MCSubscriptionScheduler ----------------------
(* Instances of SubscriptionScheduler for TLC. *)
EXTENDS SubscriptionScheduler, TLC

Symmetry == Permutations(Handler) \cup Permutations(Sub)
=============================================================================
