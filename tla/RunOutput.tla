----------------------------- MODULE RunOutput -----------------------------
(***************************************************************************)
(* What runs leave for others to see: lines (LogStream), the list of        *)
(* running tasks (RunningFeed) and rows of the table logs (LogTable).       *)
(*                                                                          *)
(* The three share no state: each has its own maps, channels or table, and  *)
(* steps of one neither enable nor disable those of another.  A behaviour   *)
(* follows one of those in Followed, and the others stand still.            *)
(***************************************************************************)
EXTENDS LogStream, RunningFeed, LogTable

CONSTANT Followed

ASSUME FollowedAssumption == Followed \subseteq {"lines", "list", "rows"}

VARIABLE followed

vars == <<streamVars, feedVars, tableVars, followed>>

Init ==
  /\ StreamInit /\ FeedInit /\ TableInit
  /\ followed \in Followed

Next ==
  /\ UNCHANGED followed
  /\ \/ followed = "lines" /\ StreamNext /\ UNCHANGED <<feedVars, tableVars>>
     \/ followed = "list" /\ FeedNext /\ UNCHANGED <<streamVars, tableVars>>
     \/ followed = "rows" /\ TableNext /\ UNCHANGED <<streamVars, feedVars>>

Spec == Init /\ [][Next]_vars /\ StreamFairness
=============================================================================
