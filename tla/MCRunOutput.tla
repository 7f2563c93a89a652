---------------------------- MODULE MCRunOutput ----------------------------
(* Instances of RunOutput for TLC. *)
EXTENDS RunOutput, TLC
=============================================================================
