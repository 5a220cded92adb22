------------------------------- MODULE MCRelief -------------------------------
(* System Relief on a small process table. *)
EXTENDS Relief
=============================================================================
