---------------------------- MODULE MCCommandLog ----------------------------
(* The log window with batches of every shape up to MaxSteps steps. *)
EXTENDS CommandLog
=============================================================================
