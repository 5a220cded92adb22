------------------------------- MODULE MCPower -------------------------------
(* The power timers with short minutes, and keep awake. *)
EXTENDS Power
=============================================================================
