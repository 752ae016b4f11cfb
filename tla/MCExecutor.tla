----------------------------- MODULE MCExecutor -----------------------------
(* Executor with its bounds chosen for TLC by the configuration. *)
EXTENDS Executor
=============================================================================
