----------------------------- MODULE MCMessenger -----------------------------
(* Messenger with its bounds chosen for TLC by the configurations. *)
EXTENDS Messenger
=============================================================================
