--------------------------- MODULE MCPlatformCall ---------------------------
(* PlatformCall with its bounds chosen for TLC by the configurations. *)
EXTENDS PlatformCall
=============================================================================
