-------------------------- MODULE MCPullWatermark ---------------------------
(* Small instances of PullWatermark for TLC. *)
EXTENDS PullWatermark
=============================================================================
