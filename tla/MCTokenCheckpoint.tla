------------------------- MODULE MCTokenCheckpoint --------------------------
(* Small instances of TokenCheckpoint for TLC. *)
EXTENDS TokenCheckpoint
=============================================================================
