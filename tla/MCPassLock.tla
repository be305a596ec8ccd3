----------------------------- MODULE MCPassLock -----------------------------
(* Small instances of PassLock for TLC. *)
EXTENDS PassLock
=============================================================================
