---------------------------- MODULE MCWatchTick -----------------------------
(* Small instances of WatchTick for TLC. *)
EXTENDS WatchTick

CONSTANTS Edits, Moves, Remotes, Obstacles, Kills

MCLimit == [k \in Kinds |-> CASE k = "edit" -> Edits [] k = "move" -> Moves
                              [] k = "remote" -> Remotes [] k = "kill" -> Kills
                              [] OTHER -> Obstacles]
=============================================================================
