----------------------------- MODULE MCAdtSync -----------------------------
(* Small instances of AdtSync for TLC. *)
EXTENDS AdtSync

CONSTANTS m1, m2, t1, t2, building, qa, done

World(machines, tickets, env, edits, moves, humans, faults) ==
    [machines |-> machines, tickets |-> tickets, env |-> env,
     limit |-> [k \in Kinds |-> CASE k = "edit" -> edits [] k = "move" -> moves
                                  [] k = "human" -> humans [] k = "fault" -> faults]]

\* Passes that fail and die under sessions; tickets that meet in one folder
\* because github.com relabels them; passes that fail or render too early, or
\* die, under sessions and users; everything at once, a little; and two machines
\* with a ticket in common.
MCWorlds == {World({m1}, {t1}, {"error", "crash", "sidecar"}, 1, 2, 0, 2),
             World({m1}, {t1, t2}, {"error", "crash", "sidecar"}, 1, 1, 0, 1),
             World({m1}, {t1, t2}, {}, 0, 1, 2, 0),
             World({m1}, {t1}, {"error", "breach", "quota"}, 1, 2, 1, 1),
             World({m1}, {t1}, {"error", "crash", "sidecar"}, 1, 2, 1, 1),
             World({m1}, {t1}, Behaviours, 0, 1, 1, 1),
             World({m1, m2}, {t1}, {}, 0, 1, 1, 0)}

\* A session that edits a file while a pass pushes it.
LateEditWorlds == {World({m1}, {t1}, {"midpass"}, 2, 0, 0, 0)}

\* github.com lists labels in an order of its own; any fixed one will do.
Rank == [l \in Lanes |-> CASE l = building -> 1 [] l = done -> 2 [] l = qa -> 3]
MCLastStage == [L \in SUBSET Lanes |->
    IF L = {} THEN None
    ELSE CHOOSE l \in L : \A k \in L : Rank[k] <= Rank[l]]
=============================================================================
