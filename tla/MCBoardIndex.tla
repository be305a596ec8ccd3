---------------------------- MODULE MCBoardIndex ----------------------------
(* Small instances of BoardIndex for TLC.                                     *)
EXTENDS BoardIndex

CONSTANTS m1, m2, t1, t2, building, done

MCLimit == [k \in Kinds |-> CASE k = "move" -> 3 [] k = "admin" -> 2 [] OTHER -> 1]

\* A world in which the kinds of events in budget happen that often, the rest never.
World(running, homes, budget) ==
    {[home |-> h, bare |-> b, running |-> running,
      used |-> [k \in Kinds |-> MCLimit[k] - (IF k \in DOMAIN budget THEN budget[k] ELSE 0)]] :
        h \in homes, b \in BOOLEAN}

OneHome == {[t \in Tickets |-> building]}
TwoHomes == OneHome \cup {[t \in Tickets |-> IF t = t1 THEN building ELSE done]}

MCStarts ==
    World({m1}, TwoHomes, [move |-> 2, admin |-> 2, error |-> 1])
    \cup World({m1}, OneHome, [move |-> 2, admin |-> 1, blank |-> 1, quota |-> 1, crash |-> 1])
    \cup World({m1, m2}, OneHome, [move |-> 2, admin |-> 1])
    \cup World({m1, m2}, OneHome, [move |-> 2, error |-> 1, blank |-> 1, crash |-> 1])
    \cup World({m1, m2}, OneHome, [move |-> 3])
=============================================================================
