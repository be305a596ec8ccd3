----------------------------- MODULE MCPlanGate -----------------------------
(* Small instances of PlanGate: a plan that is edited and reviewed, and plans *)
(* of every shape whose reviews are over.                                     *)
EXTENDS PlanGate

CONSTANTS c1, c2, a, b, f, Edits, Reviews, Recordings, Rebuilds, Works

MCLimit == [k \in Kinds |-> CASE k = "edit" -> Edits [] k = "review" -> Reviews
              [] k = "record" -> Recordings [] k = "rebuild" -> Rebuilds
              [] k = "work" -> Works]

Cond(kind, cmd, id, deps, pin) ==
    [kind |-> kind, cmd |-> cmd, lane |-> None, id |-> id, deps |-> deps,
     pin |-> pin, refOnly |-> FALSE]

Conds ==
    LET A == Cond("run", c1, a, {}, "none")
        B == Cond("run", c2, b, {a}, "none")
    IN  {A, B,
         [A EXCEPT !.pin = "sha"], [A EXCEPT !.pin = "plan"],
         [A EXCEPT !.pin = "sha", !.refOnly = TRUE], [A EXCEPT !.deps = {b}],
         [A EXCEPT !.lane = "done"],
         [B EXCEPT !.lane = "done"], [B EXCEPT !.deps = {}],
         Cond("regex", c2, b, {a}, "none"), Cond("regex", c2, b, {}, "none"),
         Cond("run", c1, None, {b}, "none"), Cond("prose", c2, None, {}, "none")}

Dods == UNION {[1..n -> Conds] : n \in 0..3}

Text(dod, touches, borrows) ==
    [design |-> 0, dod |-> dod, touches |-> touches, caveat |-> FALSE,
     drifted |-> FALSE, borrows |-> borrows]

OneRun == <<Cond("run", c1, a, {}, "none")>>
Good == Text(OneRun, {}, "uncited")

MCSpecs == {Good, [Good EXCEPT !.touches = {f}],
            [Good EXCEPT !.touches = {f}, !.dod = <<Cond("run", c2, a, {}, "sha")>>],
            [Good EXCEPT !.borrows = "right", !.design = 1]}

Passed(s) == <<[gate |-> "coverage", verdict |-> "COVERED", rests |-> {},
                exact |-> TRUE, of |-> s],
               [gate |-> "plan-quality", verdict |-> "SOUND", rests |-> {},
                exact |-> TRUE, of |-> s]>>

Trees == [now : [Cmds -> {"green", "idle", "red", "norun"}],
          past : {p \in [Cmds -> {"green", "red", "norun"}] : p[c2] = "red"}]

\* At most one thing is wrong with a close.
MCClosings ==
    LET fine == [stamped |-> TRUE, shown |-> TRUE, priced |-> TRUE, links |-> TRUE,
                 fresh |-> "fresh"]
    IN  {fine, [fine EXCEPT !.stamped = FALSE], [fine EXCEPT !.shown = FALSE],
         [fine EXCEPT !.priced = FALSE], [fine EXCEPT !.links = FALSE],
         [fine EXCEPT !.fresh = "stale"], [fine EXCEPT !.fresh = "no watcher"]}

Fresh == {[spec |-> Good, tree |-> AllDone, blocks |-> <<>>, judged |-> j,
           used |-> [k \in Kinds |-> IF k = "work" THEN Works ELSE 0]] :
             j \in BOOLEAN}

Over == {[spec |-> s, tree |-> t, blocks |-> Passed(s),
          judged |-> TRUE,
          used |-> [MCLimit EXCEPT !["work"] = IF Len(s.dod) < 3 THEN 0 ELSE Works]] :
            t \in Trees,
            s \in {Text(d, {}, "right") : d \in Dods}
                  \cup {[Good EXCEPT !.caveat = TRUE], [Good EXCEPT !.drifted = TRUE]}
                  \cup {[Good EXCEPT !.borrows = x] : x \in Borrows}}

MCStarts == Fresh \cup Over
=============================================================================
