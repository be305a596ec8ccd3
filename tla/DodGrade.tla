------------------------------ MODULE DodGrade ------------------------------
(* The Definition-of-Done grader of tools/adt_dod.py, as operators.  A DoD is *)
(* the sequence of conditions of a ticket's done_evidence list.  The text of  *)
(* a condition is reduced to the command (or the artifact) it names, and a    *)
(* tree says what each command does now and what it did at the pinned commit. *)
EXTENDS Integers, Sequences, FiniteSets

CONSTANTS
    Cmds,       \* commands and artifacts that conditions name
    Ids,        \* values of id:
    None        \* an absent field

ASSUME DodGradeAssumption == None \notin Ids

Lanes == {"build", "done"}

\* An entry of done_evidence as parse_done_evidence returns it: an entry
\* whose kind is not known stays an entry.
Condition ==
    [kind : {"run", "regex", "prose"}, cmd : Cmds, lane : Lanes \cup {None},
     id : Ids \cup {None}, deps : SUBSET Ids, pin : {"none", "plan", "sha"},
     refOnly : BOOLEAN]

\* "idle" is an exit code of 0 from a runner that says it ran nothing.
Tree == [now  : [Cmds -> {"green", "idle", "red", "norun"}],
         past : [Cmds -> {"green", "red", "norun"}]]

LaneOf(c) == IF c.lane # None THEN c.lane
             ELSE IF c.kind = "regex" THEN "done" ELSE "build"

Checkable(c) == c.kind \in {"run", "regex"}

-----------------------------------------------------------------------------
(* Grading one condition: "pass", "fail" or "unknown" (can't verify). *)

GradeRegex(c, tree) ==
    CASE tree.now[c.cmd] = "norun" -> "unknown"
      [] tree.now[c.cmd] = "green" -> "pass"
      [] OTHER -> "fail"

\* What the command did at the condition's pin; "plan" names no commit.
Replay(c, tree) == IF c.pin = "plan" THEN "norun" ELSE tree.past[c.cmd]

GradeRun(c, tree) ==
    LET now == tree.now[c.cmd]
    IN  IF now = "norun" THEN "unknown"
        ELSE IF now = "idle" THEN "fail"
        ELSE IF c.pin = "none" THEN IF now = "green" THEN "pass" ELSE "fail"
        ELSE IF c.refOnly THEN "unknown"
        ELSE IF now = "red" THEN "fail"
        ELSE CASE Replay(c, tree) = "red"   -> "pass"
               [] Replay(c, tree) = "green" -> "fail"
               [] Replay(c, tree) = "norun" -> "unknown"

GradeOne(c, tree) ==
    CASE c.kind = "regex" -> GradeRegex(c, tree)
      [] c.kind = "run"   -> GradeRun(c, tree)
      [] c.kind = "prose" -> "unknown"

-----------------------------------------------------------------------------
(* Grading a slice: places in the list, each with a grade.  The slice is      *)
(* taken before the edges are resolved, so an edge to a condition of another  *)
(* lane names nothing.                                                        *)

Slice(dod, lane) == {i \in DOMAIN dod : LaneOf(dod[i]) = lane}

Named(dod, slice, d) == {i \in slice : dod[i].id = d}

\* The condition an id stands for: the last one that carries it.
Upstream(dod, slice, d) ==
    CHOOSE i \in Named(dod, slice, d) : \A j \in Named(dod, slice, d) : j <= i

\* One pass over the edges, in the order of the list: a condition sees those
\* before it as the pass has left them, and those after it as they were graded.
Left(dod, slice, raw, final, i) ==
    IF \E d \in dod[i].deps :
         \/ Named(dod, slice, d) = {}
         \/ LET u == Upstream(dod, slice, d)
            IN  (IF u < i THEN final[u] ELSE raw[u]) # "pass"
    THEN "unknown" ELSE raw[i]

Ordered(dod, slice, raw) ==
    LET final[i \in slice] == Left(dod, slice, raw, final, i) IN final

Raw(dod, slice, tree) == [i \in slice |-> GradeOne(dod[i], tree)]

Check(dod, tree, lane) ==
    LET slice == Slice(dod, lane) IN Ordered(dod, slice, Raw(dod, slice, tree))

GradesIn(grades) == {grades[i] : i \in DOMAIN grades}

\* A bug: what could not be verified is reported in place of what failed.
VerdictWarnsFirst(grades) ==
    IF "unknown" \in GradesIn(grades) THEN "WARN"
    ELSE IF "fail" \in GradesIn(grades) THEN "DENY" ELSE "OK"

Verdict(grades) ==
    IF "fail" \in GradesIn(grades) THEN "DENY"
    ELSE IF "unknown" \in GradesIn(grades) THEN "WARN" ELSE "OK"

-----------------------------------------------------------------------------
(* The structural half of the approval gate. *)

Unsupported(dod) == {i \in DOMAIN dod : ~Checkable(dod[i])}

\* An edge to an id nobody declares.
Undeclared(dod) ==
    \E i \in DOMAIN dod : \E d \in dod[i].deps : Named(dod, DOMAIN dod, d) = {}

\* A set of ids each of which has an edge into the set.
Cyclic(dod) ==
    \E S \in SUBSET ({dod[i].id : i \in DOMAIN dod} \ {None}) :
        S # {} /\ \A d \in S : dod[Upstream(dod, DOMAIN dod, d)].deps \cap S # {}

\* A bug: an edge to an id nobody declares goes unseen.
CyclicOnly(dod) == Cyclic(dod)

DependencyDefects(dod) == Undeclared(dod) \/ Cyclic(dod)

-----------------------------------------------------------------------------
(* Which lists and trees the promises of the grader are about. *)

\* No id is used twice.
Distinct(dod) == \A i, j \in DOMAIN dod :
    dod[i].id = dod[j].id => i = j \/ dod[i].id = None

\* No edge leaves its lane.
SameLane(dod) == \A i \in DOMAIN dod : \A d \in dod[i].deps :
    \A j \in Named(dod, DOMAIN dod, d) : LaneOf(dod[j]) = LaneOf(dod[i])

\* All work is done: every command is green, and was red before it.
AllDone == [now |-> [c \in Cmds |-> "green"], past |-> [c \in Cmds |-> "red"]]

Replayable(c) == c.pin = "none" \/ (c.pin = "sha" /\ ~c.refOnly)
=============================================================================
