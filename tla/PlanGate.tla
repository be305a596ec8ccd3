------------------------------ MODULE PlanGate ------------------------------
(* The life of one ticket's plan: it is edited, reviewed, its verdicts are    *)
(* recorded, tools/adt_dod.py --gate lets the build start, the build changes  *)
(* the tree, and defaults/hooks/adt-done-guard.sh lets the ticket into the    *)
(* done lane.  Reviewers, authors and builders act whenever they like.        *)
EXTENDS DodGrade, FiniteSetsExt

CONSTANTS
    Files,      \* code files a plan may touch or a verdict may rest on
    Specs,      \* the texts of the ticket
    Starts,     \* [spec, tree, blocks, judged, used] a ticket starts as
    Headings,   \* TRUE: a block's heading is exact, FALSE: "(round 2)" follows
    Closings,   \* what the guard may find out about a close
    Limit       \* how often each kind of event may happen

Kinds == {"edit", "review", "record", "rebuild", "work"}
Gates == {"coverage", "plan-quality"}
Negative == {"GAP", "FLAWED", "UNKNOWN"}
\* "silent": the block has no verdict line.
Verdicts == [g \in Gates |-> IF g = "coverage" THEN {"COVERED", "GAP", "silent"}
                             ELSE {"SOUND", "FLAWED", "silent"}]

\* What --gate reads of a text.  Its graded sections and done_evidence are
\* what the graded-text hash tells apart, so the text is its own hash.
Borrows == {"uncited", "undeclared", "right", "wrong", "unresolved"}
PlanText == [design : Nat, dod : Seq(Condition), touches : SUBSET Files,
          caveat : BOOLEAN, drifted : BOOLEAN, borrows : Borrows]

\* A verdict block, and (history) the text it was written about.
Block == {k \in [gate : Gates, verdict : UNION {Verdicts[g] : g \in Gates},
                 rests : SUBSET Files, exact : BOOLEAN, of : PlanText] :
            k.verdict \in Verdicts[k.gate]}

\* A row of frontmatter gate_effects, kind: record.
Row == [gate : Gates, verdict : UNION {Verdicts[g] : g \in Gates},
        hash : PlanText, rests : SUBSET Files]

ASSUME PlanGateAssumption ==
    /\ None \notin UNION {Verdicts[g] : g \in Gates}
    /\ Specs \subseteq PlanText /\ Headings \subseteq BOOLEAN
    /\ \A s \in Starts : /\ s.spec \in PlanText /\ s.blocks \in Seq(Block)
                         /\ s.tree \in Tree /\ s.used \in [Kinds -> Nat]

VARIABLES
    spec,       \* the ticket's text
    blocks,     \* the verdict blocks in its body, in the order they were added
    rows,       \* frontmatter gate_effects, kind: record
    derived,    \* frontmatter gate_effects, kind: derived, per gate
    snaps,      \* frontmatter dod_snapshot
    judged,     \* the plan-quality reviewer may refuse (calibrated, track: full)
    lane,       \* "planned", "building" or "done"
    tree,       \* what the commands do
    moved,      \* the code has changed since the plan was written
    started,    \* history: text and blocks when the build started
    turned,     \* history: gates a negative verdict of which the text answered
    used

vars == <<spec, blocks, rows, derived, snaps, judged, lane, tree, moved,
          started, turned, used>>

record == <<rows, derived, snaps>>

Spend(k) == /\ used[k] < Limit[k]
            /\ used' = [used EXCEPT ![k] = @ + 1]

-----------------------------------------------------------------------------
(* Reading the ticket *)

BlocksOf(g) == {i \in DOMAIN blocks : blocks[i].gate = g}

\* A bug: the first block is read, so round 1's answer stands for ever (ADT-224).
GateReadsFirst(g) ==
    LET exact == {i \in BlocksOf(g) : blocks[i].exact}
    IN  IF exact = {} THEN None ELSE blocks[Min(exact)].verdict

\* coverage_review and plan_review: from the last exact heading to the end of
\* the file, the first verdict line.
GateReads(g) ==
    LET exact == {i \in BlocksOf(g) : blocks[i].exact}
        lines == {i \in DOMAIN blocks : i >= Max(exact) /\ blocks[i].verdict # "silent"}
    IN  IF exact = {} THEN None
        ELSE IF lines = {} THEN "silent" ELSE blocks[Min(lines)].verdict

\* _gate_verdict: the last block, whatever follows its heading, and no further.
BlockVerdict(g) == IF BlocksOf(g) = {} THEN None
                   ELSE blocks[Max(BlocksOf(g))].verdict

Records(rs, g) == {i \in DOMAIN rs : rs[i].gate = g}

\* A bug: a later round that rests on nothing erases what an earlier one
\* declared (AO-006).
ReopenedByLast(g) ==
    LET mine == Records(rows, g)
    IN  IF mine = {} THEN {}
        ELSE IF rows[Max(mine)].hash = spec THEN {}
        ELSE rows[Max(mine)].rests \cap spec.touches

\* Dependencies of the newest row that declares any, when the text has moved
\* since the newest row and the work-set names the file.
Reopened(g) ==
    LET mine == Records(rows, g)
        declared == {i \in mine : rows[i].rests # {}}
    IN  IF declared = {} \/ rows[Max(mine)].hash = spec THEN {}
        ELSE rows[Max(declared)].rests \cap spec.touches

\* unattached_caveats
UnattachedCaveats == spec.caveat

\* ungraded_sections: some headings of graded sections match, others do not.
UngradedSections == spec.drifted

BorrowDefects(s) ==
    CASE s.borrows \in {"undeclared", "wrong"}   -> {"BORROW"}
      [] s.borrows = "right" /\ moved            -> {"BORROW"}
      [] s.borrows = "unresolved"                -> {"SKIPPED"}
      [] OTHER                                   -> {}

-----------------------------------------------------------------------------
(* The gate *)

InPlanLane == lane = "planned"

Structured ==
    /\ spec.dod # <<>>
    /\ Unsupported(spec.dod) = {}
    /\ ~DependencyDefects(spec.dod)
    /\ ~UnattachedCaveats

\* A bug: the plan is read again after the build has changed the code (#421).
ReadAlways == /\ "BORROW" \notin BorrowDefects(spec)
              /\ \A g \in Gates : Reopened(g) = {}

Read == InPlanLane => /\ "BORROW" \notin BorrowDefects(spec)
                      /\ \A g \in Gates : Reopened(g) = {}

\* plan_gate_applies: its reviewer is calibrated and the ticket is track: full.
PlanGateApplies == judged

Reviewed == /\ GateReads("coverage") = "COVERED"
            /\ PlanGateApplies => GateReads("plan-quality") = "SOUND"

Approvable == Structured /\ Read /\ Reviewed

\* --check-authoring: the same checks in an enumeration of its own, and one more.
AuthoringDefects ==
    {d \in {"PROSE", "DEPS", "CAVEAT", "SECTION", "REOPENED"} :
        CASE d = "PROSE"    -> Unsupported(spec.dod) # {}
          [] d = "DEPS"     -> DependencyDefects(spec.dod)
          [] d = "CAVEAT"   -> UnattachedCaveats
          [] d = "SECTION"  -> UngradedSections
          [] d = "REOPENED" -> \E g \in Gates : Reopened(g) # {}}
    \cup BorrowDefects(spec)

CheckAuthoringFails == InPlanLane /\ AuthoringDefects \ {"SKIPPED"} # {}

-----------------------------------------------------------------------------
(* The done guard, k is what it finds out about the close:                    *)
(* [stamped, shown, priced, links : BOOLEAN,                                  *)
(*  fresh : {"fresh", "stale", "no watcher"}]                                 *)
(* shown: the body shows a DoD.  priced: what the commits make of the         *)
(* infrastructure has its recurring_cost.                                     *)

GuardDecision(k) ==
    LET graded == Verdict(Check(spec.dod, tree, "done"))
    IN  IF ~k.stamped THEN "DENY"
        ELSE IF k.shown /\ spec.dod = <<>> THEN "DENY"
        ELSE IF graded # "OK" THEN graded
        ELSE IF ~k.priced \/ ~k.links THEN "DENY"
        ELSE IF k.fresh = "no watcher" THEN "WARN"
        ELSE IF k.fresh = "stale" THEN "DENY" ELSE "OK"

-----------------------------------------------------------------------------
(* Steps *)

Init ==
    /\ \E s \in Starts : /\ spec = s.spec
                         /\ tree = s.tree
                         /\ blocks = s.blocks
                         /\ judged = s.judged
                         /\ used = s.used
    /\ rows = <<>> /\ snaps = <<>>
    /\ derived = None
    /\ lane = "planned"
    /\ moved = FALSE
    /\ started = None
    /\ turned = {}

Edit == \E s \in Specs \ {spec} :
    /\ lane # "done"
    /\ Spend("edit")
    /\ spec' = s
    /\ turned' = turned \cup
         {g \in Gates : \E i \in BlocksOf(g) : blocks[i].verdict \in Negative}
    /\ UNCHANGED <<blocks, record, judged, lane, tree, moved, started>>

\* A reviewer answers: the session adds its block to the body.
Review(g) == \E v \in Verdicts[g], rests \in SUBSET Files, exact \in Headings :
    /\ lane = "planned"
    /\ g = "plan-quality" => rests = {}
    /\ Spend("review")
    /\ blocks' = Append(blocks, [gate |-> g, verdict |-> v, rests |-> rests,
                                 exact |-> exact, of |-> spec])
    /\ UNCHANGED <<spec, record, judged, lane, tree, moved, started, turned>>

\* j is the row of g that was recorded after row i.
Follows(rs, g, i, j) == i < j /\ \A k \in Records(rs, g) : k <= i \/ j <= k

\* A bug: every row whose text differs from the one before is an edit caused.
CausedAnyEdit(rs, g) ==
    \E i, j \in Records(rs, g) : /\ Follows(rs, g, i, j)
                                 /\ rs[i].hash # rs[j].hash

\* derive_gate_effects, from the rows it is given
CausedEdit(rs, g) ==
    \E i, j \in Records(rs, g) : /\ Follows(rs, g, i, j)
                                 /\ rs[i].verdict \in Negative
                                 /\ rs[i].hash # rs[j].hash

Derived(rs) ==
    [g \in Gates |->
        [ran |-> Cardinality(Records(rs, g)), caused |-> CausedEdit(rs, g),
         under |-> BlockVerdict(g) # None /\ Records(rs, g) = {}]]

\* record_verdict: a row of the block's verdict and of the text as it is now.
NewRow(g) ==
    [gate |-> g, verdict |-> BlockVerdict(g), hash |-> spec,
     rests |-> blocks[Max(BlocksOf(g))].rests]

\* done_evidence without its order: how often each condition occurs.
Digest(dod) == [c \in {dod[i] : i \in DOMAIN dod} |->
                  Cardinality({i \in DOMAIN dod : dod[i] = c})]

\* snapshot_dod
Snapped == IF snaps # <<>> /\ snaps[Len(snaps)] = Digest(spec.dod) THEN snaps
           ELSE Append(snaps, Digest(spec.dod))

Record(g) ==
    /\ BlockVerdict(g) # None
    /\ Spend("record")
    /\ rows' = Append(rows, NewRow(g))
    /\ derived' = Derived(rows')
    /\ snaps' = Snapped
    /\ UNCHANGED <<spec, blocks, judged, lane, tree, moved, started, turned>>

\* The cache file is rebuilt from the Issue, which has none of the rows.
Rebuild ==
    /\ Spend("rebuild")
    /\ rows' = <<>> /\ snaps' = <<>> /\ derived' = None
    /\ UNCHANGED <<spec, blocks, judged, lane, tree, moved, started, turned>>

StartBuild ==
    /\ lane = "planned"
    /\ Approvable
    /\ lane' = "building"
    /\ started' = [spec |-> spec, blocks |-> blocks]
    /\ UNCHANGED <<spec, blocks, record, judged, tree, moved, turned, used>>

\* A commit of the build, or a tool that starts or stops working.
Work == \E c \in Cmds, o \in {"green", "idle", "red", "norun"} :
    /\ lane = "building"
    /\ Spend("work")
    /\ tree' = [tree EXCEPT !.now[c] = o]
    /\ moved' = TRUE
    /\ UNCHANGED <<spec, blocks, record, judged, lane, started, turned>>

MoveDone == \E k \in Closings :
    /\ lane = "building"
    /\ GuardDecision(k) # "DENY"
    /\ lane' = "done"
    /\ UNCHANGED <<spec, blocks, record, judged, tree, moved, started, turned,
                   used>>

Next ==
    \/ Edit \/ Rebuild \/ StartBuild \/ Work \/ MoveDone
    \/ \E g \in Gates : Review(g) \/ Record(g)

Spec == Init /\ [][Next]_vars

-----------------------------------------------------------------------------
TypeOK ==
    /\ spec \in PlanText
    /\ blocks \in Seq(Block) /\ rows \in Seq(Row)
    /\ snaps \in Seq({Digest(s.dod) : s \in PlanText})
    /\ tree \in Tree
    /\ lane \in {"planned", "building", "done"}
    /\ lane = "planned" => started = None
    /\ used \in [Kinds -> Nat]

\* A gate's rows say what its blocks say, each of the text that was reviewed:
\* every verdict was recorded once, before the text moved on.
Faithful(g) ==
    \E told \in [Records(rows, g) -> BlocksOf(g)] :
        /\ \A b \in BlocksOf(g) : \E r \in Records(rows, g) : told[r] = b
        /\ \A r, t \in Records(rows, g) : r < t <=> told[r] < told[t]
        /\ \A r \in Records(rows, g) : /\ rows[r].hash = blocks[told[r]].of
                                       /\ rows[r].rests = blocks[told[r]].rests

\* While verdicts are recorded as they come, no build starts on a coverage
\* verdict that rests on a file the plan now touches, unless the newest review
\* read the very text the build starts on (reopened_dependencies).
RestsAreCurrent ==
    LET mine == BlocksOf("coverage")
        declared == {i \in mine : blocks[i].rests # {}}
    IN  InPlanLane /\ Approvable /\ Faithful("coverage") /\ declared # {} =>
          \/ blocks[Max(declared)].rests \cap spec.touches = {}
          \/ blocks[Max(mine)].of = spec

\* A gate is credited with an edit only when the text moved after it had said
\* no, and the DoD with no more amendments than there were edits, whatever was
\* recorded late, twice, not at all, or lost (caused_edit, dod_amendments).
Amendments == IF snaps = <<>> THEN 0
              ELSE Cardinality({snaps[i] : i \in DOMAIN snaps}) - 1

CreditIsEarned ==
    /\ derived # None => \A g \in Gates : derived[g].caused => g \in turned
    /\ Amendments <= used["edit"]

\* The gate reads blocks under an exact heading to the end of the file, the recorder
\* any block of the gate to its own end.  Whatever the headings, the gate never passes
\* on a verdict that a later round under an exact heading has replaced; it passes
\* exactly when the row recorded next would carry the verdict, but where that round's
\* heading has a suffix; and --gate refuses a text with a DoD and its verdicts exactly
\* when --check-authoring has a defect to report, unless the defect is a heading that
\* drifted.
Passing(g) == IF g = "coverage" THEN "COVERED" ELSE "SOUND"

LastIsExact(g) == BlocksOf(g) # {} => blocks[Max(BlocksOf(g))].exact

PassIsNewest(g) == GateReads(g) = Passing(g) =>
    \E i \in BlocksOf(g) : /\ blocks[i].verdict = Passing(g)
                           /\ \A j \in BlocksOf(g) : blocks[j].exact => j <= i

SameReading(g) == LastIsExact(g) =>
    (GateReads(g) = Passing(g) <=> BlockVerdict(g) = Passing(g))

ReadersAgree ==
    /\ \A g \in Gates : PassIsNewest(g) /\ SameReading(g)
    /\ InPlanLane /\ ~UngradedSections /\ spec.dod # <<>> /\ Reviewed =>
         (Approvable <=> ~CheckAuthoringFails)

\* An approval that nobody touched survives the build: the gate that runs again
\* before release does not refuse what the build's own diff brought about.
ApprovalSurvives ==
    lane = "building" /\ started = [spec |-> spec, blocks |-> blocks] => Approvable

\* A failing condition denies its slice, however the list is ordered, as long
\* as every condition could be graded, no id is used twice and no edge leaves
\* its lane (check's edge pass, verdict).
FailureSurfaces ==
    ~DependencyDefects(spec.dod) /\ Distinct(spec.dod) /\ SameLane(spec.dod) =>
        \A l \in Lanes :
            LET raw == Raw(spec.dod, Slice(spec.dod, l), tree)
            IN  "unknown" \notin GradesIn(raw) =>
                  (Verdict(Check(spec.dod, tree, l)) = "DENY"
                     <=> "fail" \in GradesIn(raw))

\* A DoD the gate lets through can be met: when all work is done every slice is
\* green, if its edges stay inside lanes and its pins can be replayed.
ApprovedIsSatisfiable ==
    /\ Structured /\ SameLane(spec.dod)
    /\ \A i \in DOMAIN spec.dod : Replayable(spec.dod[i])
    => \A l \in Lanes : Verdict(Check(spec.dod, AllDone, l)) = "OK"

=============================================================================
