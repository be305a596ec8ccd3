--------------------------- MODULE PlanGateProofs ---------------------------
(***************************************************************************)
(* The promises of the grader and of the plan gate, for a DoD of any       *)
(* length, any texts, files, reviews and limits, and for tickets that      *)
(* start with any verdict blocks.                                          *)
(*                                                                         *)
(* The grader.  Ordered refers to itself, so the first fact is that the    *)
(* pass leaves anything at all: PassExists, by the least length for which  *)
(* it would not.  After that no argument needs the order of the list.  A   *)
(* failure that did not surface would have been taken for "unknown"        *)
(* through an edge, that edge would lead to another place that did not     *)
(* pass, and so on: the ids on the way are a cycle, which the gate refuses.*)
(*                                                                         *)
(* The gate.  What a gate is credited with is a function of its rows, and  *)
(* rows are written late, twice or not at all: RecordInv ties them to what *)
(* happened.  A gate that has said no either saw the text move since, or   *)
(* every row it has from then on carries the hash of the text as it is, so *)
(* no two of them can differ (CreditInv); that it said no is in the body   *)
(* (SaidInv), so the next edit counts as an answer.                        *)
(*                                                                         *)
(* What was approved stays approved as reviews end when the build starts:  *)
(* ApprovedInv speaks of the text the build started on, not the ticket's,  *)
(* since a text may be edited away and back.                               *)
(*                                                                         *)
(* A resting ticket is told of the text it has: rows and blocks of a gate  *)
(* can be matched in order, so the last row tells of the last block.       *)
(***************************************************************************)
EXTENDS PlanGate, WellFoundedInduction, FiniteSetTheorems, TLAPS

(* Numbers *)

\* By well-founded induction on the numbers.
LEMMA Least ==
    ASSUME NEW T \in SUBSET Nat, T # {}
    PROVE  \E x \in T : \A y \in T : x <= y
<1> DEFINE R == OpToRel(<, Nat)
<1>1. IsWellFoundedOn(R, Nat)
    BY NatLessThanWellFounded, Zenon
<1>2. \A a, b \in Nat : a < b => <<a, b>> \in R
    BY DEF OpToRel
<1> HIDE DEF R
<1>3. PICK x \in T : \A y \in T : ~ (<<y, x>> \in R)
    BY <1>1, WFMin, Zenon
<1>4. ASSUME NEW y \in T PROVE ~(y < x)
    BY <1>2, <1>3
<1> QED BY <1>3, <1>4

\* The least distance from the bound.
LEMMA Greatest ==
    ASSUME NEW n \in Nat, NEW T \in SUBSET (0..n), T # {}
    PROVE  \E x \in T : \A y \in T : y <= x
<1> DEFINE D == {n - y : y \in T}
<1>1. D \in SUBSET Nat /\ D # {}
    <2>1. \A y \in T : n - y \in Nat
        OBVIOUS
    <2>2. PICK y \in T : TRUE
        OBVIOUS
    <2>3. n - y \in D
        BY <2>2
    <2> QED BY <2>1, <2>3
<1>2. PICK m \in D : \A k \in D : m <= k
    <2> HIDE DEF D
    <2> QED BY <1>1, Least
<1>3. PICK x \in T : m = n - x
    BY <1>2
<1>4. ASSUME NEW y \in T PROVE y <= x
    <2>1. n - y \in D
        OBVIOUS
    <2> QED BY <1>2, <1>3, <2>1
<1> QED BY <1>4

\* The Max of a bounded one is its greatest.
LEMMA MaxIs ==
    ASSUME NEW n \in Nat, NEW T \in SUBSET (0..n), T # {}
    PROVE  Max(T) \in T /\ \A y \in T : y <= Max(T)
<1>1. \E x \in T : \A y \in T : y <= x
    BY Greatest
<1>2. T \subseteq Nat
    OBVIOUS
<1>3. \E x \in T : \A y \in T : x >= y
    BY <1>1, <1>2
<1>4. Max(T) \in T /\ \A y \in T : Max(T) >= y
    BY <1>3 DEF Max
<1> QED BY <1>2, <1>4

-----------------------------------------------------------------------------
\* f is what the pass leaves: it may refer to itself.
IsPass(dod, slice, raw, f) == f = [i \in slice |-> Left(dod, slice, raw, f, i)]

-----------------------------------------------------------------------------
(* The pass over the edges *)

\* The last place with an id, where there is one, has that id.
LEMMA UpstreamIs ==
    ASSUME NEW n \in Nat, NEW slice \in SUBSET (1..n), NEW dod, NEW d,
           Named(dod, slice, d) # {}
    PROVE  Upstream(dod, slice, d) \in Named(dod, slice, d)
<1> DEFINE N == Named(dod, slice, d)
<1>1. N \in SUBSET (0..n) /\ N # {}
    <2>1. slice \in SUBSET (0..n)
        OBVIOUS
    <2> QED BY <2>1 DEF Named
<1>2. \E x \in N : \A y \in N : y <= x
    <2> HIDE DEF N
    <2> QED BY <1>1, Greatest
<1> QED BY <1>2 DEF Upstream

\* What is left at a place depends on what was left before it, only.
LEMMA LeftAgrees ==
    ASSUME NEW n \in Nat, NEW slice \in SUBSET (1..n), NEW dod, NEW raw,
           NEW i \in slice, NEW f, NEW h, \A u \in slice : u < i => f[u] = h[u]
    PROVE  Left(dod, slice, raw, f, i) = Left(dod, slice, raw, h, i)
<1>1. \A d : Named(dod, slice, d) # {} => Upstream(dod, slice, d) \in slice
    BY UpstreamIs DEF Named
<1> QED BY <1>1 DEF Left

\* A pass over the first k places extends to one over the first k + 1.
LEMMA PassExists ==
    ASSUME NEW dod, NEW raw, NEW n \in Nat, NEW slice \in SUBSET (1..n)
    PROVE  \E f : IsPass(dod, slice, raw, f)
<1> DEFINE Upto(k) == {i \in slice : i <= k}
           Done(k) == \E f : f = [i \in Upto(k) |-> Left(dod, slice, raw, f, i)]
           Bad == {k \in Nat : ~Done(k)}
<1>1. Upto(n) = slice /\ Upto(0) = {}
    <2>1. \A i \in slice : i \in Nat /\ 0 < i /\ i <= n
        OBVIOUS
    <2>2. Upto(n) \subseteq slice /\ slice \subseteq Upto(n)
        BY <2>1
    <2>3. \A i \in Upto(0) : FALSE
        BY <2>1
    <2> QED BY <2>2, <2>3
<1>2. Done(0)
    <2> DEFINE f == [i \in {} |-> "pass"]
    <2>2. f = [i \in Upto(0) |-> Left(dod, slice, raw, f, i)]
        BY <1>1
    <2> QED BY <2>2
<1>3. ASSUME NEW k \in Nat, Done(k) PROVE Done(k + 1)
    <2>1. PICK f : f = [i \in Upto(k) |-> Left(dod, slice, raw, f, i)]
        BY <1>3
    <2> DEFINE h == [i \in Upto(k + 1) |->
                       IF i <= k THEN f[i] ELSE Left(dod, slice, raw, f, i)]
    <2>2. ASSUME NEW i \in Upto(k + 1)
          PROVE  h[i] = Left(dod, slice, raw, h, i)
        <3>1. h[i] = Left(dod, slice, raw, f, i)
            BY <2>1
        <3>2. i \in slice /\ i <= k + 1 /\ \A u \in slice : u \in Nat
            OBVIOUS
        <3>3. \A u \in slice : u < i => u \in Upto(k + 1) /\ u <= k
            BY <3>2
        <3>4. \A u \in slice : u < i => h[u] = f[u]
            BY <3>3
        <3> HIDE DEF h, Upto
        <3> QED BY <3>1, <3>2, <3>4, LeftAgrees
    <2> HIDE DEF Left
    <2>3. h = [i \in Upto(k + 1) |-> Left(dod, slice, raw, h, i)]
        BY <2>2
    <2> QED BY <2>3
<1>4. Done(n)
    <2> HIDE DEF Done
    <2>1. SUFFICES ASSUME ~Done(n) PROVE FALSE
        OBVIOUS
    <2>2. Bad \in SUBSET Nat /\ Bad # {}
        BY <2>1
    <2>3. PICK k \in Bad : \A j \in Bad : k <= j
        <3> HIDE DEF Bad
        <3> QED BY <2>2, Least
    <2>4. k # 0 /\ k \in Nat
        BY <1>2
    <2>5. k - 1 \in Nat /\ k - 1 \notin Bad
        BY <2>3, <2>4
    <2>6. Done(k - 1)
        BY <2>5
    <2>7. Done((k - 1) + 1)
        BY <2>5, <2>6, <1>3
    <2>8. (k - 1) + 1 = k
        BY <2>4
    <2> QED BY <2>3, <2>7, <2>8
<1> QED BY <1>1, <1>4 DEF IsPass

\* So what the model chooses is what the pass leaves.
LEMMA OrderedIs ==
    ASSUME NEW dod, NEW raw, NEW n \in Nat, NEW slice \in SUBSET (1..n)
    PROVE  IsPass(dod, slice, raw, Ordered(dod, slice, raw))
<1>1. Ordered(dod, slice, raw) = CHOOSE f : IsPass(dod, slice, raw, f)
    BY DEF Ordered, IsPass
<1> QED BY <1>1, PassExists

-----------------------------------------------------------------------------
(* Verdicts *)

\* What the pass leaves, place by place.
LEMMA PassValues ==
    ASSUME NEW dod, NEW slice, NEW raw, NEW f, IsPass(dod, slice, raw, f)
    PROVE  /\ DOMAIN f = slice
           /\ \A i \in slice : f[i] = Left(dod, slice, raw, f, i)
    BY DEF IsPass

\* The same of check, whatever the DoD, the tree and the lane.
LEMMA CheckIs ==
    ASSUME NEW dod \in Seq(Condition), NEW built, NEW l
    PROVE  LET slice == Slice(dod, l)
               final == Check(dod, built, l)
               raw   == Raw(dod, slice, built)
           IN  /\ slice \subseteq DOMAIN dod /\ slice \subseteq Nat
               /\ \A i \in slice : dod[i] \in Condition
               /\ DOMAIN raw = slice /\ DOMAIN final = slice
               /\ \A i \in slice : /\ raw[i] = GradeOne(dod[i], built)
                                   /\ final[i] = Left(dod, slice, raw, final, i)
<1>1. Slice(dod, l) \in SUBSET (1..Len(dod)) /\ Len(dod) \in Nat
    BY DEF Slice
<1>2. IsPass(dod, Slice(dod, l), Raw(dod, Slice(dod, l), built), Check(dod, built, l))
    BY <1>1, OrderedIs DEF Check
<1>3. \A i \in 1..Len(dod) : dod[i] \in Condition /\ i \in Nat /\ i \in DOMAIN dod
    OBVIOUS
<1> QED BY <1>1, <1>2, <1>3, PassValues DEF Raw

\* In a list whose ids are declared and whose edges stay in their lanes an edge
\* names a place of the slice it starts in.
LEMMA EdgesStay ==
    ASSUME NEW dod \in Seq(Condition), NEW l, ~Undeclared(dod), SameLane(dod),
           NEW i \in Slice(dod, l), NEW d \in dod[i].deps
    PROVE  /\ Named(dod, Slice(dod, l), d) # {}
           /\ Upstream(dod, Slice(dod, l), d) \in Named(dod, Slice(dod, l), d)
<1>1. i \in DOMAIN dod /\ LaneOf(dod[i]) = l
    BY DEF Slice
<1>2. PICK j \in DOMAIN dod : dod[j].id = d
    BY <1>1 DEF Undeclared, Named
<1>3. LaneOf(dod[j]) = l
    BY <1>1, <1>2 DEF SameLane, Named
<1>4. Named(dod, Slice(dod, l), d) # {}
    BY <1>2, <1>3 DEF Named, Slice
<1>5. Slice(dod, l) \in SUBSET (1..Len(dod)) /\ Len(dod) \in Nat
    BY DEF Slice
<1> QED BY <1>4, <1>5, UpstreamIs

\* A slice that could be graded is denied exactly when a condition of it fails.
LEMMA FailuresDeny ==
    ASSUME NEW dod \in Seq(Condition), NEW built \in Tree, NEW l,
           ~DependencyDefects(dod), Distinct(dod), SameLane(dod),
           "unknown" \notin GradesIn(Raw(dod, Slice(dod, l), built))
    PROVE  Verdict(Check(dod, built, l)) = "DENY"
             <=> "fail" \in GradesIn(Raw(dod, Slice(dod, l), built))
<1> DEFINE slice == Slice(dod, l)
           raw   == Raw(dod, slice, built)
           final == Check(dod, built, l)
           Bad   == {i \in slice : final[i] # "pass"}
           Cycle == {d \in Ids : \E u \in Bad : dod[u].id = d}
<1>1. /\ slice \subseteq DOMAIN dod
      /\ DOMAIN raw = slice /\ DOMAIN final = slice
      /\ \A i \in slice : final[i] = Left(dod, slice, raw, final, i)
    BY CheckIs
<1>2. \A i \in slice : raw[i] \in {"pass", "fail"}
    <2>1. \A c \in Condition : GradeOne(c, built) \in {"pass", "fail", "unknown"}
        BY DEF GradeOne, GradeRegex, GradeRun, Condition, Tree, Replay
    <2>2. \A i \in slice : raw[i] = GradeOne(dod[i], built) /\ dod[i] \in Condition
        BY CheckIs
    <2>3. "unknown" \notin GradesIn(raw)
        OBVIOUS
    <2> HIDE DEF raw
    <2> QED BY <1>1, <2>1, <2>2, <2>3 DEF GradesIn
<1>3. \A i \in slice : final[i] \in {"unknown", raw[i]}
    BY <1>1 DEF Left
<1>4. \A i \in slice : dod[i].deps \in SUBSET Ids
    <2>1. \A i \in slice : dod[i] \in Condition
        BY CheckIs
    <2> QED BY <2>1 DEF Condition
<1> HIDE DEF slice, raw, final
<1>5. "fail" \in GradesIn(final) => "fail" \in GradesIn(raw)
    BY <1>1, <1>3 DEF GradesIn
<1>6. ASSUME "fail" \in GradesIn(raw), "fail" \notin GradesIn(final) PROVE FALSE
    <2>1. \A i \in Bad : final[i] = "unknown" /\ raw[i] # "unknown"
        BY <1>1, <1>2, <1>3, <1>6 DEF GradesIn
    <2>2. \A i \in slice : raw[i] # "pass" => i \in Bad
        BY <1>3
    <2>3. ASSUME NEW i \in Bad
          PROVE  \E d \in dod[i].deps : d \in Cycle
        <3>1. PICK d \in dod[i].deps :
                 \/ Named(dod, slice, d) = {}
                 \/ LET u == Upstream(dod, slice, d)
                    IN  (IF u < i THEN final[u] ELSE raw[u]) # "pass"
            BY <1>1, <2>1 DEF Left
        <3>2. Upstream(dod, slice, d) \in Named(dod, slice, d)
            BY EdgesStay DEF DependencyDefects, slice
        <3>3. Upstream(dod, slice, d) \in Bad
            BY <2>2, <3>1, <3>2 DEF Named
        <3> QED BY <1>4, <3>2, <3>3 DEF Named
    <2>4. ASSUME NEW d \in Cycle
          PROVE  dod[Upstream(dod, DOMAIN dod, d)].deps \cap Cycle # {}
        <3>1. PICK u \in Bad : dod[u].id = d
            OBVIOUS
        <3>2. Named(dod, DOMAIN dod, d) = {u}
            BY <1>1, <3>1, DodGradeAssumption DEF Distinct, Named
        <3>3. Upstream(dod, DOMAIN dod, d) = u
            BY <1>1, <3>2, UpstreamIs DEF Upstream
        <3> QED BY <2>3, <3>3
    <2>5. Bad # {}
        BY <1>1, <1>6, <2>2 DEF GradesIn
    <2>6. Cycle # {}
        BY <2>3, <2>5
    <2>7. Cycle \subseteq {dod[i].id : i \in DOMAIN dod} \ {None}
        BY <1>1, DodGradeAssumption
    <2> HIDE DEF Cycle
    <2>8. Cyclic(dod)
        BY <2>4, <2>6, <2>7 DEF Cyclic
    <2> QED BY <2>8 DEF DependencyDefects
<1> QED BY <1>5, <1>6 DEF Verdict, slice, raw, final

\* When all is done nothing is left to hold a place back.
LEMMA DoneIsGreen ==
    ASSUME NEW dod \in Seq(Condition), NEW l,
           Unsupported(dod) = {}, ~Undeclared(dod), SameLane(dod),
           \A i \in DOMAIN dod : Replayable(dod[i])
    PROVE  Verdict(Check(dod, AllDone, l)) = "OK"
<1> DEFINE slice == Slice(dod, l)
           raw   == Raw(dod, slice, AllDone)
           final == Check(dod, AllDone, l)
           Bad   == {i \in slice : final[i] # "pass"}
<1>1. /\ slice \subseteq DOMAIN dod /\ slice \subseteq Nat
      /\ DOMAIN raw = slice /\ DOMAIN final = slice
      /\ \A i \in slice : final[i] = Left(dod, slice, raw, final, i)
    <2>1. slice \subseteq DOMAIN dod /\ slice \subseteq Nat
        BY CheckIs
    <2>2. DOMAIN raw = slice /\ DOMAIN final = slice
        BY CheckIs
    <2>3. \A i \in slice : final[i] = Left(dod, slice, raw, final, i)
        BY CheckIs
    <2> QED BY <2>1, <2>2, <2>3
<1>2. \A i \in slice : raw[i] = "pass"
    <2>1. \A i \in slice : dod[i] \in Condition /\ Checkable(dod[i]) /\ Replayable(dod[i])
        BY <1>1, CheckIs DEF Unsupported
    <2>2. \A i \in slice : raw[i] = GradeOne(dod[i], AllDone)
        BY CheckIs
    <2>3. \A c \in Condition : Checkable(c) /\ Replayable(c) => GradeOne(c, AllDone) = "pass"
        BY DEF Condition, Checkable, Replayable, GradeOne, GradeRegex, GradeRun,
               Replay, AllDone
    <2> HIDE DEF raw
    <2> QED BY <2>1, <2>2, <2>3
<1> HIDE DEF slice, raw, final
<1>3. Bad = {}
    <2> SUFFICES ASSUME Bad # {} PROVE FALSE
        OBVIOUS
    <2>1. PICK i \in Bad : \A j \in Bad : i <= j
        <3>1. Bad \in SUBSET Nat
            BY <1>1
        <3> HIDE DEF Bad
        <3> QED BY <3>1, Least
    <2>2. PICK d \in dod[i].deps :
             \/ Named(dod, slice, d) = {}
             \/ LET u == Upstream(dod, slice, d)
                IN  (IF u < i THEN final[u] ELSE raw[u]) # "pass"
        BY <1>1, <1>2 DEF Left
    <2>3. Upstream(dod, slice, d) \in Named(dod, slice, d)
        BY EdgesStay DEF slice
    <2>4. PICK u \in slice : u < i /\ final[u] # "pass"
        BY <1>2, <2>2, <2>3 DEF Named
    <2> QED BY <1>1, <2>1, <2>4
<1> QED BY <1>1, <1>3 DEF Verdict, GradesIn, slice, raw, final


-----------------------------------------------------------------------------
(* The last block *)

\* The last block of a gate that has one.
LEMMA LastBlock ==
    ASSUME TypeOK, NEW g \in Gates, BlocksOf(g) # {}
    PROVE  /\ Max(BlocksOf(g)) \in BlocksOf(g)
           /\ \A i \in BlocksOf(g) : i <= Max(BlocksOf(g))
<1>1. Len(blocks) \in Nat /\ \A i \in DOMAIN blocks : i \in 0..Len(blocks)
    BY DEF TypeOK
<1>2. BlocksOf(g) \in SUBSET (0..Len(blocks))
    BY <1>1 DEF BlocksOf
<1> QED BY <1>1, <1>2, MaxIs

-----------------------------------------------------------------------------
(* Types *)

\* Tickets start well-formed.
LEMMA TypeInit == Init => TypeOK
<1> SUFFICES ASSUME Init PROVE TypeOK
    OBVIOUS
<1> QED BY PlanGateAssumption DEF Init, TypeOK

\* A row is recorded of a gate that has a block.
LEMMA NewRowType ==
    ASSUME TypeOK, NEW g \in Gates, BlocksOf(g) # {}
    PROVE  NewRow(g) \in Row
<1>1. Max(BlocksOf(g)) \in DOMAIN blocks
    BY LastBlock DEF BlocksOf
<1>2. blocks[Max(BlocksOf(g))] \in Block
    BY <1>1 DEF TypeOK
<1> QED BY <1>2 DEF NewRow, BlockVerdict, Row, Block, TypeOK

\* Every step keeps the ticket well-formed.
LEMMA TypeStep == TypeOK /\ [Next]_vars => TypeOK'
<1> SUFFICES ASSUME TypeOK, [Next]_vars PROVE TypeOK'
    OBVIOUS
<1>0. ASSUME NEW k \in Kinds, Spend(k) PROVE used' \in [Kinds -> Nat]
    BY <1>0 DEF Spend, TypeOK
<1>1. CASE Edit
    BY <1>0, <1>1, PlanGateAssumption DEF Edit, TypeOK, record, Kinds
<1>2. CASE Rebuild
    BY <1>0, <1>2 DEF Rebuild, TypeOK, Kinds
<1>3. CASE StartBuild
    BY <1>3 DEF StartBuild, TypeOK, record
<1>4. CASE Work
    <2>1. PICK c \in Cmds, o \in {"green", "idle", "red", "norun"} :
            tree' = [tree EXCEPT !.now[c] = o]
        BY <1>4 DEF Work
    <2>2. tree' \in Tree
        BY <2>1 DEF TypeOK, Tree
    <2> QED BY <1>0, <1>4, <2>2 DEF Work, TypeOK, record, Kinds
<1>5. CASE MoveDone
    BY <1>5 DEF MoveDone, TypeOK, record
<1>6. ASSUME NEW g \in Gates, Review(g) PROVE TypeOK'
    <2>1. PICK v \in Verdicts[g], rests \in SUBSET Files, exact \in Headings :
            blocks' = Append(blocks, [gate |-> g, verdict |-> v, rests |-> rests,
                                      exact |-> exact, of |-> spec])
        BY <1>6 DEF Review
    <2>2. [gate |-> g, verdict |-> v, rests |-> rests, exact |-> exact, of |-> spec]
             \in Block
        BY PlanGateAssumption DEF TypeOK, Block
    <2>3. blocks' \in Seq(Block)
        BY <2>1, <2>2 DEF TypeOK
    <2> QED BY <1>0, <1>6, <2>3 DEF Review, TypeOK, record, Kinds
<1>7. ASSUME NEW g \in Gates, Record(g) PROVE TypeOK'
    <2>1. BlocksOf(g) # {}
        BY <1>7 DEF Record, BlockVerdict
    <2>2. rows' \in Seq(Row)
        BY <1>7, <2>1, NewRowType DEF Record, TypeOK
    <2>3. Snapped \in Seq({Digest(s.dod) : s \in PlanText})
        BY DEF Snapped, TypeOK
    <2> QED BY <1>0, <1>7, <2>2, <2>3 DEF Record, TypeOK, Kinds
<1>8. CASE UNCHANGED vars
    BY <1>8 DEF vars, TypeOK
<1> QED BY <1>1, <1>2, <1>3, <1>4, <1>5, <1>6, <1>7, <1>8 DEF Next

\* A ticket, its verdicts and its records keep their shape.
THEOREM TypeCorrect == Spec => []TypeOK
<1> QED BY TypeInit, TypeStep, PTL DEF Spec

-----------------------------------------------------------------------------
(* The grader's promises, of every text a ticket can come to have *)

\* Whatever texts and trees a ticket comes by, a condition that fails denies its
\* slice (FailureSurfaces; check and verdict of adt_dod.py).
THEOREM FailuresSurface == Spec => []FailureSurfaces
<1>1. TypeOK => FailureSurfaces
    <2> SUFFICES ASSUME TypeOK PROVE FailureSurfaces
        OBVIOUS
    <2>1. spec.dod \in Seq(Condition) /\ tree \in Tree
        BY DEF TypeOK, PlanText
    <2> QED BY <2>1, FailuresDeny DEF FailureSurfaces
<1> QED BY <1>1, TypeCorrect, PTL

\* A DoD that the gate lets through is green when all work is done
\* (ApprovedIsSatisfiable; unsupported and dependency_defects).
THEOREM ApprovalsCanBeMet == Spec => []ApprovedIsSatisfiable
<1>1. TypeOK => ApprovedIsSatisfiable
    <2> SUFFICES ASSUME TypeOK PROVE ApprovedIsSatisfiable
        OBVIOUS
    <2>1. spec.dod \in Seq(Condition)
        BY DEF TypeOK, PlanText
    <2> QED BY <2>1, DoneIsGreen DEF ApprovedIsSatisfiable, Structured, DependencyDefects
<1> QED BY <1>1, TypeCorrect, PTL

-----------------------------------------------------------------------------
(* Approval *)

\* Structured, of a text that need not be the ticket's.
StructuredText(s) ==
    /\ s.dod # <<>>
    /\ Unsupported(s.dod) = {}
    /\ ~DependencyDefects(s.dod)
    /\ ~s.caveat

ApprovedInv == lane # "planned" =>
    started.blocks = blocks /\ Reviewed /\ StructuredText(started.spec)

\* No step of the build takes an untouched approval back (ApprovalSurvives; the
\* gate that runs again before release).
THEOREM ApprovalsSurvive == Spec => []ApprovalSurvives
<1>1. Init => ApprovedInv
    BY DEF Init, ApprovedInv
<1>2. ApprovedInv /\ [Next]_vars => ApprovedInv'
    <2> SUFFICES ASSUME ApprovedInv, [Next]_vars PROVE ApprovedInv'
        OBVIOUS
    <2>1. blocks' = blocks /\ judged' = judged => Reviewed' = Reviewed
        BY DEF Reviewed, GateReads, BlocksOf, PlanGateApplies
    <2>2. CASE StartBuild
        BY <2>1, <2>2 DEF StartBuild, ApprovedInv, Approvable, Structured,
                          StructuredText, UnattachedCaveats
    <2>3. ASSUME NEW g \in Gates, Review(g) PROVE ApprovedInv'
        BY <2>3 DEF Review, ApprovedInv
    <2>4. CASE Edit \/ Rebuild \/ Work \/ MoveDone \/ (\E g \in Gates : Record(g)) \/ UNCHANGED vars
        <3>1. /\ blocks' = blocks /\ judged' = judged /\ started' = started
              /\ lane' # "planned" => lane # "planned"
            BY <2>4 DEF Edit, Rebuild, Work, MoveDone, Record, vars
        <3> QED BY <2>1, <3>1 DEF ApprovedInv, StructuredText
    <2> QED BY <2>2, <2>3, <2>4 DEF Next
<1>3. ApprovedInv => ApprovalSurvives
    BY DEF ApprovedInv, ApprovalSurvives, Approvable, Read, InPlanLane, Structured,
           StructuredText, UnattachedCaveats
<1> QED BY <1>1, <1>2, <1>3, PTL DEF Spec

-----------------------------------------------------------------------------
(* Credit *)

\* A gate that has said no either saw the text move, or all it has recorded
\* since was recorded of the text as it is.
CreditInv(g) ==
    \/ g \in turned
    \/ \A i, j \in Records(rows, g) :
         rows[i].verdict \in Negative /\ i <= j => rows[j].hash = spec

\* What was recorded had been said.
SaidInv(g) == \A i \in Records(rows, g) :
    rows[i].verdict \in Negative => \E b \in BlocksOf(g) : blocks[b].verdict \in Negative

DerivedInv == derived # None => \A g \in Gates : derived[g].caused => g \in turned

\* Every DoD on record, and the one the text has now.
DodsSeen == {snaps[i] : i \in DOMAIN snaps} \cup {Digest(spec.dod)}

SnapInv == IsFiniteSet(DodsSeen) /\ Cardinality(DodsSeen) <= 1 + used["edit"]

RecordInv == TypeOK /\ DerivedInv /\ SnapInv /\ \A g \in Gates : CreditInv(g) /\ SaidInv(g)

\* Nothing is on record at first.
LEMMA RecordInit == Init => RecordInv
<1> SUFFICES ASSUME Init PROVE RecordInv
    OBVIOUS
<1>1. TypeOK /\ rows = <<>> /\ snaps = <<>> /\ derived = None
    BY TypeInit DEF Init
<1>2. used["edit"] \in Nat
    BY <1>1 DEF TypeOK, Kinds
<1>3. DodsSeen = {Digest(spec.dod)}
    BY <1>1 DEF DodsSeen
<1>4. SnapInv
    <2>1. \A x : IsFiniteSet({x}) /\ Cardinality({x}) = 1
        BY FS_Singleton
    <2>2. IsFiniteSet(DodsSeen) /\ Cardinality(DodsSeen) = 1
        BY <1>3, <2>1
    <2> QED BY <1>2, <2>2 DEF SnapInv
<1> QED BY <1>1, <1>4 DEF RecordInv, DerivedInv, CreditInv, SaidInv, Records

\* No more DoDs are seen when the snapshot of the present one is added.
LEMMA SnapshotSeen ==
    ASSUME TypeOK, snaps' = Snapped, spec' = spec
    PROVE  DodsSeen' = DodsSeen
<1>1. CASE snaps' = snaps
    BY <1>1 DEF DodsSeen
<1>2. CASE snaps' = Append(snaps, Digest(spec.dod))
    <2>1. \A i \in DOMAIN snaps : i \in DOMAIN snaps' /\ snaps'[i] = snaps[i]
        BY <1>2 DEF TypeOK
    <2>2. \A i \in DOMAIN snaps' : i \in DOMAIN snaps \/ snaps'[i] = Digest(spec.dod)
        BY <1>2 DEF TypeOK
    <2>3. \A i \in DOMAIN snaps' : i \in DOMAIN snaps => snaps'[i] = snaps[i]
        BY <2>1
    <2> HIDE DEF Digest
    <2> QED BY <2>1, <2>2, <2>3 DEF DodsSeen
<1> QED BY <1>1, <1>2 DEF Snapped

\* What a set gains with one more element.
LEMMA OneMoreSeen ==
    ASSUME NEW S, NEW x, IsFiniteSet(S)
    PROVE  /\ IsFiniteSet(S \cup {x})
           /\ Cardinality(S) \in Nat /\ Cardinality(S \cup {x}) \in Nat
           /\ Cardinality(S \cup {x}) <= Cardinality(S) + 1
    BY FS_AddElement, FS_CardinalityType

\* An edit answers every gate that has said no, and brings at most one DoD more.
LEMMA CreditEdit ==
    ASSUME RecordInv, Edit PROVE DerivedInv' /\ SnapInv' /\ \A g \in Gates : CreditInv(g)' /\ SaidInv(g)'
<1>1. /\ turned' = turned \cup
           {g \in Gates : \E i \in BlocksOf(g) : blocks[i].verdict \in Negative}
      /\ UNCHANGED <<rows, derived, snaps, blocks>>
      /\ used' = [used EXCEPT !["edit"] = @ + 1]
    BY DEF Edit, record, Spend
<1>2. DerivedInv'
    BY <1>1 DEF RecordInv, DerivedInv
<1>3. ASSUME NEW g \in Gates PROVE CreditInv(g)' /\ SaidInv(g)'
    <2>1. SaidInv(g) /\ CreditInv(g)
        BY DEF RecordInv
    <2>2. SaidInv(g)'
        BY <1>1, <2>1 DEF SaidInv, Records, BlocksOf
    <2>3. g \in turned' \/ \A i \in Records(rows, g) : rows[i].verdict \notin Negative
        BY <1>1, <2>1 DEF SaidInv
    <2>4. CreditInv(g)'
        BY <1>1, <2>3 DEF CreditInv, Records
    <2> QED BY <2>2, <2>4
<1>4. SnapInv'
    <2> DEFINE More == DodsSeen \cup {Digest(spec.dod)'}
    <2>1. /\ IsFiniteSet(More) /\ Cardinality(More) \in Nat /\ Cardinality(DodsSeen) \in Nat
          /\ Cardinality(More) <= Cardinality(DodsSeen) + 1
        BY OneMoreSeen DEF RecordInv, SnapInv
    <2>2. DodsSeen' \subseteq More
        BY <1>1 DEF DodsSeen
    <2> HIDE DEF More
    <2>3. IsFiniteSet(DodsSeen') /\ Cardinality(DodsSeen') <= Cardinality(More)
              /\ Cardinality(DodsSeen') \in Nat
        BY <2>1, <2>2, FS_Subset, FS_CardinalityType
    <2>4. used["edit"] \in Nat /\ used'["edit"] = used["edit"] + 1
        BY <1>1 DEF RecordInv, TypeOK, Kinds
    <2> QED BY <2>1, <2>3, <2>4 DEF RecordInv, SnapInv
<1> QED BY <1>2, <1>3, <1>4

\* The row that is recorded carries the hash of the text as it is.
LEMMA CreditRecord ==
    ASSUME RecordInv, NEW h \in Gates, Record(h)
    PROVE  DerivedInv' /\ SnapInv' /\ \A g \in Gates : CreditInv(g)' /\ SaidInv(g)'
<1>1. /\ rows' = Append(rows, NewRow(h)) /\ derived' = Derived(rows') /\ snaps' = Snapped
      /\ UNCHANGED <<blocks, spec, turned>>
      /\ used' = [used EXCEPT !["record"] = @ + 1]
      /\ BlocksOf(h) # {}
    BY DEF Record, Spend, BlockVerdict
<1>2. TypeOK /\ used'["edit"] = used["edit"]
    BY <1>1 DEF RecordInv, TypeOK, Kinds
<1>3. SnapInv'
    BY <1>1, <1>2, SnapshotSeen DEF RecordInv, SnapInv
<1>4. /\ NewRow(h).gate = h /\ NewRow(h).hash = spec
      /\ NewRow(h).verdict \in Negative =>
           \E b \in BlocksOf(h) : blocks[b].verdict \in Negative
    BY <1>1, <1>2, LastBlock DEF NewRow, BlockVerdict
<1>5. /\ Len(rows) \in Nat /\ DOMAIN rows = 1..Len(rows)
      /\ DOMAIN rows' = 1..(Len(rows) + 1)
      /\ \A i \in DOMAIN rows : rows'[i] = rows[i]
      /\ rows'[Len(rows) + 1] = NewRow(h)
    <2>1. NewRow(h) \in Row /\ rows \in Seq(Row)
        BY <1>1, <1>2, NewRowType DEF TypeOK
    <2> HIDE DEF NewRow
    <2> QED BY <1>1, <2>1
<1>6. ASSUME NEW g \in Gates PROVE CreditInv(g)' /\ SaidInv(g)'
    <2>1. SaidInv(g) /\ CreditInv(g)
        BY DEF RecordInv
    <2>2. ASSUME NEW i \in Records(rows', g)
          PROVE  \/ i = Len(rows) + 1 /\ rows'[i] = NewRow(h) /\ g = h
                 \/ i \in Records(rows, g) /\ rows'[i] = rows[i] /\ i <= Len(rows)
        <3>1. i \in 1..(Len(rows) + 1) /\ rows'[i].gate = g
            BY <1>5 DEF Records
        <3>2. CASE i = Len(rows) + 1
            BY <1>4, <1>5, <3>1, <3>2
        <3>3. CASE i # Len(rows) + 1
            <4>1. i \in DOMAIN rows /\ i <= Len(rows)
                BY <1>5, <3>1, <3>3
            <4> QED BY <1>5, <3>1, <4>1 DEF Records
        <3> QED BY <3>2, <3>3
    <2>3. SaidInv(g)'
        <3>1. BlocksOf(g)' = BlocksOf(g) /\ blocks' = blocks
            BY <1>1 DEF BlocksOf
        <3> QED BY <1>4, <2>1, <2>2, <3>1 DEF SaidInv
    <2>4. CreditInv(g)'
        <3> SUFFICES ASSUME g \notin turned', NEW i \in Records(rows', g), NEW j \in Records(rows', g),
                            rows'[i].verdict \in Negative, i <= j
                     PROVE  rows'[j].hash = spec'
            BY DEF CreditInv, Records
        <3>1. CASE j = Len(rows) + 1
            BY <1>1, <1>4, <1>5, <3>1
        <3>2. CASE j # Len(rows) + 1
            <4>1. j \in Records(rows, g) /\ rows'[j] = rows[j] /\ j <= Len(rows)
                BY <2>2, <3>2
            <4>2. i # Len(rows) + 1
                BY <1>5, <4>1 DEF Records
            <4>3. i \in Records(rows, g) /\ rows'[i] = rows[i]
                BY <2>2, <4>2
            <4> QED BY <1>1, <2>1, <4>1, <4>3 DEF CreditInv
        <3> QED BY <3>1, <3>2
    <2> QED BY <2>3, <2>4
<1>7. DerivedInv'
    <2> SUFFICES ASSUME NEW g \in Gates, derived'[g].caused PROVE g \in turned'
        BY DEF DerivedInv
    <2>1. CausedEdit(rows', g)
        BY <1>1 DEF Derived
    <2>2. PICK i \in Records(rows', g), j \in Records(rows', g) :
            /\ i < j /\ rows'[i].verdict \in Negative
            /\ rows'[i].hash # rows'[j].hash
        BY <2>1 DEF CausedEdit, Follows
    <2>3. i \in Nat /\ j \in Nat
        BY <1>5 DEF Records
    <2>4. CreditInv(g)'
        BY <1>6
    <2> QED BY <2>2, <2>3, <2>4 DEF CreditInv, Records
<1> QED BY <1>3, <1>6, <1>7

\* Only an edit or a recording bears on what is on record.
LEMMA RecordStep == RecordInv /\ [Next]_vars => RecordInv'
<1> SUFFICES ASSUME RecordInv, [Next]_vars PROVE RecordInv'
    OBVIOUS
<1>1. TypeOK'
    BY TypeStep DEF RecordInv
<1>2. ASSUME UNCHANGED <<rows, derived, snaps, spec, turned>>, used'["edit"] = used["edit"],
             \A g \in Gates : \A b \in BlocksOf(g) : b \in BlocksOf(g)' /\ blocks'[b] = blocks[b]
      PROVE  RecordInv'
    <2>1. DerivedInv' /\ SnapInv'
        BY <1>2 DEF RecordInv, DerivedInv, SnapInv, DodsSeen
    <2>2. ASSUME NEW g \in Gates PROVE CreditInv(g)' /\ SaidInv(g)'
        BY <1>2 DEF RecordInv, CreditInv, SaidInv, Records
    <2> QED BY <1>1, <2>1, <2>2 DEF RecordInv
<1>3. CASE Edit
    BY <1>1, <1>3, CreditEdit DEF RecordInv
<1>4. ASSUME NEW h \in Gates, Record(h) PROVE RecordInv'
    BY <1>1, <1>4, CreditRecord DEF RecordInv
<1>5. CASE Rebuild
    <2>1. rows' = <<>> /\ snaps' = <<>> /\ derived' = None /\ spec' = spec /\ turned' = turned
        BY <1>5 DEF Rebuild
    <2>2. used'["edit"] = used["edit"] /\ used["edit"] \in Nat
        BY <1>5 DEF Rebuild, Spend, RecordInv, TypeOK, Kinds
    <2>3. DodsSeen' = {Digest(spec.dod)}
        BY <2>1 DEF DodsSeen
    <2>4. \A x : IsFiniteSet({x}) /\ Cardinality({x}) = 1
        BY FS_Singleton
    <2>5. IsFiniteSet(DodsSeen') /\ Cardinality(DodsSeen') = 1
        BY <2>3, <2>4
    <2>6. SnapInv'
        BY <2>2, <2>5 DEF SnapInv
    <2> QED BY <1>1, <2>1, <2>6 DEF RecordInv, DerivedInv, CreditInv, SaidInv, Records
<1>6. ASSUME NEW g \in Gates, Review(g) PROVE RecordInv'
    <2>1. PICK k : blocks' = Append(blocks, k)
        BY <1>6 DEF Review
    <2>2. \A b \in DOMAIN blocks : b \in DOMAIN blocks' /\ blocks'[b] = blocks[b]
        BY <2>1 DEF RecordInv, TypeOK
    <2>3. \A h \in Gates : \A b \in BlocksOf(h) : b \in BlocksOf(h)' /\ blocks'[b] = blocks[b]
        BY <2>2 DEF BlocksOf
    <2>4. UNCHANGED <<rows, derived, snaps, spec, turned>> /\ used'["edit"] = used["edit"]
        BY <1>6 DEF Review, record, Spend, RecordInv, TypeOK, Kinds
    <2> QED BY <1>2, <2>3, <2>4
<1>7. CASE StartBuild \/ Work \/ MoveDone \/ UNCHANGED vars
    <2>1. UNCHANGED <<blocks, rows, derived, snaps, spec, turned>> /\ used'["edit"] = used["edit"]
        BY <1>7 DEF StartBuild, Work, MoveDone, vars, record, Spend, RecordInv, TypeOK, Kinds
    <2> QED BY <1>2, <2>1 DEF BlocksOf
<1> QED BY <1>3, <1>4, <1>5, <1>6, <1>7 DEF Next

\* No gate is credited with an edit, nor the DoD with an amendment, that did not
\* happen (CreditIsEarned; derive_gate_effects and snapshot_dod).
THEOREM CreditEarned == Spec => []CreditIsEarned
<1>1. RecordInv => CreditIsEarned
    <2> SUFFICES ASSUME RecordInv PROVE CreditIsEarned
        OBVIOUS
    <2> DEFINE S == {snaps[i] : i \in DOMAIN snaps}
    <2>1. S \subseteq DodsSeen /\ IsFiniteSet(DodsSeen)
        BY DEF DodsSeen, RecordInv, SnapInv
    <2>2. Cardinality(S) \in Nat /\ Cardinality(S) <= Cardinality(DodsSeen)
            /\ Cardinality(DodsSeen) \in Nat
        <3> HIDE DEF S
        <3> QED BY <2>1, FS_Subset, FS_CardinalityType
    <2>3. used["edit"] \in Nat
        BY DEF RecordInv, TypeOK, Kinds
    <2>4. Amendments <= used["edit"]
        BY <2>2, <2>3 DEF Amendments, RecordInv, SnapInv
    <2> QED BY <2>4 DEF RecordInv, DerivedInv, CreditIsEarned
<1> QED BY <1>1, RecordInit, RecordStep, PTL DEF Spec

-----------------------------------------------------------------------------
(* The readers of a ticket *)

ExactBlocks(g) == {i \in BlocksOf(g) : blocks[i].exact}

\* What the gate reads is the first verdict line from its last exact heading on.
LEMMA GateReadsIs ==
    ASSUME TypeOK, NEW g \in Gates, ExactBlocks(g) # {}
    PROVE  \E m \in ExactBlocks(g) :
             /\ \A j \in ExactBlocks(g) : j <= m
             /\ \/ /\ GateReads(g) = "silent"
                   /\ \A i \in DOMAIN blocks : i >= m => blocks[i].verdict = "silent"
                \/ \E k \in DOMAIN blocks :
                     /\ k >= m /\ blocks[k].verdict # "silent"
                     /\ GateReads(g) = blocks[k].verdict
                     /\ \A i \in DOMAIN blocks :
                          i >= m /\ blocks[i].verdict # "silent" => k <= i
<1>1. \A i \in DOMAIN blocks : i \in Nat
    BY DEF TypeOK
<1>2. PICK n \in Nat : DOMAIN blocks = 1 .. n
    BY DEF TypeOK
<1>3. ExactBlocks(g) \in SUBSET (0..n)
    BY <1>2 DEF ExactBlocks, BlocksOf
<1>4. PICK m \in ExactBlocks(g) : m = Max(ExactBlocks(g)) /\ \A j \in ExactBlocks(g) : j <= m
    BY <1>2, <1>3, MaxIs
<1>5. PICK lines : lines = {i \in DOMAIN blocks : i >= m /\ blocks[i].verdict # "silent"}
    OBVIOUS
<1>6. GateReads(g) = IF lines = {} THEN "silent" ELSE blocks[Min(lines)].verdict
    BY <1>4, <1>5 DEF GateReads, ExactBlocks
<1>7. lines # {} => Min(lines) \in lines /\ \A i \in lines : Min(lines) <= i
    <2>1. lines \in SUBSET Nat
        BY <1>1, <1>5
    <2> QED BY <2>1, Least DEF Min
<1>8. CASE lines = {}
    BY <1>4, <1>5, <1>6, <1>8
<1>9. CASE lines # {}
    <2>1. /\ Min(lines) \in DOMAIN blocks /\ Min(lines) >= m
          /\ blocks[Min(lines)].verdict # "silent"
          /\ \A i \in DOMAIN blocks :
               i >= m /\ blocks[i].verdict # "silent" => Min(lines) <= i
        BY <1>5, <1>7, <1>9
    <2>2. GateReads(g) = blocks[Min(lines)].verdict
        BY <1>6, <1>9
    <2> QED BY <1>4, <2>1, <2>2
<1> QED BY <1>8, <1>9

\* The verdicts a gate passes on are those of its own blocks.
LEMMA PassingIsOwn ==
    ASSUME TypeOK, NEW g \in Gates, NEW i \in DOMAIN blocks,
           blocks[i].verdict = Passing(g)
    PROVE  i \in BlocksOf(g)
<1>1. blocks[i].gate \in Gates /\ blocks[i].verdict \in Verdicts[blocks[i].gate]
    BY DEF TypeOK, Block
<1> QED BY <1>1 DEF Verdicts, Gates, Passing, BlocksOf

LEMMA NoneIsNoVerdict == \A g \in Gates : None # Passing(g)
<1>1. \A g \in Gates : Passing(g) \in Verdicts[g]
    BY DEF Gates, Verdicts, Passing
<1> QED BY <1>1, PlanGateAssumption

\* The gate never passes on a verdict that an exact round has replaced.
LEMMA PassIsTheNewest ==
    ASSUME TypeOK, NEW g \in Gates
    PROVE  PassIsNewest(g)
<1> SUFFICES ASSUME GateReads(g) = Passing(g)
             PROVE  \E i \in BlocksOf(g) : /\ blocks[i].verdict = Passing(g)
                                           /\ \A j \in BlocksOf(g) : blocks[j].exact => j <= i
    BY DEF PassIsNewest
<1>1. ExactBlocks(g) # {}
    BY NoneIsNoVerdict DEF GateReads, ExactBlocks
<1>2. PICK m \in ExactBlocks(g) :
        /\ \A j \in ExactBlocks(g) : j <= m
        /\ \/ GateReads(g) = "silent"
           \/ \E k \in DOMAIN blocks : k >= m /\ GateReads(g) = blocks[k].verdict
    BY <1>1, GateReadsIs
<1>3. PICK k \in DOMAIN blocks : k >= m /\ blocks[k].verdict = Passing(g)
    BY <1>2 DEF Passing
<1>4. k \in BlocksOf(g)
    BY <1>3, PassingIsOwn
<1>5. \A i \in DOMAIN blocks : i \in Nat
    BY DEF TypeOK
<1>6. \A j \in BlocksOf(g) : blocks[j].exact => j <= k
    BY <1>2, <1>3, <1>5 DEF ExactBlocks, BlocksOf
<1> QED BY <1>3, <1>4, <1>6

\* From the last block of the gate on, only blocks of the other gate follow.
LEMMA SameVerdict ==
    ASSUME TypeOK, NEW g \in Gates
    PROVE  SameReading(g)
<1> SUFFICES ASSUME LastIsExact(g)
             PROVE  GateReads(g) = Passing(g) <=> BlockVerdict(g) = Passing(g)
    BY DEF SameReading
<1>1. CASE BlocksOf(g) = {}
    BY <1>1 DEF GateReads, BlockVerdict
<1>2. CASE BlocksOf(g) # {}
    <2>1. \A i \in DOMAIN blocks : i \in Nat
        BY DEF TypeOK
    <2>2. PICK l \in BlocksOf(g) : /\ l = Max(BlocksOf(g))
                                   /\ \A i \in BlocksOf(g) : i <= l
        BY <1>2, LastBlock
    <2>3. l \in ExactBlocks(g) /\ l \in DOMAIN blocks
        BY <1>2, <2>2 DEF LastIsExact, ExactBlocks, BlocksOf
    <2>4. BlockVerdict(g) = blocks[l].verdict
        BY <1>2, <2>2 DEF BlockVerdict
    <2>5. PICK m \in ExactBlocks(g) :
            /\ \A j \in ExactBlocks(g) : j <= m
            /\ \/ /\ GateReads(g) = "silent"
                  /\ \A i \in DOMAIN blocks : i >= m => blocks[i].verdict = "silent"
               \/ \E k \in DOMAIN blocks :
                    /\ k >= m /\ blocks[k].verdict # "silent"
                    /\ GateReads(g) = blocks[k].verdict
                    /\ \A i \in DOMAIN blocks :
                         i >= m /\ blocks[i].verdict # "silent" => k <= i
        BY <2>3, GateReadsIs
    <2>6. m = l
        BY <2>1, <2>2, <2>3, <2>5 DEF ExactBlocks, BlocksOf
    <2>7. CASE BlockVerdict(g) = Passing(g)
        <3>1. blocks[l].verdict # "silent"
            BY <2>4, <2>7 DEF Passing
        <3>2. PICK k \in DOMAIN blocks : /\ k >= l /\ GateReads(g) = blocks[k].verdict
                                         /\ k <= l
            BY <2>1, <2>3, <2>5, <2>6, <3>1
        <3>3. k = l
            BY <2>1, <2>3, <3>2
        <3> QED BY <2>4, <2>7, <3>2, <3>3
    <2>8. CASE GateReads(g) = Passing(g)
        <3>1. PICK k \in DOMAIN blocks : k >= l /\ blocks[k].verdict = Passing(g)
            BY <2>5, <2>6, <2>8 DEF Passing
        <3>2. k \in BlocksOf(g)
            BY <3>1, PassingIsOwn
        <3>3. k = l
            BY <2>1, <2>2, <2>3, <3>1, <3>2
        <3> QED BY <2>4, <2>8, <3>1, <3>3
    <2> QED BY <2>7, <2>8
<1> QED BY <1>1, <1>2

\* The two enumerations of what is wrong with a plan.
LEMMA SameDefects ==
    ASSUME InPlanLane, ~UngradedSections, spec.dod # <<>>, Reviewed
    PROVE  Approvable <=> ~CheckAuthoringFails
<1> DEFINE Found == \/ Unsupported(spec.dod) # {} \/ DependencyDefects(spec.dod)
                    \/ UnattachedCaveats \/ \E g \in Gates : Reopened(g) # {}
                    \/ "BORROW" \in BorrowDefects(spec)
<1>1. BorrowDefects(spec) \subseteq {"BORROW", "SKIPPED"}
    BY DEF BorrowDefects
<1>2. /\ "PROSE" \in AuthoringDefects <=> Unsupported(spec.dod) # {}
      /\ "DEPS" \in AuthoringDefects <=> DependencyDefects(spec.dod)
      /\ "CAVEAT" \in AuthoringDefects <=> UnattachedCaveats
      /\ "SECTION" \notin AuthoringDefects
      /\ "REOPENED" \in AuthoringDefects <=> \E g \in Gates : Reopened(g) # {}
      /\ "BORROW" \in AuthoringDefects <=> "BORROW" \in BorrowDefects(spec)
    BY <1>1 DEF AuthoringDefects
<1>3. AuthoringDefects \subseteq {"PROSE", "DEPS", "CAVEAT", "SECTION", "REOPENED",
                                  "BORROW", "SKIPPED"}
    BY <1>1 DEF AuthoringDefects
<1>4. AuthoringDefects \ {"SKIPPED"} # {} <=>
        \E d \in {"PROSE", "DEPS", "CAVEAT", "REOPENED", "BORROW"} : d \in AuthoringDefects
    BY <1>2, <1>3
<1>5. CheckAuthoringFails <=> Found
    BY <1>2, <1>4 DEF CheckAuthoringFails
<1>6. Approvable <=> ~Found
    BY DEF Approvable, Structured, Read
<1> QED BY <1>5, <1>6

\* Whatever the headings, the gate passes on no verdict that an exact round has
\* replaced, and as the recorder would unless the last round's heading has a suffix;
\* --gate and --check-authoring refuse the same texts (ReadersAgree).
THEOREM ReadersAgreed == Spec => []ReadersAgree
<1>1. TypeOK => ReadersAgree
    BY PassIsTheNewest, SameVerdict, SameDefects DEF ReadersAgree
<1> QED BY <1>1, TypeCorrect, PTL

-----------------------------------------------------------------------------
(* What an approval rests on *)

\* The last record of a gate that has one, or the last of some of them.
LEMMA LastRecord ==
    ASSUME TypeOK, NEW g \in Gates, NEW T \in SUBSET Records(rows, g), T # {}
    PROVE  Max(T) \in T /\ \A r \in T : r <= Max(T)
<1>1. Len(rows) \in Nat /\ \A i \in DOMAIN rows : i \in 0..Len(rows)
    BY DEF TypeOK
<1>2. T \in SUBSET (0..Len(rows))
    BY <1>1 DEF Records
<1> QED BY <1>1, <1>2, MaxIs

\* The same of the blocks.
LEMMA LastOfBlocks ==
    ASSUME TypeOK, NEW g \in Gates, NEW T \in SUBSET BlocksOf(g), T # {}
    PROVE  Max(T) \in T /\ \A b \in T : b <= Max(T)
<1>1. Len(blocks) \in Nat /\ \A i \in DOMAIN blocks : i \in 0..Len(blocks)
    BY DEF TypeOK
<1>2. T \in SUBSET (0..Len(blocks))
    BY <1>1 DEF BlocksOf
<1> QED BY <1>1, <1>2, MaxIs

\* The records of a gate tell its blocks in the order they were added.
InOrder(told, g) ==
    /\ told \in [Records(rows, g) -> BlocksOf(g)]
    /\ \A r, t \in Records(rows, g) : r < t <=> told[r] < told[t]

\* These are the records of those blocks.
Tells(told, R, B) == /\ \A r \in R : told[r] \in B
                     /\ \A b \in B : \E r \in R : told[r] = b

\* The last record of some blocks tells the last of them.
LEMMA LastIsTold ==
    ASSUME TypeOK, NEW g \in Gates, NEW told, InOrder(told, g),
           NEW R \in SUBSET Records(rows, g), NEW B \in SUBSET BlocksOf(g), B # {},
           Tells(told, R, B)
    PROVE  R # {} /\ Max(R) \in R /\ told[Max(R)] = Max(B)
<1>1. Max(B) \in B /\ \A b \in B : b <= Max(B)
    BY LastOfBlocks
<1>2. PICK r \in R : told[r] = Max(B)
    BY <1>1 DEF Tells
<1>3. Max(R) \in R /\ r <= Max(R)
    BY <1>2, LastRecord
<1>4. /\ r \in Nat /\ Max(R) \in Nat
      /\ told[Max(R)] \in Nat /\ Max(B) \in Nat
    <2>1. \A i \in Records(rows, g) : i \in Nat
        BY DEF Records, TypeOK
    <2>2. \A i \in BlocksOf(g) : i \in Nat
        BY DEF BlocksOf, TypeOK
    <2>3. Max(R) \in Records(rows, g) /\ told[Max(R)] \in BlocksOf(g)
        BY <1>3 DEF InOrder
    <2> QED BY <1>1, <1>3, <2>1, <2>2, <2>3
<1>5. told[Max(R)] <= Max(B)
    BY <1>1, <1>3 DEF Tells
<1>6. CASE r = Max(R)
    BY <1>2, <1>3, <1>6
<1>7. CASE r # Max(R)
    <2>1. r < Max(R)
        BY <1>3, <1>4, <1>7
    <2>2. told[r] < told[Max(R)]
        BY <1>3, <2>1 DEF InOrder
    <2> QED BY <1>2, <1>4, <1>5, <2>2
<1> QED BY <1>2, <1>3, <1>6, <1>7

\* As long as verdicts are recorded as they come, the gate, which looks only at
\* the records, lets no plan start on a coverage verdict that rests on a file the
\* plan has come to touch (RestsAreCurrent; reopened_dependencies).
THEOREM RestsStayCurrent == Spec => []RestsAreCurrent
<1>1. TypeOK => RestsAreCurrent
    <2> DEFINE g == "coverage"
               mine == Records(rows, g)
               declared == {r \in mine : rows[r].rests # {}}
               resting == {b \in BlocksOf(g) : blocks[b].rests # {}}
    <2> SUFFICES ASSUME TypeOK, InPlanLane, Approvable, Faithful(g), resting # {}
                 PROVE  \/ blocks[Max(resting)].rests \cap spec.touches = {}
                        \/ blocks[Max(BlocksOf(g))].of = spec
        BY DEF RestsAreCurrent
    <2>1. PICK told \in [mine -> BlocksOf(g)] :
            /\ \A b \in BlocksOf(g) : \E r \in mine : told[r] = b
            /\ \A r, t \in mine : r < t <=> told[r] < told[t]
            /\ \A r \in mine : /\ rows[r].hash = blocks[told[r]].of
                               /\ rows[r].rests = blocks[told[r]].rests
        BY DEF Faithful
    <2>2. g \in Gates /\ InOrder(told, g)
        BY <2>1 DEF Gates, InOrder
    <2>3. Max(mine) \in mine /\ told[Max(mine)] = Max(BlocksOf(g))
        <3>1. BlocksOf(g) # {} /\ Tells(told, mine, BlocksOf(g))
            BY <2>1 DEF Tells
        <3> HIDE DEF g
        <3> QED BY <2>2, <3>1, LastIsTold
    <2>4. declared # {} /\ Max(declared) \in declared /\ told[Max(declared)] = Max(resting)
        <3>1. Tells(told, declared, resting)
            BY <2>1 DEF Tells
        <3>2. declared \subseteq mine /\ resting \subseteq BlocksOf(g)
            OBVIOUS
        <3> HIDE DEF g, declared, resting
        <3> QED BY <2>2, <3>1, <3>2, LastIsTold
    <2>5. Reopened(g) = {}
        BY <2>2 DEF Approvable, Read
    <2>6. rows[Max(mine)].hash = spec \/ rows[Max(declared)].rests \cap spec.touches = {}
        BY <2>4, <2>5 DEF Reopened
    <2>7. /\ rows[Max(mine)].hash = blocks[Max(BlocksOf(g))].of
          /\ rows[Max(declared)].rests = blocks[Max(resting)].rests
        <3>1. Max(declared) \in mine
            BY <2>4
        <3> HIDE DEF g, mine, declared, resting
        <3> QED BY <2>1, <2>3, <2>4, <3>1
    <2> QED BY <2>6, <2>7
<1> QED BY <1>1, TypeCorrect, PTL

=============================================================================
