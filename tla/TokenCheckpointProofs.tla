----------------------- MODULE TokenCheckpointProofs ------------------------
(***************************************************************************)
(* What readers of the token comments can rely on, for any machines,       *)
(* any spend and any number of faults.                                     *)
(*                                                                         *)
(* NeverOverstated: every register is at most what its machine has spent,  *)
(* so whichever register of a machine is taken, however many it has, and   *)
(* whatever became of the others, the sum is at most what was spent.       *)
(*                                                                         *)
(* StampIsFound: who is about to post a stamp comment looked while there   *)
(* was none.  Each of those machines has closed the ticket, posts once and *)
(* finds a comment from then on.                                           *)
(***************************************************************************)
EXTENDS TokenCheckpoint, FiniteSetsExt, WellFoundedInduction, FiniteSetTheorems,
        SequenceTheorems, TLAPS

(* Numbers *)

\* By well-founded induction on the numbers.
LEMMA Least ==
    ASSUME NEW T \in SUBSET Nat, T # {}
    PROVE  \E x \in T : \A y \in T : x <= y
<1> DEFINE R == OpToRel(<, Nat)
<1>1. IsWellFoundedOn(R, Nat)
    BY NatLessThanWellFounded, Zenon
<1>2. \A a, b \in Nat : a < b => <<a, b>> \in R
    BY DEF OpToRel
<1> HIDE DEF R
<1>3. PICK x \in T : \A y \in T : ~ (<<y, x>> \in R)
    BY <1>1, WFMin, Zenon
<1>4. ASSUME NEW y \in T PROVE ~(y < x)
    BY <1>2, <1>3
<1> QED BY <1>3, <1>4

\* The least distance from the bound.
LEMMA Greatest ==
    ASSUME NEW n \in Nat, NEW T \in SUBSET (0..n), T # {}
    PROVE  \E x \in T : \A y \in T : y <= x
<1> DEFINE D == {n - y : y \in T}
<1>1. D \in SUBSET Nat /\ D # {}
    <2>1. \A y \in T : n - y \in Nat
        OBVIOUS
    <2>2. PICK y \in T : TRUE
        OBVIOUS
    <2>3. n - y \in D
        BY <2>2
    <2> QED BY <2>1, <2>3
<1>2. PICK m \in D : \A k \in D : m <= k
    <2> HIDE DEF D
    <2> QED BY <1>1, Least
<1>3. PICK x \in T : m = n - x
    BY <1>2
<1>4. ASSUME NEW y \in T PROVE y <= x
    <2>1. n - y \in D
        OBVIOUS
    <2> QED BY <1>2, <1>3, <2>1
<1> QED BY <1>4

\* The Min of a set of numbers is its least element.
LEMMA MinIs ==
    ASSUME NEW T \in SUBSET Nat, T # {}
    PROVE  Min(T) \in T /\ \A y \in T : Min(T) <= y
<1>1. \E x \in T : \A y \in T : x <= y
    BY Least
<1> QED BY <1>1 DEF Min

\* The Max of a bounded one is its greatest.
LEMMA MaxIs ==
    ASSUME NEW n \in Nat, NEW T \in SUBSET (0..n), T # {}
    PROVE  Max(T) \in T /\ \A y \in T : y <= Max(T)
<1>1. \E x \in T : \A y \in T : y <= x
    BY Greatest
<1>2. T \subseteq Nat
    OBVIOUS
<1>3. \E x \in T : \A y \in T : x >= y
    BY <1>1, <1>2
<1>4. Max(T) \in T /\ \A y \in T : Max(T) >= y
    BY <1>3 DEF Max
<1> QED BY <1>2, <1>4

-----------------------------------------------------------------------------
(* Sums: SumFunction of the community modules picks the elements of the       *)
(* domain in an order of its own.                                             *)

Pick(s) == CHOOSE x \in s : TRUE

\* What is summed up after x was picked, for every part of S.
IsSum(f, S, g) ==
    g = [s \in SUBSET S |-> IF s = {} THEN 0 ELSE f[Pick(s)] + g[s \ {Pick(s)}]]

SumOf(f, S) == CHOOSE g : IsSum(f, S, g)

LEMMA SumFunctionIs ==
    ASSUME NEW f
    PROVE  SumFunction(f) = SumOf(f, DOMAIN f)[DOMAIN f]
BY DEF SumFunction, SumFunctionOnSet, FoldFunctionOnSet, MapThenFoldSet, IsSum, SumOf,
       Pick

\* Without an element a set has one less.
LEMMA OneLess ==
    ASSUME NEW s, IsFiniteSet(s), NEW x \in s
    PROVE  /\ IsFiniteSet(s \ {x}) /\ Cardinality(s \ {x}) \in Nat
           /\ Cardinality(s) = Cardinality(s \ {x}) + 1
<1>1. /\ IsFiniteSet(s \ {x}) /\ Cardinality(s \ {x}) = Cardinality(s) - 1
      /\ Cardinality(s) \in Nat
    BY FS_RemoveElement, FS_CardinalityType
<1>2. Cardinality(s \ {x}) \in Nat
    BY <1>1, FS_CardinalityType
<1> QED BY <1>1, <1>2

\* Sums over parts of at most k elements extend to parts of one more.
LEMMA SumExists ==
    ASSUME NEW S, IsFiniteSet(S), NEW f
    PROVE  IsSum(f, S, SumOf(f, S))
<1> DEFINE Upto(k) == {s \in SUBSET S : Cardinality(s) <= k}
           Step(g, s) == IF s = {} THEN 0 ELSE f[Pick(s)] + g[s \ {Pick(s)}]
           Done(k) == \E g : g = [s \in Upto(k) |-> Step(g, s)]
           Bad == {k \in Nat : ~Done(k)}
<1>1. \A s \in SUBSET S : /\ IsFiniteSet(s) /\ Cardinality(s) \in Nat
                          /\ Cardinality(s) <= Cardinality(S)
    BY FS_Subset, FS_CardinalityType
<1>2. \A s \in SUBSET S : s # {} =>
          /\ Pick(s) \in s /\ s \ {Pick(s)} \in SUBSET S
          /\ Cardinality(s) = Cardinality(s \ {Pick(s)}) + 1
          /\ Cardinality(s \ {Pick(s)}) \in Nat
    BY <1>1, OneLess DEF Pick
<1>3. Done(0)
    <2> DEFINE g == [s \in Upto(0) |-> 0]
    <2>1. \A s \in Upto(0) : s = {}
        BY <1>1, FS_EmptySet
    <2>2. g = [s \in Upto(0) |-> Step(g, s)]
        BY <2>1
    <2> QED BY <2>2
<1>4. ASSUME NEW k \in Nat, Done(k) PROVE Done(k + 1)
    <2>1. PICK g : g = [s \in Upto(k) |-> Step(g, s)]
        BY <1>4
    <2> DEFINE h == [s \in Upto(k + 1) |-> IF s \in Upto(k) THEN g[s] ELSE Step(g, s)]
    <2>2. Upto(k) \subseteq Upto(k + 1)
        BY <1>1
    <2>3. ASSUME NEW s \in Upto(k + 1) PROVE h[s] = Step(h, s)
        <3>1. CASE s = {}
            BY <2>1, <3>1
        <3>2. CASE s # {}
            <4> DEFINE r == s \ {Pick(s)}
            <4>1. r \in Upto(k) /\ r \in Upto(k + 1)
                BY <1>1, <1>2, <2>2, <3>2
            <4>2. h[r] = g[r]
                BY <4>1
            <4>3. h[s] = Step(g, s)
                BY <2>1
            <4> QED BY <3>2, <4>2, <4>3
        <3> QED BY <3>1, <3>2
    <2>4. h = [s \in Upto(k + 1) |-> Step(h, s)]
        BY <2>3
    <2> HIDE DEF h
    <2> QED BY <2>4
<1>5. \A k \in Nat : Done(k)
    <2> SUFFICES ASSUME Bad # {} PROVE FALSE
        OBVIOUS
    <2> HIDE DEF Done
    <2>1. PICK k \in Bad : \A j \in Bad : k <= j
        BY Least
    <2>2. k # 0
        BY <1>3
    <2>3. k - 1 \in Nat /\ k - 1 \notin Bad
        BY <2>1, <2>2
    <2>4. Done(k - 1) /\ (k - 1) + 1 = k
        BY <2>3
    <2> QED BY <1>4, <2>1, <2>3, <2>4
<1>6. Cardinality(S) \in Nat /\ Upto(Cardinality(S)) = SUBSET S
    BY <1>1
<1>7. \E g : g = [s \in SUBSET S |-> Step(g, s)]
    <2>1. Done(Cardinality(S))
        <3> HIDE DEF Done
        <3> QED BY <1>5, <1>6
    <2> HIDE DEF Upto, Step
    <2> QED BY <1>6, <2>1
<1>8. \E g : IsSum(f, S, g)
    BY <1>7 DEF IsSum
<1> QED BY <1>8 DEF SumOf

\* The order does not matter.
LEMMA SumFacts ==
    ASSUME NEW S, IsFiniteSet(S), NEW f \in [S -> Nat], NEW T \in SUBSET S
    PROVE  /\ SumOf(f, S)[{}] = 0
           /\ SumOf(f, S)[T] \in Nat
           /\ \A x \in T : SumOf(f, S)[T] = f[x] + SumOf(f, S)[T \ {x}]
<1> DEFINE g == SumOf(f, S)
           Good(s) == g[s] \in Nat /\ \A x \in s : g[s] = f[x] + g[s \ {x}]
           Bad == {k \in Nat : \E s \in SUBSET S : Cardinality(s) = k /\ ~Good(s)}
<1>1. \A s \in SUBSET S : IsFiniteSet(s) /\ Cardinality(s) \in Nat
    BY FS_Subset, FS_CardinalityType
<1>2. \A s \in SUBSET S :
          g[s] = IF s = {} THEN 0 ELSE f[Pick(s)] + g[s \ {Pick(s)}]
    <2>1. g = [s \in SUBSET S |->
                  IF s = {} THEN 0 ELSE f[Pick(s)] + g[s \ {Pick(s)}]]
        BY SumExists DEF IsSum
    <2> HIDE DEF g
    <2> QED BY <2>1
<1> HIDE DEF g
<1>3. \A s \in SUBSET S : Good(s)
    <2> SUFFICES ASSUME Bad # {} PROVE FALSE
        BY <1>1
    <2>1. PICK k \in Bad : \A j \in Bad : k <= j
        <3> HIDE DEF Good
        <3> QED BY Least
    <2>2. PICK s \in SUBSET S : Cardinality(s) = k /\ ~Good(s)
        BY <2>1
    <2>3. \A r \in SUBSET S : Cardinality(r) < k => Good(r)
        <3> HIDE DEF Good
        <3> QED BY <1>1, <2>1
    <2>4. s # {}
        BY <1>2, <2>2
    <2> DEFINE c == Pick(s)
    <2>5. c \in s /\ g[s] = f[c] + g[s \ {c}]
        BY <1>2, <2>4 DEF Pick
    <2> HIDE DEF c
    <2>6. \A x \in s : Good(s \ {x})
        <3> TAKE x \in s
        <3>1. s \ {x} \in SUBSET S /\ Cardinality(s \ {x}) < k
            <4>1. Cardinality(s) = Cardinality(s \ {x}) + 1 /\ Cardinality(s \ {x}) \in Nat
                BY <1>1, OneLess
            <4> QED BY <2>2, <4>1
        <3> QED BY <2>3, <3>1
    <2>7. \A x \in s : f[x] \in Nat
        OBVIOUS
    <2>8. g[s] \in Nat
        <3>1. g[s \ {c}] \in Nat /\ f[c] \in Nat
            BY <2>5, <2>6, <2>7
        <3> QED BY <2>5, <3>1
    <2>9. ASSUME NEW x \in s, x # c PROVE g[s] = f[x] + g[s \ {x}]
        <3>1. x \in s \ {c} /\ c \in s \ {x}
            BY <2>5, <2>9
        <3>2. /\ g[s \ {c}] = f[x] + g[(s \ {c}) \ {x}]
              /\ g[s \ {x}] = f[c] + g[(s \ {x}) \ {c}]
            BY <2>5, <2>6, <3>1
        <3>3. (s \ {c}) \ {x} = (s \ {x}) \ {c}
            OBVIOUS
        <3>4. g[(s \ {x}) \ {c}] \in Nat
            <4>1. Cardinality((s \ {x}) \ {c}) < k
                <5>1. /\ Cardinality(s) = Cardinality(s \ {x}) + 1
                      /\ IsFiniteSet(s \ {x}) /\ Cardinality(s \ {x}) \in Nat
                    BY <1>1, OneLess
                <5>2. /\ Cardinality(s \ {x}) = Cardinality((s \ {x}) \ {c}) + 1
                      /\ Cardinality((s \ {x}) \ {c}) \in Nat
                    BY <3>1, <5>1, OneLess
                <5> QED BY <2>2, <5>1, <5>2
            <4>2. (s \ {x}) \ {c} \in SUBSET S
                OBVIOUS
            <4> QED BY <2>3, <4>1, <4>2
        <3> QED BY <2>5, <2>7, <3>2, <3>3, <3>4
    <2> QED BY <2>2, <2>5, <2>8, <2>9
<1>4. g[{}] = 0
    BY <1>2
<1> QED BY <1>3, <1>4 DEF g

\* Only the values on the part count.
LEMMA SumAgrees ==
    ASSUME NEW S, IsFiniteSet(S), NEW f \in [S -> Nat],
           NEW R, IsFiniteSet(R), NEW h \in [R -> Nat],
           NEW T \in SUBSET (S \cap R), \A x \in T : f[x] <= h[x]
    PROVE  /\ SumOf(f, S)[T] <= SumOf(h, R)[T]
           /\ (\A x \in T : f[x] = h[x]) => SumOf(f, S)[T] = SumOf(h, R)[T]
<1> DEFINE a == SumOf(f, S)
           b == SumOf(h, R)
           Good(s) == /\ a[s] <= b[s]
                      /\ (\A x \in T : f[x] = h[x]) => a[s] = b[s]
           Bad == {k \in Nat : \E s \in SUBSET T : Cardinality(s) = k /\ ~Good(s)}
<1>1. \A s \in SUBSET T : IsFiniteSet(s) /\ Cardinality(s) \in Nat
    <2>1. IsFiniteSet(T)
        BY FS_Subset
    <2> QED BY <2>1, FS_Subset, FS_CardinalityType
<1>2. \A s \in SUBSET T :
          /\ a[s] \in Nat /\ \A x \in s : a[s] = f[x] + a[s \ {x}]
          /\ b[s] \in Nat /\ \A x \in s : b[s] = h[x] + b[s \ {x}]
    <2> TAKE s \in SUBSET T
    <2>1. s \in SUBSET S /\ s \in SUBSET R
        OBVIOUS
    <2>2. a[s] \in Nat /\ \A x \in s : a[s] = f[x] + a[s \ {x}]
        BY <2>1, SumFacts
    <2>3. b[s] \in Nat /\ \A x \in s : b[s] = h[x] + b[s \ {x}]
        BY <2>1, SumFacts
    <2> QED BY <2>2, <2>3
<1>3. a[{}] = 0 /\ b[{}] = 0
    BY SumFacts
<1> HIDE DEF a, b
<1>4. \A s \in SUBSET T : Good(s)
    <2> SUFFICES ASSUME Bad # {} PROVE FALSE
        BY <1>1
    <2>1. PICK k \in Bad : \A j \in Bad : k <= j
        <3> HIDE DEF Good
        <3> QED BY Least
    <2>2. PICK s \in SUBSET T : Cardinality(s) = k /\ ~Good(s)
        BY <2>1
    <2>3. \A r \in SUBSET T : Cardinality(r) < k => Good(r)
        <3> HIDE DEF Good
        <3> QED BY <1>1, <2>1
    <2>4. s # {}
        BY <1>3, <2>2
    <2>5. PICK x \in s : TRUE
        BY <2>4
    <2>6. Good(s \ {x})
        <3>1. Cardinality(s) = Cardinality(s \ {x}) + 1 /\ Cardinality(s \ {x}) \in Nat
            BY <1>1, OneLess
        <3>2. s \ {x} \in SUBSET T /\ Cardinality(s \ {x}) < k
            BY <2>2, <3>1
        <3> HIDE DEF Good
        <3> QED BY <2>3, <3>2
    <2>7. /\ a[s] = f[x] + a[s \ {x}] /\ b[s] = h[x] + b[s \ {x}]
          /\ a[s \ {x}] \in Nat /\ b[s \ {x}] \in Nat
        BY <1>2
    <2>8. f[x] \in Nat /\ h[x] \in Nat /\ f[x] <= h[x]
        BY <2>5
    <2> QED BY <2>2, <2>5, <2>6, <2>7, <2>8
<1> QED BY <1>4 DEF a, b

\* A sum of numbers is a number.
LEMMA SumType ==
    ASSUME NEW S, IsFiniteSet(S), NEW f \in [S -> Nat]
    PROVE  SumFunction(f) \in Nat
BY SumFunctionIs, SumFacts

\* A term and the rest.
LEMMA SumSplit ==
    ASSUME NEW S, IsFiniteSet(S), NEW f \in [S -> Nat], NEW x \in S
    PROVE  SumFunction(f) = f[x] + SumFunction([y \in S \ {x} |-> f[y]])
<1> DEFINE R == S \ {x}
           h == [y \in R |-> f[y]]
<1>1. IsFiniteSet(R) /\ h \in [R -> Nat] /\ R \in SUBSET (S \cap R)
    BY FS_RemoveElement
<1>2. \A y \in R : h[y] = f[y] /\ h[y] \in Nat
    OBVIOUS
<1>3. SumFunction(f) = f[x] + SumOf(f, S)[R]
    BY SumFunctionIs, SumFacts
<1>4. SumFunction(h) = SumOf(h, R)[R]
    BY SumFunctionIs
<1>5. SumOf(h, R)[R] = SumOf(f, S)[R]
    <2>1. \A y \in R : h[y] <= f[y]
        BY <1>2
    <2>2. R \in SUBSET (R \cap S)
        OBVIOUS
    <2> HIDE DEF h, R
    <2> QED BY <1>1, <1>2, <2>1, <2>2, SumAgrees
<1> QED BY <1>3, <1>4, <1>5

\* A sum grows with its terms.
LEMMA SumGrows ==
    ASSUME NEW S, IsFiniteSet(S), NEW f \in [S -> Nat], NEW h \in [S -> Nat],
           \A x \in S : f[x] <= h[x]
    PROVE  SumFunction(f) <= SumFunction(h)
<1>1. S \in SUBSET (S \cap S)
    OBVIOUS
<1> QED BY <1>1, SumFunctionIs, SumAgrees

-----------------------------------------------------------------------------
\* A register comment as a pass writes it.
Register == [machine : Machines, total : Nat]

\* The comment a pass has written, or is about to write, is there.
Targets ==
    \A m \in Machines :
        /\ pc[m] = "cursor" => target[m] \in DOMAIN registers
        /\ pc[m] = "upsert" => target[m] \in DOMAIN stamps \cup {None}
        /\ pc[m] = "save" => target[m] \in DOMAIN stamps
        /\ pc[m] = "upsert" => cost[m] # None

\* What a ledger has and what a pass has read of it was spent.
LedgersAreSpent == \A m \in Machines : ledger[m] <= spent[m] /\ scan[m] <= spent[m]

\* A register reports no more than its machine has spent.
RegistersAreSpent ==
    \A k \in DOMAIN registers :
        registers[k] # Gone => registers[k].total <= spent[registers[k].machine]

\* A cost, in a file or on the Issue, is no more than all machines have spent.
CostsAreSpent ==
    /\ \A m \in Machines : cost[m] # None => cost[m] <= SumFunction(spent)
    /\ \A k \in DOMAIN stamps : stamps[k] # Gone => stamps[k] <= SumFunction(spent)

SpentInv == /\ TypeOK /\ Targets
            /\ LedgersAreSpent /\ RegistersAreSpent /\ CostsAreSpent

\* The machines that will post a stamp comment next.
Posting == {m \in Machines : pc[m] = "upsert" /\ target[m] = None}
Closed == {m \in Machines : cost[m] # None}

StampsAreOwned ==
    Gone \notin Range(stamps) =>
        Len(stamps) + Cardinality(Posting) <= Cardinality(Closed)
-----------------------------------------------------------------------------
LEMMA Constants ==
    /\ None \notin Nat /\ Gone \notin Nat /\ None # Gone
    /\ IsFiniteSet(Machines) /\ Closers \subseteq Machines
    /\ MaxSpend \in Nat /\ MaxFaults \in Nat
BY TokenCheckpointAssumption

-----------------------------------------------------------------------------
(* Comments *)

\* The comments r are s with v as the one with the id k.
Wrote(T, s, r, k, v) ==
    /\ r \in Seq(T) /\ DOMAIN s \subseteq DOMAIN r
    /\ k \in DOMAIN r /\ r[k] = v
    /\ \A j \in DOMAIN r : j # k => j \in DOMAIN s /\ r[j] = s[j]

LEMMA Rewriting ==
    ASSUME NEW T, NEW s \in Seq(T), NEW v \in T, NEW k \in DOMAIN s
    PROVE  /\ Wrote(T, s, [s EXCEPT ![k] = v], k, v)
           /\ Len([s EXCEPT ![k] = v]) = Len(s)
           /\ DOMAIN [s EXCEPT ![k] = v] = DOMAIN s
<1>1. [s EXCEPT ![k] = v] \in Seq(T) /\ Len([s EXCEPT ![k] = v]) = Len(s)
    BY ExceptSeq
<1> QED BY <1>1 DEF Wrote

LEMMA Appending ==
    ASSUME NEW T, NEW s \in Seq(T), NEW v \in T
    PROVE  /\ Wrote(T, s, Append(s, v), Len(s) + 1, v)
           /\ Len(Append(s, v)) = Len(s) + 1
<1>1. /\ Append(s, v) \in Seq(T) /\ Len(Append(s, v)) = Len(s) + 1
      /\ Append(s, v)[Len(s) + 1] = v
      /\ \A i \in 1 .. Len(s) : Append(s, v)[i] = s[i]
    BY AppendProperties
<1>2. Len(s) \in Nat /\ DOMAIN s = 1 .. Len(s)
    BY LenProperties
<1>3. DOMAIN Append(s, v) = 1 .. Len(s) + 1
    BY <1>1, LenProperties
<1> QED BY <1>1, <1>2, <1>3 DEF Wrote

\* What a machine reports was spent there.
LEMMA ReportedIs ==
    ASSUME SpentInv, NEW m \in Machines
    PROVE  Reported(m) \in Nat /\ Reported(m) <= spent[m]
<1> DEFINE T == {registers[k].total : k \in Own(m)} \cup {0}
<1>1. spent[m] \in Nat
    BY Constants DEF SpentInv, TypeOK
<1>2. ASSUME NEW k \in Own(m) PROVE registers[k].total \in 0 .. spent[m]
    <2>1. registers[k] \in Register \cup {Gone}
        BY DEF Own, SpentInv, TypeOK, Register
    <2>2. registers[k].machine = m /\ registers[k].total \in Nat
        BY <2>1 DEF Own, Register
    <2>3. registers[k].total <= spent[m]
        BY <2>2 DEF Own, SpentInv, RegistersAreSpent
    <2> QED BY <1>1, <2>2, <2>3
<1>3. T \in SUBSET (0 .. spent[m]) /\ T # {}
    BY <1>1, <1>2
<1>4. Max(T) \in T
    <2> HIDE DEF T
    <2> QED BY <1>1, <1>3, MaxIs
<1>5. Max(T) \in 0 .. spent[m]
    BY <1>3, <1>4
<1> HIDE DEF T
<1>6. Reported(m) = Max(T)
    BY DEF Reported, T
<1> QED BY <1>1, <1>5, <1>6

\* The total any machine prints was spent.
LEMMA TotalIs ==
    ASSUME SpentInv, NEW m \in Machines
    PROVE  Total(m) \in Nat /\ Total(m) <= SumFunction(spent)
<1> DEFINE R == Machines \ {m}
           others == [o \in R |-> Reported(o)]
           rest == [o \in R |-> spent[o]]
<1>1. spent \in [Machines -> Nat] /\ ledger[m] \in Nat /\ ledger[m] <= spent[m]
    BY Constants DEF SpentInv, TypeOK, LedgersAreSpent
<1>2. IsFiniteSet(R)
    BY Constants, FS_RemoveElement
<1>3. others \in [R -> Nat] /\ rest \in [R -> Nat] /\ \A o \in R : others[o] <= rest[o]
    BY <1>1, ReportedIs
<1>4. SumFunction(spent) = spent[m] + SumFunction(rest)
    BY <1>1, Constants, SumSplit
<1> HIDE DEF R, others, rest
<1>5. /\ SumFunction(others) <= SumFunction(rest)
      /\ SumFunction(others) \in Nat /\ SumFunction(rest) \in Nat
    BY <1>2, <1>3, SumGrows, SumType
<1>6. Larger(ledger[m], Reported(m)) \in Nat /\ Larger(ledger[m], Reported(m)) <= spent[m]
    BY <1>1, ReportedIs DEF Larger
<1>7. Total(m) = Larger(ledger[m], Reported(m)) + SumFunction(others)
    BY DEF Total, others, R
<1>8. spent[m] \in Nat
    BY <1>1
<1> QED BY <1>4, <1>5, <1>6, <1>7, <1>8

\* The comment that is found is one of those there are.
LEMMA FoundIs ==
    ASSUME TypeOK
    PROVE  /\ Found \in DOMAIN stamps \cup {None}
           /\ Found = None => \A k \in DOMAIN stamps : stamps[k] = Gone
<1> DEFINE live == {k \in DOMAIN stamps : stamps[k] # Gone}
<1>1. \A k \in DOMAIN stamps : k \in Nat
    BY LenProperties DEF TypeOK
<1>2. live \in SUBSET Nat
    BY <1>1
<1>3. live # {} => Min(live) \in live
    <2> HIDE DEF live
    <2> QED BY <1>2, MinIs
<1> QED BY <1>1, <1>3, Constants DEF Found

LEMMA WithRegisterIs ==
    ASSUME SpentInv, NEW m \in Machines
    PROVE  Wrote(Register \cup {Gone}, registers, WithRegister(m), RegisterId(m),
                 [machine |-> m, total |-> scan[m]])
<1>1. /\ registers \in Seq(Register \cup {Gone})
      /\ [machine |-> m, total |-> scan[m]] \in Register \cup {Gone}
      /\ cursor[m].id \in DOMAIN registers \cup {None}
    BY DEF SpentInv, TypeOK, Register
<1>2. CASE Missing(registers, cursor[m].id)
    BY <1>1, <1>2, Appending DEF WithRegister, RegisterId
<1>3. CASE ~Missing(registers, cursor[m].id)
    <2>1. cursor[m].id \in DOMAIN registers
        BY <1>1, <1>3 DEF Missing
    <2> QED BY <1>1, <1>3, <2>1, Rewriting DEF WithRegister, RegisterId
<1> QED BY <1>2, <1>3

LEMMA WithStampIs ==
    ASSUME SpentInv, NEW m \in Machines, pc[m] = "upsert"
    PROVE  Wrote(Nat \cup {Gone}, stamps, WithStamp(m),
                 IF Missing(stamps, target[m]) THEN Len(stamps) + 1 ELSE target[m],
                 cost[m])
<1>1. /\ stamps \in Seq(Nat \cup {Gone}) /\ cost[m] \in Nat \cup {Gone}
      /\ target[m] \in DOMAIN stamps \cup {None}
    BY DEF SpentInv, TypeOK, Targets
<1>2. CASE Missing(stamps, target[m])
    BY <1>1, <1>2, Appending DEF WithStamp
<1>3. CASE ~Missing(stamps, target[m])
    <2>1. target[m] \in DOMAIN stamps
        BY <1>1, <1>3 DEF Missing
    <2> QED BY <1>1, <1>3, <2>1, Rewriting DEF WithStamp
<1> QED BY <1>2, <1>3

-----------------------------------------------------------------------------
(* No reader sees more than was spent *)

\* The registers stay true when one is written that is.
RegistersGrow ==
    /\ registers' \in Seq(Register \cup {Gone}) /\ DOMAIN registers \subseteq DOMAIN registers'
    /\ RegistersAreSpent'

LEMMA RegisterStep ==
    ASSUME SpentInv, UNCHANGED spent, NEW k, NEW v,
           Wrote(Register \cup {Gone}, registers, registers', k, v),
           v # Gone => v.total <= spent[v.machine]
    PROVE  RegistersGrow
BY DEF RegistersGrow, Wrote, SpentInv, RegistersAreSpent

\* And so do the stamps.
StampsGrow ==
    /\ stamps' \in Seq(Nat \cup {Gone}) /\ DOMAIN stamps \subseteq DOMAIN stamps'
    /\ \A k \in DOMAIN stamps' : stamps'[k] # Gone => stamps'[k] <= SumFunction(spent)

LEMMA StampStep ==
    ASSUME SpentInv, NEW k, NEW v,
           Wrote(Nat \cup {Gone}, stamps, stamps', k, v),
           v # Gone => v <= SumFunction(spent)
    PROVE  StampsGrow
BY DEF StampsGrow, Wrote, SpentInv, CostsAreSpent

LEMMA CommentsStay ==
    ASSUME SpentInv, UNCHANGED spent
    PROVE  /\ UNCHANGED registers => RegistersGrow
           /\ UNCHANGED stamps => StampsGrow
BY DEF RegistersGrow, StampsGrow, SpentInv, TypeOK, RegistersAreSpent, CostsAreSpent,
       Register

\* How the pass of m goes on.
PassMoves(m) ==
    /\ pc' \in [Machines -> Steps] /\ target' \in [Machines -> Nat \cup {None}]
    /\ scan' \in [Machines -> Nat] /\ moved' \subseteq Machines
    /\ \A o \in Machines \ {m} :
           pc'[o] = pc[o] /\ target'[o] = target[o] /\ scan'[o] = scan[o]
    /\ scan'[m] <= spent[m]
    /\ pc'[m] = "cursor" => target'[m] \in DOMAIN registers'
    /\ pc'[m] = "upsert" => target'[m] \in DOMAIN stamps' \cup {None} /\ cost'[m] # None
    /\ pc'[m] = "save" => target'[m] \in DOMAIN stamps'

\* What it leaves in the files of m.
FilesTyped ==
    /\ cost' \in [Machines -> Nat \cup {None}]
    /\ \A o \in Machines : /\ cost[o] # None => cost'[o] # None
                           /\ cost'[o] # None => cost'[o] <= SumFunction(spent)
    /\ cursor' \in [Machines -> [sum : Nat, id : DOMAIN registers' \cup {None}]]
    /\ restamped' \in [Machines -> Nat]
    /\ published' \in [Machines -> [cost : Nat \cup {None},
                                    id : DOMAIN stamps' \cup {None}]]
    /\ faults' \in 0 .. MaxFaults

LEMMA PassStep ==
    ASSUME SpentInv, UNCHANGED world, RegistersGrow, StampsGrow,
           NEW m \in Machines, PassMoves(m), FilesTyped
    PROVE  SpentInv'
<1>1. UNCHANGED <<spent, ledger, done, window, pruned>>
    BY DEF world
<1>2. TypeOK'
    BY <1>1 DEF SpentInv, TypeOK, RegistersGrow, StampsGrow, PassMoves, FilesTyped, Register
<1>3. Targets'
    <2> SUFFICES ASSUME NEW o \in Machines
                 PROVE  /\ pc'[o] = "cursor" => target'[o] \in DOMAIN registers'
                        /\ pc'[o] = "upsert" => /\ target'[o] \in DOMAIN stamps' \cup {None}
                                                /\ cost'[o] # None
                        /\ pc'[o] = "save" => target'[o] \in DOMAIN stamps'
        BY DEF Targets
    <2>1. CASE o = m
        BY <2>1 DEF PassMoves
    <2>2. CASE o # m
        BY <2>2 DEF PassMoves, SpentInv, Targets, RegistersGrow, StampsGrow, FilesTyped
    <2> QED BY <2>1, <2>2
<1>4. LedgersAreSpent'
    BY <1>1 DEF SpentInv, LedgersAreSpent, PassMoves
<1>5. RegistersAreSpent' /\ CostsAreSpent'
    BY <1>1 DEF RegistersGrow, StampsGrow, FilesTyped, CostsAreSpent
<1> QED BY <1>2, <1>3, <1>4, <1>5 DEF SpentInv

LEMMA EnterMoves ==
    ASSUME SpentInv, NEW m \in Machines, NEW st \in Steps \ {"cursor", "upsert", "save"},
           Enter(m, st)
    PROVE  PassMoves(m)
<1>1. /\ pc' = [pc EXCEPT ![m] = st] /\ scan' = [scan EXCEPT ![m] = 0]
      /\ moved' = moved \ {m} /\ target' = [target EXCEPT ![m] = None]
    BY DEF Enter, Goto
<1>2. spent[m] \in Nat
    BY Constants DEF SpentInv, TypeOK
<1> QED BY <1>1, <1>2 DEF PassMoves, SpentInv, TypeOK, Steps

LEMMA FilesStay ==
    ASSUME SpentInv, UNCHANGED saved, RegistersGrow, StampsGrow,
           UNCHANGED faults \/ Fault
    PROVE  FilesTyped
<1>1. faults' \in 0 .. MaxFaults
    BY Constants DEF Fault, SpentInv, TypeOK
<1>2. UNCHANGED <<cost, cursor, restamped, published>>
    BY DEF saved
<1> QED BY <1>1, <1>2 DEF FilesTyped, SpentInv, TypeOK, CostsAreSpent, RegistersGrow,
                           StampsGrow

\* The steps of a pass that only look, or fail before they write.
LEMMA LookingStep ==
    ASSUME SpentInv, NEW m \in Machines, UNCHANGED <<world, issue, saved>>,
           UNCHANGED faults \/ Fault, PassMoves(m)
    PROVE  SpentInv'
<1>1. UNCHANGED <<spent, registers, stamps>>
    BY DEF world, issue
<1> QED BY <1>1, CommentsStay, FilesStay, PassStep

LEMMA LooksFine ==
    ASSUME SpentInv, NEW m \in Machines,
           \/ \E label \in BOOLEAN : Begin(m, label)
           \/ NotDue(m) \/ Leave(m) \/ Rescan(m) \/ Degraded(m) \/ UpToDate(m) \/ LookUp(m)
    PROVE  SpentInv'
<1>1. CASE NotDue(m) \/ Leave(m) \/ Degraded(m) \/ UpToDate(m)
    <2>1. \E st \in Steps \ {"cursor", "upsert", "save"} : Enter(m, st)
        BY <1>1 DEF NotDue, Leave, Degraded, UpToDate, Steps
    <2>2. UNCHANGED <<world, issue, saved>> /\ (UNCHANGED faults \/ Fault)
        BY <1>1 DEF NotDue, Leave, Degraded, UpToDate
    <2> QED BY <2>1, <2>2, EnterMoves, LookingStep
<1>2. CASE Rescan(m) \/ \E label \in BOOLEAN : Begin(m, label)
    <2>1. /\ pc' \in [Machines -> Steps] /\ pc'[m] \in {"tokens", "write"}
          /\ \A o \in Machines \ {m} : pc'[o] = pc[o]
        BY <1>2 DEF Begin, Rescan, Goto, SpentInv, TypeOK, Steps
    <2>2. /\ scan' = [scan EXCEPT ![m] = ledger[m]] /\ target' = target
          /\ moved' \subseteq Machines
        BY <1>2 DEF Begin, Rescan, SpentInv, TypeOK
    <2>3. PassMoves(m)
        BY <2>1, <2>2, Constants DEF PassMoves, SpentInv, TypeOK, LedgersAreSpent
    <2>4. UNCHANGED <<world, issue, saved, faults>>
        BY <1>2 DEF Begin, Rescan
    <2> QED BY <2>3, <2>4, LookingStep
<1>3. CASE LookUp(m)
    <2>1. StampComment(m) \in DOMAIN stamps \cup {None}
        BY FoundIs DEF StampComment, SpentInv, TypeOK
    <2>2. DOMAIN stamps \subseteq Nat
        BY LenProperties DEF SpentInv, TypeOK
    <2>3. /\ pc' = [pc EXCEPT ![m] = "upsert"]
          /\ target' = [target EXCEPT ![m] = StampComment(m)]
          /\ UNCHANGED <<scan, moved, cost, stamps>> /\ cost[m] # None
        BY <1>3 DEF LookUp, Goto, Publishes, saved, issue
    <2>4. PassMoves(m)
        BY <2>1, <2>2, <2>3 DEF PassMoves, SpentInv, TypeOK, LedgersAreSpent, Steps
    <2>5. UNCHANGED <<world, issue, saved, faults>>
        BY <1>3 DEF LookUp
    <2> QED BY <2>4, <2>5, LookingStep
<1> QED BY <1>1, <1>2, <1>3

\* The steps that write to the Issue.
LEMMA PostsFine ==
    ASSUME SpentInv, NEW m \in Machines,
           Upsert(m) \/ UpsertFails(m) \/ Publish(m) \/ PublishFails(m)
    PROVE  SpentInv'
<1>1. /\ UNCHANGED <<world, spent, saved, cost>> /\ (UNCHANGED faults \/ Fault)
    BY DEF Upsert, UpsertFails, Publish, PublishFails, world, saved
<1>2. ASSUME registers' = WithRegister(m), UNCHANGED stamps
      PROVE  /\ RegistersGrow /\ StampsGrow
             /\ RegisterId(m) \in DOMAIN registers' /\ RegisterId(m) \in Nat
    <2>1. Wrote(Register \cup {Gone}, registers, registers', RegisterId(m),
                [machine |-> m, total |-> scan[m]])
        BY <1>2, WithRegisterIs
    <2>2. scan[m] <= spent[m]
        BY DEF SpentInv, LedgersAreSpent
    <2>3. RegistersGrow /\ StampsGrow
        BY <1>1, <1>2, <2>1, <2>2, RegisterStep, CommentsStay
    <2>4. DOMAIN registers' \subseteq Nat
        BY <2>3, LenProperties DEF RegistersGrow
    <2> QED BY <2>1, <2>3, <2>4 DEF Wrote
<1>3. ASSUME stamps' = WithStamp(m), pc[m] = "upsert", UNCHANGED registers
      PROVE  /\ RegistersGrow /\ StampsGrow /\ DOMAIN stamps' \subseteq Nat
             /\ (IF Missing(stamps, target[m]) THEN Len(stamps) + 1 ELSE target[m])
                    \in DOMAIN stamps'
    <2>1. Wrote(Nat \cup {Gone}, stamps, stamps',
                IF Missing(stamps, target[m]) THEN Len(stamps) + 1 ELSE target[m],
                cost[m])
        BY <1>3, WithStampIs
    <2>2. cost[m] <= SumFunction(spent)
        BY <1>3 DEF SpentInv, CostsAreSpent, Targets
    <2>3. RegistersGrow /\ StampsGrow
        BY <1>1, <1>3, <2>1, <2>2, StampStep, CommentsStay
    <2>4. DOMAIN stamps' \subseteq Nat
        BY <2>3, LenProperties DEF StampsGrow
    <2> QED BY <2>1, <2>3, <2>4 DEF Wrote
<1>4. CASE Upsert(m)
    <2>1. RegistersGrow /\ StampsGrow /\ RegisterId(m) \in DOMAIN registers' \cap Nat
        BY <1>2, <1>4 DEF Upsert
    <2>2. PassMoves(m)
        BY <1>4, <2>1 DEF Upsert, Goto, PassMoves, SpentInv, TypeOK, LedgersAreSpent, Steps
    <2> QED BY <1>1, <2>1, <2>2, FilesStay, PassStep
<1>5. CASE UpsertFails(m)
    <2>1. RegistersGrow /\ StampsGrow
        BY <1>1, <1>2, <1>5, CommentsStay DEF UpsertFails
    <2>2. \E st \in Steps \ {"cursor", "upsert", "save"} : Enter(m, st)
        BY <1>5 DEF UpsertFails, Steps
    <2> QED BY <1>1, <2>1, <2>2, EnterMoves, FilesStay, PassStep
<1>6. CASE Publish(m)
    <2>1. /\ RegistersGrow /\ StampsGrow
          /\ (IF Missing(stamps, target[m]) THEN Len(stamps) + 1 ELSE target[m])
                 \in DOMAIN stamps' \cap Nat
        BY <1>3, <1>6 DEF Publish
    <2>2. /\ target' = [target EXCEPT ![m] = IF Missing(stamps, target[m])
                                             THEN Len(stamps) + 1 ELSE target[m]]
          /\ pc' = [pc EXCEPT ![m] = "save"] /\ UNCHANGED <<scan, moved>>
        BY <1>6 DEF Publish, Goto, SpentInv, TypeOK
    <2>3. PassMoves(m)
        BY <2>1, <2>2 DEF PassMoves, SpentInv, TypeOK, LedgersAreSpent, Steps
    <2> QED BY <1>1, <2>1, <2>3, FilesStay, PassStep
<1>7. CASE PublishFails(m)
    <2>1. RegistersGrow /\ StampsGrow
        BY <1>1, <1>3, <1>7, CommentsStay DEF PublishFails
    <2>2. Enter(m, "idle") /\ "idle" \in Steps \ {"cursor", "upsert", "save"}
        BY <1>7 DEF PublishFails, Steps
    <2> QED BY <1>1, <2>1, <2>2, EnterMoves, FilesStay, PassStep
<1> QED BY <1>4, <1>5, <1>6, <1>7

\* The steps that write to the files of m, also when they are torn.
LEMMA SavesFine ==
    ASSUME SpentInv, NEW m \in Machines,
           Realign(m) \/ SaveCursor(m) \/ Restamp(m) \/ SavePublished(m) \/ Kill(m)
    PROVE  SpentInv'
<1>1. UNCHANGED <<world, issue, spent, registers, stamps>> /\ (UNCHANGED faults \/ Fault)
    BY DEF Realign, SaveCursor, Restamp, SavePublished, Kill, world, issue
<1>2. \E st \in Steps \ {"cursor", "upsert", "save"} : Enter(m, st)
    BY DEF Realign, SaveCursor, Restamp, SavePublished, Kill, Steps
<1>3. faults' \in 0 .. MaxFaults
    BY <1>1, Constants DEF Fault, SpentInv, TypeOK
<1>4. Total(m) \in Nat /\ Total(m) <= SumFunction(spent) /\ Total(m) # None
    BY TotalIs, Constants
<1>5. scan[m] \in Nat
    BY DEF SpentInv, TypeOK
<1>6. cost' \in {cost, [cost EXCEPT ![m] = Total(m)]}
    BY DEF Realign, SaveCursor, Restamp, SavePublished, Kill, Torn
<1>7. restamped' \in [Machines -> Nat]
    <2>1. \E n \in Nat : restamped' \in {restamped, [restamped EXCEPT ![m] = n]}
        BY <1>5 DEF Realign, SaveCursor, Restamp, SavePublished, Kill, Torn
    <2> QED BY <2>1 DEF SpentInv, TypeOK
<1>8. cursor' \in [Machines -> [sum : Nat, id : DOMAIN registers \cup {None}]]
    <2>1. \E c \in [sum : Nat, id : DOMAIN registers \cup {None}] :
              cursor' \in {cursor, [cursor EXCEPT ![m] = c]}
        <3>1. CASE Realign(m)
            <4>1. cursor' = [cursor EXCEPT ![m].sum = scan[m]]
                BY <3>1 DEF Realign
            <4>2. [cursor[m] EXCEPT !.sum = scan[m]]
                      \in [sum : Nat, id : DOMAIN registers \cup {None}]
                BY <1>5 DEF SpentInv, TypeOK
            <4> QED BY <4>1, <4>2
        <3>2. CASE SaveCursor(m)
            <4>1. target[m] \in DOMAIN registers
                BY <3>2 DEF SaveCursor, SpentInv, Targets
            <4> QED BY <1>5, <3>2, <4>1 DEF SaveCursor
        <3>3. CASE Restamp(m) \/ SavePublished(m)
            <4>1. cursor' = cursor /\ cursor[m] \in [sum : Nat, id : DOMAIN registers \cup {None}]
                BY <3>3 DEF Restamp, SavePublished, SpentInv, TypeOK
            <4> QED BY <4>1
        <3>4. CASE Kill(m)
            <4> DEFINE C == [sum : Nat, id : DOMAIN registers \cup {None}]
                       blank == [sum |-> 0, id |-> None]
            <4>1. cursor' \in {cursor, [cursor EXCEPT ![m] = blank]}
                BY <3>4 DEF Kill, Torn
            <4>2. blank \in C /\ cursor[m] \in C
                BY DEF SpentInv, TypeOK
            <4> HIDE DEF C, blank
            <4>3. \E c \in C : cursor' \in {cursor, [cursor EXCEPT ![m] = c]}
                BY <4>1, <4>2
            <4> QED BY <4>3 DEF C
        <3> QED BY <3>1, <3>2, <3>3, <3>4
    <2> QED BY <2>1 DEF SpentInv, TypeOK
<1>9. published' \in [Machines -> [cost : Nat \cup {None}, id : DOMAIN stamps \cup {None}]]
    <2>1. \E c \in [cost : Nat \cup {None}, id : DOMAIN stamps \cup {None}] :
              published' \in {published, [published EXCEPT ![m] = c]}
        <3>1. CASE SavePublished(m)
            <4>1. target[m] \in DOMAIN stamps /\ cost[m] \in Nat \cup {None}
                BY <3>1 DEF SavePublished, SpentInv, Targets, TypeOK
            <4> QED BY <3>1, <4>1 DEF SavePublished
        <3>2. CASE Realign(m) \/ SaveCursor(m) \/ Restamp(m)
            <4>1. /\ published' = published
                  /\ published[m] \in [cost : Nat \cup {None}, id : DOMAIN stamps \cup {None}]
                BY <3>2 DEF Realign, SaveCursor, Restamp, SpentInv, TypeOK
            <4> QED BY <4>1
        <3>3. CASE Kill(m)
            <4> DEFINE C == [cost : Nat \cup {None}, id : DOMAIN stamps \cup {None}]
                       blank == [cost |-> None, id |-> None]
            <4>1. published' \in {published, [published EXCEPT ![m] = blank]}
                BY <3>3 DEF Kill, Torn
            <4>2. blank \in C /\ published[m] \in C
                BY DEF SpentInv, TypeOK
            <4> HIDE DEF C, blank
            <4>3. \E c \in C : published' \in {published, [published EXCEPT ![m] = c]}
                BY <4>1, <4>2
            <4> QED BY <4>3 DEF C
        <3> QED BY <3>1, <3>2, <3>3
    <2> QED BY <2>1 DEF SpentInv, TypeOK
<1>10. FilesTyped
    <2>1. \A o \in Machines : /\ cost[o] \in Nat \cup {None}
                              /\ cost[o] # None => cost[o] <= SumFunction(spent)
        BY DEF SpentInv, TypeOK, CostsAreSpent
    <2>2. /\ cost' \in [Machines -> Nat \cup {None}]
          /\ \A o \in Machines : /\ cost[o] # None => cost'[o] # None
                                 /\ cost'[o] # None => cost'[o] <= SumFunction(spent)
        BY <1>4, <1>6, <2>1 DEF SpentInv, TypeOK
    <2> QED BY <1>1, <1>3, <1>7, <1>8, <1>9, <2>2 DEF FilesTyped
<1> QED BY <1>1, <1>2, <1>10, CommentsStay, EnterMoves, PassStep

\* A turn is billed: the machine has spent one more, and so have all of them.
LEMMA SpendFine ==
    ASSUME SpentInv, NEW m \in Machines, Spend(m)
    PROVE  SpentInv'
<1> DEFINE rest == [o \in Machines \ {m} |-> spent[o]]
<1>1. /\ spent \in [Machines -> Nat] /\ ledger \in [Machines -> 0 .. MaxSpend]
      /\ ledger[m] <= spent[m]
    BY Constants DEF SpentInv, TypeOK, LedgersAreSpent
<1>2. /\ SumFunction(spent) < MaxSpend
      /\ spent' = [spent EXCEPT ![m] = spent[m] + 1]
      /\ ledger' = [ledger EXCEPT ![m] = ledger[m] + 1]
      /\ UNCHANGED <<done, window, pruned, registers, stamps, cost, cursor, restamped,
                     published, pc, scan, moved, target, faults>>
    BY <1>1 DEF Spend, issue, saved, pass
<1>3. spent[m] + 1 <= MaxSpend
    <2>1. SumFunction(spent) = spent[m] + SumFunction(rest)
        BY <1>1, Constants, SumSplit
    <2>2. IsFiniteSet(Machines \ {m}) /\ rest \in [Machines \ {m} -> Nat]
        BY <1>1, Constants, FS_RemoveElement
    <2> HIDE DEF rest
    <2>3. SumFunction(rest) \in Nat
        BY <2>2, SumType
    <2> QED BY <1>1, <1>2, <2>1, <2>3, Constants
<1>4. /\ spent' \in [Machines -> 0 .. MaxSpend] /\ spent' \in [Machines -> Nat]
      /\ ledger' \in [Machines -> 0 .. MaxSpend]
      /\ \A o \in Machines : spent[o] <= spent'[o]
    <2>1. spent \in [Machines -> 0 .. MaxSpend]
        BY DEF SpentInv, TypeOK
    <2>2. spent[m] + 1 \in 0 .. MaxSpend /\ ledger[m] + 1 \in 0 .. MaxSpend
        BY <1>1, <1>3, Constants
    <2>3. \A o \in Machines : spent[o] \in Nat /\ spent'[o] \in {spent[o], spent[o] + 1}
        BY <1>1, <1>2
    <2>4. spent' \in [Machines -> 0 .. MaxSpend] /\ ledger' \in [Machines -> 0 .. MaxSpend]
        BY <1>1, <1>2, <2>1, <2>2
    <2>5. spent' \in [Machines -> Nat]
        BY <2>4, Constants
    <2> QED BY <2>3, <2>4, <2>5
<1>5. /\ SumFunction(spent) <= SumFunction(spent')
      /\ SumFunction(spent) \in Nat /\ SumFunction(spent') \in Nat
    BY <1>1, <1>4, Constants, SumGrows, SumType
<1>6. TypeOK' /\ Targets'
    BY <1>2, <1>4 DEF SpentInv, TypeOK, Targets
<1>7. LedgersAreSpent'
    <2>1. \A o \in Machines : /\ ledger[o] \in Nat /\ spent[o] \in Nat /\ scan[o] \in Nat
                              /\ ledger[o] <= spent[o] /\ scan[o] <= spent[o]
        BY <1>1, Constants DEF SpentInv, TypeOK, LedgersAreSpent
    <2> QED BY <1>1, <1>2, <1>4, <2>1 DEF LedgersAreSpent
<1>8. RegistersAreSpent'
    <2>1. \A k \in DOMAIN registers : registers[k] # Gone =>
              /\ registers[k].machine \in Machines /\ registers[k].total \in Nat
              /\ registers[k].total <= spent[registers[k].machine]
        BY DEF SpentInv, TypeOK, RegistersAreSpent
    <2>2. \A o \in Machines : spent[o] \in Nat /\ spent'[o] \in Nat
        BY <1>1, <1>4
    <2> QED BY <1>2, <1>4, <2>1, <2>2 DEF RegistersAreSpent
<1>9. CostsAreSpent'
    <2>1. /\ \A o \in Machines : cost[o] # None => /\ cost[o] \in Nat
                                                   /\ cost[o] <= SumFunction(spent)
          /\ \A k \in DOMAIN stamps : stamps[k] # Gone => /\ stamps[k] \in Nat
                                                          /\ stamps[k] <= SumFunction(spent)
        BY DEF SpentInv, TypeOK, CostsAreSpent
    <2>2. UNCHANGED <<cost, stamps>>
        BY <1>2
    <2> DEFINE a == SumFunction(spent)
               b == SumFunction(spent')
    <2>3. a <= b /\ a \in Nat /\ b \in Nat
        BY <1>5
    <2>4. /\ \A o \in Machines : cost[o] # None => cost[o] \in Nat /\ cost[o] <= a
          /\ \A k \in DOMAIN stamps : stamps[k] # Gone => stamps[k] \in Nat /\ stamps[k] <= a
        BY <2>1
    <2> HIDE DEF a, b
    <2>5. /\ \A o \in Machines : cost[o] # None => cost[o] <= b
          /\ \A k \in DOMAIN stamps : stamps[k] # Gone => stamps[k] <= b
        BY <2>3, <2>4
    <2> QED BY <2>2, <2>5 DEF CostsAreSpent, b
<1> QED BY <1>6, <1>7, <1>8, <1>9 DEF SpentInv

\* Rows are deleted, and lanes and days go by.
LEMMA OthersFine ==
    ASSUME SpentInv,
           \/ Age
           \/ \E m \in Machines : Prune(m) \/ Relocated(m) \/ Close(m)
    PROVE  SpentInv'
<1>1. CASE Age \/ \E m \in Machines : Relocated(m)
    <2>1. UNCHANGED <<spent, ledger, pruned, registers, stamps, cost, cursor, restamped,
                      published, pc, scan, moved, target, faults>>
        BY <1>1 DEF Age, Relocated, issue, saved, pass
    <2>2. done' \subseteq Machines /\ window' \in BOOLEAN
        BY <1>1 DEF Age, Relocated, SpentInv, TypeOK
    <2> QED BY <2>1, <2>2 DEF SpentInv, TypeOK, Targets, LedgersAreSpent,
                              RegistersAreSpent, CostsAreSpent
<1>2. ASSUME NEW m \in Machines, Prune(m) PROVE SpentInv'
    <2>1. /\ UNCHANGED <<spent, done, window, registers, stamps, cost, cursor, restamped,
                         published, pc, scan, moved, target>>
          /\ ledger[m] > 0 /\ ledger' = [ledger EXCEPT ![m] = ledger[m] - 1]
          /\ pruned' \subseteq Machines /\ faults' \in 0 .. MaxFaults
        BY <1>2, Constants DEF Prune, Fault, issue, saved, pass, SpentInv, TypeOK
    <2>2. /\ ledger \in [Machines -> 0 .. MaxSpend] /\ spent \in [Machines -> Nat]
          /\ \A o \in Machines : ledger[o] <= spent[o]
        BY Constants DEF SpentInv, TypeOK, LedgersAreSpent
    <2>3. ledger[m] - 1 \in 0 .. MaxSpend /\ ledger[m] - 1 <= spent[m]
        BY <2>1, <2>2, Constants
    <2>4. /\ ledger' \in [Machines -> 0 .. MaxSpend]
          /\ \A o \in Machines : ledger'[o] <= spent[o]
        BY <2>1, <2>2, <2>3
    <2> QED BY <2>1, <2>4 DEF SpentInv, TypeOK, Targets, LedgersAreSpent,
                              RegistersAreSpent, CostsAreSpent
<1>3. ASSUME NEW m \in Machines, Close(m) PROVE SpentInv'
    <2>1. /\ UNCHANGED <<spent, ledger, window, pruned, registers, stamps, cursor, restamped,
                         published, pc, scan, moved, target, faults>>
          /\ done' \subseteq Machines /\ cost' = [cost EXCEPT ![m] = Total(m)]
        BY <1>3 DEF Close, issue, pass, SpentInv, TypeOK
    <2>2. Total(m) \in Nat /\ Total(m) <= SumFunction(spent) /\ Total(m) # None
        BY TotalIs, Constants
    <2>3. /\ cost' \in [Machines -> Nat \cup {None}]
          /\ \A o \in Machines : /\ cost[o] # None => cost'[o] # None
                                 /\ cost'[o] # None => cost'[o] <= SumFunction(spent)
        BY <2>1, <2>2 DEF SpentInv, TypeOK, CostsAreSpent
    <2>4. TypeOK' /\ Targets'
        BY <2>1, <2>3 DEF SpentInv, TypeOK, Targets
    <2> QED BY <2>1, <2>3, <2>4 DEF SpentInv, LedgersAreSpent, RegistersAreSpent,
                                    CostsAreSpent
<1> QED BY <1>1, <1>2, <1>3

\* What is left of a deleted comment says nothing.
LEMMA DeletionFine ==
    ASSUME SpentInv, DeleteComment
    PROVE  SpentInv'
<1>1. /\ UNCHANGED <<spent, ledger, done, window, pruned, cost, cursor, restamped,
                     published, pc, scan, moved, target>>
      /\ faults' \in 0 .. MaxFaults
    BY Constants DEF DeleteComment, Fault, world, saved, pass, SpentInv, TypeOK
<1>2. RegistersGrow /\ StampsGrow /\ DOMAIN registers \subseteq DOMAIN registers'
    <2>1. CASE UNCHANGED stamps /\ \E k \in DOMAIN registers :
                                       registers' = [registers EXCEPT ![k] = Gone]
        <3>1. PICK k \in DOMAIN registers : registers' = [registers EXCEPT ![k] = Gone]
            BY <2>1
        <3>2. registers \in Seq(Register \cup {Gone}) /\ Gone \in Register \cup {Gone}
            BY DEF SpentInv, TypeOK, Register
        <3>3. Wrote(Register \cup {Gone}, registers, registers', k, Gone)
            BY <3>1, <3>2, Rewriting
        <3> QED BY <1>1, <2>1, <3>3, RegisterStep, CommentsStay DEF RegistersGrow
    <2>2. CASE UNCHANGED registers /\ \E k \in DOMAIN stamps :
                                          stamps' = [stamps EXCEPT ![k] = Gone]
        <3>1. PICK k \in DOMAIN stamps : stamps' = [stamps EXCEPT ![k] = Gone]
            BY <2>2
        <3>2. stamps \in Seq(Nat \cup {Gone}) /\ Gone \in Nat \cup {Gone}
            BY DEF SpentInv, TypeOK
        <3>3. Wrote(Nat \cup {Gone}, stamps, stamps', k, Gone)
            BY <3>1, <3>2, Rewriting
        <3> QED BY <1>1, <2>2, <3>3, StampStep, CommentsStay DEF RegistersGrow
    <2> QED BY <2>1, <2>2 DEF DeleteComment
<1>3. /\ registers' \in Seq(Register \cup {Gone}) /\ stamps' \in Seq(Nat \cup {Gone})
      /\ DOMAIN stamps \subseteq DOMAIN stamps'
    BY <1>2 DEF RegistersGrow, StampsGrow
<1>4. TypeOK' /\ Targets'
    BY <1>1, <1>2, <1>3 DEF SpentInv, TypeOK, Targets, Register
<1> QED BY <1>1, <1>2, <1>4 DEF SpentInv, LedgersAreSpent, CostsAreSpent, RegistersGrow,
                                StampsGrow

LEMMA SpentStep ==
    ASSUME SpentInv, [Next]_vars
    PROVE  SpentInv'
<1>1. CASE UNCHANGED vars
    <2>1. UNCHANGED <<spent, ledger, done, window, pruned, registers, stamps, cost, cursor,
                      restamped, published, pc, scan, moved, target, faults>>
        BY <1>1 DEF vars, world, issue, saved, pass
    <2> QED BY <2>1 DEF SpentInv, TypeOK, Targets, LedgersAreSpent, RegistersAreSpent,
                        CostsAreSpent
<1>2. CASE Age \/ DeleteComment
    BY <1>2, OthersFine, DeletionFine
<1>3. ASSUME NEW m \in Machines, Pass(m) PROVE SpentInv'
    BY <1>3, LooksFine, PostsFine, SavesFine DEF Pass
<1>4. ASSUME NEW m \in Machines, Mishap(m) PROVE SpentInv'
    BY <1>4, LooksFine, PostsFine, SavesFine, OthersFine DEF Mishap
<1>5. ASSUME NEW m \in Machines, People(m) PROVE SpentInv'
    BY <1>5, SpendFine, OthersFine DEF People
<1> QED BY <1>1, <1>2, <1>3, <1>4, <1>5 DEF Next

LEMMA SpentInit == Init => SpentInv
<1> SUFFICES ASSUME Init PROVE SpentInv
    OBVIOUS
<1>1. DOMAIN registers = {} /\ DOMAIN stamps = {}
    BY EmptySeq DEF Init
<1>2. TypeOK
    <2>1. /\ registers \in Seq([machine : Machines, total : Nat] \cup {Gone})
          /\ stamps \in Seq(Nat \cup {Gone})
        BY EmptySeq DEF Init
    <2>2. 0 \in 0 .. MaxSpend /\ 0 \in 0 .. MaxFaults
        BY Constants
    <2> QED BY <2>1, <2>2 DEF Init, TypeOK, Steps
<1>3. Targets /\ LedgersAreSpent /\ RegistersAreSpent /\ CostsAreSpent
    BY <1>1 DEF Init, Targets, LedgersAreSpent, RegistersAreSpent, CostsAreSpent
<1> QED BY <1>2, <1>3 DEF SpentInv

LEMMA SpentInvariant == Spec => []SpentInv
BY SpentInit, SpentStep, PTL DEF Spec

\* No total, in a terminal, in a file or on the Issue, is more than what was spent
\* (checkpoint_tokens, restamp_closed, checkpoint_stamp, adt-token-total.sh), whatever
\* is posted twice, lost, killed or deleted.
THEOREM NothingOverstated == Spec => []NeverOverstated
<1>1. SpentInv => NeverOverstated
    BY TotalIs DEF SpentInv, CostsAreSpent, NeverOverstated
<1> QED BY <1>1, SpentInvariant, PTL

-----------------------------------------------------------------------------
(* The stamp is found *)

LEMMA FewMachines ==
    /\ IsFiniteSet(Posting) /\ Cardinality(Posting) \in Nat
    /\ IsFiniteSet(Posting') /\ Cardinality(Posting') \in Nat
    /\ IsFiniteSet(Closed) /\ Cardinality(Closed) \in Nat
    /\ IsFiniteSet(Closed') /\ Cardinality(Closed') \in Nat
<1>1. /\ Posting \subseteq Machines /\ Posting' \subseteq Machines
      /\ Closed \subseteq Machines /\ Closed' \subseteq Machines
    BY DEF Posting, Closed
<1> QED BY <1>1, Constants, FS_Subset, FS_CardinalityType

\* A deleted comment stays where it was.
RemainsStay == Gone \in Range(stamps) => Gone \in Range(stamps')

\* Who has closed the ticket has closed it.
LEMMA ClosedGrows ==
    ASSUME Closed \subseteq Closed'
    PROVE  Cardinality(Closed) <= Cardinality(Closed')
BY FewMachines, FS_Subset

\* A step that posts nothing and does not want to.
LEMMA OwnedQuietly ==
    ASSUME StampsAreOwned, SpentInv, UNCHANGED stamps,
           Closed \subseteq Closed', Posting' \subseteq Posting
    PROVE  StampsAreOwned'
<1>1. Cardinality(Posting') <= Cardinality(Posting)
    BY FewMachines, FS_Subset
<1>2. Len(stamps) \in Nat
    BY LenProperties DEF SpentInv, TypeOK
<1> QED BY <1>1, <1>2, FewMachines, ClosedGrows DEF StampsAreOwned, Range

\* Who looks and finds no comment, where none was deleted, posts the first.
LEMMA OwnedLookUp ==
    ASSUME StampsAreOwned, SpentInv, NEW m \in Machines, LookUp(m)
    PROVE  StampsAreOwned'
<1>1. /\ pc' = [pc EXCEPT ![m] = "upsert"]
      /\ target' = [target EXCEPT ![m] = StampComment(m)]
      /\ UNCHANGED <<cost, stamps>> /\ cost[m] # None
    BY DEF LookUp, Goto, Publishes, saved, issue
<1>2. pc \in [Machines -> Steps] /\ target \in [Machines -> Nat \cup {None}]
    BY DEF SpentInv, TypeOK
<1>3. Closed' = Closed
    BY <1>1 DEF Closed
<1>4. CASE StampComment(m) # None
    <2>1. Posting' \subseteq Posting
        BY <1>1, <1>2, <1>4 DEF Posting
    <2> QED BY <1>1, <1>3, <2>1, OwnedQuietly
<1>5. CASE StampComment(m) = None
    <2>1. \A k \in DOMAIN stamps : stamps[k] = Gone
        BY <1>5, FoundIs DEF StampComment, SpentInv, TypeOK
    <2>2. Len(stamps) \in Nat /\ DOMAIN stamps = 1 .. Len(stamps)
        BY LenProperties DEF SpentInv, TypeOK
    <2>3. Gone \notin Range(stamps) => Len(stamps) = 0
        <3> SUFFICES ASSUME Len(stamps) # 0 PROVE Gone \in Range(stamps)
            OBVIOUS
        <3>1. 1 \in DOMAIN stamps
            BY <2>2
        <3> QED BY <2>1, <3>1 DEF Range
    <2>4. Posting' \subseteq Closed
        BY <1>1, <1>2 DEF Posting, Closed, SpentInv, Targets
    <2>5. Cardinality(Posting') <= Cardinality(Closed)
        BY <2>4, FewMachines, FS_Subset
    <2> QED BY <1>1, <1>3, <2>2, <2>3, <2>5, FewMachines DEF StampsAreOwned
<1> QED BY <1>4, <1>5

\* Who posts does not want to any longer; who rewrites a comment adds none.
LEMMA OwnedPublish ==
    ASSUME StampsAreOwned, SpentInv, NEW m \in Machines, pc[m] = "upsert",
           stamps' = WithStamp(m), UNCHANGED cost,
           pc'[m] # "upsert",
           \A o \in Machines \ {m} : pc'[o] = pc[o] /\ target'[o] = target[o]
    PROVE  StampsAreOwned'
<1>1. /\ stamps \in Seq(Nat \cup {Gone}) /\ cost[m] \in Nat \cup {Gone}
      /\ target[m] \in DOMAIN stamps \cup {None}
    BY DEF SpentInv, TypeOK, Targets
<1>2. Closed' = Closed
    BY DEF Closed
<1>3. Posting' \subseteq Posting \ {m}
    BY DEF Posting
<1>4. Len(stamps) \in Nat /\ IsFiniteSet(Posting \ {m}) /\ Cardinality(Posting \ {m}) \in Nat
    BY <1>1, LenProperties, FewMachines, FS_RemoveElement, FS_CardinalityType
<1>5. Cardinality(Posting') <= Cardinality(Posting \ {m})
    BY <1>3, <1>4, FS_Subset
<1>6. Cardinality(Posting \ {m}) <= Cardinality(Posting)
    BY FewMachines, FS_Subset
<1>7. cost[m] # Gone
    BY Constants DEF SpentInv, TypeOK
<1>8. CASE target[m] = None
    <2>1. m \in Posting
        BY <1>8 DEF Posting
    <2>2. Cardinality(Posting) = Cardinality(Posting \ {m}) + 1
        BY <2>1, FewMachines, OneLess
    <2>3. stamps' = Append(stamps, cost[m])
        BY <1>8 DEF WithStamp, Missing
    <2>4. /\ Len(stamps') = Len(stamps) + 1
          /\ DOMAIN stamps \subseteq DOMAIN stamps'
          /\ \A j \in DOMAIN stamps : stamps'[j] = stamps[j]
        BY <1>1, <2>3, AppendProperties, LenProperties
    <2>5. RemainsStay
        BY <2>4 DEF RemainsStay, Range
    <2> QED BY <1>2, <1>4, <1>5, <2>2, <2>4, <2>5, FewMachines
            DEF StampsAreOwned, RemainsStay
<1>9. CASE target[m] # None /\ stamps[target[m]] = Gone
    <2>1. target[m] \in DOMAIN stamps
        BY <1>1, <1>9
    <2>2. stamps' = Append(stamps, cost[m])
        BY <1>9 DEF WithStamp, Missing
    <2>3. target[m] \in DOMAIN stamps' /\ stamps'[target[m]] = Gone
        BY <1>1, <1>9, <2>1, <2>2, AppendProperties, LenProperties
    <2> QED BY <2>3 DEF StampsAreOwned, Range
<1>10. CASE target[m] # None /\ stamps[target[m]] # Gone
    <2>1. target[m] \in DOMAIN stamps
        BY <1>1, <1>10
    <2>2. stamps' = [stamps EXCEPT ![target[m]] = cost[m]]
        BY <1>10 DEF WithStamp, Missing
    <2>3. /\ Len(stamps') = Len(stamps) /\ DOMAIN stamps' = DOMAIN stamps
          /\ \A j \in DOMAIN stamps : j # target[m] => stamps'[j] = stamps[j]
        BY <1>1, <2>1, <2>2, Rewriting
    <2>4. RemainsStay
        BY <1>10, <2>3 DEF RemainsStay, Range
    <2> QED BY <1>2, <1>4, <1>5, <1>6, <2>3, <2>4, FewMachines
            DEF StampsAreOwned, RemainsStay
<1> QED BY <1>8, <1>9, <1>10

\* The other steps of a pass: nothing is posted, and no cost is taken back.
LEMMA OwnedElsewhere ==
    ASSUME StampsAreOwned, SpentInv, NEW m \in Machines,
           \/ \E label \in BOOLEAN : Begin(m, label)
           \/ Realign(m) \/ NotDue(m) \/ Upsert(m) \/ UpsertFails(m) \/ SaveCursor(m)
           \/ Leave(m) \/ Rescan(m) \/ Restamp(m) \/ Degraded(m)
           \/ UpToDate(m) \/ SavePublished(m) \/ Kill(m)
    PROVE  StampsAreOwned'
<1>1. UNCHANGED stamps
    BY DEF Begin, Realign, NotDue, Upsert, UpsertFails, SaveCursor, Leave, Rescan, Restamp,
           Degraded, UpToDate, SavePublished, Kill, issue
<1>2. Closed \subseteq Closed'
    <2>1. cost' \in {cost, [cost EXCEPT ![m] = Total(m)]}
        BY DEF Begin, Realign, NotDue, Upsert, UpsertFails, SaveCursor, Leave, Rescan,
               Restamp, Degraded, UpToDate, SavePublished, Kill, saved, Torn
    <2>2. Total(m) # None
        BY TotalIs, Constants
    <2> QED BY <2>1, <2>2 DEF Closed, SpentInv, TypeOK
<1>3. Posting' \subseteq Posting
    <2>1. /\ \E st \in Steps \ {"upsert"} : pc' = [pc EXCEPT ![m] = st]
          /\ \A o \in Machines \ {m} : target'[o] = target[o]
        <3>1. CASE \/ Realign(m) \/ NotDue(m) \/ UpsertFails(m) \/ SaveCursor(m) \/ Leave(m)
                   \/ Restamp(m) \/ Degraded(m) \/ UpToDate(m) \/ SavePublished(m) \/ Kill(m)
            <4>1. \E st \in Steps \ {"upsert"} : Enter(m, st)
                BY <3>1 DEF Realign, NotDue, UpsertFails, SaveCursor, Leave, Restamp,
                            Degraded, UpToDate, SavePublished, Kill, Steps
            <4> QED BY <4>1 DEF Enter, Goto, SpentInv, TypeOK
        <3>2. CASE Upsert(m) \/ Rescan(m) \/ \E label \in BOOLEAN : Begin(m, label)
            <4>1. \E st \in Steps \ {"upsert"} : Goto(m, st)
                BY <3>2 DEF Upsert, Rescan, Begin, Steps
            <4>2. target' = target \/ target' = [target EXCEPT ![m] = RegisterId(m)]
                BY <3>2 DEF Upsert, Rescan, Begin
            <4> QED BY <4>1, <4>2 DEF Goto, SpentInv, TypeOK
        <3> QED BY <3>1, <3>2
    <2> QED BY <2>1 DEF Posting, SpentInv, TypeOK
<1> QED BY <1>1, <1>2, <1>3, OwnedQuietly

LEMMA OwnedStep ==
    ASSUME StampsAreOwned, SpentInv, [Next]_vars
    PROVE  StampsAreOwned'
<1>1. CASE \/ UNCHANGED vars \/ Age
           \/ \E m \in Machines : Spend(m) \/ Relocated(m) \/ Prune(m)
    <2>1. UNCHANGED <<stamps, cost, pc, target>>
        BY <1>1 DEF vars, Age, Spend, Relocated, Prune, issue, saved, pass
    <2>2. Closed' = Closed /\ Posting' = Posting
        BY <2>1 DEF Closed, Posting
    <2> QED BY <2>1, <2>2, OwnedQuietly
<1>2. ASSUME NEW m \in Machines, Close(m) PROVE StampsAreOwned'
    <2>1. UNCHANGED <<stamps, pc, target>> /\ cost' = [cost EXCEPT ![m] = Total(m)]
        BY <1>2 DEF Close, issue, pass
    <2>2. Total(m) # None
        BY TotalIs, Constants
    <2>3. Closed \subseteq Closed' /\ Posting' = Posting
        BY <2>1, <2>2 DEF Closed, Posting, SpentInv, TypeOK
    <2> QED BY <2>1, <2>3, OwnedQuietly
<1>3. CASE DeleteComment
    <2>1. UNCHANGED <<cost, pc, target>>
        BY <1>3 DEF DeleteComment, saved, pass
    <2>2. Closed' = Closed /\ Posting' = Posting
        BY <2>1 DEF Closed, Posting
    <2>3. CASE UNCHANGED stamps
        BY <2>2, <2>3, OwnedQuietly
    <2>4. ASSUME NEW k \in DOMAIN stamps, stamps' = [stamps EXCEPT ![k] = Gone]
          PROVE  StampsAreOwned'
        <3>1. k \in DOMAIN stamps' /\ stamps'[k] = Gone
            BY <2>4
        <3> QED BY <3>1 DEF StampsAreOwned, Range
    <2> QED BY <1>3, <2>3, <2>4 DEF DeleteComment
<1>4. ASSUME NEW m \in Machines, LookUp(m) PROVE StampsAreOwned'
    BY <1>4, OwnedLookUp
<1>5. ASSUME NEW m \in Machines, Publish(m) \/ PublishFails(m) PROVE StampsAreOwned'
    <2>1. /\ pc[m] = "upsert" /\ UNCHANGED cost
          /\ \E st \in Steps \ {"upsert"} : pc' = [pc EXCEPT ![m] = st]
          /\ \A o \in Machines \ {m} : target'[o] = target[o]
        BY <1>5 DEF Publish, PublishFails, Enter, Goto, saved, Steps, SpentInv, TypeOK
    <2>2. pc'[m] # "upsert" /\ \A o \in Machines \ {m} : pc'[o] = pc[o]
        BY <2>1 DEF SpentInv, TypeOK
    <2>3. CASE stamps' = WithStamp(m)
        BY <2>1, <2>2, <2>3, OwnedPublish
    <2>4. CASE stamps' = stamps
        <3>1. Closed' = Closed /\ Posting' \subseteq Posting
            BY <2>1, <2>2 DEF Closed, Posting
        <3> QED BY <2>4, <3>1, OwnedQuietly
    <2> QED BY <1>5, <2>3, <2>4 DEF Publish, PublishFails
<1>6. ASSUME NEW m \in Machines, Pass(m) PROVE StampsAreOwned'
    BY <1>4, <1>5, <1>6, OwnedElsewhere DEF Pass
<1>7. ASSUME NEW m \in Machines, Mishap(m) PROVE StampsAreOwned'
    BY <1>1, <1>5, <1>7, OwnedElsewhere DEF Mishap
<1>8. ASSUME NEW m \in Machines, People(m) PROVE StampsAreOwned'
    BY <1>1, <1>2, <1>8 DEF People
<1> QED BY <1>1, <1>3, <1>6, <1>7, <1>8 DEF Next

\* Where no stamp comment was deleted there are no more of them than machines that
\* closed the ticket, though passes die between posting one and noting its id
\* (checkpoint_stamp, _find_comment).
THEOREM StampsAreFound == Spec => []StampIsFound
<1>1. Init => StampsAreOwned
    <2> SUFFICES ASSUME Init PROVE Len(stamps) + Cardinality(Posting) <= Cardinality(Closed)
        BY DEF StampsAreOwned
    <2>1. Posting = {} /\ Len(stamps) = 0
        BY EmptySeq DEF Init, Posting
    <2>2. Cardinality(Posting) = 0
        BY <2>1, FS_EmptySet
    <2> QED BY <2>1, <2>2, FewMachines
<1>2. SpentInv /\ StampsAreOwned => StampIsFound
    <2>1. SpentInv => Len(stamps) \in Nat
        BY LenProperties DEF SpentInv, TypeOK
    <2> QED BY <2>1, FewMachines DEF StampsAreOwned, StampIsFound, Closed
<1>3. SpentInv /\ StampsAreOwned /\ [Next]_vars => StampsAreOwned'
    BY OwnedStep
<1> QED BY <1>1, <1>2, <1>3, SpentInvariant, PTL DEF Spec
=============================================================================
