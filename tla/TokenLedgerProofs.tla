------------------------- MODULE TokenLedgerProofs --------------------------
(***************************************************************************)
(* What the token ledger's hooks guarantee, for any number of sessions,    *)
(* tickets and models.                                                     *)
(*                                                                         *)
(* DoubleBillingIsAccidental compares two sums and is not inductive: rows  *)
(* that a hook has yet to append are as good as billed, a cursor may move  *)
(* back when two hooks hold one transcript, and adt-reattribute.sh may put *)
(* an old copy of the ledger back.  BillInv counts the rows still to come  *)
(* and says it of the copy as well as of the ledger.                       *)
(***************************************************************************)
EXTENDS TokenLedger, WellFoundedInduction, FiniteSetTheorems, SequenceTheorems, TLAPS

(* Numbers *)

\* By well-founded induction on the numbers.
LEMMA Least ==
    ASSUME NEW T \in SUBSET Nat, T # {}
    PROVE  \E x \in T : \A y \in T : x <= y
<1> DEFINE R == OpToRel(<, Nat)
<1>1. IsWellFoundedOn(R, Nat)
    BY NatLessThanWellFounded
<1>2. \A a, b \in Nat : a < b => <<a, b>> \in R
    BY DEF OpToRel
<1> HIDE DEF R
<1>3. PICK x \in T : \A y \in T : ~ (<<y, x>> \in R)
    BY <1>1, WFMin
<1>4. ASSUME NEW y \in T PROVE ~(y < x)
    BY <1>2, <1>3
<1> QED BY <1>3, <1>4

-----------------------------------------------------------------------------
(* Sums: SumFunction of the community modules picks the elements of the       *)
(* domain in an order of its own.                                             *)

Pick(s) == CHOOSE x \in s : TRUE

\* What is summed up after x was picked, for every part of S.
IsSum(f, S, g) ==
    g = [s \in SUBSET S |-> IF s = {} THEN 0 ELSE f[Pick(s)] + g[s \ {Pick(s)}]]

SumOf(f, S) == CHOOSE g : IsSum(f, S, g)

LEMMA SumFunctionIs ==
    ASSUME NEW f
    PROVE  SumFunction(f) = SumOf(f, DOMAIN f)[DOMAIN f]
BY DEF SumFunction, SumFunctionOnSet, FoldFunctionOnSet, MapThenFoldSet, IsSum, SumOf,
       Pick

\* Without an element a set has one less.
LEMMA OneLess ==
    ASSUME NEW s, IsFiniteSet(s), NEW x \in s
    PROVE  /\ IsFiniteSet(s \ {x}) /\ Cardinality(s \ {x}) \in Nat
           /\ Cardinality(s) = Cardinality(s \ {x}) + 1
<1>1. /\ IsFiniteSet(s \ {x}) /\ Cardinality(s \ {x}) = Cardinality(s) - 1
      /\ Cardinality(s) \in Nat
    BY FS_RemoveElement, FS_CardinalityType
<1>2. Cardinality(s \ {x}) \in Nat
    BY <1>1, FS_CardinalityType
<1> QED BY <1>1, <1>2

\* Sums over parts of at most k elements extend to parts of one more.
LEMMA SumExists ==
    ASSUME NEW S, IsFiniteSet(S), NEW f
    PROVE  IsSum(f, S, SumOf(f, S))
<1> DEFINE Upto(k) == {s \in SUBSET S : Cardinality(s) <= k}
           Step(g, s) == IF s = {} THEN 0 ELSE f[Pick(s)] + g[s \ {Pick(s)}]
           Done(k) == \E g : g = [s \in Upto(k) |-> Step(g, s)]
           Bad == {k \in Nat : ~Done(k)}
<1>1. \A s \in SUBSET S : /\ IsFiniteSet(s) /\ Cardinality(s) \in Nat
                          /\ Cardinality(s) <= Cardinality(S)
    BY FS_Subset, FS_CardinalityType
<1>2. \A s \in SUBSET S : s # {} =>
          /\ Pick(s) \in s /\ s \ {Pick(s)} \in SUBSET S
          /\ Cardinality(s) = Cardinality(s \ {Pick(s)}) + 1
          /\ Cardinality(s \ {Pick(s)}) \in Nat
    BY <1>1, OneLess DEF Pick
<1>3. Done(0)
    <2> DEFINE g == [s \in Upto(0) |-> 0]
    <2>1. \A s \in Upto(0) : s = {}
        BY <1>1, FS_EmptySet
    <2>2. g = [s \in Upto(0) |-> Step(g, s)]
        BY <2>1
    <2> QED BY <2>2
<1>4. ASSUME NEW k \in Nat, Done(k) PROVE Done(k + 1)
    <2>1. PICK g : g = [s \in Upto(k) |-> Step(g, s)]
        BY <1>4
    <2> DEFINE h == [s \in Upto(k + 1) |-> IF s \in Upto(k) THEN g[s] ELSE Step(g, s)]
    <2>2. Upto(k) \subseteq Upto(k + 1)
        BY <1>1
    <2>3. ASSUME NEW s \in Upto(k + 1) PROVE h[s] = Step(h, s)
        <3>1. CASE s = {}
            BY <2>1, <3>1
        <3>2. CASE s # {}
            <4> DEFINE r == s \ {Pick(s)}
            <4>1. r \in Upto(k) /\ r \in Upto(k + 1)
                BY <1>1, <1>2, <2>2, <3>2
            <4>2. h[r] = g[r]
                BY <4>1
            <4>3. h[s] = Step(g, s)
                BY <2>1
            <4> QED BY <3>2, <4>2, <4>3
        <3> QED BY <3>1, <3>2
    <2>4. h = [s \in Upto(k + 1) |-> Step(h, s)]
        BY <2>3
    <2> HIDE DEF h
    <2> QED BY <2>4
<1>5. \A k \in Nat : Done(k)
    <2> SUFFICES ASSUME Bad # {} PROVE FALSE
        OBVIOUS
    <2> HIDE DEF Done
    <2>1. PICK k \in Bad : \A j \in Bad : k <= j
        BY Least
    <2>2. k # 0
        BY <1>3
    <2>3. k - 1 \in Nat /\ k - 1 \notin Bad
        BY <2>1, <2>2
    <2>4. Done(k - 1) /\ (k - 1) + 1 = k
        BY <2>3
    <2> QED BY <1>4, <2>1, <2>3, <2>4
<1>6. Cardinality(S) \in Nat /\ Upto(Cardinality(S)) = SUBSET S
    BY <1>1
<1>7. \E g : g = [s \in SUBSET S |-> Step(g, s)]
    <2>1. Done(Cardinality(S))
        <3> HIDE DEF Done
        <3> QED BY <1>5, <1>6
    <2> HIDE DEF Upto, Step
    <2> QED BY <1>6, <2>1
<1>8. \E g : IsSum(f, S, g)
    BY <1>7 DEF IsSum
<1> QED BY <1>8 DEF SumOf

\* The order does not matter.
LEMMA SumFacts ==
    ASSUME NEW S, IsFiniteSet(S), NEW f \in [S -> Nat], NEW T \in SUBSET S
    PROVE  /\ SumOf(f, S)[{}] = 0
           /\ SumOf(f, S)[T] \in Nat
           /\ \A x \in T : SumOf(f, S)[T] = f[x] + SumOf(f, S)[T \ {x}]
<1> DEFINE g == SumOf(f, S)
           Good(s) == g[s] \in Nat /\ \A x \in s : g[s] = f[x] + g[s \ {x}]
           Bad == {k \in Nat : \E s \in SUBSET S : Cardinality(s) = k /\ ~Good(s)}
<1>1. \A s \in SUBSET S : IsFiniteSet(s) /\ Cardinality(s) \in Nat
    BY FS_Subset, FS_CardinalityType
<1>2. \A s \in SUBSET S :
          g[s] = IF s = {} THEN 0 ELSE f[Pick(s)] + g[s \ {Pick(s)}]
    <2>1. g = [s \in SUBSET S |->
                  IF s = {} THEN 0 ELSE f[Pick(s)] + g[s \ {Pick(s)}]]
        BY SumExists DEF IsSum
    <2> HIDE DEF g
    <2> QED BY <2>1
<1> HIDE DEF g
<1>3. \A s \in SUBSET S : Good(s)
    <2> SUFFICES ASSUME Bad # {} PROVE FALSE
        BY <1>1
    <2>1. PICK k \in Bad : \A j \in Bad : k <= j
        <3> HIDE DEF Good
        <3> QED BY Least
    <2>2. PICK s \in SUBSET S : Cardinality(s) = k /\ ~Good(s)
        BY <2>1
    <2>3. \A r \in SUBSET S : Cardinality(r) < k => Good(r)
        <3> HIDE DEF Good
        <3> QED BY <1>1, <2>1
    <2>4. s # {}
        <3>1. g[{}] = 0
            BY <1>2
        <3> QED BY <2>2, <3>1
    <2> DEFINE c == Pick(s)
    <2>5. c \in s /\ g[s] = f[c] + g[s \ {c}]
        BY <1>2, <2>4 DEF Pick
    <2> HIDE DEF c
    <2>6. \A x \in s : Good(s \ {x})
        <3> TAKE x \in s
        <3>1. s \ {x} \in SUBSET S /\ Cardinality(s \ {x}) < k
            <4>1. Cardinality(s) = Cardinality(s \ {x}) + 1 /\ Cardinality(s \ {x}) \in Nat
                BY <1>1, OneLess
            <4> QED BY <2>2, <4>1
        <3> QED BY <2>3, <3>1
    <2>7. \A x \in s : f[x] \in Nat
        OBVIOUS
    <2>8. g[s] \in Nat
        <3>1. g[s \ {c}] \in Nat /\ f[c] \in Nat
            BY <2>5, <2>6, <2>7
        <3> QED BY <2>5, <3>1
    <2>9. ASSUME NEW x \in s, x # c PROVE g[s] = f[x] + g[s \ {x}]
        <3>1. x \in s \ {c} /\ c \in s \ {x}
            BY <2>5, <2>9
        <3>2. /\ g[s \ {c}] = f[x] + g[(s \ {c}) \ {x}]
              /\ g[s \ {x}] = f[c] + g[(s \ {x}) \ {c}]
            BY <2>5, <2>6, <3>1
        <3>3. (s \ {c}) \ {x} = (s \ {x}) \ {c}
            OBVIOUS
        <3>4. g[(s \ {x}) \ {c}] \in Nat
            <4>1. Cardinality((s \ {x}) \ {c}) < k
                <5>1. /\ Cardinality(s) = Cardinality(s \ {x}) + 1
                      /\ IsFiniteSet(s \ {x}) /\ Cardinality(s \ {x}) \in Nat
                    BY <1>1, OneLess
                <5>2. /\ Cardinality(s \ {x}) = Cardinality((s \ {x}) \ {c}) + 1
                      /\ Cardinality((s \ {x}) \ {c}) \in Nat
                    BY <3>1, <5>1, OneLess
                <5> QED BY <2>2, <5>1, <5>2
            <4>2. (s \ {x}) \ {c} \in SUBSET S
                OBVIOUS
            <4> QED BY <2>3, <4>1, <4>2
        <3> QED BY <2>5, <2>7, <3>2, <3>3, <3>4
    <2> QED BY <2>2, <2>5, <2>8, <2>9
<1>4. g[{}] = 0
    BY <1>2
<1> QED BY <1>3, <1>4 DEF g

\* Only the values on the part count.
LEMMA SumAgrees ==
    ASSUME NEW S, IsFiniteSet(S), NEW f \in [S -> Nat],
           NEW R, IsFiniteSet(R), NEW h \in [R -> Nat],
           NEW T \in SUBSET (S \cap R), \A x \in T : f[x] <= h[x]
    PROVE  /\ SumOf(f, S)[T] <= SumOf(h, R)[T]
           /\ (\A x \in T : f[x] = h[x]) => SumOf(f, S)[T] = SumOf(h, R)[T]
<1> DEFINE a == SumOf(f, S)
           b == SumOf(h, R)
           Good(s) == /\ a[s] <= b[s]
                      /\ (\A x \in T : f[x] = h[x]) => a[s] = b[s]
           Bad == {k \in Nat : \E s \in SUBSET T : Cardinality(s) = k /\ ~Good(s)}
<1>1. \A s \in SUBSET T : IsFiniteSet(s) /\ Cardinality(s) \in Nat
    <2>1. IsFiniteSet(T)
        BY FS_Subset
    <2> QED BY <2>1, FS_Subset, FS_CardinalityType
<1>2. \A s \in SUBSET T :
          /\ a[s] \in Nat /\ \A x \in s : a[s] = f[x] + a[s \ {x}]
          /\ b[s] \in Nat /\ \A x \in s : b[s] = h[x] + b[s \ {x}]
    <2> TAKE s \in SUBSET T
    <2>1. s \in SUBSET S /\ s \in SUBSET R
        OBVIOUS
    <2>2. a[s] \in Nat /\ \A x \in s : a[s] = f[x] + a[s \ {x}]
        BY <2>1, SumFacts
    <2>3. b[s] \in Nat /\ \A x \in s : b[s] = h[x] + b[s \ {x}]
        BY <2>1, SumFacts
    <2> QED BY <2>2, <2>3
<1>3. a[{}] = 0 /\ b[{}] = 0
    BY SumFacts
<1> HIDE DEF a, b
<1>4. \A s \in SUBSET T : Good(s)
    <2> SUFFICES ASSUME Bad # {} PROVE FALSE
        BY <1>1
    <2>1. PICK k \in Bad : \A j \in Bad : k <= j
        <3> HIDE DEF Good
        <3> QED BY Least
    <2>2. PICK s \in SUBSET T : Cardinality(s) = k /\ ~Good(s)
        BY <2>1
    <2>3. \A r \in SUBSET T : Cardinality(r) < k => Good(r)
        <3> HIDE DEF Good
        <3> QED BY <1>1, <2>1
    <2>4. s # {}
        BY <1>3, <2>2
    <2>5. PICK x \in s : TRUE
        BY <2>4
    <2>6. Good(s \ {x})
        <3>1. Cardinality(s) = Cardinality(s \ {x}) + 1 /\ Cardinality(s \ {x}) \in Nat
            BY <1>1, OneLess
        <3>2. s \ {x} \in SUBSET T /\ Cardinality(s \ {x}) < k
            BY <2>2, <3>1
        <3> HIDE DEF Good
        <3> QED BY <2>3, <3>2
    <2>7. /\ a[s] = f[x] + a[s \ {x}] /\ b[s] = h[x] + b[s \ {x}]
          /\ a[s \ {x}] \in Nat /\ b[s \ {x}] \in Nat
        BY <1>2
    <2>8. f[x] \in Nat /\ h[x] \in Nat /\ f[x] <= h[x]
        BY <2>5
    <2> QED BY <2>2, <2>5, <2>6, <2>7, <2>8
<1> QED BY <1>4 DEF a, b

\* A sum of numbers is a number.
LEMMA SumType ==
    ASSUME NEW S, IsFiniteSet(S), NEW f \in [S -> Nat]
    PROVE  SumFunction(f) \in Nat
BY SumFunctionIs, SumFacts

\* A term and the rest.
LEMMA SumSplit ==
    ASSUME NEW S, IsFiniteSet(S), NEW f \in [S -> Nat], NEW x \in S
    PROVE  SumFunction(f) = f[x] + SumFunction([y \in S \ {x} |-> f[y]])
<1> DEFINE R == S \ {x}
           h == [y \in R |-> f[y]]
<1>1. IsFiniteSet(R) /\ h \in [R -> Nat] /\ R \in SUBSET (S \cap R)
    BY FS_RemoveElement
<1>2. \A y \in R : h[y] = f[y] /\ h[y] \in Nat
    OBVIOUS
<1>3. SumFunction(f) = f[x] + SumOf(f, S)[R]
    <2>1. SumFunction(f) = SumOf(f, S)[S]
        BY SumFunctionIs
    <2> HIDE DEF R, h
    <2>2. \A T \in SUBSET S : \A y \in T :
              SumOf(f, S)[T] = f[y] + SumOf(f, S)[T \ {y}]
        BY SumFacts, Zenon
    <2>3. S \ {x} = R
        BY DEF R
    <2> QED BY <2>1, <2>2, <2>3
<1>4. SumFunction(h) = SumOf(h, R)[R]
    BY SumFunctionIs
<1>5. SumOf(h, R)[R] = SumOf(f, S)[R]
    <2>1. \A y \in R : h[y] <= f[y]
        BY <1>2
    <2>2. R \in SUBSET (R \cap S)
        OBVIOUS
    <2> HIDE DEF h, R
    <2> QED BY <1>1, <1>2, <2>1, <2>2, SumAgrees
<1> QED BY <1>3, <1>4, <1>5

\* A sum grows with its terms.
LEMMA SumGrows ==
    ASSUME NEW S, IsFiniteSet(S), NEW f \in [S -> Nat], NEW h \in [S -> Nat],
           \A x \in S : f[x] <= h[x]
    PROVE  SumFunction(f) <= SumFunction(h)
<1>1. S \in SUBSET (S \cap S)
    OBVIOUS
<1> QED BY <1>1, SumFunctionIs, SumAgrees

-----------------------------------------------------------------------------
(* Sums over parts of a set, over its fibres, and with factors *)

\* A family of sets that a set enters with one of its elements has all of them.
LEMMA SetInduction ==
    ASSUME NEW S, IsFiniteSet(S), NEW G, {} \in G,
           \A T \in SUBSET S : \A x \in T : T \ {x} \in G => T \in G
    PROVE  \A T \in SUBSET S : T \in G
<1> DEFINE Bad == {k \in Nat : \E T \in SUBSET S : Cardinality(T) = k /\ T \notin G}
<1>1. \A T \in SUBSET S : IsFiniteSet(T) /\ Cardinality(T) \in Nat
    BY FS_Subset, FS_CardinalityType
<1>2. SUFFICES ASSUME Bad # {} PROVE FALSE
    BY <1>1
<1>3. PICK k \in Bad : \A j \in Bad : k <= j
    BY <1>2, Least
<1>4. PICK T \in SUBSET S : Cardinality(T) = k /\ T \notin G
    BY <1>3
<1>5. PICK x \in T : TRUE
    BY <1>4
<1>6. Cardinality(T \ {x}) \in Nat /\ Cardinality(T) = Cardinality(T \ {x}) + 1
    BY <1>1, OneLess
<1>7. Cardinality(T \ {x}) \notin Bad
    BY <1>3, <1>4, <1>6
<1>8. T \ {x} \in G
    BY <1>6, <1>7
<1> QED BY <1>4, <1>8

\* The sum over a part of the domain.
Part(f, T) == SumFunction([x \in T |-> f[x]])

LEMMA PartFacts ==
    ASSUME NEW S, IsFiniteSet(S), NEW f \in [S -> Nat]
    PROVE  /\ Part(f, {}) = 0 /\ Part(f, S) = SumFunction(f)
           /\ \A T \in SUBSET S :
                /\ Part(f, T) \in Nat
                /\ \A x \in T : Part(f, T) = f[x] + Part(f, T \ {x})
<1>1. ASSUME NEW T \in SUBSET S
      PROVE  /\ Part(f, T) \in Nat
             /\ \A x \in T : Part(f, T) = f[x] + Part(f, T \ {x})
    <2> DEFINE g == [x \in T |-> f[x]]
    <2>1. IsFiniteSet(T) /\ g \in [T -> Nat]
        BY FS_Subset
    <2>2. SumFunction(g) \in Nat
        <3> HIDE DEF g
        <3> QED BY <2>1, SumType
    <2>3. ASSUME NEW x \in T PROVE SumFunction(g) = f[x] + Part(f, T \ {x})
        <3>1. [y \in T \ {x} |-> g[y]] = [y \in T \ {x} |-> f[y]] /\ g[x] = f[x]
            OBVIOUS
        <3> HIDE DEF g
        <3>2. SumFunction(g) = g[x] + SumFunction([y \in T \ {x} |-> g[y]])
            BY <2>1, SumSplit
        <3> QED BY <3>1, <3>2 DEF Part
    <2> QED BY <2>2, <2>3 DEF Part
<1>2. Part(f, {}) = 0
    <2> DEFINE g == [x \in {} |-> f[x]]
    <2>1. IsFiniteSet({}) /\ g \in [{} -> Nat] /\ DOMAIN g = {}
        BY FS_EmptySet
    <2>2. SumFunction(g) = 0
        <3> HIDE DEF g
        <3> QED BY <2>1, SumFunctionIs, SumFacts
    <2> QED BY <2>2 DEF Part
<1>3. f = [x \in S |-> f[x]]
    OBVIOUS
<1> QED BY <1>1, <1>2, <1>3 DEF Part

\* A part and the rest of it.
LEMMA SumUnion ==
    ASSUME NEW S, IsFiniteSet(S), NEW f \in [S -> Nat], NEW P \in SUBSET S
    PROVE  SumFunction(f) = Part(f, P) + Part(f, S \ P)
<1> DEFINE G == {T \in SUBSET S : Part(f, T) = Part(f, T \cap P) + Part(f, T \ P)}
<1>1. {} \in G
    <2>1. {} \cap P = {} /\ {} \ P = {}
        OBVIOUS
    <2> QED BY <2>1, PartFacts
<1>2. ASSUME NEW T \in SUBSET S, NEW x \in T, T \ {x} \in G PROVE T \in G
    <2> DEFINE R == T \ {x}
    <2>1. /\ Part(f, R) = Part(f, R \cap P) + Part(f, R \ P)
          /\ Part(f, T) = f[x] + Part(f, R)
          /\ Part(f, R \cap P) \in Nat /\ Part(f, R \ P) \in Nat /\ f[x] \in Nat
        <3>1. R \cap P \in SUBSET S /\ R \ P \in SUBSET S
            OBVIOUS
        <3>2. Part(f, R) = Part(f, R \cap P) + Part(f, R \ P)
            BY <1>2
        <3>3. Part(f, T) = f[x] + Part(f, R) /\ f[x] \in Nat
            BY PartFacts
        <3> HIDE DEF R
        <3> QED BY <3>1, <3>2, <3>3, PartFacts
    <2>2. CASE x \in P
        <3>1. R \cap P = (T \cap P) \ {x} /\ R \ P = T \ P
            BY <2>2
        <3>2. Part(f, T \cap P) = f[x] + Part(f, R \cap P)
            <4>1. T \cap P \in SUBSET S /\ x \in T \cap P
                BY <2>2
            <4> HIDE DEF R
            <4> QED BY <3>1, <4>1, PartFacts
        <3>3. Part(f, T \ P) = Part(f, R \ P)
            BY <3>1
        <3> HIDE DEF R
        <3>4. Part(f, T) = Part(f, T \cap P) + Part(f, T \ P)
            BY <2>1, <3>2, <3>3
        <3> QED BY <3>4
    <2>3. CASE x \notin P
        <3>1. R \cap P = T \cap P /\ R \ P = (T \ P) \ {x}
            BY <2>3
        <3>2. Part(f, T \ P) = f[x] + Part(f, R \ P)
            <4>1. T \ P \in SUBSET S /\ x \in T \ P
                BY <2>3
            <4> HIDE DEF R
            <4> QED BY <3>1, <4>1, PartFacts
        <3>3. Part(f, T \cap P) = Part(f, R \cap P)
            BY <3>1
        <3> HIDE DEF R
        <3>4. Part(f, T) = Part(f, T \cap P) + Part(f, T \ P)
            BY <2>1, <3>2, <3>3
        <3> QED BY <3>4
    <2> QED BY <2>2, <2>3
<1>3. S \in G
    <2>1. \A T \in SUBSET S : \A x \in T : T \ {x} \in G => T \in G
        BY <1>2
    <2> HIDE DEF G
    <2>2. \A T \in SUBSET S : T \in G
        BY <1>1, <2>1, SetInduction
    <2> QED BY <2>2
<1>4. S \cap P = P
    OBVIOUS
<1> QED BY <1>3, <1>4, PartFacts

\* One term changes.
LEMMA SumChange ==
    ASSUME NEW S, IsFiniteSet(S), NEW f \in [S -> Nat], NEW g \in [S -> Nat],
           NEW x \in S, \A y \in S \ {x} : f[y] = g[y]
    PROVE  SumFunction(g) + f[x] = SumFunction(f) + g[x]
<1>1. [y \in S \ {x} |-> f[y]] = [y \in S \ {x} |-> g[y]]
    OBVIOUS
<1>2. /\ SumFunction(f) = f[x] + Part(f, S \ {x})
      /\ SumFunction(g) = g[x] + Part(f, S \ {x})
    BY <1>1, SumSplit DEF Part
<1>3. Part(f, S \ {x}) \in Nat /\ f[x] \in Nat /\ g[x] \in Nat
    BY PartFacts
<1> QED BY <1>2, <1>3

\* The sum over a set is the sum, over the values of a function, of the sums
\* over the elements that have the value.
LEMMA SumFibres ==
    ASSUME NEW S, IsFiniteSet(S), NEW f \in [S -> Nat],
           NEW R, IsFiniteSet(R), NEW g \in [S -> R]
    PROVE  /\ \A r \in R : Part(f, {x \in S : g[x] = r}) \in Nat
           /\ SumFunction(f) = SumFunction([r \in R |-> Part(f, {x \in S : g[x] = r})])
<1> DEFINE Of(T, r) == {x \in T : g[x] = r}
           sums(T) == [r \in R |-> Part(f, Of(T, r))]
           G == {T \in SUBSET S : Part(f, T) = SumFunction(sums(T))}
<1>1. \A T \in SUBSET S : \A r \in R : Part(f, Of(T, r)) \in Nat
    <2>1. \A T \in SUBSET S : \A r \in R : Of(T, r) \in SUBSET S
        OBVIOUS
    <2> HIDE DEF Of
    <2> QED BY <2>1, PartFacts
<1>2. {} \in G
    <2> DEFINE z == [r \in R |-> 0]
               H == {Q \in SUBSET R : Part(z, Q) = 0}
    <2>1. sums({}) = z
        <3>1. \A r \in R : Of({}, r) = {}
            OBVIOUS
        <3> HIDE DEF Of
        <3> QED BY <3>1, PartFacts
    <2>2. z \in [R -> Nat]
        OBVIOUS
    <2>3. {} \in H
        <3> HIDE DEF z
        <3> QED BY <2>2, PartFacts
    <2>4. ASSUME NEW Q \in SUBSET R, NEW r \in Q, Q \ {r} \in H PROVE Q \in H
        <3>1. z[r] = 0
            OBVIOUS
        <3> HIDE DEF z
        <3>2. Part(z, Q) = z[r] + Part(z, Q \ {r})
            BY <2>2, PartFacts
        <3>3. Part(z, Q \ {r}) = 0
            BY <2>4
        <3> QED BY <3>1, <3>2, <3>3
    <2>5. R \in H
        <3>1. \A Q \in SUBSET R : \A r \in Q : Q \ {r} \in H => Q \in H
            BY <2>4
        <3> HIDE DEF H
        <3>2. \A Q \in SUBSET R : Q \in H
            BY <2>3, <3>1, SetInduction
        <3> QED BY <3>2
    <2>6. SumFunction(z) = 0
        <3> HIDE DEF z
        <3> QED BY <2>2, <2>5, PartFacts
    <2>7. Part(f, {}) = 0
        BY PartFacts
    <2> HIDE DEF z, sums
    <2> QED BY <2>1, <2>6, <2>7
<1>3. ASSUME NEW T \in SUBSET S, NEW x \in T, T \ {x} \in G PROVE T \in G
    <2> DEFINE Q == T \ {x}
    <2>1. Of(Q, g[x]) = Of(T, g[x]) \ {x} /\ x \in Of(T, g[x])
        OBVIOUS
    <2>2. \A r \in R \ {g[x]} : Of(Q, r) = Of(T, r)
        OBVIOUS
    <2>3. Part(f, Of(T, g[x])) = f[x] + Part(f, Of(Q, g[x]))
        <3>1. Of(T, g[x]) \in SUBSET S
            OBVIOUS
        <3> HIDE DEF Of, Q
        <3> QED BY <2>1, <3>1, PartFacts
    <2>4. /\ sums(T) \in [R -> Nat] /\ sums(Q) \in [R -> Nat] /\ g[x] \in R
          /\ \A r \in R \ {g[x]} : sums(Q)[r] = sums(T)[r]
          /\ sums(T)[g[x]] = f[x] + sums(Q)[g[x]]
        <3>1. Q \in SUBSET S /\ g[x] \in R
            OBVIOUS
        <3> HIDE DEF Of, Q
        <3> QED BY <1>1, <2>2, <2>3, <3>1
    <2>5. SumFunction(sums(T)) + sums(Q)[g[x]] = SumFunction(sums(Q)) + sums(T)[g[x]]
        <3> HIDE DEF sums, Q
        <3> QED BY <2>4, SumChange
    <2>6. Part(f, T) = f[x] + Part(f, Q) /\ f[x] \in Nat /\ Part(f, Q) \in Nat
        BY PartFacts
    <2>7. Part(f, Q) = SumFunction(sums(Q))
        BY <1>3
    <2>8. SumFunction(sums(T)) \in Nat /\ SumFunction(sums(Q)) \in Nat
        <3> HIDE DEF sums, Q
        <3> QED BY <2>4, SumType
    <2>9. sums(Q)[g[x]] \in Nat
        <3> HIDE DEF sums, Q
        <3> QED BY <2>4
    <2>10. SumFunction(sums(T)) = f[x] + SumFunction(sums(Q))
        <3> HIDE DEF sums, Q
        <3> QED BY <2>4, <2>5, <2>6, <2>8, <2>9
    <2> HIDE DEF sums, Q
    <2> QED BY <2>6, <2>7, <2>10
<1>4. S \in G
    <2>1. \A T \in SUBSET S : \A x \in T : T \ {x} \in G => T \in G
        BY <1>3
    <2> HIDE DEF G
    <2>2. \A T \in SUBSET S : T \in G
        BY <1>2, <2>1, SetInduction
    <2> QED BY <2>2
<1> QED BY <1>1, <1>4, PartFacts

\* A common factor.
LEMMA SumFactor ==
    ASSUME NEW S, IsFiniteSet(S), NEW f \in [S -> Nat], NEW c \in Nat
    PROVE  SumFunction([x \in S |-> c * f[x]]) = c * SumFunction(f)
<1> DEFINE h == [x \in S |-> c * f[x]]
           G == {T \in SUBSET S : Part(h, T) = c * Part(f, T)}
<1>1. h \in [S -> Nat]
    OBVIOUS
<1>2. {} \in G
    <2> HIDE DEF h
    <2> QED BY <1>1, PartFacts
<1>3. ASSUME NEW T \in SUBSET S, NEW x \in T, T \ {x} \in G PROVE T \in G
    <2>1. h[x] = c * f[x]
        OBVIOUS
    <2> HIDE DEF h
    <2>2. /\ Part(h, T) = h[x] + Part(h, T \ {x})
          /\ Part(f, T) = f[x] + Part(f, T \ {x})
          /\ Part(h, T \ {x}) = c * Part(f, T \ {x})
          /\ Part(f, T \ {x}) \in Nat /\ f[x] \in Nat
        BY <1>1, <1>3, PartFacts
    <2>3. \A a, b \in Nat : c * (a + b) = c * a + c * b
        OBVIOUS
    <2> QED BY <2>1, <2>2, <2>3
<1>4. S \in G
    <2>1. \A T \in SUBSET S : \A x \in T : T \ {x} \in G => T \in G
        BY <1>3
    <2> HIDE DEF G
    <2>2. \A T \in SUBSET S : T \in G
        BY <1>2, <2>1, SetInduction
    <2> QED BY <2>2
<1> HIDE DEF h
<1>5. SumFunction(h) = c * SumFunction(f)
    BY <1>1, <1>4, PartFacts
<1> QED BY <1>5 DEF h

\* A sum of ones counts.
LEMMA SumOnes ==
    ASSUME NEW S, IsFiniteSet(S)
    PROVE  SumFunction([x \in S |-> 1]) = Cardinality(S)
<1> DEFINE f == [x \in S |-> 1]
           G == {T \in SUBSET S : Part(f, T) = Cardinality(T)}
<1>1. f \in [S -> Nat]
    OBVIOUS
<1>2. {} \in G
    <2> HIDE DEF f
    <2> QED BY <1>1, PartFacts, FS_EmptySet
<1>3. ASSUME NEW T \in SUBSET S, NEW x \in T, T \ {x} \in G PROVE T \in G
    <2>1. f[x] = 1
        OBVIOUS
    <2> HIDE DEF f
    <2>2. IsFiniteSet(T)
        BY FS_Subset
    <2>3. Cardinality(T) = Cardinality(T \ {x}) + 1 /\ Cardinality(T \ {x}) \in Nat
        BY <2>2, OneLess
    <2> QED BY <1>1, <1>3, <2>1, <2>3, PartFacts
<1>4. S \in G
    <2>1. \A T \in SUBSET S : \A x \in T : T \ {x} \in G => T \in G
        BY <1>3
    <2> HIDE DEF G
    <2>2. \A T \in SUBSET S : T \in G
        BY <1>2, <2>1, SetInduction
    <2> QED BY <2>2
<1> HIDE DEF f
<1>5. SumFunction(f) = Cardinality(S)
    BY <1>1, <1>4, PartFacts
<1> QED BY <1>5 DEF f
-----------------------------------------------------------------------------
\* What a hook may be at.
HookState == [step : {"idle", "append", "find", "sweep"}, target : Sessions \cup {None},
              upto : Nat, rows : Seq(Row), todo : SUBSET Sessions]

\* A ledger holds finitely many rows.
IsLedger(bag) == DOMAIN bag \subseteq Row /\ IsABag(bag) /\ IsFiniteSet(DOMAIN bag)

\* A hook's rows are different ones, all of the session it bills; it never
\* bills beyond the end of the transcript, and nor does the cursor.
HookInv(at) ==
    /\ at.step = "append" => at.target # None /\ at.upto <= Len(transcript[at.target])
    /\ at.step # "append" => at.target = None /\ at.rows = <<>>
    /\ \A i \in DOMAIN at.rows : at.rows[i].sess = at.target
    /\ IsInjective(at.rows)

SessionsInv ==
    /\ transcript \in [Sessions -> Seq(Models)]
    /\ cursor \in [Sessions -> 0..Top]
    /\ newer \in [Sessions -> BOOLEAN] /\ cold \in [Sessions -> BOOLEAN]
    /\ recent \in [Sessions -> BOOLEAN] /\ alive \in [Sessions -> BOOLEAN]
    /\ \A s \in Sessions : cursor[s] <= Len(transcript[s]) /\ Len(transcript[s]) <= Top

HooksInv == hook \in [Sessions -> HookState] /\ \A h \in Sessions : HookInv(hook[h])

BooksInv == IsLedger(ledger) /\ (rewriting # None => IsLedger(rewriting))

RegsInv ==
    /\ regs = [t \in Carded |-> regs[t]]
    /\ \A t \in Carded : \A m \in DOMAIN regs[t] : m \in Machines /\ regs[t][m] \in Register

CountsInv == accidents \in [Sessions -> Nat] /\ used \in [Kinds -> Nat]

LedgerInv == SessionsInv /\ HooksInv /\ BooksInv /\ RegsInv /\ CountsInv

\* What the hooks that hold s have yet to append for it.
RowsLeft(at) == {at.rows[i] : i \in DOMAIN at.rows}
Owing(at) == SumFunction([row \in RowsLeft(at) |-> row.n])
Owed(hooks, s) ==
    SumFunction([h \in Sessions |-> IF hooks[h].target = s THEN Owing(hooks[h]) ELSE 0])

\* The tokens of the first k messages, and of all.
Prefix(log, k) == SumFunction([i \in 1..k |-> Tokens[log[i]]])
Whole(log) == Prefix(log, Len(log))

\* Every accident has billed the transcript once more at most; beyond that, what
\* is billed or about to be ends where each holder stopped, or at the cursor.
Bounded(bill, log, at, extra, hooks, s) ==
    LET all == bill + Owed(hooks, s)
        surplus == extra * Whole(log)
    IN  /\ \A h \in Sessions : hooks[h].target = s => all <= surplus + Prefix(log, hooks[h].upto)
        /\ (\A h \in Sessions : hooks[h].target # s) => all <= surplus + Prefix(log, at)

Within(bag) ==
    \A s \in Sessions :
        Bounded(BilledBy(bag, s), transcript[s], cursor[s], accidents[s], hook, s)

BillInv == Within(ledger) /\ (rewriting # None => Within(rewriting))

-----------------------------------------------------------------------------
(* The operators of LedgerCost *)

LEMMA Products == \A a, b \in Nat : a * b \in Nat
OBVIOUS

\* A row of a ledger is worth a number of tokens.
LEMMA RowWorth ==
    ASSUME NEW bag, IsLedger(bag), NEW row \in DOMAIN bag
    PROVE  /\ row \in Row /\ row.n \in Nat /\ row.id \in Id /\ row.sess \in Sessions
           /\ bag[row] \in Nat /\ bag[row] > 0 /\ row.n * bag[row] \in Nat
<1>1. row \in Row /\ row.n \in Nat /\ row.id \in Id /\ row.sess \in Sessions
    BY DEF IsLedger, Row
<1>2. bag[row] \in Nat /\ bag[row] > 0
    BY DEF IsLedger, IsABag
<1> QED BY <1>1, <1>2, Products

\* So is any part of it.
LEMMA RowsWorth ==
    ASSUME NEW bag, IsLedger(bag), NEW rows \in SUBSET DOMAIN bag
    PROVE  /\ IsFiniteSet(rows)
           /\ [row \in rows |-> row.n * bag[row]] \in [rows -> Nat]
           /\ SumFunction([row \in rows |-> row.n * bag[row]]) \in Nat
<1>1. IsFiniteSet(rows)
    BY FS_Subset DEF IsLedger
<1>2. [row \in rows |-> row.n * bag[row]] \in [rows -> Nat]
    BY RowWorth
<1> QED BY <1>1, <1>2, SumType

Tiers == {"measured", "estimated", "legacy"}

\* Worst picks a tier of the set that no other one outranks.
LEMMA WorstIs ==
    ASSUME NEW T \in SUBSET Tiers, T # {}
    PROVE  Worst(T) \in T /\ \A u \in T : Rank[u] <= Rank[Worst(T)]
<1>1. Rank["measured"] = 0 /\ Rank["estimated"] = 1 /\ Rank["legacy"] = 2
    BY DEF Rank
<1>2. \E t \in T : \A u \in T : Rank[u] <= Rank[t]
    <2>1. CASE "legacy" \in T
        BY <1>1, <2>1 DEF Tiers
    <2>2. CASE "legacy" \notin T /\ "estimated" \in T
        BY <1>1, <2>2 DEF Tiers
    <2>3. CASE "legacy" \notin T /\ "estimated" \notin T
        <3>1. T = {"measured"}
            BY <2>3 DEF Tiers
        <3> QED BY <1>1, <3>1
    <2> QED BY <2>1, <2>2, <2>3
<1> QED BY <1>2 DEF Worst

\* What a row is worth in money, and whether that was measured.
LEMMA MicrosType ==
    ASSUME NEW row \in Row
    PROVE  Micros(row) \in Nat \cup {None} /\ Tier(row) \in Tiers
<1>1. row.n \in Nat
    BY DEF Row
<1>2. Tier(row) \in Tiers
    BY DEF Tier, Tiers
<1>3. CASE Priced(row)
    <2>1. Rates[row.model] \in Nat
        BY <1>3, LedgerCostAssumption DEF Priced
    <2>2. row.n * Rates[row.model] \in Nat
        BY <1>1, <2>1, Products
    <2> QED BY <1>2, <1>3, <2>2 DEF Micros
<1>4. CASE ~Priced(row) /\ Ratio # None
    <2>1. Ratio \in Nat
        BY <1>4, LedgerCostAssumption
    <2>2. row.n * Ratio \in Nat
        BY <1>1, <2>1, Products
    <2> QED BY <1>2, <1>4, <2>2 DEF Micros
<1>5. CASE ~Priced(row) /\ Ratio = None
    BY <1>2, <1>5 DEF Micros
<1> QED BY <1>3, <1>4, <1>5

\* A priced set of rows is a register.
LEMMA PriceType ==
    ASSUME NEW bag, IsLedger(bag), NEW rows \in SUBSET DOMAIN bag
    PROVE  PriceLedger(bag, rows) \in Register
<1> DEFINE worth == {row \in rows : Micros(row) # None}
           tiers == {"measured"} \cup {Tier(row) : row \in {r \in rows : r.n > 0}}
<1>1. SumFunction([row \in rows |-> row.n * bag[row]]) \in Nat
    BY RowsWorth
<1>2. SumFunction([row \in worth |-> Micros(row) * bag[row]]) \in Nat
    <2>1. IsFiniteSet(worth)
        BY FS_Subset DEF IsLedger
    <2>2. \A row \in worth : Micros(row) * bag[row] \in Nat
        BY RowWorth, MicrosType, Products
    <2>3. [row \in worth |-> Micros(row) * bag[row]] \in [worth -> Nat]
        BY <2>2
    <2> HIDE DEF worth
    <2> QED BY <2>1, <2>3, SumType
<1>3. Worst(tiers) \in Tiers
    <2>1. \A row \in rows : Tier(row) \in Tiers
        BY RowWorth, MicrosType
    <2>2. tiers \in SUBSET Tiers /\ tiers # {}
        BY <2>1 DEF Tiers
    <2> HIDE DEF tiers
    <2> QED BY <2>2, WorstIs
<1> QED BY <1>1, <1>2, <1>3 DEF PriceLedger, Register, Tiers

-----------------------------------------------------------------------------
(* What a hook is about to append *)

\* SetToSeq lists a finite set, each element once.
LEMMA SetToSeqIs ==
    ASSUME NEW R, IsFiniteSet(R)
    PROVE  /\ SetToSeq(R) \in Seq(R) /\ IsInjective(SetToSeq(R))
           /\ {SetToSeq(R)[i] : i \in DOMAIN SetToSeq(R)} = R
<1> DEFINE n == Cardinality(R)
           f == SetToSeq(R)
<1>1. n \in Nat /\ ExistsBijection(1..n, R)
    BY FS_CardinalityType
<1>2. \E g \in [1..n -> R] : IsInjective(g)
    BY <1>1 DEF ExistsBijection, Bijection, Injection
<1>3. f \in [1..n -> R] /\ IsInjective(f)
    BY <1>2 DEF SetToSeq
<1>4. f \in Surjection(1..n, R)
    <2>1. f \in Injection(1..n, R)
        BY <1>3 DEF Injection
    <2>2. Cardinality(1..n) = n
        BY <1>1, FS_Interval
    <2> HIDE DEF f
    <2> QED BY <2>1, <2>2, FS_Injection
<1>5. f \in Seq(R)
    BY <1>1, <1>3
<1>6. {f[i] : i \in DOMAIN f} = R
    BY <1>3, <1>4 DEF Surjection
<1> QED BY <1>3, <1>5, <1>6

\* The messages of a transcript, and of its beginning, are a number of tokens.
LEMMA PrefixType ==
    ASSUME NEW log \in Seq(Models)
    PROVE  /\ Len(log) \in Nat /\ DOMAIN log = 1..Len(log)
           /\ \A i \in 1..Len(log) : log[i] \in Models /\ Tokens[log[i]] \in Nat
           /\ \A k \in Nat : k <= Len(log) =>
                Prefix(log, k) \in Nat /\ Prefix(log, k) <= Whole(log)
           /\ Whole(log) \in Nat
<1> DEFINE n == Len(log)
           f == [i \in 1..n |-> Tokens[log[i]]]
<1>1. n \in Nat /\ DOMAIN log = 1..n
      /\ \A i \in 1..n : log[i] \in Models /\ Tokens[log[i]] \in Nat
    BY LedgerCostAssumption
<1>2. IsFiniteSet(1..n) /\ f \in [1..n -> Nat]
    <2>1. f \in [1..n -> Nat]
        BY <1>1
    <2>2. IsFiniteSet(1..n)
        BY <1>1, FS_Interval
    <2> QED BY <2>1, <2>2
<1>3. Whole(log) = SumFunction(f)
    BY DEF Whole, Prefix
<1>4. SumFunction(f) \in Nat
    <2> HIDE DEF f
    <2> QED BY <1>2, SumType
<1>5. ASSUME NEW k \in Nat, k <= n
      PROVE  Prefix(log, k) \in Nat /\ Prefix(log, k) <= SumFunction(f)
    <2>1. 1..k \in SUBSET (1..n)
        BY <1>1, <1>5
    <2>2. [i \in 1..k |-> f[i]] = [i \in 1..k |-> Tokens[log[i]]]
        BY <1>1, <1>5
    <2>3. Prefix(log, k) = Part(f, 1..k)
        BY <2>2 DEF Part, Prefix
    <2> HIDE DEF f, n
    <2>4. /\ SumFunction(f) = Part(f, 1..k) + Part(f, (1..n) \ (1..k))
          /\ Part(f, 1..k) \in Nat /\ Part(f, (1..n) \ (1..k)) \in Nat
        <3>1. (1..n) \ (1..k) \in SUBSET (1..n)
            OBVIOUS
        <3>2. Part(f, 1..k) \in Nat
            BY <1>2, <2>1, PartFacts
        <3>3. Part(f, (1..n) \ (1..k)) \in Nat
            BY <1>2, <3>1, PartFacts
        <3>4. SumFunction(f) = Part(f, 1..k) + Part(f, (1..n) \ (1..k))
            BY <1>2, <2>1, SumUnion
        <3> QED BY <3>2, <3>3, <3>4
    <2> QED BY <2>3, <2>4
<1> HIDE DEF f
<1> QED BY <1>1, <1>3, <1>4, <1>5

\* One message more.
LEMMA PrefixGrows ==
    ASSUME NEW log \in Seq(Models), NEW m \in Models
    PROVE  /\ Append(log, m) \in Seq(Models)
           /\ \A k \in Nat : k <= Len(log) => Prefix(Append(log, m), k) = Prefix(log, k)
           /\ Whole(log) <= Whole(Append(log, m))
<1> DEFINE more == Append(log, m)
<1>1. /\ more \in Seq(Models) /\ Len(more) = Len(log) + 1 /\ Len(log) \in Nat
      /\ \A i \in 1..Len(log) : more[i] = log[i]
    OBVIOUS
<1> HIDE DEF more
<1>2. ASSUME NEW k \in Nat, k <= Len(log) PROVE Prefix(more, k) = Prefix(log, k)
    <2>1. [i \in 1..k |-> Tokens[more[i]]] = [i \in 1..k |-> Tokens[log[i]]]
        BY <1>1, <1>2
    <2> QED BY <2>1 DEF Prefix
<1>3. Whole(log) <= Whole(more)
    <2>1. Prefix(more, Len(log)) = Whole(log)
        BY <1>1, <1>2 DEF Whole
    <2> QED BY <1>1, <2>1, PrefixType
<1> QED BY <1>1, <1>2, <1>3 DEF more

LEMMA UsedIs ==
    ASSUME LedgerInv, NEW s \in Sessions
    PROVE  transcript[s] \in Seq(Models) /\ Used(s) = Whole(transcript[s])
<1>1. transcript[s] \in Seq(Models)
    BY DEF LedgerInv, SessionsInv
<1>2. DOMAIN transcript[s] = 1..Len(transcript[s])
    BY <1>1
<1> QED BY <1>1, <1>2 DEF Used, Whole, Prefix

\* The rows for what is past the cursor: well formed, different, and in all
\* what the messages past the cursor used.
LEMMA RowsForIs ==
    ASSUME LedgerInv, NEW s \in Sessions, NEW id \in Id
    PROVE  /\ RowsFor(s, id) \in Seq(Row) /\ IsInjective(RowsFor(s, id))
           /\ \A i \in DOMAIN RowsFor(s, id) : RowsFor(s, id)[i].sess = s
           /\ LET rows == {RowsFor(s, id)[i] : i \in DOMAIN RowsFor(s, id)}
              IN  /\ IsFiniteSet(rows) /\ [row \in rows |-> row.n] \in [rows -> Nat]
                  /\ Prefix(transcript[s], cursor[s]) + SumFunction([row \in rows |-> row.n])
                        = Whole(transcript[s])
<1> DEFINE n == Len(transcript[s])
           c == cursor[s]
           S == Unbilled(s)
           sum(m) == [id |-> id, sess |-> s, model |-> m,
                      n |-> Tokens[m] * Cardinality({i \in S : transcript[s][i] = m})]
           R == {sum(m) : m \in {transcript[s][i] : i \in S}}
           g == [i \in S |-> sum(transcript[s][i])]
           f == [i \in S |-> Tokens[transcript[s][i]]]
<1>1. /\ n \in Nat /\ DOMAIN transcript[s] = 1..n
      /\ \A i \in 1..n : transcript[s][i] \in Models /\ Tokens[transcript[s][i]] \in Nat
    BY UsedIs, PrefixType
<1>2. c \in Nat /\ c <= n
    BY DEF LedgerInv, SessionsInv
<1>3. S \in SUBSET (1..n) /\ IsFiniteSet(S) /\ (1..n) \ S = 1..c
    <2>1. S = {i \in 1..n : i > c}
        BY <1>1 DEF Unbilled
    <2>2. IsFiniteSet(1..n)
        BY <1>1, FS_Interval
    <2>3. S \in SUBSET (1..n) /\ (1..n) \ S = 1..c
        BY <1>1, <1>2, <2>1
    <2> HIDE DEF S
    <2> QED BY <2>2, <2>3, FS_Subset
<1> HIDE DEF S
<1>4. \A m \in Models : /\ IsFiniteSet({i \in S : transcript[s][i] = m})
                        /\ Cardinality({i \in S : transcript[s][i] = m}) \in Nat
    <2> TAKE m \in Models
    <2>1. {i \in S : transcript[s][i] = m} \in SUBSET S
        OBVIOUS
    <2> QED BY <1>3, <2>1, FS_Subset, FS_CardinalityType
<1>5. \A i \in S : /\ transcript[s][i] \in Models /\ sum(transcript[s][i]) \in Row
                   /\ sum(transcript[s][i]).n \in Nat
    <2> TAKE i \in S
    <2>1. transcript[s][i] \in Models /\ Tokens[transcript[s][i]] \in Nat
        BY <1>1, <1>3
    <2>2. sum(transcript[s][i]).n \in Nat
        BY <1>4, <2>1, Products
    <2>3. sum(transcript[s][i]) \in Row
        <3> DEFINE m == transcript[s][i]
                   k == sum(m).n
        <3>1. sum(m) = [id |-> id, sess |-> s, model |-> m, n |-> k]
            OBVIOUS
        <3> HIDE DEF sum, k, m
        <3>2. m \in Models /\ k \in Nat
            BY <2>1, <2>2 DEF m, k
        <3>3. sum(m) \in Row
            BY <3>1, <3>2 DEF Row
        <3> QED BY <3>3 DEF m
    <2> QED BY <2>1, <2>2, <2>3
<1>6. R \in SUBSET Row /\ \A row \in R : row.sess = s /\ row.n \in Nat
    <2>1. \A row \in R : \E i \in S : row = sum(transcript[s][i])
        OBVIOUS
    <2>2. \A i \in S : sum(transcript[s][i]).sess = s
        OBVIOUS
    <2> HIDE DEF R, sum
    <2> QED BY <1>5, <2>1, <2>2
<1>7. g \in [S -> R] /\ IsFiniteSet(R)
    <2>1. g \in [S -> R] /\ \A r \in R : \E i \in S : g[i] = r
        OBVIOUS
    <2>2. g \in Surjection(S, R)
        BY <2>1 DEF Surjection
    <2> HIDE DEF R, g
    <2> QED BY <1>3, <2>1, <2>2, FS_Surjection
<1>8. RowsFor(s, id) = SetToSeq(R)
    BY DEF RowsFor, S
<1>9. /\ SetToSeq(R) \in Seq(R) /\ IsInjective(SetToSeq(R))
      /\ {SetToSeq(R)[i] : i \in DOMAIN SetToSeq(R)} = R
    <2> HIDE DEF R
    <2> QED BY <1>7, SetToSeqIs
<1>10. f \in [S -> Nat]
    BY <1>1, <1>3
<1>11. \A r \in R : Part(f, {i \in S : g[i] = r}) = r.n
    <2> TAKE r \in R
    <2>1. PICK k \in S : r = sum(transcript[s][k])
        OBVIOUS
    <2> DEFINE m == transcript[s][k]
               F == {i \in S : transcript[s][i] = m}
               one == [i \in F |-> 1]
    <2>2. {i \in S : g[i] = r} = F
        <3>1. \A i \in S : sum(transcript[s][i]).model = transcript[s][i]
            OBVIOUS
        <3> QED BY <2>1, <3>1
    <2>3. [i \in F |-> f[i]] = [i \in F |-> Tokens[m] * one[i]]
        <3>1. \A i \in F : f[i] = Tokens[m] /\ Tokens[m] \in Nat /\ one[i] = 1
            BY <1>1, <1>3
        <3>2. \A i \in F : f[i] = Tokens[m] * one[i]
            BY <3>1
        <3> QED BY <3>2
    <2>4. m \in Models /\ Tokens[m] \in Nat
        BY <1>1, <1>3
    <2>5. IsFiniteSet(F) /\ one \in [F -> Nat] /\ SumFunction(one) = Cardinality(F)
        BY <1>4, <2>4, SumOnes
    <2>6. SumFunction([i \in F |-> Tokens[m] * one[i]]) = Tokens[m] * SumFunction(one)
        <3> HIDE DEF one, F
        <3> QED BY <2>4, <2>5, SumFactor
    <2>7. r.n = Tokens[m] * Cardinality(F)
        BY <2>1
    <2> QED BY <2>2, <2>3, <2>5, <2>6, <2>7 DEF Part
<1>12. SumFunction(f) = SumFunction([row \in R |-> row.n])
    <2>1. SumFunction(f) = SumFunction([r \in R |-> Part(f, {i \in S : g[i] = r})])
        <3> HIDE DEF f, g, R
        <3>1. IsFiniteSet(S)
            BY <1>3
        <3> QED BY <3>1, <1>7, <1>10, SumFibres
    <2> HIDE DEF f, g, R
    <2>2. [r \in R |-> Part(f, {i \in S : g[i] = r})] = [row \in R |-> row.n]
        BY <1>11
    <2> QED BY <2>1, <2>2
<1>13. Whole(transcript[s]) = SumFunction(f) + Prefix(transcript[s], c)
    <2> DEFINE h == [i \in 1..n |-> Tokens[transcript[s][i]]]
    <2>1. h \in [1..n -> Nat] /\ IsFiniteSet(1..n)
        <3>1. h \in [1..n -> Nat]
            BY <1>1
        <3>2. IsFiniteSet(1..n)
            BY <1>1, FS_Interval
        <3> QED BY <3>1, <3>2
    <2>2. [i \in S |-> h[i]] = f /\ [i \in 1..c |-> h[i]] = [i \in 1..c |-> Tokens[transcript[s][i]]]
        BY <1>1, <1>2, <1>3
    <2>3. Whole(transcript[s]) = SumFunction(h)
        BY DEF Whole, Prefix
    <2>4. Part(h, S) = SumFunction(f) /\ Part(h, 1..c) = Prefix(transcript[s], c)
        BY <2>2 DEF Part, Prefix
    <2> HIDE DEF h, f
    <2>5. SumFunction(h) = Part(h, S) + Part(h, (1..n) \ S)
        BY <1>3, <2>1, SumUnion
    <2> QED BY <1>3, <2>3, <2>4, <2>5
<1>14. SumFunction(f) \in Nat /\ Prefix(transcript[s], c) \in Nat
    <2>1. SumFunction(f) \in Nat
        <3> HIDE DEF f
        <3> QED BY <1>3, <1>10, SumType
    <2> QED BY <1>2, <2>1, UsedIs, PrefixType
<1>15. SetToSeq(R) \in Seq(Row) /\ \A i \in DOMAIN SetToSeq(R) : SetToSeq(R)[i].sess = s
    <2> HIDE DEF R
    <2> QED BY <1>6, <1>9
<1>16. Prefix(transcript[s], c) + SumFunction([row \in R |-> row.n]) = Whole(transcript[s])
    <2> HIDE DEF f, R
    <2> QED BY <1>12, <1>13, <1>14
<1>17. [row \in R |-> row.n] \in [R -> Nat]
    BY <1>6
<1> HIDE DEF R
<1> QED BY <1>7, <1>8, <1>9, <1>15, <1>16, <1>17

-----------------------------------------------------------------------------
(* What one more row, or another id, does to a ledger *)

\* One row more bills its session its tokens more.
LEMMA WithRowIs ==
    ASSUME NEW bag, IsLedger(bag), NEW row \in Row
    PROVE  /\ IsLedger(WithRow(bag, row))
           /\ \A s \in Sessions : BilledBy(bag, s) \in Nat /\
                BilledBy(WithRow(bag, row), s)
                  = BilledBy(bag, s) + (IF row.sess = s THEN row.n ELSE 0)
<1> DEFINE more == WithRow(bag, row)
           D(s) == {r \in DOMAIN bag : r.sess = s}
           f(s) == [r \in D(s) |-> r.n * bag[r]]
           E(s) == {r \in DOMAIN more : r.sess = s}
           g(s) == [r \in E(s) |-> r.n * more[r]]
<1>1. /\ DOMAIN more = DOMAIN bag \cup {row}
      /\ \A r \in DOMAIN bag \ {row} : more[r] = bag[r]
      /\ row \in DOMAIN bag => more[row] = bag[row] + 1
      /\ row \notin DOMAIN bag => more[row] = 1
      /\ more = [r \in DOMAIN more |-> more[r]]
    <2>1. \A r \in DOMAIN bag : bag[r] \in Nat
        BY DEF IsLedger, IsABag
    <2>2. more = [r \in DOMAIN bag \cup {row} |->
                     (IF r \in DOMAIN bag THEN bag[r] ELSE 0)
                     + (IF r \in {row} THEN 1 ELSE 0)]
        BY DEF WithRow, SetToBag, (+)
    <2> HIDE DEF more
    <2> QED BY <2>1, <2>2
<1> HIDE DEF more
<1>2. IsLedger(more)
    <2>1. IsFiniteSet(DOMAIN bag) /\ DOMAIN bag \subseteq Row
          /\ \A r \in DOMAIN bag : bag[r] \in Nat /\ bag[r] > 0
        BY RowWorth DEF IsLedger
    <2>2. IsFiniteSet(DOMAIN more)
        BY <1>1, <2>1, FS_AddElement
    <2>3. \A r \in DOMAIN more : more[r] \in Nat /\ more[r] > 0
        BY <1>1, <2>1
    <2> QED BY <1>1, <2>1, <2>2, <2>3 DEF IsLedger, IsABag
<1>3. row.n \in Nat
    BY DEF Row
<1>4. ASSUME NEW s \in Sessions
      PROVE  /\ SumFunction(f(s)) \in Nat
             /\ SumFunction(g(s)) = SumFunction(f(s)) + (IF row.sess = s THEN row.n ELSE 0)
    <2>1. /\ IsFiniteSet(D(s)) /\ f(s) \in [D(s) -> Nat] /\ SumFunction(f(s)) \in Nat
          /\ IsFiniteSet(E(s)) /\ g(s) \in [E(s) -> Nat]
        BY <1>2, RowsWorth
    <2>2. CASE row.sess # s
        <3>1. D(s) = E(s) /\ \A r \in D(s) : bag[r] = more[r]
            BY <1>1, <2>2
        <3>2. f(s) = g(s)
            BY <3>1
        <3> HIDE DEF f, g
        <3> QED BY <2>1, <2>2, <3>2
    <2>3. CASE row.sess = s /\ row \in DOMAIN bag
        <3>1. D(s) = E(s) /\ row \in D(s)
            BY <1>1, <2>3
        <3>2. /\ f(s)[row] = row.n * bag[row] /\ g(s)[row] = row.n * (bag[row] + 1)
              /\ \A r \in D(s) \ {row} : f(s)[r] = g(s)[r]
            BY <1>1, <2>3, <3>1
        <3>3. bag[row] \in Nat
            BY <2>3, RowWorth
        <3>4. row.n * (bag[row] + 1) = row.n * bag[row] + row.n /\ row.n * bag[row] \in Nat
            BY <1>3, <3>3, Products
        <3> HIDE DEF f, g, D, E
        <3>5. SumFunction(g(s)) + f(s)[row] = SumFunction(f(s)) + g(s)[row]
            BY <2>1, <3>1, <3>2, SumChange
        <3>6. SumFunction(g(s)) \in Nat
            BY <2>1, SumType
        <3> QED BY <1>3, <2>1, <2>3, <3>2, <3>4, <3>5, <3>6
    <2>4. CASE row.sess = s /\ row \notin DOMAIN bag
        <3>1. row \in E(s) /\ E(s) \ {row} = D(s)
            BY <1>1, <2>4
        <3>2. g(s)[row] = row.n
            BY <1>1, <1>3, <2>4, <3>1
        <3>3. [r \in E(s) \ {row} |-> g(s)[r]] = f(s)
            BY <1>1, <3>1
        <3> HIDE DEF f, g, D, E
        <3>4. SumFunction(g(s)) = g(s)[row] + SumFunction([r \in E(s) \ {row} |-> g(s)[r]])
            BY <2>1, <3>1, SumSplit
        <3> QED BY <1>3, <2>1, <2>4, <3>2, <3>3, <3>4
    <2> QED BY <2>2, <2>3, <2>4
<1>5. \A s \in Sessions : /\ BilledBy(bag, s) = SumFunction(f(s))
                          /\ BilledBy(more, s) = SumFunction(g(s))
    BY DEF BilledBy
<1> HIDE DEF f, g
<1> QED BY <1>2, <1>4, <1>5 DEF more

\* A row keeps its session and its tokens whatever id it gets.
LEMMA RekeyedIs ==
    ASSUME NEW row \in Row, NEW id \in Id
    PROVE  LET new == Rekeyed(row, id)
           IN  new \in Row /\ new.sess = row.sess /\ new.n = row.n
BY DEF Rekeyed, Row

\* A copy under another id bills every session the same.
LEMMA ReattributedIs ==
    ASSUME NEW bag, IsLedger(bag), NEW id \in Id
    PROVE  /\ IsLedger(Reattributed(bag, id))
           /\ \A s \in Sessions : BilledBy(Reattributed(bag, id), s) = BilledBy(bag, s)
<1> DEFINE new == Reattributed(bag, id)
           Key(row) == Rekeyed(row, id)
           F(r) == {old \in DOMAIN bag : Key(old) = r}
           count == [row \in DOMAIN bag |-> bag[row]]
<1>1. DOMAIN new = {Key(row) : row \in DOMAIN bag}
      /\ new = [r \in DOMAIN new |-> Part(count, F(r))]
    <2>1. \A r : [row \in F(r) |-> bag[row]] = [row \in F(r) |-> count[row]]
        OBVIOUS
    <2>2. DOMAIN new = {Key(row) : row \in DOMAIN bag}
        BY DEF Reattributed
    <2>3. new = [r \in {Key(row) : row \in DOMAIN bag} |->
                    SumFunction([row \in F(r) |-> bag[row]])]
        BY DEF Reattributed
    <2> HIDE DEF new, F, count
    <2> QED BY <2>1, <2>2, <2>3 DEF Part
<1> HIDE DEF new
<1>2. /\ IsFiniteSet(DOMAIN bag) /\ count \in [DOMAIN bag -> Nat]
      /\ \A row \in DOMAIN bag : count[row] > 0 /\ count[row] = bag[row]
    BY RowWorth DEF IsLedger
<1>3. \A row \in DOMAIN bag :
          /\ row \in Row /\ row.n \in Nat
          /\ Key(row) \in Row /\ Key(row).sess = row.sess /\ Key(row).n = row.n
    BY RowWorth, RekeyedIs
<1> HIDE DEF count, Key
<1>4. IsFiniteSet(DOMAIN new)
    <2> DEFINE g == [row \in DOMAIN bag |-> Key(row)]
    <2>1. g \in Surjection(DOMAIN bag, DOMAIN new)
        BY <1>1 DEF Surjection
    <2> QED BY <1>2, <2>1, FS_Surjection
<1>5. \A r \in DOMAIN new : new[r] \in Nat /\ new[r] > 0
    <2> TAKE r \in DOMAIN new
    <2>1. PICK row \in DOMAIN bag : Key(row) = r
        BY <1>1
    <2>2. F(r) \in SUBSET DOMAIN bag /\ row \in F(r)
        BY <2>1
    <2>3. F(r) \ {row} \in SUBSET DOMAIN bag
        OBVIOUS
    <2> HIDE DEF F
    <2>4. /\ Part(count, F(r)) = count[row] + Part(count, F(r) \ {row})
          /\ Part(count, F(r) \ {row}) \in Nat
        BY <1>2, <2>2, <2>3, PartFacts
    <2>5. count[row] \in Nat /\ count[row] > 0
        BY <1>2
    <2>6. new[r] = Part(count, F(r))
        BY <1>1
    <2> QED BY <2>4, <2>5, <2>6
<1>6. IsLedger(new)
    <2>1. DOMAIN new \subseteq Row
        BY <1>1, <1>3
    <2>2. new \in [DOMAIN new -> {n \in Nat : n > 0}]
        BY <1>1, <1>5
    <2> QED BY <1>4, <2>1, <2>2 DEF IsLedger, IsABag
<1>7. ASSUME NEW s \in Sessions PROVE BilledBy(new, s) = BilledBy(bag, s)
    <2> DEFINE S == {row \in DOMAIN bag : row.sess = s}
               f == [row \in S |-> row.n * bag[row]]
               R == {r \in DOMAIN new : r.sess = s}
               g == [row \in S |-> Key(row)]
               h == [r \in R |-> r.n * new[r]]
    <2>1. IsFiniteSet(S) /\ f \in [S -> Nat]
        BY RowsWorth
    <2>2. IsFiniteSet(R)
        BY <1>4, FS_Subset
    <2>3. g \in [S -> R]
        BY <1>1, <1>3
    <2>4. \A r \in R : Part(f, {x \in S : g[x] = r}) = h[r]
        <3> TAKE r \in R
        <3>1. {x \in S : g[x] = r} = F(r)
            <4>1. \A x \in DOMAIN bag : Key(x) = r => x \in S
                BY <1>3
            <4> QED BY <4>1
        <3>2. F(r) \in SUBSET DOMAIN bag /\ F(r) \in SUBSET S
            <4>1. F(r) \in SUBSET DOMAIN bag
                OBVIOUS
            <4>2. {x \in S : g[x] = r} \in SUBSET S
                OBVIOUS
            <4> QED BY <3>1, <4>1, <4>2
        <3>3. r.n \in Nat
            BY <1>1, <1>3
        <3> DEFINE c == [x \in F(r) |-> count[x]]
        <3>4. IsFiniteSet(F(r)) /\ c \in [F(r) -> Nat]
            <4>1. IsFiniteSet(F(r))
                BY <1>2, <3>2, FS_Subset
            <4>2. \A x \in F(r) : count[x] \in Nat
                BY <1>2
            <4> QED BY <4>1, <4>2
        <3>5. [x \in F(r) |-> f[x]] = [x \in F(r) |-> r.n * c[x]]
            <4>1. \A x \in F(r) : f[x] = r.n * c[x]
                BY <1>2, <1>3, <3>2
            <4> QED BY <4>1
        <3> HIDE DEF c
        <3>6. SumFunction([x \in F(r) |-> r.n * c[x]]) = r.n * SumFunction(c)
            <4> HIDE DEF F
            <4> QED BY <3>3, <3>4, SumFactor
        <3>7. SumFunction(c) = new[r]
            BY <1>1 DEF Part, c
        <3>8. h[r] = r.n * new[r]
            OBVIOUS
        <3> HIDE DEF F, f, h, g, S, R
        <3> QED BY <3>1, <3>5, <3>6, <3>7, <3>8 DEF Part
    <2>5. SumFunction(f) = SumFunction([r \in R |-> Part(f, {x \in S : g[x] = r})])
        <3> HIDE DEF f, g, S, R
        <3> QED BY <2>1, <2>2, <2>3, SumFibres
    <2>6. h = [r \in R |-> Part(f, {x \in S : g[x] = r})]
        <3>1. h = [r \in R |-> h[r]]
            OBVIOUS
        <3> HIDE DEF f, g, S, R, h
        <3> QED BY <2>4, <3>1
    <2>7. BilledBy(new, s) = SumFunction(h) /\ BilledBy(bag, s) = SumFunction(f)
        BY DEF BilledBy
    <2> HIDE DEF f, g, h
    <2> QED BY <2>5, <2>6, <2>7
<1> QED BY <1>6, <1>7 DEF new

-----------------------------------------------------------------------------
(* Types *)

\* A session's record may be anything sound.
LEMMA HookType ==
    ASSUME LedgerInv, NEW h \in Sessions, NEW at \in HookState, HookInv(at),
           hook' = [hook EXCEPT ![h] = at], UNCHANGED transcript
    PROVE  HooksInv'
<1> USE DEF LedgerInv, HooksInv
<1>1. hook' \in [Sessions -> HookState]
    OBVIOUS
<1>2. ASSUME NEW g \in Sessions PROVE HookInv(hook[g])'
    <2>1. hook'[g] = IF g = h THEN at ELSE hook[g]
        OBVIOUS
    <2>2. HookInv(hook[g])
        OBVIOUS
    <2>3. CASE g = h
        <3>1. hook'[g] = at
            BY <2>1, <2>3
        <3> QED BY <3>1 DEF HookInv
    <2>4. CASE g # h
        <3>1. hook'[g] = hook[g]
            BY <2>1, <2>4
        <3> QED BY <2>2, <3>1 DEF HookInv
    <2> QED BY <2>3, <2>4
<1> QED BY <1>1, <1>2

\* A hook that is not appending.
LEMMA RestingHook ==
    ASSUME NEW step \in {"idle", "find", "sweep"}, NEW todo \in SUBSET Sessions
    PROVE  LET at == [Idle EXCEPT !.step = step, !.todo = todo]
           IN  /\ at \in HookState /\ HookInv(at) /\ at.target = None /\ at.rows = <<>>
               /\ Idle \in HookState /\ HookInv(Idle)
<1>1. <<>> \in Seq(Row) /\ DOMAIN <<>> = {} /\ IsInjective(<<>>)
    BY DEF IsInjective
<1> QED BY <1>1 DEF Idle, HookState, HookInv

LEMMA MovedHook ==
    ASSUME NEW old \in HookState, HookInv(old), old.step # "append",
           NEW step \in {"idle", "find", "sweep"}, NEW todo \in SUBSET Sessions
    PROVE  LET at == [old EXCEPT !.step = step, !.todo = todo]
           IN  at \in HookState /\ HookInv(at) /\ at.target = None /\ at.rows = <<>>
<1>1. <<>> \in Seq(Row) /\ DOMAIN <<>> = {} /\ IsInjective(<<>>)
    BY DEF IsInjective
<1>2. old.target = None /\ old.rows = <<>>
    BY DEF HookInv
<1> QED BY <1>1, <1>2 DEF HookState, HookInv

\* A ticket the hook resolves to is an id.
LEMMA TicketType ==
    ASSUME NEW s \in Sessions
    PROVE  TicketOf(s) \in Id /\ TicketOfDead(s) \in Id
<1>1. Nobody \in Id
    BY DEF Nobody, Id
<1>2. Marked[s] # None => Marked[s] \in Id
    BY TokenLedgerAssumption
<1>3. Building # None => [tix |-> Building, padded |-> FALSE] \in Id
    BY TokenLedgerAssumption DEF Id
<1> QED BY <1>1, <1>2, <1>3 DEF TicketOf, TicketOfDead

\* A hook that starts on a transcript.
LEMMA TakesType ==
    ASSUME LedgerInv, NEW h \in Sessions, NEW s \in Sessions, NEW id \in Id,
           NEW todo \in SUBSET Sessions, Takes(h, s, id, todo), UNCHANGED transcript
    PROVE  HooksInv' /\ accidents' \in [Sessions -> Nat]
<1> DEFINE at == [step |-> "append", target |-> s, todo |-> todo,
                  upto |-> Len(transcript[s]), rows |-> RowsFor(s, id)]
<1>1. s # None /\ Len(transcript[s]) \in Nat
    BY LedgerCostAssumption, UsedIs, PrefixType
<1>2. /\ RowsFor(s, id) \in Seq(Row) /\ IsInjective(RowsFor(s, id))
      /\ \A i \in DOMAIN RowsFor(s, id) : RowsFor(s, id)[i].sess = s
    BY RowsForIs
<1>3. at \in HookState /\ HookInv(at)
    BY <1>1, <1>2 DEF HookState, HookInv
<1>4. hook' = [hook EXCEPT ![h] = at]
    BY DEF Takes
<1> HIDE DEF at
<1>5. HooksInv'
    BY <1>3, <1>4, HookType
<1>6. accidents' \in [Sessions -> Nat]
    BY DEF Takes, LedgerInv, CountsInv
<1> QED BY <1>5, <1>6

\* What is left after the first row is appended.
LEMMA TailIs ==
    ASSUME NEW rows \in Seq(Row), IsInjective(rows), rows # <<>>
    PROVE  /\ Tail(rows) \in Seq(Row) /\ IsInjective(Tail(rows)) /\ Head(rows) \in Row
           /\ 1 \in DOMAIN rows /\ Head(rows) = rows[1]
           /\ \A i \in DOMAIN Tail(rows) : i + 1 \in DOMAIN rows /\ Tail(rows)[i] = rows[i + 1]
           /\ {Tail(rows)[i] : i \in DOMAIN Tail(rows)}
                = {rows[i] : i \in DOMAIN rows} \ {Head(rows)}
<1>1. Len(rows) \in Nat /\ Len(rows) > 0 /\ DOMAIN rows = 1..Len(rows)
    BY EmptySeq
<1>2. /\ Tail(rows) \in Seq(Row) /\ DOMAIN Tail(rows) = 1..(Len(rows) - 1)
      /\ \A i \in 1..(Len(rows) - 1) : Tail(rows)[i] = rows[i + 1]
      /\ Head(rows) = rows[1] /\ rows[1] \in Row
    BY <1>1
<1>3. \A i, j \in 1..Len(rows) : rows[i] = rows[j] => i = j
    BY <1>1 DEF IsInjective
<1>4. IsInjective(Tail(rows))
    <2>1. \A i, j \in 1..(Len(rows) - 1) : Tail(rows)[i] = Tail(rows)[j] => i = j
        BY <1>1, <1>2, <1>3
    <2> QED BY <1>2, <2>1 DEF IsInjective
<1>5. {Tail(rows)[i] : i \in DOMAIN Tail(rows)}
        = {rows[i] : i \in DOMAIN rows} \ {Head(rows)}
    <2>1. \A i \in 1..(Len(rows) - 1) : i + 1 \in 1..Len(rows) /\ rows[i + 1] # rows[1]
        BY <1>1, <1>3
    <2>2. \A i \in 1..Len(rows) : rows[i] # rows[1] =>
              i - 1 \in 1..(Len(rows) - 1) /\ Tail(rows)[i - 1] = rows[i]
        BY <1>1, <1>2
    <2> DEFINE rest == {Tail(rows)[i] : i \in DOMAIN Tail(rows)}
               all == {rows[i] : i \in DOMAIN rows}
    <2>3. ASSUME NEW row \in rest PROVE row \in all \ {Head(rows)}
        <3>1. PICK i \in 1..(Len(rows) - 1) : row = rows[i + 1]
            BY <1>2
        <3> QED BY <1>1, <1>2, <2>1, <3>1
    <2>4. ASSUME NEW row \in all \ {Head(rows)} PROVE row \in rest
        <3>1. PICK i \in 1..Len(rows) : row = rows[i] /\ rows[i] # rows[1]
            BY <1>1, <1>2
        <3>2. i - 1 \in DOMAIN Tail(rows) /\ Tail(rows)[i - 1] = row
            BY <1>2, <2>2, <3>1
        <3> QED BY <3>2
    <2> HIDE DEF rest, all
    <2>5. rest = all \ {Head(rows)}
        BY <2>3, <2>4
    <2> QED BY <2>5 DEF rest, all
<1> QED BY <1>1, <1>2, <1>4, <1>5

LEMMA LedgerInit == Init => LedgerInv
<1> SUFFICES ASSUME Init PROVE LedgerInv
    OBVIOUS
<1> USE DEF Init
<1>1. Idle \in HookState /\ HookInv(Idle)
    BY RestingHook
<1>2. \A s \in Sessions : hook[s] \in HookState /\ HookInv(hook[s])
    BY <1>1
<1>3. hook \in [Sessions -> HookState]
    BY <1>2
<1>4. IsLedger(ledger)
    BY FS_EmptySet DEF IsLedger, IsABag, EmptyBag, SetToBag
<1>5. \A t \in Carded : \A m \in DOMAIN regs[t] : m \in Machines /\ regs[t][m] \in Register
    BY TokenLedgerAssumption
<1>6. transcript \in [Sessions -> Seq(Models)] /\ \A s \in Sessions : Len(transcript[s]) = 0
    OBVIOUS
<1>7. /\ \A s \in Sessions : cursor[s] = 0
      /\ Top \in Nat /\ cursor \in [Sessions -> 0..Top]
    BY TokenLedgerAssumption
<1>8. /\ newer \in [Sessions -> BOOLEAN] /\ cold \in [Sessions -> BOOLEAN]
      /\ recent \in [Sessions -> BOOLEAN] /\ alive \in [Sessions -> BOOLEAN]
    OBVIOUS
<1>9. accidents \in [Sessions -> Nat] /\ used \in [Kinds -> Nat]
    OBVIOUS
<1>10. SessionsInv
    BY <1>6, <1>7, <1>8 DEF SessionsInv
<1>11. regs = [t \in Carded |-> regs[t]]
    OBVIOUS
<1>12. BooksInv
    BY <1>4 DEF BooksInv
<1> QED
    BY <1>2, <1>3, <1>5, <1>9, <1>10, <1>11, <1>12
       DEF LedgerInv, HooksInv, RegsInv, CountsInv

\* Every step preserves the types.
LEMMA LedgerStep == LedgerInv /\ [Next]_vars => LedgerInv'
<1> SUFFICES ASSUME LedgerInv, [Next]_vars PROVE LedgerInv'
    OBVIOUS
<1>0. SessionsInv /\ HooksInv /\ BooksInv /\ RegsInv /\ CountsInv
    BY DEF LedgerInv
<1>s. UNCHANGED session => SessionsInv'
    BY <1>0 DEF SessionsInv, session
<1>h. UNCHANGED <<transcript, hook>> => HooksInv'
    BY <1>0 DEF HooksInv, HookInv
<1>b. UNCHANGED <<ledger, rewriting>> => BooksInv'
    BY <1>0 DEF BooksInv, IsLedger, IsABag
<1>r. UNCHANGED regs => RegsInv'
    BY <1>0 DEF RegsInv
<1>c. UNCHANGED <<accidents, used>> => CountsInv'
    BY <1>0 DEF CountsInv
<1>u. \A k \in Kinds : Spend(k) => used' \in [Kinds -> Nat]
    BY <1>0 DEF Spend, CountsInv
<1>1. ASSUME NEW s \in Sessions, Message(s) PROVE LedgerInv'
    <2>1. PICK m \in Models :
            /\ hook[s] = Idle /\ Len(transcript[s]) < Top
            /\ Spend(IF Held(s) THEN "late" ELSE "message")
            /\ transcript' = [transcript EXCEPT ![s] = Append(@, m)]
            /\ newer' = [newer EXCEPT ![s] = TRUE] /\ cold' = [cold EXCEPT ![s] = FALSE]
            /\ UNCHANGED <<cursor, recent, alive, ledger, hook, rewriting, regs, accidents>>
        BY <1>1 DEF Message
    <2>2. /\ transcript' \in [Sessions -> Seq(Models)]
          /\ \A g \in Sessions : Len(transcript[g]) \in Nat
                /\ Len(transcript'[g]) = IF g = s THEN Len(transcript[g]) + 1
                                         ELSE Len(transcript[g])
        BY <1>0, <2>1 DEF SessionsInv
    <2>3. SessionsInv'
        <3>1. \A g \in Sessions : cursor[g] \in Nat /\ cursor[g] <= Len(transcript[g])
                                  /\ Len(transcript[g]) <= Top /\ Top \in Nat
            BY <1>0, TokenLedgerAssumption DEF SessionsInv
        <3>2. \A g \in Sessions : cursor'[g] <= Len(transcript'[g]) /\ Len(transcript'[g]) <= Top
            BY <2>1, <2>2, <3>1
        <3>3. /\ newer' \in [Sessions -> BOOLEAN] /\ cold' \in [Sessions -> BOOLEAN]
              /\ cursor' \in [Sessions -> 0..Top]
              /\ recent' \in [Sessions -> BOOLEAN] /\ alive' \in [Sessions -> BOOLEAN]
            BY <1>0, <2>1 DEF SessionsInv
        <3> QED BY <2>2, <3>2, <3>3 DEF SessionsInv
    <2>4. HooksInv'
        <3>1. \A h \in Sessions : HookInv(hook[h]) /\ hook[h].target \in Sessions \cup {None}
                                  /\ hook[h].upto \in Nat
            BY <1>0 DEF HooksInv, HookState
        <3>2. ASSUME NEW h \in Sessions PROVE HookInv(hook[h])'
            BY <2>1, <2>2, <3>1 DEF HookInv
        <3> QED BY <1>0, <2>1, <3>2 DEF HooksInv
    <2>5. CountsInv'
        BY <1>0, <1>u, <2>1 DEF CountsInv, Kinds
    <2> QED BY <1>b, <1>r, <2>1, <2>3, <2>4, <2>5 DEF LedgerInv
<1>2. ASSUME NEW s \in Sessions, Kill(s) \/ Resume(s) PROVE LedgerInv'
    <2>1. SessionsInv'
        BY <1>0, <1>2 DEF Kill, Resume, SessionsInv
    <2>2. CountsInv'
        BY <1>0, <1>u, <1>2 DEF Kill, Resume, CountsInv, Kinds
    <2> QED BY <1>h, <1>b, <1>r, <1>2, <2>1, <2>2 DEF Kill, Resume, LedgerInv
<1>3. ASSUME HalfHour PROVE LedgerInv'
    <2>1. SessionsInv'
        BY <1>0, <1>3 DEF HalfHour, SessionsInv
    <2> QED BY <1>h, <1>b, <1>r, <1>c, <1>3, <2>1 DEF HalfHour, LedgerInv
<1>4. ASSUME NEW s \in Sessions, Stop(s) PROVE LedgerInv'
    <2>1. /\ UNCHANGED <<session, ledger, rewriting, regs, used>>
          /\ IF Unbilled(s) # {} THEN Takes(s, s, TicketOf(s), {})
             ELSE hook' = [hook EXCEPT ![s].step = "find"] /\ UNCHANGED accidents
          /\ hook[s] = Idle
        BY <1>4 DEF Stop
    <2>2. UNCHANGED transcript
        BY <2>1 DEF session
    <2>3. HooksInv' /\ accidents' \in [Sessions -> Nat]
        <3>1. CASE Unbilled(s) # {}
            BY <2>1, <2>2, <3>1, TicketType, TakesType
        <3>2. CASE Unbilled(s) = {}
            <4> DEFINE at == [hook[s] EXCEPT !.step = "find", !.todo = hook[s].todo]
            <4>0. /\ hook[s] \in HookState /\ HookInv(hook[s]) /\ hook[s].step # "append"
                  /\ hook[s].todo \in SUBSET Sessions
                <5>1. hook[s] \in HookState /\ HookInv(hook[s])
                    BY <1>0 DEF HooksInv
                <5>2. hook[s].step = "idle" /\ hook[s].todo = {}
                    BY <2>1 DEF Idle
                <5> QED BY <5>1, <5>2
            <4>1. at \in HookState /\ HookInv(at)
                BY <4>0, MovedHook
            <4>2. hook' = [hook EXCEPT ![s] = at]
                <5>1. at = [hook[s] EXCEPT !.step = "find"]
                    BY <4>0 DEF HookState
                <5> QED BY <1>0, <2>1, <3>2, <5>1 DEF HooksInv
            <4> HIDE DEF at
            <4>3. HooksInv'
                BY <2>2, <4>1, <4>2, HookType
            <4> QED BY <1>0, <2>1, <3>2, <4>3 DEF CountsInv
        <3> QED BY <3>1, <3>2
    <2>4. CountsInv'
        BY <1>0, <2>1, <2>3 DEF CountsInv
    <2> QED BY <1>s, <1>b, <1>r, <2>1, <2>3, <2>4 DEF LedgerInv
<1>5. ASSUME NEW h \in Sessions, AppendRow(h) PROVE LedgerInv'
    <2> DEFINE rows == hook[h].rows
               at == [hook[h] EXCEPT !.rows = Tail(rows)]
    <2>1. /\ hook[h] \in HookState /\ HookInv(hook[h]) /\ hook[h].step = "append" /\ rows # <<>>
          /\ ledger' = WithRow(ledger, Head(rows)) /\ hook' = [hook EXCEPT ![h] = at]
          /\ UNCHANGED <<session, rewriting, regs, accidents, used>>
        BY <1>0, <1>5 DEF AppendRow, HooksInv
    <2>2. rows \in Seq(Row) /\ IsInjective(rows)
        BY <2>1 DEF HookState, HookInv
    <2>3. /\ Tail(rows) \in Seq(Row) /\ IsInjective(Tail(rows)) /\ Head(rows) \in Row
          /\ \A i \in DOMAIN Tail(rows) : i + 1 \in DOMAIN rows /\ Tail(rows)[i] = rows[i + 1]
        BY <2>1, <2>2, TailIs
    <2>4. at \in HookState /\ HookInv(at)
        <3>1. /\ at.step = "append" /\ at.target = hook[h].target /\ at.upto = hook[h].upto
              /\ at.rows = Tail(rows) /\ at.todo = hook[h].todo
            BY <2>1 DEF HookState
        <3>2. at \in HookState
            BY <2>1, <2>3 DEF HookState
        <3> HIDE DEF at, rows
        <3> QED BY <2>1, <2>3, <3>1, <3>2 DEF HookInv, rows
    <2>5. HooksInv'
        <3> HIDE DEF at
        <3> QED BY <2>1, <2>4, HookType DEF session
    <2>6. BooksInv'
        <3>1. IsLedger(ledger')
            BY <1>0, <2>1, <2>3, WithRowIs DEF BooksInv
        <3> QED BY <1>0, <2>1, <3>1 DEF BooksInv
    <2> QED BY <1>s, <1>r, <1>c, <2>1, <2>5, <2>6 DEF LedgerInv
<1>6. ASSUME NEW h \in Sessions, Advance(h) PROVE LedgerInv'
    <2> DEFINE s == hook[h].target
               step == IF s = h THEN "find" ELSE "sweep"
               at == [Idle EXCEPT !.step = step, !.todo = hook[h].todo]
    <2>1. /\ hook[h] \in HookState /\ HookInv(hook[h]) /\ hook[h].step = "append"
          /\ cursor' = [cursor EXCEPT ![s] = hook[h].upto]
          /\ newer' = [newer EXCEPT ![s] = FALSE] /\ recent' = [recent EXCEPT ![s] = TRUE]
          /\ hook' = [hook EXCEPT ![h] = at]
          /\ UNCHANGED <<transcript, cold, alive, ledger, rewriting, regs, accidents, used>>
        BY <1>0, <1>6 DEF Advance, HooksInv
    <2>2. /\ s \in Sessions /\ hook[h].upto \in Nat /\ hook[h].upto <= Len(transcript[s])
          /\ hook[h].todo \in SUBSET Sessions
        BY <2>1 DEF HookState, HookInv
    <2>3. at \in HookState /\ HookInv(at)
        <3>1. step \in {"idle", "find", "sweep"}
            OBVIOUS
        <3> HIDE DEF step
        <3> QED BY <2>2, <3>1, RestingHook
    <2>4. HooksInv'
        <3> HIDE DEF at
        <3> QED BY <2>1, <2>3, HookType
    <2>5. SessionsInv'
        <3> HIDE DEF s, at, step
        <3>1. Len(transcript[s]) <= Top /\ Len(transcript[s]) \in Nat /\ Top \in Nat
            BY <1>0, <2>2, TokenLedgerAssumption DEF SessionsInv
        <3>2. hook[h].upto \in 0..Top
            BY <2>2, <3>1
        <3> QED BY <1>0, <2>1, <2>2, <3>2 DEF SessionsInv
    <2> QED BY <1>b, <1>r, <1>c, <2>1, <2>4, <2>5 DEF LedgerInv
<1>7. ASSUME NEW h \in Sessions, Find(h) \/ Sweep(h) \/ Finish(h) PROVE LedgerInv'
    <2>1. UNCHANGED <<session, ledger, rewriting, regs, used>>
        BY <1>7 DEF Find, Sweep, Finish
    <2>2. UNCHANGED transcript /\ hook[h] \in HookState /\ HookInv(hook[h])
        BY <1>0, <2>1 DEF session, HooksInv
    <2>3. HooksInv' /\ accidents' \in [Sessions -> Nat]
        <3>1. CASE Find(h)
            <4> DEFINE todo == {s \in Sessions \ {h} : cold[s]}
                       at == [hook[h] EXCEPT !.step = "sweep", !.todo = todo]
            <4>1. /\ hook[h].step = "find" /\ UNCHANGED accidents
                  /\ hook' = [hook EXCEPT ![h] = at]
                BY <1>0, <3>1 DEF Find, HooksInv
            <4>2. at \in HookState /\ HookInv(at)
                BY <2>2, <4>1, MovedHook
            <4> HIDE DEF at
            <4>3. HooksInv'
                BY <2>2, <4>1, <4>2, HookType
            <4> QED BY <1>0, <4>1, <4>3 DEF CountsInv
        <3>2. CASE Sweep(h)
            <4>1. PICK s \in hook[h].todo :
                    /\ hook[h].step = "sweep"
                    /\ IF newer[s] THEN Takes(h, s, TicketOfDead(s), hook[h].todo \ {s})
                       ELSE /\ hook' = [hook EXCEPT ![h].todo = hook[h].todo \ {s}]
                            /\ UNCHANGED accidents
                BY <3>2 DEF Sweep
            <4>2. s \in Sessions /\ hook[h].todo \ {s} \in SUBSET Sessions
                BY <2>2 DEF HookState
            <4>3. CASE newer[s]
                BY <2>2, <4>1, <4>2, <4>3, TicketType, TakesType
            <4>4. CASE ~newer[s]
                <5> DEFINE at == [hook[h] EXCEPT !.step = "sweep", !.todo = hook[h].todo \ {s}]
                <5>1. at \in HookState /\ HookInv(at)
                    BY <2>2, <4>1, <4>2, MovedHook
                <5>2. at = [hook[h] EXCEPT !.todo = hook[h].todo \ {s}]
                    BY <2>2, <4>1 DEF HookState
                <5>3. hook' = [hook EXCEPT ![h] = at]
                    BY <1>0, <4>1, <4>4, <5>2 DEF HooksInv
                <5> HIDE DEF at
                <5>4. HooksInv'
                    BY <2>2, <5>1, <5>3, HookType
                <5> QED BY <1>0, <4>1, <4>4, <5>4 DEF CountsInv
            <4> QED BY <4>3, <4>4
        <3>3. CASE Finish(h)
            <4>1. hook' = [hook EXCEPT ![h] = Idle] /\ UNCHANGED accidents
                BY <3>3 DEF Finish
            <4>2. HooksInv'
                BY <2>2, <4>1, RestingHook, HookType
            <4> QED BY <1>0, <4>1, <4>2 DEF CountsInv
        <3> QED BY <1>7, <3>1, <3>2, <3>3
    <2>4. CountsInv'
        BY <1>0, <2>1, <2>3 DEF CountsInv
    <2> QED BY <1>s, <1>b, <1>r, <2>1, <2>3, <2>4 DEF LedgerInv
<1>8. ASSUME NEW h \in Sessions, Crash(h) PROVE LedgerInv'
    <2>1. hook' = [hook EXCEPT ![h] = Idle] /\ UNCHANGED <<session, ledger, rewriting, regs>>
        BY <1>8 DEF Crash
    <2>2. HooksInv'
        BY <2>1, RestingHook, HookType DEF session
    <2>3. CountsInv'
        BY <1>0, <1>u, <1>8 DEF Crash, CountsInv, Kinds
    <2> QED BY <1>s, <1>b, <1>r, <2>1, <2>2, <2>3 DEF LedgerInv
<1>9. ASSUME Rewrite PROVE LedgerInv'
    <2>1. PICK id \in Id : /\ Spend("rewrite") /\ rewriting' = Reattributed(ledger, id)
                           /\ UNCHANGED <<session, ledger, hook, regs, accidents>>
        BY <1>9 DEF Rewrite
    <2>2. BooksInv'
        <3>1. IsLedger(rewriting')
            BY <1>0, <2>1, ReattributedIs DEF BooksInv
        <3>2. IsLedger(ledger')
            BY <1>0, <2>1 DEF BooksInv
        <3> QED BY <3>1, <3>2 DEF BooksInv
    <2>3. CountsInv'
        BY <1>0, <1>u, <2>1 DEF CountsInv, Kinds
    <2> QED BY <1>s, <1>h, <1>r, <2>1, <2>2, <2>3 DEF LedgerInv, session
<1>10. ASSUME Replace PROVE LedgerInv'
    <2>1. /\ rewriting # None /\ ledger' = rewriting /\ rewriting' = None
          /\ UNCHANGED <<session, hook, regs, accidents, used>>
        BY <1>10 DEF Replace
    <2>2. BooksInv'
        <3>1. IsLedger(ledger')
            BY <1>0, <2>1 DEF BooksInv
        <3> QED BY <2>1, <3>1 DEF BooksInv
    <2> QED BY <1>s, <1>h, <1>r, <1>c, <2>1, <2>2 DEF LedgerInv, session
<1>11. ASSUME Lose PROVE LedgerInv'
    <2>1. /\ Spend("lose") /\ ledger' = EmptyBag
          /\ UNCHANGED <<session, hook, rewriting, regs, accidents>>
        BY <1>11 DEF Lose
    <2>2. BooksInv'
        <3>1. IsLedger(EmptyBag)
            BY FS_EmptySet DEF IsLedger, IsABag, EmptyBag, SetToBag
        <3>2. IsLedger(ledger')
            BY <2>1, <3>1
        <3>3. rewriting' # None => IsLedger(rewriting')
            BY <1>0, <2>1 DEF BooksInv
        <3> QED BY <3>2, <3>3 DEF BooksInv
    <2>3. CountsInv'
        BY <1>0, <1>u, <2>1 DEF CountsInv, Kinds
    <2> QED BY <1>s, <1>h, <1>r, <2>1, <2>2, <2>3 DEF LedgerInv, session
<1>12. ASSUME NEW t \in Carded, Checkpoint(t) PROVE LedgerInv'
    <2> DEFINE sum == PriceLedger(ledger, RowsOf(ledger, t))
    <2>1. /\ regs' = [regs EXCEPT ![t] = [m \in DOMAIN @ \cup {Own} |->
                                          IF m = Own THEN sum ELSE @[m]]]
          /\ UNCHANGED <<session, ledger, hook, rewriting, accidents, used>>
        BY <1>12 DEF Checkpoint
    <2>2. sum \in Register
        <3>1. RowsOf(ledger, t) \in SUBSET DOMAIN ledger
            BY DEF RowsOf
        <3> QED BY <1>0, <3>1, PriceType DEF BooksInv
    <2> HIDE DEF sum
    <2>3. RegsInv'
        <3>1. regs' = [u \in Carded |-> IF u = t
                         THEN [m \in DOMAIN regs[u] \cup {Own} |->
                                 IF m = Own THEN sum ELSE regs[u][m]]
                         ELSE regs[u]]
            BY <1>0, <2>1 DEF RegsInv
        <3>2. regs' = [u \in Carded |-> regs'[u]]
            BY <3>1
        <3>3. ASSUME NEW u \in Carded, NEW m \in DOMAIN regs'[u]
              PROVE  m \in Machines /\ regs'[u][m] \in Register
            BY <1>0, <2>2, <3>1, LedgerCostAssumption DEF RegsInv
        <3> QED BY <3>2, <3>3 DEF RegsInv
    <2> QED BY <1>s, <1>h, <1>b, <1>c, <2>1, <2>3 DEF LedgerInv, session
<1>13. ASSUME UNCHANGED vars PROVE LedgerInv'
    BY <1>s, <1>h, <1>b, <1>r, <1>c, <1>13 DEF vars, session, LedgerInv
<1> QED
    BY <1>1, <1>2, <1>3, <1>4, <1>5, <1>6, <1>7, <1>8, <1>9, <1>10, <1>11, <1>12, <1>13
       DEF Next, HookStep
LEMMA TypesHold == LedgerInv => TypeOK
<1> SUFFICES ASSUME LedgerInv PROVE TypeOK
    OBVIOUS
<1>1. SessionsInv /\ HooksInv /\ BooksInv /\ RegsInv /\ CountsInv
    BY DEF LedgerInv
<1>2. \A v \in {newer, cold, recent, alive} : v \in [Sessions -> BOOLEAN]
    BY <1>1 DEF SessionsInv
<1>3. ASSUME NEW h \in Sessions
      PROVE  /\ hook[h].step \in {"idle", "append", "find", "sweep"}
             /\ hook[h].target \in Sessions \cup {None}
             /\ hook[h].target # None <=> hook[h].step = "append"
    <2>1. hook[h] \in HookState /\ HookInv(hook[h])
        BY <1>1 DEF HooksInv
    <2> QED BY <2>1 DEF HookState, HookInv
<1>4. DOMAIN ledger \subseteq Row /\ IsABag(ledger)
    BY <1>1 DEF BooksInv, IsLedger
<1>5. /\ transcript \in [Sessions -> Seq(Models)] /\ cursor \in [Sessions -> 0..Top]
      /\ \A t \in Carded : \A m \in DOMAIN regs[t] : m \in Machines /\ regs[t][m] \in Register
      /\ accidents \in [Sessions -> Nat] /\ used \in [Kinds -> Nat]
    BY <1>1 DEF SessionsInv, RegsInv, CountsInv
<1> QED BY <1>2, <1>3, <1>4, <1>5 DEF TypeOK

LEMMA LedgerAlways == Spec => []LedgerInv
BY LedgerInit, LedgerStep, PTL DEF Spec

\* Whatever the hooks, the rewriting and the accidents do, the ledger is a bag
\* of rows, the registers are registers, and a hook is at one of its steps.
THEOREM TypeCorrect == Spec => []TypeOK
BY LedgerAlways, TypesHold, PTL

-----------------------------------------------------------------------------
(* Who bills what *)

Term(at, s) == IF at.target = s THEN Owing(at) ELSE 0

\* What hooks owe is a number, and only one's share changes when one moves.
LEMMA OwingType ==
    ASSUME NEW at \in HookState
    PROVE  /\ RowsLeft(at) \in SUBSET Row /\ IsFiniteSet(RowsLeft(at))
           /\ [row \in RowsLeft(at) |-> row.n] \in [RowsLeft(at) -> Nat]
           /\ Owing(at) \in Nat /\ \A s : Term(at, s) \in Nat
           /\ at.rows = <<>> => Owing(at) = 0
<1> DEFINE rows == at.rows
           R == RowsLeft(at)
           f == [row \in R |-> row.n]
<1>1. rows \in Seq(Row)
    BY DEF HookState
<1>2. Len(rows) \in Nat /\ DOMAIN rows = 1..Len(rows) /\ \A i \in DOMAIN rows : rows[i] \in Row
    BY <1>1
<1>3. R \in SUBSET Row
    BY <1>2 DEF RowsLeft
<1>4. IsFiniteSet(R)
    <2> DEFINE D == DOMAIN rows
               g == [i \in D |-> rows[i]]
    <2>1. g \in Surjection(D, R)
        BY DEF Surjection, RowsLeft
    <2>2. IsFiniteSet(D)
        BY <1>2, FS_Interval
    <2> HIDE DEF D, g, R
    <2> QED BY <2>1, <2>2, FS_Surjection
<1>5. f \in [R -> Nat]
    BY <1>3 DEF Row
<1>6. SumFunction(f) \in Nat
    <2> HIDE DEF f, R
    <2> QED BY <1>4, <1>5, SumType
<1>7. ASSUME rows = <<>> PROVE SumFunction(f) = 0
    <2>1. R = {}
        BY <1>7 DEF RowsLeft
    <2>2. f = [x \in {} |-> f[x]]
        BY <2>1
    <2> HIDE DEF f, R
    <2>3. Part(f, {}) = 0
        BY <1>4, <1>5, PartFacts
    <2> QED BY <2>2, <2>3 DEF Part
<1> QED BY <1>3, <1>4, <1>5, <1>6, <1>7 DEF Owing, Term

LEMMA OwedType ==
    ASSUME NEW hooks \in [Sessions -> HookState], NEW s
    PROVE  /\ [h \in Sessions |-> Term(hooks[h], s)] \in [Sessions -> Nat]
           /\ Owed(hooks, s) = SumFunction([h \in Sessions |-> Term(hooks[h], s)])
           /\ Owed(hooks, s) \in Nat
<1> DEFINE f == [h \in Sessions |-> Term(hooks[h], s)]
<1>1. f \in [Sessions -> Nat]
    BY OwingType
<1>2. Owed(hooks, s) = SumFunction(f)
    BY DEF Owed, Term
<1> HIDE DEF f
<1>3. SumFunction(f) \in Nat
    BY <1>1, LedgerCostAssumption, SumType
<1> QED BY <1>1, <1>2, <1>3 DEF f

\* Only h's hook moves.
Moves(hooks, new, h) ==
    new \in [Sessions -> HookState] /\ \A g \in Sessions \ {h} : new[g] = hooks[g]

LEMMA OwedMoves ==
    ASSUME NEW hooks \in [Sessions -> HookState], NEW new, NEW h \in Sessions,
           Moves(hooks, new, h), NEW s
    PROVE  /\ Owed(new, s) \in Nat /\ Owed(hooks, s) \in Nat
           /\ Term(hooks[h], s) \in Nat /\ Term(new[h], s) \in Nat
           /\ Owed(new, s) + Term(hooks[h], s) = Owed(hooks, s) + Term(new[h], s)
<1> DEFINE f == [g \in Sessions |-> Term(hooks[g], s)]
           k == [g \in Sessions |-> Term(new[g], s)]
<1>1. new \in [Sessions -> HookState] /\ \A g \in Sessions \ {h} : new[g] = hooks[g]
    BY DEF Moves
<1>2. /\ f \in [Sessions -> Nat] /\ Owed(hooks, s) = SumFunction(f) /\ Owed(hooks, s) \in Nat
      /\ k \in [Sessions -> Nat] /\ Owed(new, s) = SumFunction(k) /\ Owed(new, s) \in Nat
    BY <1>1, OwedType
<1>3. /\ f[h] = Term(hooks[h], s) /\ k[h] = Term(new[h], s)
      /\ \A g \in Sessions \ {h} : f[g] = k[g]
    BY <1>1
<1> HIDE DEF f, k
<1>4. SumFunction(k) + f[h] = SumFunction(f) + k[h]
    BY <1>2, <1>3, LedgerCostAssumption, SumChange
<1>5. f[h] \in Nat /\ k[h] \in Nat
    BY <1>2
<1> QED BY <1>2, <1>3, <1>4, <1>5

-----------------------------------------------------------------------------
(* How a bound is kept *)

\* The cursor and the hooks that hold s are within its transcript.
Fit(log, at, hooks, s) ==
    /\ log \in Seq(Models) /\ at \in Nat /\ at <= Len(log)
    /\ hooks \in [Sessions -> HookState]
    /\ \A h \in Sessions : hooks[h].target = s => hooks[h].upto <= Len(log)

LEMMA Fits ==
    ASSUME LedgerInv, NEW s \in Sessions
    PROVE  Fit(transcript[s], cursor[s], hook, s) /\ accidents[s] \in Nat
<1>1. SessionsInv /\ HooksInv /\ CountsInv
    BY DEF LedgerInv
<1>2. transcript[s] \in Seq(Models) /\ cursor[s] \in Nat /\ cursor[s] <= Len(transcript[s])
    BY <1>1 DEF SessionsInv
<1>3. ASSUME NEW h \in Sessions, hook[h].target = s PROVE hook[h].upto <= Len(transcript[s])
    <2>1. s # None
        BY LedgerCostAssumption
    <2> QED BY <1>1, <1>3, <2>1 DEF HooksInv, HookInv
<1> QED BY <1>1, <1>2, <1>3 DEF Fit, HooksInv, CountsInv

\* The quantities a bound compares are numbers.
LEMMA BoundType ==
    ASSUME NEW log, NEW at, NEW hooks, NEW s, Fit(log, at, hooks, s), NEW extra \in Nat
    PROVE  /\ Whole(log) \in Nat /\ extra * Whole(log) \in Nat
           /\ (extra + 1) * Whole(log) = extra * Whole(log) + Whole(log)
           /\ Prefix(log, at) \in Nat /\ Prefix(log, at) <= Whole(log)
           /\ Owed(hooks, s) \in Nat
           /\ \A h \in Sessions : hooks[h].target = s =>
                /\ Prefix(log, hooks[h].upto) \in Nat
                /\ Prefix(log, hooks[h].upto) <= Whole(log)
<1>1. /\ Whole(log) \in Nat
      /\ \A k \in Nat : k <= Len(log) => Prefix(log, k) \in Nat /\ Prefix(log, k) <= Whole(log)
    BY PrefixType DEF Fit
<1>2. extra * Whole(log) \in Nat
    BY <1>1, Products
<1>3. (extra + 1) * Whole(log) = extra * Whole(log) + Whole(log)
    BY <1>1
<1>4. Owed(hooks, s) \in Nat
    BY OwedType DEF Fit
<1>5. \A h \in Sessions : hooks[h].upto \in Nat
    BY DEF Fit, HookState
<1> QED BY <1>1, <1>2, <1>3, <1>4, <1>5 DEF Fit

\* A hook goes on: what it appends is no longer owed.
LEMMA GoesOn ==
    ASSUME NEW log, NEW c, NEW hooks, NEW s, Fit(log, c, hooks, s), NEW extra \in Nat,
           NEW bill \in Nat, NEW less \in Nat, NEW h \in Sessions, NEW new, Moves(hooks, new, h),
           new[h].target = s <=> hooks[h].target = s,
           new[h].target = s => new[h].upto = hooks[h].upto,
           less + Term(new[h], s) <= bill + Term(hooks[h], s),
           Bounded(bill, log, c, extra, hooks, s)
    PROVE  Bounded(less, log, c, extra, new, s)
<1> DEFINE surplus == extra * Whole(log)
<1>1. hooks[h] \in HookState /\ hooks \in [Sessions -> HookState]
    BY DEF Fit
<1>2. /\ new \in [Sessions -> HookState]
      /\ \A g \in Sessions \ {h} : new[g] = hooks[g]
      /\ Owed(new, s) \in Nat /\ Owed(hooks, s) \in Nat
      /\ Owed(new, s) + Term(hooks[h], s) = Owed(hooks, s) + Term(new[h], s)
    BY <1>1, OwedMoves DEF Moves
<1>3. Term(new[h], s) \in Nat /\ Term(hooks[h], s) \in Nat
    BY <1>1, OwedMoves
<1>4. less + Owed(new, s) <= bill + Owed(hooks, s)
    BY <1>2, <1>3
<1>5. /\ surplus \in Nat /\ Prefix(log, c) \in Nat
      /\ \A g \in Sessions : hooks[g].target = s => Prefix(log, hooks[g].upto) \in Nat
    BY BoundType
<1>6. \A g \in Sessions : /\ new[g].target = s <=> hooks[g].target = s
                          /\ new[g].target = s => new[g].upto = hooks[g].upto
    BY <1>2
<1> HIDE DEF surplus
<1>7. /\ \A g \in Sessions : hooks[g].target = s =>
            bill + Owed(hooks, s) <= surplus + Prefix(log, hooks[g].upto)
      /\ (\A g \in Sessions : hooks[g].target # s) =>
            bill + Owed(hooks, s) <= surplus + Prefix(log, c)
    BY DEF Bounded, surplus
<1>8. \A g \in Sessions : new[g].target = s =>
          less + Owed(new, s) <= surplus + Prefix(log, new[g].upto)
    <2> SUFFICES ASSUME NEW g \in Sessions, new[g].target = s
                 PROVE  less + Owed(new, s) <= surplus + Prefix(log, new[g].upto)
        OBVIOUS
    <2>1. new[g].upto = hooks[g].upto /\ hooks[g].target = s
        BY <1>6
    <2> QED BY <1>2, <1>4, <1>5, <1>7, <2>1
<1>9. ASSUME \A g \in Sessions : new[g].target # s
      PROVE  less + Owed(new, s) <= surplus + Prefix(log, c)
    <2>1. \A g \in Sessions : hooks[g].target # s
        BY <1>6, <1>9
    <2> QED BY <1>2, <1>4, <1>5, <1>7, <2>1
<1> QED BY <1>8, <1>9 DEF Bounded, surplus

\* A message more.
LEMMA LogGrows ==
    ASSUME NEW log, NEW c, NEW hooks, NEW s, Fit(log, c, hooks, s), NEW extra \in Nat,
           NEW bill \in Nat, NEW m \in Models, Bounded(bill, log, c, extra, hooks, s)
    PROVE  Bounded(bill, Append(log, m), c, extra, hooks, s)
<1> DEFINE more == Append(log, m)
<1>1. /\ log \in Seq(Models) /\ c \in Nat /\ c <= Len(log)
      /\ hooks \in [Sessions -> HookState]
      /\ \A h \in Sessions : hooks[h].target = s =>
            hooks[h].upto \in Nat /\ hooks[h].upto <= Len(log)
    BY DEF Fit, HookState
<1>2. /\ more \in Seq(Models) /\ Whole(log) <= Whole(more)
      /\ \A k \in Nat : k <= Len(log) => Prefix(more, k) = Prefix(log, k)
    BY <1>1, PrefixGrows
<1>3. Whole(log) \in Nat /\ Whole(more) \in Nat
    BY <1>1, <1>2, PrefixType
<1>4. extra * Whole(log) <= extra * Whole(more)
      /\ extra * Whole(log) \in Nat /\ extra * Whole(more) \in Nat
    <2>1. PICK d \in Nat : Whole(more) = Whole(log) + d
        <3>1. Whole(more) - Whole(log) \in Nat
            BY <1>2, <1>3
        <3> QED BY <1>3, <3>1
    <2>2. extra * (Whole(log) + d) = extra * Whole(log) + extra * d
        BY <1>3
    <2>3. extra * d \in Nat /\ extra * Whole(log) \in Nat
        BY <1>3, Products
    <2> QED BY <2>1, <2>2, <2>3
<1>5. /\ Owed(hooks, s) \in Nat /\ Prefix(log, c) \in Nat
      /\ \A h \in Sessions : hooks[h].target = s => Prefix(log, hooks[h].upto) \in Nat
    BY BoundType
<1> HIDE DEF more
<1>6. \A h \in Sessions : hooks[h].target = s =>
          bill + Owed(hooks, s) <= extra * Whole(more) + Prefix(more, hooks[h].upto)
    <2> SUFFICES ASSUME NEW h \in Sessions, hooks[h].target = s
                 PROVE  bill + Owed(hooks, s) <= extra * Whole(more) + Prefix(more, hooks[h].upto)
        OBVIOUS
    <2>1. bill + Owed(hooks, s) <= extra * Whole(log) + Prefix(log, hooks[h].upto)
        BY DEF Bounded
    <2>2. Prefix(more, hooks[h].upto) = Prefix(log, hooks[h].upto)
        BY <1>1, <1>2
    <2> QED BY <1>4, <1>5, <2>1, <2>2
<1>7. ASSUME \A h \in Sessions : hooks[h].target # s
      PROVE  bill + Owed(hooks, s) <= extra * Whole(more) + Prefix(more, c)
    <2>1. bill + Owed(hooks, s) <= extra * Whole(log) + Prefix(log, c)
        BY <1>7 DEF Bounded
    <2>2. Prefix(more, c) = Prefix(log, c)
        BY <1>1, <1>2
    <2> QED BY <1>4, <1>5, <2>1, <2>2
<1> QED BY <1>6, <1>7 DEF Bounded, more

\* A hook takes up the transcript; when another one holds it, that is an accident.
LEMMA TakesUp ==
    ASSUME NEW log, NEW c, NEW hooks, NEW s, Fit(log, c, hooks, s), NEW extra \in Nat,
           NEW bill \in Nat, NEW h \in Sessions, NEW new, Moves(hooks, new, h),
           hooks[h].target # s, new[h].target = s, new[h].upto = Len(log),
           Prefix(log, c) + Owing(new[h]) = Whole(log),
           Bounded(bill, log, c, extra, hooks, s)
    PROVE  LET held == \E g \in Sessions : hooks[g].target = s
           IN  Bounded(bill, log, c, IF held THEN extra + 1 ELSE extra, new, s)
<1> DEFINE surplus == extra * Whole(log)
<1>1. hooks[h] \in HookState /\ hooks \in [Sessions -> HookState]
    BY DEF Fit
<1>2. /\ \A g \in Sessions \ {h} : new[g] = hooks[g]
      /\ Owed(new, s) \in Nat /\ Owed(hooks, s) \in Nat
      /\ Owed(new, s) + Term(hooks[h], s) = Owed(hooks, s) + Term(new[h], s)
    BY <1>1, OwedMoves DEF Moves
<1>3. Term(new[h], s) = Owing(new[h]) /\ Term(hooks[h], s) = 0 /\ Owing(new[h]) \in Nat
    BY <1>2, OwingType DEF Term, Fit, Moves
<1>4. Owed(new, s) = Owed(hooks, s) + Owing(new[h])
    BY <1>2, <1>3
<1>5. /\ Whole(log) \in Nat /\ surplus \in Nat /\ (extra + 1) * Whole(log) = surplus + Whole(log)
      /\ Prefix(log, c) \in Nat
      /\ \A g \in Sessions : hooks[g].target = s =>
            Prefix(log, hooks[g].upto) \in Nat /\ Prefix(log, hooks[g].upto) <= Whole(log)
    BY BoundType
<1>6. Prefix(log, new[h].upto) = Whole(log)
    BY DEF Whole
<1> HIDE DEF surplus
<1>7. \A g \in Sessions : hooks[g].target = s =>
          bill + Owed(hooks, s) <= surplus + Prefix(log, hooks[g].upto)
    BY DEF Bounded, surplus
<1>8. new[h].target = s
    BY <1>2
<1>9. CASE \E g \in Sessions : hooks[g].target = s
    <2> DEFINE w == Whole(log)   o == Owed(hooks, s)   d == Owing(new[h])
    <2>1. PICK g \in Sessions : hooks[g].target = s
        BY <1>9
    <2>n. w \in Nat /\ o \in Nat /\ d \in Nat /\ surplus \in Nat /\ d <= w
        BY <1>2, <1>3, <1>5
    <2>2. bill + Owed(new, s) <= surplus + Whole(log) + Whole(log)
        <3>1. bill + o <= surplus + w
            BY <1>2, <1>5, <1>7, <2>1
        <3>2. Owed(new, s) = o + d
            BY <1>4
        <3> HIDE DEF w, o, d
        <3>3. bill + (o + d) <= surplus + w + w
            BY <2>n, <3>1
        <3> QED BY <3>2, <3>3 DEF w
    <2>3. \A k \in Sessions \ {h} : new[k].target = s =>
              bill + Owed(new, s) <= surplus + Whole(log) + Prefix(log, new[k].upto)
        <3> SUFFICES ASSUME NEW k \in Sessions \ {h}, new[k].target = s
                     PROVE  bill + Owed(new, s) <= surplus + Whole(log) + Prefix(log, new[k].upto)
            OBVIOUS
        <3> DEFINE p == Prefix(log, new[k].upto)
        <3>1. hooks[k].target = s /\ hooks[k].upto = new[k].upto
            BY <1>2
        <3>2. bill + o <= surplus + p /\ p \in Nat
            BY <1>5, <1>7, <3>1
        <3>3. Owed(new, s) = o + d
            BY <1>4
        <3> HIDE DEF w, o, d, p
        <3>4. bill + (o + d) <= surplus + w + p
            BY <2>n, <3>2
        <3> QED BY <3>3, <3>4 DEF w, p
    <2>4. Bounded(bill, log, c, extra + 1, new, s)
        BY <1>2, <1>5, <1>6, <1>8, <2>2, <2>3 DEF Bounded
    <2> QED BY <1>9, <2>4
<1>10. CASE \A g \in Sessions : hooks[g].target # s
    <2>1. bill + Owed(hooks, s) <= surplus + Prefix(log, c)
        BY <1>10 DEF Bounded, surplus
    <2>2. bill + Owed(new, s) <= surplus + Whole(log)
        BY <1>2, <1>3, <1>4, <1>5, <2>1
    <2>3. \A k \in Sessions : new[k].target = s => k = h
        BY <1>2, <1>10
    <2>4. Bounded(bill, log, c, extra, new, s)
        BY <1>2, <1>6, <1>8, <2>2, <2>3 DEF Bounded, surplus
    <2> QED BY <1>10, <2>4
<1> QED BY <1>9, <1>10

\* A hook is done with the transcript, and the cursor is where it stopped.
LEMMA MovesOn ==
    ASSUME NEW log, NEW c, NEW hooks, NEW s, Fit(log, c, hooks, s), NEW extra \in Nat,
           NEW bill \in Nat, NEW h \in Sessions, NEW new, Moves(hooks, new, h),
           hooks[h].target = s, hooks[h].rows = <<>>, new[h].target # s,
           Bounded(bill, log, c, extra, hooks, s)
    PROVE  Bounded(bill, log, hooks[h].upto, extra, new, s)
<1>1. hooks[h] \in HookState /\ hooks \in [Sessions -> HookState]
    BY DEF Fit
<1>2. /\ \A g \in Sessions \ {h} : new[g] = hooks[g]
      /\ Owed(new, s) \in Nat /\ Owed(hooks, s) \in Nat
      /\ Owed(new, s) + Term(hooks[h], s) = Owed(hooks, s) + Term(new[h], s)
    BY <1>1, OwedMoves DEF Moves
<1>3. Term(new[h], s) = 0 /\ Term(hooks[h], s) = 0
    BY <1>1, <1>2, OwingType DEF Term
<1>4. Owed(new, s) = Owed(hooks, s)
    BY <1>2, <1>3
<1>5. \A g \in Sessions : new[g].target = s => g # h
    BY <1>2
<1> QED BY <1>2, <1>4, <1>5 DEF Bounded

\* A hook dies over the transcript, which is an accident.
LEMMA DiesOver ==
    ASSUME NEW log, NEW c, NEW hooks, NEW s, Fit(log, c, hooks, s), NEW extra \in Nat,
           NEW bill \in Nat, NEW h \in Sessions, NEW new, Moves(hooks, new, h),
           hooks[h].target = s, new[h].target # s,
           Bounded(bill, log, c, extra, hooks, s)
    PROVE  Bounded(bill, log, c, extra + 1, new, s)
<1> DEFINE surplus == extra * Whole(log)
<1>1. hooks[h] \in HookState /\ hooks \in [Sessions -> HookState]
    BY DEF Fit
<1>2. /\ \A g \in Sessions \ {h} : new[g] = hooks[g]
      /\ Owed(new, s) \in Nat /\ Owed(hooks, s) \in Nat
      /\ Owed(new, s) + Term(hooks[h], s) = Owed(hooks, s) + Term(new[h], s)
    BY <1>1, OwedMoves DEF Moves
<1>3. Term(new[h], s) = 0 /\ Term(hooks[h], s) \in Nat
    BY <1>1, <1>2, OwingType DEF Term
<1>4. Owed(new, s) <= Owed(hooks, s)
    BY <1>2, <1>3
<1>5. /\ Whole(log) \in Nat /\ surplus \in Nat /\ (extra + 1) * Whole(log) = surplus + Whole(log)
      /\ Prefix(log, c) \in Nat
      /\ \A g \in Sessions : hooks[g].target = s =>
            Prefix(log, hooks[g].upto) \in Nat /\ Prefix(log, hooks[g].upto) <= Whole(log)
    BY BoundType
<1> HIDE DEF surplus
<1>6. \A g \in Sessions : hooks[g].target = s =>
          bill + Owed(hooks, s) <= surplus + Prefix(log, hooks[g].upto)
    BY DEF Bounded, surplus
<1>7. bill + Owed(new, s) <= surplus + Whole(log)
    BY <1>2, <1>4, <1>5, <1>6
<1>8. \A g \in Sessions : new[g].target = s =>
          Prefix(log, new[g].upto) \in Nat
    BY <1>2, <1>5
<1>9. \A g \in Sessions : new[g].target = s =>
          bill + Owed(new, s) <= surplus + Whole(log) + Prefix(log, new[g].upto)
    BY <1>2, <1>5, <1>7, <1>8
<1>10. bill + Owed(new, s) <= surplus + Whole(log) + Prefix(log, c)
    BY <1>2, <1>5, <1>7
<1> QED BY <1>5, <1>9, <1>10 DEF Bounded

-----------------------------------------------------------------------------
(* Double billing *)

LEMMA BilledType ==
    ASSUME NEW bag, IsLedger(bag), NEW s
    PROVE  BilledBy(bag, s) \in Nat
<1> DEFINE rows == {r \in DOMAIN bag : r.sess = s}
<1>1. SumFunction([row \in rows |-> row.n * bag[row]]) \in Nat
    BY RowsWorth
<1> QED BY <1>1 DEF BilledBy

\* An empty ledger bills nothing.
LEMMA NothingBilled ==
    ASSUME NEW s
    PROVE  BilledBy(EmptyBag, s) = 0
<1> DEFINE f == [row \in {r \in DOMAIN EmptyBag : r.sess = s} |-> row.n * EmptyBag[row]]
           z == [x \in {} |-> 0]
<1>1. DOMAIN EmptyBag = {}
    BY DEF EmptyBag, SetToBag
<1>2. f = [x \in {} |-> z[x]]
    BY <1>1
<1>3. IsFiniteSet({}) /\ z \in [{} -> Nat]
    BY FS_EmptySet
<1> HIDE DEF f, z
<1>4. Part(z, {}) = 0
    BY <1>3, PartFacts
<1>5. SumFunction(f) = 0
    BY <1>2, <1>4 DEF Part
<1> QED BY <1>5 DEF BilledBy, f

LEMMA BillInit == Init => BillInv
<1> SUFFICES ASSUME Init, NEW s \in Sessions
             PROVE  /\ rewriting = None
                    /\ Bounded(BilledBy(ledger, s), transcript[s], cursor[s], accidents[s], hook, s)
    BY DEF BillInv, Within, Init
<1>1. LedgerInv
    BY LedgerInit
<1>2. Fit(transcript[s], cursor[s], hook, s) /\ accidents[s] \in Nat
    BY <1>1, Fits
<1>3. BilledBy(ledger, s) = 0
    BY NothingBilled DEF Init
<1>4. Owed(hook, s) = 0
    <2> DEFINE z == [h \in Sessions |-> 0]
    <2>1. \A h \in Sessions : hook[h].target = None
        BY DEF Init, Idle
    <2>2. s # None
        BY LedgerCostAssumption
    <2>3. [h \in Sessions |-> IF hook[h].target = s THEN Owing(hook[h]) ELSE 0]
            = [h \in Sessions |-> 0 * z[h]]
        BY <2>1, <2>2
    <2>4. z \in [Sessions -> Nat]
        OBVIOUS
    <2> HIDE DEF z
    <2>5. SumFunction([h \in Sessions |-> 0 * z[h]]) = 0 * SumFunction(z)
        BY <2>4, LedgerCostAssumption, SumFactor
    <2>6. SumFunction(z) \in Nat
        BY <2>4, LedgerCostAssumption, SumType
    <2>7. Owed(hook, s) = 0 * SumFunction(z)
        BY <2>3, <2>5 DEF Owed
    <2> QED BY <2>6, <2>7
<1>5. /\ accidents[s] * Whole(transcript[s]) \in Nat /\ Prefix(transcript[s], cursor[s]) \in Nat
      /\ \A h \in Sessions : hook[h].target # s
    <2>1. \A h \in Sessions : hook[h].target # s
        BY LedgerCostAssumption DEF Init, Idle
    <2> QED BY <1>2, <2>1, BoundType
<1>6. rewriting = None
    BY DEF Init
<1> QED BY <1>3, <1>4, <1>5, <1>6 DEF Bounded

\* A step that leaves both the ledger and its copy alone.
LEMMA BooksKept ==
    ASSUME LedgerInv, BillInv, UNCHANGED <<ledger, rewriting>>,
           \A s \in Sessions : \A bill \in Nat :
              Bounded(bill, transcript[s], cursor[s], accidents[s], hook, s)
                => Bounded(bill, transcript'[s], cursor'[s], accidents'[s], hook', s)
    PROVE  BillInv'
<1>1. BooksInv
    BY DEF LedgerInv
<1>2. ASSUME NEW bag, IsLedger(bag), Within(bag), NEW s \in Sessions
      PROVE  Bounded(BilledBy(bag, s), transcript'[s], cursor'[s], accidents'[s], hook', s)
    BY <1>2, BilledType DEF Within
<1>3. ASSUME NEW s \in Sessions
      PROVE  /\ Bounded(BilledBy(ledger, s), transcript'[s], cursor'[s], accidents'[s], hook', s)
             /\ rewriting # None => Bounded(BilledBy(rewriting, s), transcript'[s], cursor'[s],
                                            accidents'[s], hook', s)
    BY <1>1, <1>2 DEF BooksInv, BillInv
<1> QED BY <1>3 DEF BillInv, Within, BilledBy

\* One hook moves that neither held a transcript nor does now.
LEMMA Rests ==
    ASSUME LedgerInv, BillInv, NEW h \in Sessions, Moves(hook, hook', h),
           hook[h].target = None, hook'[h].target = None,
           UNCHANGED <<transcript, cursor, accidents, ledger, rewriting>>
    PROVE  BillInv'
<1>1. ASSUME NEW s \in Sessions, NEW bill \in Nat,
             Bounded(bill, transcript[s], cursor[s], accidents[s], hook, s)
      PROVE  Bounded(bill, transcript[s], cursor[s], accidents[s], hook', s)
    <2>1. Fit(transcript[s], cursor[s], hook, s) /\ accidents[s] \in Nat
        BY Fits
    <2>2. s # None
        BY LedgerCostAssumption
    <2>3. Term(hook[h], s) = 0 /\ Term(hook'[h], s) = 0
        BY <2>2 DEF Term
    <2> DEFINE new == hook'
    <2>4. /\ Moves(hook, new, h) /\ hook[h].target # s /\ new[h].target # s
          /\ bill + Term(new[h], s) <= bill + Term(hook[h], s)
        BY <2>2, <2>3
    <2> HIDE DEF new
    <2>5. Bounded(bill, transcript[s], cursor[s], accidents[s], new, s)
        BY <1>1, <2>1, <2>4, GoesOn
    <2> QED BY <2>5 DEF new
<1> QED BY <1>1, BooksKept

\* One hook takes up a transcript.
LEMMA Starts ==
    ASSUME LedgerInv, BillInv, NEW h \in Sessions, Moves(hook, hook', h),
           NEW s \in Sessions, NEW id \in Id, NEW todo, Takes(h, s, id, todo),
           hook[h].target = None, UNCHANGED <<transcript, cursor, ledger, rewriting>>
    PROVE  BillInv'
<1> DEFINE new == hook'
<1>1. /\ hook'[h].target = s /\ hook'[h].upto = Len(transcript[s])
      /\ hook'[h].rows = RowsFor(s, id)
      /\ accidents' = [accidents EXCEPT ![s] = IF Held(s) THEN @ + 1 ELSE @]
    <2>1. hook \in [Sessions -> HookState]
        BY DEF LedgerInv, HooksInv
    <2> QED BY <2>1 DEF Takes
<1>2. accidents \in [Sessions -> Nat]
    BY DEF LedgerInv, CountsInv
<1>3. Prefix(transcript[s], cursor[s]) + Owing(hook'[h]) = Whole(transcript[s])
    <2>1. RowsLeft(hook'[h]) = {RowsFor(s, id)[i] : i \in DOMAIN RowsFor(s, id)}
        BY <1>1 DEF RowsLeft
    <2> QED BY <2>1, RowsForIs DEF Owing
<1>4. ASSUME NEW g \in Sessions, NEW bill \in Nat,
             Bounded(bill, transcript[g], cursor[g], accidents[g], hook, g)
      PROVE  Bounded(bill, transcript[g], cursor[g], accidents'[g], hook', g)
    <2>1. Fit(transcript[g], cursor[g], hook, g) /\ accidents[g] \in Nat /\ g # None
        BY Fits, LedgerCostAssumption
    <2>2. Moves(hook, new, h) /\ hook[h].target # g
        BY <2>1
    <2>3. CASE g = s
        <3>1. /\ new[h].target = g /\ new[h].upto = Len(transcript[g])
              /\ Prefix(transcript[g], cursor[g]) + Owing(new[h]) = Whole(transcript[g])
            BY <1>1, <1>3, <2>3
        <3> HIDE DEF new
        <3>2. Bounded(bill, transcript[g], cursor[g],
                      IF \E k \in Sessions : hook[k].target = g THEN accidents[g] + 1
                      ELSE accidents[g], new, g)
            BY <1>4, <2>1, <2>2, <3>1, TakesUp
        <3>3. accidents'[g] = IF \E k \in Sessions : hook[k].target = g THEN accidents[g] + 1
                              ELSE accidents[g]
            BY <1>1, <1>2, <2>3 DEF Held
        <3> QED BY <3>2, <3>3 DEF new
    <2>4. CASE g # s
        <3>1. accidents'[g] = accidents[g] /\ new[h].target # g
            BY <1>1, <1>2, <2>4
        <3>2. bill + Term(new[h], g) <= bill + Term(hook[h], g)
            BY <2>2, <3>1 DEF Term
        <3> HIDE DEF new
        <3>3. Bounded(bill, transcript[g], cursor[g], accidents[g], new, g)
            BY <1>4, <2>1, <2>2, <3>1, <3>2, GoesOn
        <3> QED BY <3>1, <3>3 DEF new
    <2> QED BY <2>3, <2>4
<1> QED BY <1>4, BooksKept

\* One hook appends its next row.
LEMMA Appends ==
    ASSUME LedgerInv, BillInv, NEW h \in Sessions, Moves(hook, hook', h), AppendRow(h)
    PROVE  BillInv'
<1> DEFINE new == hook'
           rows == hook[h].rows
           row == Head(rows)
<1>1. /\ hook[h] \in HookState /\ HookInv(hook[h]) /\ hook[h].step = "append" /\ rows # <<>>
      /\ ledger' = WithRow(ledger, row)
      /\ hook'[h].rows = Tail(rows) /\ hook'[h].target = hook[h].target
      /\ hook'[h].upto = hook[h].upto
      /\ UNCHANGED <<session, rewriting, accidents>>
    <2>1. hook \in [Sessions -> HookState] /\ HookInv(hook[h])
        BY DEF LedgerInv, HooksInv
    <2>2. hook' = [hook EXCEPT ![h].rows = Tail(@)]
        BY DEF AppendRow
    <2>3. hook[h] \in HookState
        BY <2>1
    <2>4. /\ hook'[h].rows = Tail(rows) /\ hook'[h].target = hook[h].target
          /\ hook'[h].upto = hook[h].upto
        BY <2>1, <2>2, <2>3 DEF HookState
    <2> QED BY <2>1, <2>3, <2>4 DEF AppendRow
<1>2. /\ row \in Row /\ row.n \in Nat /\ row.sess = hook[h].target
      /\ row \in RowsLeft(hook[h]) /\ RowsLeft(hook'[h]) = RowsLeft(hook[h]) \ {row}
    <2>1. rows \in Seq(Row) /\ IsInjective(rows)
        BY <1>1 DEF HookState, HookInv
    <2>2. /\ row \in Row /\ 1 \in DOMAIN rows /\ row = rows[1]
          /\ {Tail(rows)[i] : i \in DOMAIN Tail(rows)} = {rows[i] : i \in DOMAIN rows} \ {row}
        BY <1>1, <2>1, TailIs
    <2>3. row.n \in Nat
        BY <2>2 DEF Row
    <2>4. row.sess = hook[h].target
        BY <1>1, <2>2 DEF HookInv
    <2>5. row \in RowsLeft(hook[h]) /\ RowsLeft(hook'[h]) = RowsLeft(hook[h]) \ {row}
        BY <1>1, <2>2 DEF RowsLeft
    <2> QED BY <2>2, <2>3, <2>4, <2>5
<1>3. Owing(hook[h]) = row.n + Owing(hook'[h]) /\ Owing(hook'[h]) \in Nat
    <2> DEFINE R == RowsLeft(hook[h])
               f == [r \in R |-> r.n]
    <2>1. IsFiniteSet(R) /\ f \in [R -> Nat] /\ row \in R /\ f[row] = row.n
        BY <1>1, <1>2, OwingType
    <2>2. [r \in RowsLeft(hook'[h]) |-> r.n] = [r \in R \ {row} |-> f[r]]
        BY <1>2
    <2> HIDE DEF f, R
    <2>3. SumFunction(f) = f[row] + SumFunction([r \in R \ {row} |-> f[r]])
        BY <2>1, SumSplit
    <2>4. new[h] \in HookState
        BY DEF Moves
    <2>5. Owing(new[h]) \in Nat
        <3> HIDE DEF new
        <3> QED BY <2>4, OwingType
    <2>6. Owing(hook[h]) = SumFunction(f)
        BY DEF Owing, f, R
    <2>7. Owing(hook'[h]) = SumFunction([r \in R \ {row} |-> f[r]])
        BY <2>2 DEF Owing
    <2> QED BY <2>1, <2>3, <2>5, <2>6, <2>7
<1>4. UNCHANGED <<transcript, cursor, accidents, rewriting>>
    BY <1>1 DEF session
<1>5. IsLedger(ledger) /\ (rewriting # None => IsLedger(rewriting))
    BY DEF LedgerInv, BooksInv
<1>6. ASSUME NEW s \in Sessions, NEW bill \in Nat, NEW less \in Nat,
             less = bill + (IF row.sess = s THEN row.n ELSE 0) \/ less = bill,
             Bounded(bill, transcript[s], cursor[s], accidents[s], hook, s)
      PROVE  Bounded(less, transcript[s], cursor[s], accidents[s], hook', s)
    <2>1. Fit(transcript[s], cursor[s], hook, s) /\ accidents[s] \in Nat
        BY Fits
    <2>2. /\ new[h].target = hook[h].target /\ new[h].upto = hook[h].upto
          /\ Moves(hook, new, h)
        BY <1>1
    <2>3. less + Term(new[h], s) <= bill + Term(hook[h], s)
        BY <1>1, <1>2, <1>3, <1>6 DEF Term
    <2> HIDE DEF new
    <2>4. Bounded(less, transcript[s], cursor[s], accidents[s], new, s)
        BY <1>6, <2>1, <2>2, <2>3, GoesOn
    <2> QED BY <2>4 DEF new
<1>7. ASSUME NEW s \in Sessions
      PROVE  Bounded(BilledBy(WithRow(ledger, row), s), transcript[s], cursor[s], accidents[s],
                     hook', s)
    <2>1. /\ BilledBy(ledger, s) \in Nat
          /\ BilledBy(WithRow(ledger, row), s)
                = BilledBy(ledger, s) + (IF row.sess = s THEN row.n ELSE 0)
        BY <1>2, <1>5, WithRowIs
    <2>2. BilledBy(WithRow(ledger, row), s) \in Nat
        BY <1>2, <2>1
    <2>3. Bounded(BilledBy(ledger, s), transcript[s], cursor[s], accidents[s], hook, s)
        BY DEF BillInv, Within
    <2> HIDE DEF row, new
    <2> QED BY <1>6, <2>1, <2>2, <2>3
<1>8. ASSUME rewriting # None, NEW s \in Sessions
      PROVE  Bounded(BilledBy(rewriting, s), transcript[s], cursor[s], accidents[s], hook', s)
    <2>1. BilledBy(rewriting, s) \in Nat
        BY <1>5, <1>8, BilledType
    <2>2. Bounded(BilledBy(rewriting, s), transcript[s], cursor[s], accidents[s], hook, s)
        BY <1>8 DEF BillInv, Within
    <2> QED BY <1>6, <2>1, <2>2
<1> QED BY <1>1, <1>4, <1>7, <1>8 DEF BillInv, Within, BilledBy

\* One hook is done with its transcript.
LEMMA Advances ==
    ASSUME LedgerInv, BillInv, NEW h \in Sessions, Moves(hook, hook', h), Advance(h)
    PROVE  BillInv'
<1> DEFINE new == hook'
           s == hook[h].target
<1>1. /\ hook[h] \in HookState /\ HookInv(hook[h]) /\ hook[h].rows = <<>>
      /\ hook[h].step = "append" /\ hook'[h].target = None
      /\ cursor' = [cursor EXCEPT ![s] = hook[h].upto] /\ cursor \in [Sessions -> 0..Top]
      /\ UNCHANGED <<transcript, ledger, rewriting, accidents>>
    BY DEF LedgerInv, HooksInv, SessionsInv, Advance, Idle
<1>2. s \in Sessions
    BY <1>1 DEF HookInv, HookState
<1>3. ASSUME NEW g \in Sessions, NEW bill \in Nat,
             Bounded(bill, transcript[g], cursor[g], accidents[g], hook, g)
      PROVE  Bounded(bill, transcript[g], cursor'[g], accidents[g], hook', g)
    <2>1. Fit(transcript[g], cursor[g], hook, g) /\ accidents[g] \in Nat /\ g # None
        BY Fits, LedgerCostAssumption
    <2>2. Moves(hook, new, h) /\ new[h].target # g
        BY <1>1, <2>1
    <2>3. CASE g = s
        <3>1. hook[h].target = g /\ cursor'[g] = hook[h].upto
            BY <1>1, <1>2, <2>3
        <3> HIDE DEF new, s
        <3>2. Bounded(bill, transcript[g], hook[h].upto, accidents[g], new, g)
            BY <1>1, <1>3, <2>1, <2>2, <3>1, MovesOn
        <3> QED BY <3>1, <3>2 DEF new
    <2>4. CASE g # s
        <3>1. cursor'[g] = cursor[g] /\ hook[h].target # g
            BY <1>1, <1>2, <2>4
        <3>2. bill + Term(new[h], g) <= bill + Term(hook[h], g)
            BY <2>2, <3>1 DEF Term
        <3> HIDE DEF new, s
        <3>3. Bounded(bill, transcript[g], cursor[g], accidents[g], new, g)
            BY <1>3, <2>1, <2>2, <3>1, <3>2, GoesOn
        <3> QED BY <3>1, <3>3 DEF new
    <2> QED BY <2>3, <2>4
<1> QED BY <1>1, <1>3, BooksKept

\* One hook dies.
LEMMA Dies ==
    ASSUME LedgerInv, BillInv, NEW h \in Sessions, Moves(hook, hook', h), Crash(h)
    PROVE  BillInv'
<1> DEFINE new == hook'
<1>1. /\ hook'[h].target = None
      /\ accidents' = [s \in Sessions |-> IF s = hook[h].target THEN accidents[s] + 1
                                          ELSE accidents[s]]
      /\ UNCHANGED <<transcript, cursor, ledger, rewriting>>
    BY DEF LedgerInv, HooksInv, Crash, Idle, session
<1>2. ASSUME NEW g \in Sessions, NEW bill \in Nat,
             Bounded(bill, transcript[g], cursor[g], accidents[g], hook, g)
      PROVE  Bounded(bill, transcript[g], cursor[g], accidents'[g], hook', g)
    <2>1. Fit(transcript[g], cursor[g], hook, g) /\ accidents[g] \in Nat /\ g # None
        BY Fits, LedgerCostAssumption
    <2>2. Moves(hook, new, h) /\ new[h].target # g
        BY <1>1, <2>1
    <2>3. CASE hook[h].target = g
        <3>1. accidents'[g] = accidents[g] + 1
            BY <1>1, <2>3
        <3> HIDE DEF new
        <3>2. Bounded(bill, transcript[g], cursor[g], accidents[g] + 1, new, g)
            BY <1>2, <2>1, <2>2, <2>3, DiesOver
        <3> QED BY <3>1, <3>2 DEF new
    <2>4. CASE hook[h].target # g
        <3>1. accidents'[g] = accidents[g]
            BY <1>1, <2>4
        <3>2. bill + Term(new[h], g) <= bill + Term(hook[h], g)
            BY <2>2, <2>4 DEF Term
        <3> HIDE DEF new
        <3>3. Bounded(bill, transcript[g], cursor[g], accidents[g], new, g)
            BY <1>2, <2>1, <2>2, <2>4, <3>2, GoesOn
        <3> QED BY <3>1, <3>3 DEF new
    <2> QED BY <2>3, <2>4
<1> QED BY <1>1, <1>2, BooksKept

\* Every step keeps the bound, of the ledger and of the copy that may replace it.
LEMMA BillStep == LedgerInv /\ BillInv /\ [Next]_vars => BillInv'
<1> SUFFICES ASSUME LedgerInv, BillInv, [Next]_vars PROVE BillInv'
    OBVIOUS
<1>0. /\ LedgerInv' /\ hook \in [Sessions -> HookState] /\ hook' \in [Sessions -> HookState]
      /\ \A h \in Sessions : HookInv(hook[h])
    <2>1. LedgerInv'
        BY LedgerStep
    <2> QED BY <2>1 DEF LedgerInv, HooksInv
<1>h. ASSUME NEW h \in Sessions, NEW at, hook' = [hook EXCEPT ![h] = at]
      PROVE  Moves(hook, hook', h)
    BY <1>0, <1>h DEF Moves
<1>s. ASSUME UNCHANGED <<transcript, cursor, accidents, hook, ledger, rewriting>>
      PROVE  BillInv'
    BY <1>s DEF BillInv, Within, BilledBy
<1>1. ASSUME NEW s \in Sessions, Message(s) PROVE BillInv'
    <2>1. PICK m \in Models :
            /\ transcript' = [transcript EXCEPT ![s] = Append(@, m)]
            /\ UNCHANGED <<cursor, ledger, hook, rewriting, accidents>>
        BY <1>1 DEF Message
    <2>2. transcript \in [Sessions -> Seq(Models)]
        BY DEF LedgerInv, SessionsInv
    <2>3. ASSUME NEW g \in Sessions, NEW bill \in Nat,
                 Bounded(bill, transcript[g], cursor[g], accidents[g], hook, g)
          PROVE  Bounded(bill, transcript'[g], cursor[g], accidents[g], hook, g)
        <3>1. Fit(transcript[g], cursor[g], hook, g) /\ accidents[g] \in Nat
            BY Fits
        <3>2. CASE g = s
            <4>1. transcript'[g] = Append(transcript[g], m)
                BY <2>1, <2>2, <3>2
            <4>2. Bounded(bill, Append(transcript[g], m), cursor[g], accidents[g], hook, g)
                BY <2>3, <3>1, LogGrows
            <4> QED BY <4>1, <4>2
        <3>3. CASE g # s
            <4>1. transcript'[g] = transcript[g]
                BY <2>1, <2>2, <3>3
            <4> QED BY <2>3, <4>1
        <3> QED BY <3>2, <3>3
    <2> QED BY <2>1, <2>3, BooksKept
<1>2. ASSUME NEW s \in Sessions, Kill(s) \/ Resume(s) PROVE BillInv'
    BY <1>s, <1>2 DEF Kill, Resume
<1>3. ASSUME HalfHour PROVE BillInv'
    BY <1>s, <1>3 DEF HalfHour
<1>4. ASSUME NEW s \in Sessions, Stop(s) PROVE BillInv'
    <2>1. /\ UNCHANGED <<transcript, cursor, ledger, rewriting>> /\ hook[s].target = None
          /\ IF Unbilled(s) # {} THEN Takes(s, s, TicketOf(s), {})
             ELSE hook' = [hook EXCEPT ![s].step = "find"] /\ UNCHANGED accidents
        <3>1. Idle.target = None
            BY DEF Idle
        <3>2. hook[s] = Idle /\ UNCHANGED <<session, ledger, rewriting>>
            BY <1>4 DEF Stop
        <3>3. IF Unbilled(s) # {} THEN Takes(s, s, TicketOf(s), {})
              ELSE hook' = [hook EXCEPT ![s].step = "find"] /\ UNCHANGED accidents
            BY <1>4 DEF Stop
        <3> QED BY <3>1, <3>2, <3>3 DEF session
    <2>2. CASE Unbilled(s) # {}
        <3>1. Takes(s, s, TicketOf(s), {})
            BY <2>1, <2>2
        <3>2. Moves(hook, hook', s) /\ TicketOf(s) \in Id
            BY <1>h, <3>1, TicketType DEF Takes
        <3> QED BY <2>1, <3>1, <3>2, Starts
    <2>3. CASE Unbilled(s) = {}
        <3>1. hook' = [hook EXCEPT ![s].step = "find"] /\ UNCHANGED accidents
            BY <2>1, <2>3
        <3>2. hook[s] \in HookState /\ hook' = [hook EXCEPT ![s] = [hook[s] EXCEPT !.step = "find"]]
            BY <1>0, <3>1
        <3>3. Moves(hook, hook', s) /\ hook'[s].target = hook[s].target
            BY <1>0, <1>h, <3>2 DEF HookState
        <3> QED BY <2>1, <3>1, <3>3, Rests
    <2> QED BY <2>2, <2>3
<1>5. ASSUME NEW h \in Sessions, AppendRow(h) PROVE BillInv'
    <2>1. Moves(hook, hook', h)
        BY <1>0, <1>5 DEF AppendRow, Moves
    <2> QED BY <1>5, <2>1, Appends
<1>6. ASSUME NEW h \in Sessions, Advance(h) PROVE BillInv'
    <2>1. Moves(hook, hook', h)
        BY <1>0, <1>6 DEF Advance, Moves
    <2> QED BY <1>6, <2>1, Advances
<1>7. ASSUME NEW h \in Sessions, Crash(h) PROVE BillInv'
    <2>1. Moves(hook, hook', h)
        BY <1>0, <1>7 DEF Crash, Moves
    <2> QED BY <1>7, <2>1, Dies
<1>8. ASSUME NEW h \in Sessions, Find(h) \/ Finish(h) PROVE BillInv'
    <2>1. UNCHANGED <<transcript, cursor, accidents, ledger, rewriting>>
        BY <1>8 DEF Find, Finish, session
    <2>2. hook[h].target = None
        BY <1>0, <1>8 DEF Find, Finish, HookInv
    <2>3. Moves(hook, hook', h)
        BY <1>0, <1>8 DEF Find, Finish, Moves
    <2>4. hook'[h].target = None
        BY <1>0, <1>8, <2>2 DEF Find, Finish, Idle, HookState
    <2> QED BY <2>1, <2>2, <2>3, <2>4, Rests
<1>9. ASSUME NEW h \in Sessions, Sweep(h) PROVE BillInv'
    <2>1. PICK s \in hook[h].todo :
            /\ hook[h].step = "sweep"
            /\ IF newer[s] THEN Takes(h, s, TicketOfDead(s), hook[h].todo \ {s})
               ELSE hook' = [hook EXCEPT ![h].todo = hook[h].todo \ {s}] /\ UNCHANGED accidents
            /\ UNCHANGED <<session, ledger, rewriting>>
        BY <1>9 DEF Sweep
    <2>2. /\ UNCHANGED <<transcript, cursor, ledger, rewriting>> /\ hook[h].target = None
          /\ s \in Sessions
        BY <1>0, <2>1 DEF session, HookInv, HookState
    <2>3. CASE newer[s]
        <3>1. Takes(h, s, TicketOfDead(s), hook[h].todo \ {s})
            BY <2>1, <2>3
        <3>2. Moves(hook, hook', h) /\ TicketOfDead(s) \in Id
            BY <1>h, <2>2, <3>1, TicketType DEF Takes
        <3> QED BY <2>2, <3>1, <3>2, Starts
    <2>4. CASE ~newer[s]
        <3>1. hook' = [hook EXCEPT ![h].todo = hook[h].todo \ {s}] /\ UNCHANGED accidents
            BY <2>1, <2>4
        <3>2. Moves(hook, hook', h) /\ hook'[h].target = hook[h].target
            BY <1>0, <3>1 DEF Moves, HookState
        <3> QED BY <2>2, <3>1, <3>2, Rests
    <2> QED BY <2>3, <2>4
<1>10. ASSUME Rewrite PROVE BillInv'
    <2>1. PICK id \in Id : /\ rewriting' = Reattributed(ledger, id)
                           /\ UNCHANGED <<transcript, cursor, ledger, hook, accidents>>
        BY <1>10 DEF Rewrite, session
    <2>2. \A s \in Sessions : BilledBy(rewriting', s) = BilledBy(ledger, s)
        BY <2>1, ReattributedIs DEF LedgerInv, BooksInv
    <2>3. ASSUME NEW s \in Sessions
          PROVE  /\ Bounded(BilledBy(ledger, s), transcript[s], cursor[s], accidents[s], hook, s)
                 /\ Bounded(BilledBy(rewriting', s), transcript[s], cursor[s], accidents[s],
                            hook, s)
        <3>1. Bounded(BilledBy(ledger, s), transcript[s], cursor[s], accidents[s], hook, s)
            BY DEF BillInv, Within
        <3>2. BilledBy(rewriting', s) = BilledBy(ledger, s)
            BY <2>2
        <3> QED BY <3>1, <3>2
    <2> QED BY <2>1, <2>3 DEF BillInv, Within, BilledBy
<1>11. ASSUME Replace PROVE BillInv'
    <2>1. /\ rewriting # None /\ ledger' = rewriting /\ rewriting' = None
          /\ UNCHANGED <<transcript, cursor, hook, accidents>>
        BY <1>11 DEF Replace, session
    <2> QED BY <2>1 DEF BillInv, Within, BilledBy
<1>12. ASSUME Lose PROVE BillInv'
    <2>1. /\ ledger' = EmptyBag
          /\ UNCHANGED <<transcript, cursor, hook, rewriting, accidents>>
        BY <1>12 DEF Lose, session
    <2>2. ASSUME NEW s \in Sessions
          PROVE  Bounded(BilledBy(ledger', s), transcript[s], cursor[s], accidents[s], hook, s)
        <3>1. Fit(transcript[s], cursor[s], hook, s) /\ accidents[s] \in Nat
            BY Fits
        <3>2. BilledBy(ledger, s) \in Nat
            BY BilledType DEF LedgerInv, BooksInv
        <3>3. BilledBy(ledger', s) = 0
            BY <2>1, NothingBilled
        <3>4. Bounded(BilledBy(ledger, s), transcript[s], cursor[s], accidents[s], hook, s)
            BY DEF BillInv, Within
        <3> DEFINE W == accidents[s] * Whole(transcript[s])
        <3>5. /\ W \in Nat /\ Owed(hook, s) \in Nat /\ Prefix(transcript[s], cursor[s]) \in Nat
              /\ \A h \in Sessions : hook[h].target = s =>
                    Prefix(transcript[s], hook[h].upto) \in Nat
            BY <3>1, BoundType
        <3> HIDE DEF W
        <3> QED BY <3>2, <3>3, <3>4, <3>5 DEF Bounded, W
    <2> QED BY <2>1, <2>2 DEF BillInv, Within, BilledBy
<1>13. ASSUME NEW t \in Carded, Checkpoint(t) PROVE BillInv'
    BY <1>s, <1>13 DEF Checkpoint, session
<1>14. ASSUME UNCHANGED vars PROVE BillInv'
    BY <1>s, <1>14 DEF vars
<1> QED
    BY <1>1, <1>2, <1>3, <1>4, <1>5, <1>6, <1>7, <1>8, <1>9, <1>10, <1>11, <1>12, <1>13, <1>14
       DEF Next, HookStep

\* However Stops, sweeps, crashes, rewrites and losses of the ledger interleave,
\* a message is billed once more for each accident of its session at most.
THEOREM BillingIsBounded == Spec => []DoubleBillingIsAccidental
<1>1. ASSUME LedgerInv, BillInv, NEW s \in Sessions
      PROVE  Billed(s) <= Used(s) * (1 + accidents[s])
    <2>1. Fit(transcript[s], cursor[s], hook, s) /\ accidents[s] \in Nat
        BY <1>1, Fits
    <2>2. /\ Used(s) = Whole(transcript[s]) /\ BilledBy(ledger, s) \in Nat
          /\ Bounded(BilledBy(ledger, s), transcript[s], cursor[s], accidents[s], hook, s)
        BY <1>1, UsedIs, BilledType DEF BillInv, Within, LedgerInv, BooksInv
    <2> DEFINE W == Whole(transcript[s])
               n == accidents[s]
    <2>3. /\ W \in Nat /\ n * W \in Nat /\ (n + 1) * W = n * W + W
          /\ Prefix(transcript[s], cursor[s]) <= W /\ Prefix(transcript[s], cursor[s]) \in Nat
          /\ Owed(hook, s) \in Nat
          /\ \A h \in Sessions : hook[h].target = s =>
                /\ Prefix(transcript[s], hook[h].upto) \in Nat
                /\ Prefix(transcript[s], hook[h].upto) <= W
        BY <2>1, BoundType
    <2> HIDE DEF W, n
    <2>4. Billed(s) <= n * W + W
        BY <2>2, <2>3 DEF Bounded, Billed, W, n
    <2>5. Used(s) * (1 + accidents[s]) = n * W + W
        BY <2>1, <2>2, <2>3 DEF W, n
    <2> QED BY <2>4, <2>5
<1>2. LedgerInv /\ BillInv => DoubleBillingIsAccidental
    BY <1>1 DEF DoubleBillingIsAccidental
<1> QED
    BY <1>2, BillInit, BillStep, LedgerAlways, PTL DEF Spec

-----------------------------------------------------------------------------
(* What the board shows *)

\* Both spellings of a ticket are its rows.
LEMMA RowsOfIs ==
    ASSUME NEW bag, NEW t
    PROVE  RowsOf(bag, t) = {row \in DOMAIN bag : row.id.tix = t}
BY DEF RowsOf, Canon

\* A ticket's rows, priced, are its spend.
LEMMA SpentIs ==
    ASSUME LedgerInv, NEW t
    PROVE  LET rows == RowsOf(ledger, t)
           IN  /\ Spent(t) \in Nat /\ PriceLedger(ledger, rows).tokens = Spent(t)
               /\ rows = {} => Spent(t) = 0
<1> DEFINE rows == RowsOf(ledger, t)
           f == [row \in rows |-> row.n * ledger[row]]
<1>1. rows = {r \in DOMAIN ledger : r.id.tix = t} /\ rows \in SUBSET DOMAIN ledger
    BY RowsOfIs
<1>2. Spent(t) = SumFunction(f)
    BY <1>1 DEF Spent
<1>3. IsFiniteSet(rows) /\ f \in [rows -> Nat] /\ SumFunction(f) \in Nat
    BY <1>1, RowsWorth DEF LedgerInv, BooksInv
<1>4. PriceLedger(ledger, rows).tokens = SumFunction(f)
    BY DEF PriceLedger
<1>5. ASSUME rows = {} PROVE SumFunction(f) = 0
    <2>1. f = [x \in {} |-> f[x]]
        BY <1>5
    <2> HIDE DEF f, rows
    <2>2. Part(f, {}) = 0
        BY <1>3, PartFacts
    <2> QED BY <2>1, <2>2 DEF Part
<1> QED BY <1>2, <1>3, <1>4, <1>5

\* A set of rows is measured when every row that counts has a price.
LEMMA MeasuredIs ==
    ASSUME NEW bag, IsLedger(bag), NEW rows \in SUBSET DOMAIN bag,
           PriceLedger(bag, rows).tier = "measured"
    PROVE  \A row \in rows : row.n > 0 => row.model \in DOMAIN Rates
<1> DEFINE T == {"measured"} \cup {Tier(row) : row \in {r \in rows : r.n > 0}}
<1>1. T \in SUBSET Tiers /\ T # {}
    <2>1. \A row \in rows : Tier(row) \in Tiers
        BY RowWorth, MicrosType
    <2> QED BY <2>1 DEF Tiers
<1>2. Worst(T) = "measured"
    BY DEF PriceLedger
<1> SUFFICES ASSUME NEW row \in rows, row.n > 0 PROVE row.model \in DOMAIN Rates
    OBVIOUS
<1>3. Tier(row) \in T
    OBVIOUS
<1> HIDE DEF T
<1>4. Rank[Tier(row)] <= Rank["measured"] /\ Tier(row) \in Tiers
    BY <1>1, <1>2, <1>3, WorstIs
<1>5. Rank["measured"] = 0 /\ Rank["estimated"] = 1 /\ Rank["legacy"] = 2
    BY DEF Rank
<1>6. Tier(row) = "measured"
    BY <1>4, <1>5 DEF Tiers
<1> QED BY <1>6 DEF Tier, Priced

\* What the other machines registered.
LEMMA ElsewhereIs ==
    ASSUME LedgerInv, NEW t \in Carded
    PROVE  /\ Elsewhere(t) \in Nat
           /\ SumFunction([m \in DOMAIN regs[t] \ {Own} |-> OrZero(regs[t][m]["tokens"])])
                = Elsewhere(t)
           /\ DOMAIN regs[t] = {} => Elsewhere(t) = 0
<1> DEFINE D == DOMAIN regs[t] \ {Own}
           f == [m \in D |-> regs[t][m].tokens]
<1>1. \A m \in DOMAIN regs[t] : m \in Machines /\ regs[t][m].tokens \in Nat
    BY DEF LedgerInv, RegsInv, Register
<1>2. IsFiniteSet(D) /\ f \in [D -> Nat]
    <2>1. D \in SUBSET Machines
        BY <1>1
    <2>2. IsFiniteSet(D)
        BY <2>1, LedgerCostAssumption, FS_Subset
    <2> QED BY <1>1, <2>2
<1>3. Elsewhere(t) = SumFunction(f)
    BY DEF Elsewhere
<1>4. [m \in D |-> OrZero(regs[t][m]["tokens"])] = f
    <2>1. None \notin Nat
        BY LedgerCostAssumption
    <2> QED BY <1>1, <2>1 DEF OrZero
<1>5. ASSUME D = {} PROVE SumFunction(f) = 0
    <2>1. f = [x \in {} |-> f[x]]
        BY <1>5
    <2> HIDE DEF f, D
    <2>2. Part(f, {}) = 0
        BY <1>2, PartFacts
    <2> QED BY <2>1, <2>2 DEF Part
<1>6. SumFunction(f) \in Nat
    <2> HIDE DEF f, D
    <2> QED BY <1>2, SumType
<1> QED BY <1>3, <1>4, <1>5, <1>6

\* A card's tokens.
LEMMA CardTokens ==
    ASSUME LedgerInv, NEW t \in Carded, RegisterIsBehind(t)
    PROVE  OrZero(Card(ledger, t, regs[t]).tokens) = Spent(t) + Elsewhere(t)
<1> DEFINE rows == RowsOf(ledger, t)
           local == IF rows = {} THEN [tokens |-> None, micros |-> None, tier |-> "measured"]
                    ELSE PriceLedger(ledger, rows)
           others == SumFunction([m \in DOMAIN regs[t] \ {Own} |->
                                    OrZero(regs[t][m]["tokens"])])
           own == IF Own \in DOMAIN regs[t] THEN OrZero(regs[t][Own]["tokens"]) ELSE 0
<1>1. /\ Spent(t) \in Nat /\ PriceLedger(ledger, rows).tokens = Spent(t)
      /\ rows = {} => Spent(t) = 0
    BY SpentIs
<1>2. /\ Elsewhere(t) \in Nat /\ others = Elsewhere(t)
      /\ DOMAIN regs[t] = {} => Elsewhere(t) = 0
    BY ElsewhereIs
<1>3. None \notin Nat
    BY LedgerCostAssumption
<1>4. OrZero(local.tokens) = Spent(t)
    BY <1>1, <1>3 DEF OrZero
<1>5. own \in Nat /\ own <= Spent(t)
    <2>1. Own \in DOMAIN regs[t] =>
              regs[t][Own].tokens \in Nat /\ regs[t][Own].tokens <= Spent(t)
        BY DEF LedgerInv, RegsInv, Register, RegisterIsBehind
    <2> QED BY <1>1, <1>3, <2>1 DEF OrZero
<1>6. Card(ledger, t, regs[t]).tokens
        = IF DOMAIN regs[t] = {} THEN local.tokens ELSE Larger(OrZero(local.tokens), own) + others
    BY DEF Card, Fold
<1> HIDE DEF local, others, own
<1>7. Larger(OrZero(local.tokens), own) = Spent(t)
    BY <1>1, <1>4, <1>5 DEF Larger
<1>8. Spent(t) + Elsewhere(t) \in Nat /\ Spent(t) + 0 = Spent(t)
    BY <1>1, <1>2
<1>9. CASE DOMAIN regs[t] = {}
    BY <1>2, <1>4, <1>6, <1>8, <1>9
<1>10. CASE DOMAIN regs[t] # {}
    <2>1. Card(ledger, t, regs[t]).tokens = Spent(t) + Elsewhere(t)
        BY <1>2, <1>6, <1>7, <1>10
    <2> QED BY <1>3, <1>8, <2>1 DEF OrZero
<1> QED BY <1>9, <1>10

\* A card's tier.
LEMMA CardTier ==
    ASSUME LedgerInv, NEW t \in Carded, Card(ledger, t, regs[t]).tier = "measured"
    PROVE  /\ \A row \in DOMAIN ledger :
                row.id.tix = t /\ row.n > 0 => row.model \in DOMAIN Rates
           /\ \A m \in DOMAIN regs[t] \ {Own} :
                regs[t][m].micros # None => regs[t][m].tier = "measured"
<1> DEFINE rows == RowsOf(ledger, t)
           local == IF rows = {} THEN [tokens |-> None, micros |-> None, tier |-> "measured"]
                    ELSE PriceLedger(ledger, rows)
           soft == {m \in DOMAIN regs[t] \ {Own} :
                      regs[t][m].micros # None /\ regs[t][m].tier # "measured"}
<1>1. \/ Card(ledger, t, regs[t]).tier = "unattributed"
      \/ soft # {} /\ Card(ledger, t, regs[t]).tier = regs[t][CHOOSE m \in soft : TRUE].tier
      \/ soft = {} /\ Card(ledger, t, regs[t]).tier = local.tier
    BY DEF Card
<1>2. soft # {} => regs[t][CHOOSE m \in soft : TRUE].tier # "measured"
    <2> SUFFICES ASSUME soft # {} PROVE regs[t][CHOOSE m \in soft : TRUE].tier # "measured"
        OBVIOUS
    <2>1. (CHOOSE m \in soft : TRUE) \in soft
        <3> HIDE DEF soft
        <3> QED OBVIOUS
    <2> QED BY <2>1
<1>3. soft = {} /\ local.tier = "measured"
    BY <1>1, <1>2
<1>4. rows = {r \in DOMAIN ledger : r.id.tix = t} /\ rows \in SUBSET DOMAIN ledger
    BY RowsOfIs
<1>5. ASSUME NEW row \in rows, row.n > 0 PROVE row.model \in DOMAIN Rates
    <2>1. PriceLedger(ledger, rows).tier = "measured"
        BY <1>3, <1>5
    <2> HIDE DEF rows
    <2> QED BY <1>4, <1>5, <2>1, MeasuredIs DEF LedgerInv, BooksInv
<1> QED BY <1>3, <1>4, <1>5

\* The rows no card shows, ticket by ticket.
LEMMA OffBoardIs ==
    ASSUME LedgerInv
    PROVE  OffBoard(ledger, Carded).tokens
             = SumFunction([t \in (Tickets \cup {Unassigned}) \ Carded |-> Spent(t)])
<1> DEFINE S == DOMAIN ledger \ UNION {RowsOf(ledger, t) : t \in Carded}
           f == [row \in S |-> row.n * ledger[row]]
           R == (Tickets \cup {Unassigned}) \ Carded
           g == [row \in S |-> row.id.tix]
<1>1. S = {row \in DOMAIN ledger : row.id.tix \notin Carded} /\ S \in SUBSET DOMAIN ledger
    BY RowsOfIs
<1>2. IsFiniteSet(S) /\ f \in [S -> Nat]
    BY <1>1, RowsWorth DEF LedgerInv, BooksInv
<1>3. IsFiniteSet(R)
    <2>1. IsFiniteSet(Tickets \cup {Unassigned}) /\ R \in SUBSET (Tickets \cup {Unassigned})
        BY LedgerCostAssumption, FS_AddElement
    <2> QED BY <2>1, FS_Subset
<1>4. g \in [S -> R]
    <2>1. \A row \in DOMAIN ledger : row.id \in Id
        BY RowWorth DEF LedgerInv, BooksInv
    <2> QED BY <1>1, <2>1 DEF Id
<1>5. \A r \in R : Part(f, {x \in S : g[x] = r}) = Spent(r)
    <2> TAKE r \in R
    <2>1. {x \in S : g[x] = r} = {row \in DOMAIN ledger : row.id.tix = r}
        BY <1>1
    <2>2. [x \in {y \in S : g[y] = r} |-> f[x]]
            = [row \in {q \in DOMAIN ledger : q.id.tix = r} |-> row.n * ledger[row]]
        BY <1>1, <2>1
    <2> QED BY <2>2 DEF Part, Spent
<1>6. OffBoard(ledger, Carded).tokens = SumFunction(f)
    BY DEF OffBoard, PriceLedger
<1> HIDE DEF S, f, g, R
<1>7. SumFunction(f) = SumFunction([r \in R |-> Part(f, {x \in S : g[x] = r})])
    BY <1>2, <1>3, <1>4, SumFibres
<1>8. [r \in R |-> Part(f, {x \in S : g[x] = r})] = [r \in R |-> Spent(r)]
    BY <1>5
<1> QED BY <1>6, <1>7, <1>8 DEF R

\* Every token the ledger holds is on the card of its ticket, in either
\* spelling, or off the board, and no estimated cost passes for a measured one.
THEOREM CardsAddUp == Spec => []CardsCarryTheirRows
<1>1. LedgerInv => CardsCarryTheirRows
    BY CardTokens, CardTier, OffBoardIs DEF CardsCarryTheirRows
<1> QED
    BY <1>1, LedgerAlways, PTL
=============================================================================
