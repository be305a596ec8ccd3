------------------------ MODULE PullWatermarkProofs ------------------------
(***************************************************************************)
(* What the pull promises, for every number of Issues, every page size and *)
(* every grace period, claim age and sweep interval: all it takes is that  *)
(* a pass is shorter than the grace period and the grace period no longer  *)
(* than a claim's age.                                                     *)
(*                                                                         *)
(* A filing never ends with two files (ADT-116): FilingInv.  The next pull *)
(* is told of what the cache lacks: MarkInv, which follows an Issue that   *)
(* is owed from the page that returns it to the watermark that waits for   *)
(* it.  And what the saved watermark passes over the cache has, or a human *)
(* deleted its file, or it changed during a listing: Mirror's steps.       *)
(***************************************************************************)
EXTENDS PullWatermark, WellFoundedInduction, FiniteSetTheorems, TLAPS

(* Numbers *)

\* By well-founded induction on the numbers.
LEMMA Least ==
    ASSUME NEW T \in SUBSET Nat, T # {}
    PROVE  \E x \in T : \A y \in T : x <= y
<1> DEFINE R == OpToRel(<, Nat)
<1>1. IsWellFoundedOn(R, Nat)
    BY NatLessThanWellFounded, Zenon
<1>2. \A a, b \in Nat : a < b => <<a, b>> \in R
    BY DEF OpToRel
<1> HIDE DEF R
<1>3. PICK x \in T : \A y \in T : ~ (<<y, x>> \in R)
    BY <1>1, WFMin, Zenon
<1>4. ASSUME NEW y \in T PROVE ~(y < x)
    BY <1>2, <1>3
<1> QED BY <1>3, <1>4

\* The least distance from the bound.
LEMMA Greatest ==
    ASSUME NEW n \in Nat, NEW T \in SUBSET (0..n), T # {}
    PROVE  \E x \in T : \A y \in T : y <= x
<1> DEFINE D == {n - y : y \in T}
<1>1. D \in SUBSET Nat /\ D # {}
    <2>1. \A y \in T : n - y \in Nat
        OBVIOUS
    <2>2. PICK y \in T : TRUE
        OBVIOUS
    <2>3. n - y \in D
        BY <2>2
    <2> QED BY <2>1, <2>3
<1>2. PICK m \in D : \A k \in D : m <= k
    <2> HIDE DEF D
    <2> QED BY <1>1, Least
<1>3. PICK x \in T : m = n - x
    BY <1>2
<1>4. ASSUME NEW y \in T PROVE y <= x
    <2>1. n - y \in D
        OBVIOUS
    <2> QED BY <1>2, <1>3, <2>1
<1> QED BY <1>4

\* The Min of a set of numbers is its least element.
LEMMA MinIs ==
    ASSUME NEW T \in SUBSET Nat, T # {}
    PROVE  Min(T) \in T /\ \A y \in T : Min(T) <= y
<1>1. \E x \in T : \A y \in T : x <= y
    BY Least
<1> QED BY <1>1 DEF Min

\* The Max of a bounded one is its greatest.
LEMMA MaxIs ==
    ASSUME NEW n \in Nat, NEW T \in SUBSET (0..n), T # {}
    PROVE  Max(T) \in T /\ \A y \in T : y <= Max(T)
<1>1. \E x \in T : \A y \in T : y <= x
    BY Greatest
<1>2. T \subseteq Nat
    OBVIOUS
<1>3. \E x \in T : \A y \in T : x >= y
    BY <1>1, <1>2
<1>4. Max(T) \in T /\ \A y \in T : Max(T) >= y
    BY <1>3 DEF Max
<1> QED BY <1>2, <1>4

-----------------------------------------------------------------------------
(* Places in a list that is sorted downwards *)

Above(A, i) == {j \in A : j > i}

\* Who has one of size places from lo on, the first place being 0.
OnPage(A, lo, size) == {k \in A : Cardinality(Above(A, k)) \in lo .. lo + size - 1}

\* Who has a place has another one before it, but the first.
LEMMA OnePlaceOn ==
    ASSUME NEW n \in Nat, NEW A \in SUBSET (0..n), NEW k \in A,
           Cardinality(Above(A, k)) > 0
    PROVE  \E m \in A : /\ m > k
                        /\ Cardinality(Above(A, k)) = Cardinality(Above(A, m)) + 1
<1>1. Above(A, k) # {}
    BY FS_EmptySet
<1>2. /\ \A j \in A : j \in Nat
      /\ Above(A, k) \in SUBSET Nat /\ Above(A, k) \subseteq A
    <2>1. \A j \in A : j \in Nat
        OBVIOUS
    <2> QED BY <2>1 DEF Above
<1>3. PICK m \in Above(A, k) : \A j \in Above(A, k) : m <= j
    BY <1>1, <1>2, Least
<1>4. m \in A /\ m > k /\ m \notin Above(A, m)
    BY <1>2 DEF Above
<1>5. Above(A, k) = Above(A, m) \cup {m}
    <2>1. \A j \in A : j > k <=> j > m \/ j = m
        <3> TAKE j \in A
        <3>1. j > k => m <= j
            BY <1>3 DEF Above
        <3> QED BY <1>2, <1>4, <3>1
    <2> QED BY <1>4, <2>1 DEF Above
<1>6. IsFiniteSet(Above(A, m))
    <2>1. IsFiniteSet(0..n)
        BY FS_Interval
    <2>2. Above(A, m) \in SUBSET (0..n)
        BY DEF Above
    <2> QED BY <2>1, <2>2, FS_Subset
<1>7. Cardinality(Above(A, m) \cup {m}) = Cardinality(Above(A, m)) + 1
    BY <1>4, <1>6, FS_AddElement
<1> QED BY <1>4, <1>5, <1>7

\* When somebody has a place beyond a page, the page is full.
LEMMA FullPage ==
    ASSUME NEW n \in Nat, NEW A \in SUBSET (0..n), NEW i \in A,
           NEW lo \in Nat, NEW size \in Nat,
           Cardinality(Above(A, i)) >= lo + size
    PROVE  Cardinality(OnPage(A, lo, size)) >= size
<1> DEFINE place(k) == Cardinality(Above(A, k))
           P == OnPage(A, lo, size)
           f == [k \in P |-> place(k)]
<1>1. IsFiniteSet(A) /\ \A k \in A : place(k) \in Nat
    <2>1. IsFiniteSet(0..n)
        BY FS_Interval
    <2>2. \A k \in A : Above(A, k) \in SUBSET (0..n)
        BY DEF Above
    <2> QED BY <2>1, <2>2, FS_Subset, FS_CardinalityType
<1>2. ASSUME NEW v \in Nat, v <= place(i)
      PROVE  \E k \in A : place(k) = v
    <2> DEFINE T == {k \in A : place(k) >= v}
    <2>1. T \in SUBSET (0..n) /\ T # {}
        BY <1>2
    <2>2. PICK k \in T : \A j \in T : j <= k
        <3> HIDE DEF T
        <3> QED BY <2>1, Greatest
    <2>3. SUFFICES ASSUME place(k) # v PROVE FALSE
        BY <2>2
    <2>4. place(k) > 0 /\ place(k) > v
        BY <1>1, <2>2, <2>3
    <2>5. PICK m \in A : m > k /\ place(k) = place(m) + 1
        BY <2>2, <2>4, OnePlaceOn
    <2>6. m \in T
        BY <1>1, <2>4, <2>5
    <2>7. m \in Nat /\ k \in Nat
        BY <2>2
    <2> QED BY <2>2, <2>5, <2>6, <2>7
<1>3. f \in Surjection(P, lo .. lo + size - 1)
    <2>1. f \in [P -> lo .. lo + size - 1]
        BY DEF OnPage
    <2>2. ASSUME NEW v \in lo .. lo + size - 1
          PROVE  \E k \in P : f[k] = v
        <3>1. v \in Nat /\ v <= place(i)
            BY <1>1
        <3>2. PICK k \in A : place(k) = v
            BY <1>2, <3>1
        <3>3. k \in P /\ f[k] = v
            BY <3>2 DEF OnPage
        <3> QED BY <3>3
    <2> HIDE DEF P, f
    <2> QED BY <2>1, <2>2 DEF Surjection
<1>4. IsFiniteSet(P)
    BY <1>1, FS_Subset DEF OnPage
<1> HIDE DEF P, f
<1>5. Cardinality(lo .. lo + size - 1) <= Cardinality(P)
    BY <1>3, <1>4, FS_Surjection
<1>6. Cardinality(lo .. lo + size - 1) = size
    BY FS_Interval
<1>7. Cardinality(P) \in Nat
    BY <1>4, FS_CardinalityType
<1>8. Cardinality(P) >= size
    BY <1>5, <1>6, <1>7
<1> QED BY <1>8 DEF P

-----------------------------------------------------------------------------
\* The types the argument needs.
Shape ==
    /\ now \in Nat
    /\ newest \in 0 .. MaxIssue
    /\ born \in [Issues -> Nat] /\ updated \in [Issues -> Nat]
    /\ claimed \subseteq Alive
    /\ files \in [Issues -> SUBSET Kept]
    /\ pc \in {"idle", "list", "handle"}
    /\ start \in Nat /\ offset \in Nat
    /\ batch \subseteq [issue : Alive, at : Nat, updated : Nat, claimed : BOOLEAN]
    /\ found \in [Issues -> Kept \cup {None}]

\* A pass is over within PassTime.
Timely == pc # "idle" => start <= now /\ now <= start + PassTime

\* A claim that is still on the Issue was there when the page was fetched.
ClaimsAreOld == \A x \in batch : x.issue \in claimed => x.claimed

\* How long an Issue is put off that was returned as x.
Wait(x) == IF x.claimed THEN MaxAge ELSE Grace

\* A file is rebuilt only when no filing can be under way any more.
RebuiltIsLate ==
    \A i \in Issues :
        "rebuilt" \in files[i] \/ found[i] = "rebuilt"
            => i \in Alive /\ now >= born[i] + Window(i)

\* A file that was written behind the back of the running pass is one of an Issue
\* that this pass puts off whenever it gets to it.
UnseenIsYoung ==
    pc = "handle" =>
        \A x \in batch :
            found[x.issue] = None /\ "authored" \in files[x.issue]
                => start + PassTime < born[x.issue] + Wait(x)

\* The file a pass has seen is the only one.
FoundIsAll ==
    pc = "handle" =>
        \A i \in Issues : found[i] # None => files[i] \subseteq {found[i]}

OneKind == \A i \in Issues : ~("authored" \in files[i] /\ "rebuilt" \in files[i])

FilingInv == /\ Shape /\ Timely /\ ClaimsAreOld /\ RebuiltIsLate
             /\ UnseenIsYoung /\ FoundIsAll /\ OneKind
-----------------------------------------------------------------------------
LEMMA Constants ==
    /\ PageSize \in Nat /\ Grace \in Nat /\ MaxAge \in Nat /\ PassTime \in Nat
    /\ MaxIssue \in Nat /\ Grace <= MaxAge /\ None \notin Kept
BY PullWatermarkAssumption DEF Kept

LEMMA FilingInit == Init => FilingInv
BY Constants
   DEF Init, FilingInv, Shape, Timely, ClaimsAreOld, RebuiltIsLate, UnseenIsYoung,
       FoundIsAll, OneKind, Kept, Alive, Issues

\* What happens on GitHub and in sessions preserves the invariant.
LEMMA WorldStep ==
    ASSUME FilingInv, NEW i \in Issues, World(i)
    PROVE  FilingInv'
<1> USE Constants DEF FilingInv, Shape, Kept, Alive, Issues, Window, Wait
<1>1. ASSUME NEW claim \in BOOLEAN, Create(i, claim) PROVE FilingInv'
    <2> i = newest + 1 /\ i \notin Alive /\ Alive \subseteq Alive'
        BY <1>1 DEF Create
    <2> UNCHANGED <<now, files, pc, start, offset, batch, found>>
        BY <1>1 DEF Create
    <2> claimed \subseteq claimed' /\ claimed' \subseteq claimed \cup {i}
        BY <1>1 DEF Create
    <2> /\ born' \in [Issues -> Nat]
        /\ \A j \in Issues : j # i => born'[j] = born[j]
        BY <1>1 DEF Create
    <2> \A x \in batch : x.issue \in Alive
        OBVIOUS
    <2>1. Shape'
        BY <1>1 DEF Create, Changes
    <2>2. Timely' /\ FoundIsAll' /\ OneKind'
        BY DEF Timely, FoundIsAll, OneKind
    <2>3. ClaimsAreOld'
        BY DEF ClaimsAreOld
    <2>4. RebuiltIsLate'
        BY DEF RebuiltIsLate
    <2>5. UnseenIsYoung'
        BY DEF UnseenIsYoung
    <2> QED
        BY <2>1, <2>2, <2>3, <2>4, <2>5
<1>2. CASE WriteFile(i)
    <2> UNCHANGED <<now, newest, born, updated, claimed, pc, start, offset, batch,
                    found>>
        BY <1>2 DEF WriteFile, pass
    <2>1. /\ files' = [files EXCEPT ![i] = @ \cup {"authored"}]
          /\ now + PassTime < born[i] + Window(i)
        BY <1>2 DEF WriteFile
    <2>2. "rebuilt" \notin files[i] /\ found[i] # "rebuilt"
        BY <2>1 DEF RebuiltIsLate
    <2>3. Shape' /\ Timely' /\ ClaimsAreOld'
        BY <2>1 DEF Timely, ClaimsAreOld
    <2>4. RebuiltIsLate'
        BY <2>1 DEF RebuiltIsLate
    <2>5. UnseenIsYoung'
        <3> SUFFICES ASSUME pc = "handle", NEW x \in batch, x.issue = i
                     PROVE  start + PassTime < born[i] + Wait(x)
            BY <2>1 DEF UnseenIsYoung
        <3> QED
            BY <2>1 DEF Timely, ClaimsAreOld
    <2>6. FoundIsAll'
        BY <2>1, <2>2 DEF FoundIsAll
    <2>7. OneKind'
        BY <2>1, <2>2 DEF OneKind
    <2> QED
        BY <2>3, <2>4, <2>5, <2>6, <2>7
<1>3. CASE Release(i) \/ Touch(i)
    <2>1. /\ UNCHANGED <<now, newest, born, files, pc, start, offset, batch, found>>
          /\ updated' = [updated EXCEPT ![i] = now] /\ claimed' \subseteq claimed
        BY <1>3 DEF Release, Touch, Changes
    <2>2. Shape' /\ Timely' /\ FoundIsAll' /\ OneKind'
        BY <2>1 DEF Timely, FoundIsAll, OneKind
    <2>3. ClaimsAreOld' /\ UnseenIsYoung'
        BY <2>1 DEF ClaimsAreOld, UnseenIsYoung
    <2>4. RebuiltIsLate'
        BY <2>1 DEF RebuiltIsLate
    <2> QED
        BY <2>2, <2>3, <2>4
<1>4. CASE DeleteFile(i)
    <2>1. /\ UNCHANGED <<now, newest, born, updated, claimed, pc, start, offset,
                         batch, found>>
          /\ files' = [files EXCEPT ![i] = {}]
        BY <1>4 DEF DeleteFile, github, pass
    <2> QED
        BY <2>1 DEF Timely, ClaimsAreOld, RebuiltIsLate, UnseenIsYoung, FoundIsAll,
                    OneKind
<1> QED
    BY <1>1, <1>2, <1>3, <1>4 DEF World

\* A page preserves it: what is returned is as it is on GitHub, and what the index
\* has found is in the cache.
LEMMA PageStep ==
    ASSUME FilingInv, NEW s, NEW o \in Nat, pc # "handle", Page(s, o),
           UNCHANGED <<github, cache>>,
           start' \in Nat, start' <= now, now <= start' + PassTime
    PROVE  FilingInv'
<1> USE Constants DEF FilingInv, Shape, Kept, Alive, Issues
<1> UNCHANGED <<now, newest, born, updated, claimed, files>>
    BY DEF github, cache
<1> DEFINE page == {i \in Asked(s) : Place(i, s) \in o .. o + PageSize - 1}
           item(i) == [issue |-> i, at |-> o, updated |-> updated[i],
                       claimed |-> i \in claimed]
<1>1. batch' = batch \cup {item(i) : i \in page}
    BY DEF Page
<1>2. page \subseteq Alive
    BY DEF Asked
<1>3. \/ /\ pc' = "list" /\ offset' = o + PageSize /\ found' = found
      \/ /\ pc' = "handle" /\ offset' = 0
         /\ found' \in [Issues -> Kept \cup {None}]
         /\ \A i \in Issues : IF files[i] = {} THEN found'[i] = None
                                               ELSE found'[i] \in files[i]
    BY DEF Page
<1> HIDE DEF page
<1>4. ASSUME NEW x \in batch'
      PROVE  /\ x \in [issue : Alive, at : Nat, updated : Nat, claimed : BOOLEAN]
             /\ x.issue \in claimed => x.claimed
    <2>1. CASE x \in batch
        BY <2>1 DEF ClaimsAreOld
    <2>2. ASSUME NEW i \in page, x = item(i)
          PROVE  /\ x \in [issue : Alive, at : Nat, updated : Nat, claimed : BOOLEAN]
                 /\ x.issue \in claimed => x.claimed
        <3> i \in Alive /\ i \in Issues /\ updated[i] \in Nat
            BY <1>2
        <3> (i \in claimed) \in BOOLEAN
            OBVIOUS
        <3> QED
            BY <2>2
    <2> QED
        BY <1>1, <2>1, <2>2
<1>5. Shape'
    BY <1>3, <1>4
<1>6. Timely'
    BY <1>3 DEF Timely
<1>7. ClaimsAreOld'
    BY <1>4 DEF ClaimsAreOld
<1>8. RebuiltIsLate'
    BY <1>3 DEF RebuiltIsLate, Window
<1>9. UnseenIsYoung'
    <2>1. SUFFICES ASSUME pc' = "handle", NEW x \in batch'
                   PROVE  found'[x.issue] = None => files[x.issue] = {}
        BY DEF UnseenIsYoung
    <2>2. x.issue \in Issues
        BY <1>4
    <2> QED
        BY <1>3, <2>1, <2>2
<1>10. FoundIsAll'
    BY <1>3 DEF FoundIsAll, OneKind
<1>11. OneKind'
    BY DEF OneKind
<1> QED
    BY <1>5, <1>6, <1>7, <1>8, <1>9, <1>10, <1>11

\* Handling a returned Issue preserves it.
LEMMA HandleStep ==
    ASSUME FilingInv, NEW x \in batch, Update(x) \/ Defer(x) \/ Reconstruct(x)
    PROVE  FilingInv'
<1> USE Constants DEF FilingInv, Shape, Kept, Alive, Issues, Window, Wait
<1> UNCHANGED <<now, newest, born, updated, claimed, pc, start, offset, found>>
    BY DEF Update, Defer, Reconstruct, Handles, github
<1>1. pc = "handle" /\ batch' \subseteq batch
    BY DEF Update, Defer, Reconstruct, Handles
<1>2. x.issue \in Alive
    OBVIOUS
<1>3. Timely' /\ ClaimsAreOld'
    BY <1>1 DEF Timely, ClaimsAreOld
<1>4. CASE UNCHANGED files
    BY <1>1, <1>3, <1>4 DEF RebuiltIsLate, UnseenIsYoung, FoundIsAll, OneKind
<1>5. CASE files' = [files EXCEPT ![x.issue] = @ \cup {found[x.issue]}]
           /\ found[x.issue] # None
    <2>1. files[x.issue] \subseteq {found[x.issue]} /\ found[x.issue] \in Kept
        BY <1>1, <1>2, <1>5 DEF FoundIsAll
    <2>2. Shape'
        BY <1>1, <1>2, <1>5, <2>1
    <2>3. RebuiltIsLate'
        BY <1>2, <1>5 DEF RebuiltIsLate
    <2>4. UnseenIsYoung'
        BY <1>1, <1>2, <1>5 DEF UnseenIsYoung
    <2>5. FoundIsAll'
        BY <1>1, <1>2, <1>5 DEF FoundIsAll
    <2>6. OneKind'
        BY <1>2, <1>5, <2>1 DEF OneKind
    <2> QED
        BY <1>3, <2>2, <2>3, <2>4, <2>5, <2>6
<1>6. CASE files' = [files EXCEPT ![x.issue] = @ \cup {"rebuilt"}]
           /\ found[x.issue] = None /\ now - born[x.issue] >= Wait(x)
    <2>1. Window(x.issue) <= Wait(x)
        BY <1>2 DEF ClaimsAreOld
    <2>2. "authored" \notin files[x.issue]
        BY <1>1, <1>2, <1>6 DEF UnseenIsYoung, Timely
    <2>3. Shape'
        BY <1>1, <1>2, <1>6
    <2>4. RebuiltIsLate'
        <3> SUFFICES ASSUME NEW i \in Issues, "rebuilt" \in files'[i] \/ found[i] = "rebuilt"
                     PROVE  i \in Alive /\ now >= born[i] + Window(i)
            BY DEF RebuiltIsLate
        <3>1. CASE i = x.issue
            BY <1>2, <1>6, <2>1, <3>1
        <3>2. CASE i # x.issue
            BY <1>2, <1>6, <3>2 DEF RebuiltIsLate
        <3> QED BY <3>1, <3>2
    <2>5. UnseenIsYoung'
        BY <1>1, <1>2, <1>6 DEF UnseenIsYoung
    <2>6. FoundIsAll'
        BY <1>1, <1>2, <1>6 DEF FoundIsAll
    <2>7. OneKind'
        BY <1>2, <1>6, <2>2 DEF OneKind
    <2> QED
        BY <1>3, <2>3, <2>4, <2>5, <2>6, <2>7
<1>7. CASE Update(x)
    BY <1>4, <1>5, <1>7 DEF Update, Writes, cache
<1>8. CASE Defer(x)
    BY <1>4, <1>8 DEF Defer, cache
<1>9. CASE Reconstruct(x)
    <2>1. now - born[x.issue] >= Wait(x)
        BY <1>2, <1>9 DEF Reconstruct, PutsOff
    <2> QED
        BY <1>6, <1>9, <2>1 DEF Reconstruct, Writes
<1> QED
    BY <1>7, <1>8, <1>9

\* A pass that ends forgets everything that ties it to the cache.
LEMMA LeaveStep ==
    ASSUME FilingInv, Leave, UNCHANGED <<github, files>>
    PROVE  FilingInv'
<1> USE DEF FilingInv, Shape, Leave, Alive, github
<1>1. Shape' /\ Timely' /\ ClaimsAreOld' /\ OneKind'
    BY Constants DEF Timely, ClaimsAreOld, OneKind
<1>2. UnseenIsYoung' /\ FoundIsAll'
    BY DEF UnseenIsYoung, FoundIsAll
<1>3. RebuiltIsLate'
    BY Constants DEF RebuiltIsLate, Window, Kept
<1> QED
    BY <1>1, <1>2, <1>3

LEMMA FilingStep == FilingInv /\ [Next]_vars => FilingInv'
<1> SUFFICES ASSUME FilingInv, [Next]_vars PROVE FilingInv'
    OBVIOUS
<1>1. CASE Tick
    <2> USE <1>1, Constants DEF Tick, FilingInv, Shape, Alive, cache, pass
    <2>1. Shape' /\ Timely' /\ RebuiltIsLate'
        BY DEF Timely, RebuiltIsLate, Window, Issues
    <2>2. ClaimsAreOld' /\ UnseenIsYoung' /\ FoundIsAll' /\ OneKind'
        BY DEF ClaimsAreOld, UnseenIsYoung, FoundIsAll, OneKind, Wait
    <2> QED
        BY <2>1, <2>2
<1>2. ASSUME NEW full \in BOOLEAN, Begin(full) PROVE FilingInv'
    <2>1. /\ pc # "handle" /\ start' = now /\ 0 \in Nat /\ now \in Nat
          /\ UNCHANGED <<github, cache>> /\ Page(since', 0)
        BY <1>2 DEF Begin, FilingInv, Shape
    <2>2. start' \in Nat /\ start' <= now /\ now <= start' + PassTime
        BY <2>1, Constants
    <2> QED
        BY <2>1, <2>2, PageStep
<1>3. CASE ListPage
    <2>1. /\ pc # "handle" /\ start' = start /\ offset \in Nat
          /\ UNCHANGED <<github, cache>> /\ Page(since, offset)
        BY <1>3 DEF ListPage, FilingInv, Shape
    <2>2. start' \in Nat /\ start' <= now /\ now <= start' + PassTime
        BY <1>3, <2>1 DEF ListPage, FilingInv, Shape, Timely
    <2> QED
        BY <2>1, <2>2, PageStep
<1>4. ASSUME NEW x \in batch, Update(x) \/ Defer(x) \/ Reconstruct(x)
      PROVE  FilingInv'
    BY <1>4, HandleStep
<1>5. CASE Finish \/ Fail
    BY <1>5, LeaveStep DEF Finish, Fail, cache
<1>6. ASSUME NEW i \in Issues, World(i) PROVE FilingInv'
    BY <1>6, WorldStep
<1>7. CASE UNCHANGED vars
    BY <1>7 DEF vars, github, cache, pass, FilingInv, Shape, Timely, ClaimsAreOld,
                RebuiltIsLate, UnseenIsYoung, FoundIsAll, OneKind, Alive, Window, Wait
<1> QED
    BY <1>1, <1>2, <1>3, <1>4, <1>5, <1>6, <1>7 DEF Next, Pull

LEMMA FilingAlways == Spec => []FilingInv
BY FilingInit, FilingStep, PTL DEF Spec

\* A session that files an Issue within its time never finds that the pull has
\* rebuilt the file beside its own.
THEOREM OneFileEach == Spec => []OneFilePerFiling
<1>1. FilingInv => OneFilePerFiling
    <2> SUFFICES ASSUME FilingInv, NEW i \in Issues
                 PROVE  Cardinality(files[i]) <= 1
        BY DEF OneFilePerFiling
    <2>1. files[i] = {} \/ \E f \in Kept : files[i] = {f}
        BY DEF FilingInv, Shape, OneKind, Kept
    <2>2. Cardinality(files[i]) \in {0, 1}
        BY <2>1, FS_EmptySet, FS_Singleton
    <2> QED
        BY <2>2
<1> QED
    BY <1>1, FilingAlways, PTL

-----------------------------------------------------------------------------
(* What the next pull is told. *)

\* The Issues of which a pull must hear: the cache lacks their changes, they did not
\* slip through a list and nobody deleted their file.
Owed == Pending \ (removed \cup slipped)

\* The types that argument needs.
Times ==
    /\ updated \in [Issues -> 0 .. now]
    /\ watermark \in (0 .. now) \cup {None} /\ since \in (0 .. now) \cup {None}
    /\ seen \subseteq 0 .. now /\ put_off \subseteq Nat
    /\ current \subseteq Alive
    /\ pc = "idle" => batch = {} /\ seen = {} /\ put_off = {} /\ offset = 0
    /\ pc = "list" => put_off = {}
    /\ fresh \subseteq [issue : Alive, at : Nat, updated : Nat, claimed : BOOLEAN]
    /\ \A x \in fresh : x.updated = updated[x.issue]

\* What the cache has, it has with a file or without one that was deleted.
CacheIsHonest ==
    \A i \in current : i \notin slipped /\ (files[i] = {} => i \in removed)

\* No change that is owed is older than the watermark.
MarkIsBehind == \A i \in Owed : Returns(i, watermark)

\* What was returned and changed again has slipped, or its change is newer than
\* everything that was returned.
StaleIsSafe ==
    \A x \in batch \ fresh :
        \/ x.issue \in slipped
        \/ pc = "handle" /\ \A t \in seen : t <= updated[x.issue]

\* What was returned twice was returned with its last change the second time.
FreshIsLast ==
    /\ \A x \in batch \ fresh, y \in batch \cap fresh : x.issue = y.issue => x.at < y.at
    /\ pc = "list" => \A x \in batch : x.at < offset

\* The watermark a pull started with is among what it has seen.
OldMarkIsSeen == pc # "idle" /\ watermark # None => watermark \in seen

\* While the list is fetched: a page has brought i, or a later one will.
Awaits(i) == \/ \E x \in batch \cap fresh : x.issue = i
             \/ Returns(i, since) /\ Place(i, since) >= offset

\* While the list is handled: i is newer than all of it, still to come, or put off.
Minds(i) == \/ \A t \in seen : t <= updated[i]
            \/ \E x \in batch \cap fresh : x.issue = i
            \/ \E t \in put_off : t <= updated[i]

NothingIsLost ==
    /\ pc = "list" => \A i \in Owed : Awaits(i)
    /\ pc = "handle" => \A i \in Owed : Minds(i)

MarkInv == /\ Times /\ CacheIsHonest /\ MarkIsBehind /\ StaleIsSafe
           /\ FreshIsLast /\ OldMarkIsSeen /\ NothingIsLost

-----------------------------------------------------------------------------
LEMMA MarkInit == Init => MarkInv
<1> SUFFICES ASSUME Init PROVE MarkInv
    OBVIOUS
<1> USE DEF Init, Issues, Alive
<1>1. Times
    BY Constants DEF Times
<1>2. CacheIsHonest /\ StaleIsSafe /\ FreshIsLast /\ OldMarkIsSeen
    BY DEF CacheIsHonest, StaleIsSafe, FreshIsLast, OldMarkIsSeen
<1>3. MarkIsBehind /\ NothingIsLost
    BY Constants DEF MarkIsBehind, NothingIsLost, Owed, Pending
<1> QED
    BY <1>1, <1>2, <1>3 DEF MarkInv

LEMMA PlaceIs ==
    ASSUME Shape, NEW s, NEW j
    PROVE  Place(j, s) \in Nat
<1>1. {k \in Asked(s) : k > j} \in SUBSET (1 .. newest)
    BY DEF Asked, Alive
<1>2. IsFiniteSet(1 .. newest)
    BY FS_Interval DEF Shape
<1>3. IsFiniteSet({k \in Asked(s) : k > j})
    BY <1>1, <1>2, FS_Subset
<1> QED
    BY <1>3, FS_CardinalityType DEF Place

\* Nothing that the list asks for ever leaves it, so places only grow.
LEMMA PlacesGrow ==
    ASSUME Shape, Times, Shape', NEW s, NEW j,
           \A k \in Asked(s) : k \in Asked(s)'
    PROVE  /\ Place(j, s) \in Nat /\ Place(j, s)' \in Nat
           /\ Place(j, s) <= Place(j, s)'
<1> DEFINE before == Above(Asked(s), j)
           after == Above(Asked(s)', j)
<1>1. before \subseteq after
    BY DEF Above
<1>2. after \in SUBSET (1 .. newest')
    BY DEF Above, Asked, Alive
<1>3. IsFiniteSet(1 .. newest')
    BY FS_Interval DEF Shape
<1>4. IsFiniteSet(after) /\ IsFiniteSet(before)
    BY <1>1, <1>2, <1>3, FS_Subset
<1>5. /\ Cardinality(before) <= Cardinality(after)
      /\ Cardinality(before) \in Nat /\ Cardinality(after) \in Nat
    BY <1>1, <1>4, FS_Subset, FS_CardinalityType
<1> QED
    BY <1>5 DEF Place, Above

\* A step that changes nothing a pull is about, or only makes less owed.
LEMMA QuietStep ==
    ASSUME FilingInv, MarkInv, CacheIsHonest', now' \in Nat, now <= now',
           UNCHANGED <<newest, updated, current, watermark, pc, since, offset,
                       batch, fresh, seen, put_off, slipped>>,
           Owed' \subseteq Owed
    PROVE  MarkInv'
<1> USE DEF MarkInv
<1>1. Times'
    BY DEF Times, FilingInv, Shape, Alive
<1>2. MarkIsBehind' /\ StaleIsSafe' /\ FreshIsLast' /\ OldMarkIsSeen'
    BY DEF MarkIsBehind, StaleIsSafe, FreshIsLast, OldMarkIsSeen, Returns
<1>3. NothingIsLost'
    BY DEF NothingIsLost, Awaits, Minds, Returns, Place, Asked, Alive
<1> QED
    BY <1>1, <1>2, <1>3

\* A change on GitHub: it slips through the list that is being fetched, or it is
\* newer than all that was returned.
LEMMA ChangeStep ==
    ASSUME FilingInv, MarkInv, Shape', NEW i \in Issues, Changes(i), i \in Alive',
           newest' \in {newest, newest + 1}, newest' = newest + 1 => i = newest + 1,
           UNCHANGED <<now, files, removed, watermark, pc, since, offset,
                       batch, seen, put_off>>
    PROVE  MarkInv'
<1> USE DEF MarkInv, FilingInv
<1>1. /\ updated' = [updated EXCEPT ![i] = now]
      /\ current' = current \ {i}
      /\ fresh' = {x \in fresh : x.issue # i}
      /\ slipped' = IF pc = "list" THEN slipped \cup {i} ELSE slipped \ {i}
    BY DEF Changes
<1>2. Alive \subseteq Alive' /\ Alive' \subseteq Alive \cup {i}
    BY DEF Alive, Shape
<1>3. /\ updated'[i] = now /\ now \in Nat
      /\ \A j \in Issues : j # i => updated'[j] = updated[j]
      /\ \A j \in Issues : updated[j] \in 0 .. now
    BY <1>1 DEF Times, Shape
<1>31. \A j \in Alive' : j \in Issues
    BY Constants DEF Shape, Alive, Issues
<1>32. \A x \in batch : x.issue \in Issues
    BY <1>2, <1>31 DEF Shape
<1>4. \A j \in Owed' : j \in Issues /\ (j # i => j \in Owed)
    BY <1>1, <1>2, <1>3, <1>31 DEF Owed, Pending
<1>5. pc = "list" => i \notin Owed'
    BY <1>1 DEF Owed
<1>6. \A s : s \in (0 .. now) \cup {None} =>
                 /\ Returns(i, s)'
                 /\ \A j \in Issues : Returns(j, s) => Returns(j, s)'
    BY <1>3 DEF Returns
<1>7. Times'
    <2>1. updated' \in [Issues -> 0 .. now] /\ current' \subseteq Alive'
        BY <1>1, <1>2, <1>3 DEF Times
    <2>2. /\ fresh' \subseteq [issue : Alive', at : Nat, updated : Nat, claimed : BOOLEAN]
          /\ \A x \in fresh' : x.updated = updated'[x.issue]
        BY <1>1, <1>2, <1>3, <1>31 DEF Times
    <2> QED
        BY <2>1, <2>2 DEF Times
<1>8. CacheIsHonest' /\ OldMarkIsSeen'
    BY <1>1 DEF CacheIsHonest, OldMarkIsSeen
<1>9. MarkIsBehind'
    <2> SUFFICES ASSUME NEW j \in Owed' PROVE Returns(j, watermark)'
        BY DEF MarkIsBehind
    <2>1. watermark \in (0 .. now) \cup {None}
        BY DEF Times
    <2> QED
        BY <1>4, <1>6, <2>1 DEF MarkIsBehind
<1>10. StaleIsSafe'
    <2> SUFFICES ASSUME NEW x \in batch, x \notin fresh'
                 PROVE  \/ x.issue \in slipped'
                        \/ pc = "handle" /\ \A t \in seen : t <= updated'[x.issue]
        BY DEF StaleIsSafe
    <2>1. CASE x.issue = i
        <3>1. pc = "list" \/ pc = "handle"
            BY DEF Times, Shape
        <3>2. \A t \in seen : t <= now
            BY <1>3 DEF Times
        <3> QED
            BY <1>1, <1>3, <2>1, <3>1, <3>2
    <2>2. CASE x.issue # i
        BY <1>1, <1>3, <1>32, <2>2 DEF StaleIsSafe
    <2> QED
        BY <2>1, <2>2
<1>11. FreshIsLast'
    <2>1. ASSUME NEW x \in batch \ fresh', NEW y \in batch \cap fresh',
                 x.issue = y.issue
          PROVE  x.at < y.at
        BY <1>1, <2>1 DEF FreshIsLast
    <2> QED
        BY <2>1 DEF FreshIsLast
<1>12. ASSUME pc = "list", NEW j \in Owed' PROVE Awaits(j)'
    <2>1. j # i /\ j \in Owed /\ j \in Issues
        BY <1>4, <1>5, <1>12
    <2>2. CASE \E x \in batch \cap fresh : x.issue = j
        BY <1>1, <2>1, <2>2 DEF Awaits
    <2>3. CASE Returns(j, since) /\ Place(j, since) >= offset
        <3>1. since \in (0 .. now) \cup {None}
            BY DEF Times
        <3>2. \A k \in Asked(since) : k \in Asked(since)'
            BY <1>2, <1>31, <1>6, <3>1 DEF Asked
        <3>3. Place(j, since) <= Place(j, since)'
            BY <3>2, PlacesGrow
        <3>4. Place(j, since) \in Nat /\ Place(j, since)' \in Nat
            BY <3>2, PlacesGrow
        <3>5. Place(j, since)' >= offset
            BY <2>3, <3>3, <3>4 DEF Shape
        <3> QED
            BY <1>6, <2>1, <2>3, <3>1, <3>5 DEF Awaits
    <2> QED
        BY <1>12, <2>1, <2>2, <2>3 DEF NothingIsLost, Awaits
<1>13. ASSUME pc = "handle", NEW j \in Owed' PROVE Minds(j)'
    <2>1. CASE j = i
        <3>1. \A t \in seen : t <= now
            BY <1>3 DEF Times
        <3> QED
            BY <1>3, <2>1, <3>1 DEF Minds
    <2>2. CASE j # i
        <3>1. j \in Owed /\ j \in Issues /\ Minds(j)
            BY <1>4, <1>13, <2>2 DEF NothingIsLost
        <3> QED
            BY <1>1, <1>3, <2>2, <3>1 DEF Minds
    <2> QED
        BY <2>1, <2>2
<1> QED
    BY <1>7, <1>8, <1>9, <1>10, <1>11, <1>12, <1>13 DEF NothingIsLost

LEMMA WorldMark ==
    ASSUME FilingInv, MarkInv, FilingInv', NEW i \in Issues, World(i)
    PROVE  MarkInv'
<1> USE DEF FilingInv
<1>1. ASSUME NEW claim \in BOOLEAN, Create(i, claim) PROVE MarkInv'
    <2>1. Changes(i) /\ newest' = newest + 1 /\ i = newest + 1 /\ i \in Alive'
        BY <1>1 DEF Create, Alive, Shape
    <2>2. UNCHANGED <<now, files, removed, watermark, pc, since, offset, batch,
                      seen, put_off>>
        BY <1>1 DEF Create, saved
    <2> QED
        BY <2>1, <2>2, ChangeStep
<1>2. CASE Release(i) \/ Touch(i)
    <2>1. Changes(i) /\ newest' = newest
        BY <1>2 DEF Release, Touch
    <2>2. i \in Alive'
        <3>1. i \in Alive
            BY <1>2 DEF Release, Touch, Shape
        <3> QED
            BY <2>1, <3>1 DEF Alive
    <2>3. UNCHANGED <<now, files, removed, watermark, pc, since, offset, batch,
                      seen, put_off>>
        BY <1>2 DEF Release, Touch, saved
    <2>4. newest' # newest + 1
        BY <2>1 DEF Shape
    <2> QED
        BY <2>1, <2>2, <2>3, <2>4, ChangeStep
<1>3. CASE WriteFile(i) \/ DeleteFile(i)
    <2>1. UNCHANGED <<now, newest, updated, current, watermark, pc, since, offset,
                      batch, fresh, seen, put_off, slipped>>
        BY <1>3 DEF WriteFile, DeleteFile, github, saved, pass
    <2>2. \/ /\ files' = [files EXCEPT ![i] = @ \cup {"authored"}]
             /\ removed' = removed
          \/ /\ files' = [files EXCEPT ![i] = {}]
             /\ removed' = removed \cup {i}
        BY <1>3 DEF WriteFile, DeleteFile
    <2>3. files \in [Issues -> SUBSET Kept] /\ now \in Nat
        BY DEF Shape
    <2>4. Owed' \subseteq Owed
        <3> SUFFICES ASSUME NEW j \in Owed' PROVE j \in Owed
            OBVIOUS
        <3>1. j \in Alive
            BY <2>1 DEF Owed, Pending, Alive
        <3>2. j \in Issues
            BY <3>1, Constants DEF Alive, Issues, Shape
        <3> QED
            BY <2>1, <2>2, <2>3, <3>1, <3>2 DEF Owed, Pending
    <2>5. CacheIsHonest'
        <3> SUFFICES ASSUME NEW j \in current
                     PROVE  j \notin slipped /\ (files'[j] = {} => j \in removed')
            BY <2>1 DEF CacheIsHonest
        <3>1. j \in Issues
            BY Constants DEF MarkInv, Times, Alive, Issues, Shape
        <3> QED
            BY <2>2, <2>3, <3>1 DEF MarkInv, CacheIsHonest
    <2> QED
        BY <2>1, <2>3, <2>4, <2>5, QuietStep
<1> QED
    BY <1>1, <1>2, <1>3 DEF World

\* A page brings what is owed, or says that there is more to come; only the page
\* that is not full ends the list, and nobody has a place behind it.
LEMMA PageMark ==
    ASSUME FilingInv, MarkInv, FilingInv', NEW s, NEW o \in Nat, Page(s, o),
           pc # "handle", since' = s, s \in (0 .. now) \cup {None}, put_off = {},
           \A x \in batch : x.at < o,
           \A i \in Owed : \/ \E x \in batch \cap fresh : x.issue = i
                           \/ Returns(i, s) /\ Place(i, s) >= o,
           UNCHANGED <<github, cache, saved, put_off>>
    PROVE  MarkInv'
<1> USE DEF FilingInv, MarkInv
<1>0. UNCHANGED <<now, newest, updated, claimed, files, current, removed, slipped,
                  watermark, put_off>>
    BY DEF github, cache, saved
<1> DEFINE page == {i \in Asked(s) : Place(i, s) \in o .. o + PageSize - 1}
           item(i) == [issue |-> i, at |-> o, updated |-> updated[i],
                       claimed |-> i \in claimed]
           items == {item(i) : i \in page}
<1>1. /\ batch' = batch \cup items /\ fresh' = fresh \cup items
      /\ seen' = seen \cup {updated[i] : i \in page} \cup ({watermark} \ {None})
    BY DEF Page
<1>2. \/ /\ Cardinality(page) < PageSize
         /\ pc' = "handle" /\ offset' = 0
      \/ pc' = "list" /\ offset' = o + PageSize
    BY DEF Page
<1>3. page \subseteq Alive /\ Alive \subseteq Issues /\ Alive' = Alive
    BY <1>0, Constants DEF Asked, Alive, Issues, Shape
<1>4. \A i \in page : updated[i] \in 0 .. now
    BY <1>3 DEF Times
<1>5. \/ \A k \in Asked(s) : Place(k, s) < o + PageSize
      \/ Cardinality(page) >= PageSize
    <2> SUFFICES ASSUME NEW k \in Asked(s), ~(Place(k, s) < o + PageSize)
                 PROVE  Cardinality(page) >= PageSize
        OBVIOUS
    <2>1. Asked(s) \in SUBSET (0 .. newest) /\ newest \in Nat
        BY DEF Asked, Alive, Shape
    <2>2. \A i \in Asked(s) : Place(i, s) = Cardinality(Above(Asked(s), i))
        BY DEF Place, Above
    <2>3. Cardinality(Above(Asked(s), k)) \in Nat
        BY <2>2, PlaceIs
    <2>4. Cardinality(Above(Asked(s), k)) >= o + PageSize
        BY <2>2, <2>3, Constants
    <2> DEFINE A == Asked(s)
    <2>5. Cardinality(OnPage(A, o, PageSize)) >= PageSize
        <3>1. /\ A \in SUBSET (0 .. newest) /\ newest \in Nat /\ PageSize \in Nat
              /\ k \in A /\ Cardinality(Above(A, k)) >= o + PageSize
            BY <2>1, <2>4, Constants
        <3> HIDE DEF A
        <3> QED
            BY <3>1, FullPage
    <2>6. page = OnPage(A, o, PageSize)
        BY <2>2 DEF OnPage
    <2> QED
        BY <2>5, <2>6
<1> HIDE DEF page
<1>6. /\ \A x \in items : x.issue \in page /\ x.at = o /\ x.updated = updated[x.issue]
      /\ \A i \in page : item(i) \in items /\ item(i).issue = i
    OBVIOUS
<1>7. items \subseteq [issue : Alive, at : Nat, updated : Nat, claimed : BOOLEAN]
    <2> SUFFICES ASSUME NEW i \in page
                 PROVE  item(i) \in [issue : Alive, at : Nat, updated : Nat,
                                     claimed : BOOLEAN]
        OBVIOUS
    <2>1. i \in Alive /\ updated[i] \in Nat /\ (i \in claimed) \in BOOLEAN
        BY <1>3, <1>4
    <2> QED
        BY <2>1
<1> HIDE DEF item, items
<1>8. Owed' = Owed
    BY <1>0, <1>3 DEF Owed, Pending
<1>9. Times'
    <2>1. seen' \subseteq 0 .. now
        <3>1. seen \subseteq 0 .. now /\ {watermark} \ {None} \subseteq 0 .. now
            BY DEF Times
        <3> QED
            BY <1>1, <1>4, <3>1
    <2>2. /\ fresh' \subseteq [issue : Alive, at : Nat, updated : Nat, claimed : BOOLEAN]
          /\ \A x \in fresh' : x.updated = updated[x.issue]
        BY <1>1, <1>6, <1>7 DEF Times
    <2>3. pc' # "idle"
        BY <1>2
    <2> QED
        BY <1>0, <1>3, <2>1, <2>2, <2>3 DEF Times
<1>10. CacheIsHonest' /\ MarkIsBehind'
    BY <1>0, <1>8 DEF CacheIsHonest, MarkIsBehind, Returns
<1>11. OldMarkIsSeen'
    BY <1>0, <1>1 DEF OldMarkIsSeen
<1>12. StaleIsSafe'
    <2>1. batch' \ fresh' \subseteq batch \ fresh
        BY <1>1
    <2> QED
        BY <1>0, <2>1 DEF StaleIsSafe
<1>13. FreshIsLast'
    <2>1. ASSUME NEW x \in batch' \ fresh', NEW y \in batch' \cap fresh',
                 x.issue = y.issue
          PROVE  x.at < y.at
        <3>1. x \in batch \ fresh
            BY <1>1
        <3>2. CASE y \in items
            BY <1>6, <3>1, <3>2
        <3>3. CASE y \in batch \cap fresh
            BY <2>1, <3>1, <3>3 DEF FreshIsLast
        <3>4. CASE y \in batch /\ y \notin fresh
            BY <1>1, <3>2, <3>4
        <3>5. CASE y \notin batch
            BY <1>1, <3>2, <3>5
        <3> QED
            BY <3>2, <3>3, <3>4, <3>5
    <2>2. ASSUME pc' = "list", NEW x \in batch' PROVE x.at < offset'
        <3>1. offset' = o + PageSize /\ PageSize \in Nat /\ PageSize > 0
            BY <1>2, <2>2, PullWatermarkAssumption
        <3>2. CASE x \in items
            BY <1>6, <3>1, <3>2
        <3>3. CASE x \in batch
            <4>1. x.at < o /\ x.at \in Nat
                BY <3>3 DEF Shape
            <4> QED
                BY <3>1, <4>1
        <3> QED
            BY <1>1, <2>2, <3>2, <3>3
    <2> QED
        BY <2>1, <2>2 DEF FreshIsLast
<1>14. ASSUME NEW i \in Owed
       PROVE  \/ \E x \in batch' \cap fresh' : x.issue = i
              \/ i \in Asked(s) /\ Place(i, s) >= o + PageSize
    <2>1. CASE \E x \in batch \cap fresh : x.issue = i
        BY <1>1, <2>1
    <2>2. CASE Returns(i, s) /\ Place(i, s) >= o
        <3>1. i \in Asked(s) /\ Place(i, s) \in Nat
            BY <2>2, PlaceIs DEF Owed, Pending, Asked
        <3>2. i \in page \/ Place(i, s) >= o + PageSize
            BY <2>2, <3>1, Constants DEF page
        <3> QED
            BY <1>1, <1>6, <3>1, <3>2
    <2> QED
        BY <2>1, <2>2
<1>15. ASSUME pc' = "list", NEW i \in Owed PROVE Awaits(i)'
    <2>1. /\ offset' = o + PageSize
          /\ Asked(s)' = Asked(s) /\ Place(i, s)' = Place(i, s)
          /\ Returns(i, s)' = Returns(i, s)
        BY <1>0, <1>2, <1>3, <1>15 DEF Asked, Place, Returns
    <2> QED
        BY <1>14, <2>1 DEF Awaits, Asked
<1>16. ASSUME pc' = "handle", NEW i \in Owed PROVE Minds(i)'
    <2>1. Cardinality(page) < PageSize
        BY <1>2, <1>16
    <2>2. ~(i \in Asked(s) /\ Place(i, s) >= o + PageSize)
        <3> SUFFICES ASSUME i \in Asked(s), Place(i, s) >= o + PageSize
                     PROVE  FALSE
            OBVIOUS
        <3>1. Cardinality(page) >= PageSize
            BY <1>5, PlaceIs, Constants
        <3>2. page \in SUBSET (1 .. newest) /\ IsFiniteSet(1 .. newest)
            BY <1>3, FS_Interval DEF Alive, Shape
        <3>3. Cardinality(page) \in Nat
            BY <3>2, FS_Subset, FS_CardinalityType
        <3> QED
            BY <2>1, <3>1, <3>3, Constants
    <2> QED
        BY <1>14, <2>2 DEF Minds
<1> QED
    BY <1>8, <1>9, <1>10, <1>11, <1>12, <1>13, <1>15, <1>16 DEF NothingIsLost

\* An Issue that was put off is minded by its time; one that was written is not owed
\* any more, unless what was written was out of date.
LEMMA HandleMark ==
    ASSUME FilingInv, MarkInv, FilingInv', NEW x \in batch,
           Update(x) \/ Defer(x) \/ Reconstruct(x)
    PROVE  MarkInv'
<1> USE DEF FilingInv, MarkInv
<1> DEFINE i == x.issue
<1>1. /\ UNCHANGED <<now, newest, updated, watermark, pc, since, offset, fresh, seen>>
      /\ pc = "handle" /\ batch' = batch \ {x}
      /\ \A y \in batch : y.issue = i => x.at <= y.at
    BY DEF Update, Defer, Reconstruct, Handles, github, saved
<1>2. \/ UNCHANGED <<cache, put_off>> /\ i \in current
      \/ UNCHANGED cache /\ put_off' = put_off \cup {x.updated}
      \/ UNCHANGED put_off /\ \E f \in Kept : Writes(x, f)
    <2>1. i \in Alive
        BY DEF Shape
    <2>2. Alive \subseteq Issues
        BY Constants DEF Shape, Alive, Issues
    <2>3. found[i] \in Kept \cup {None}
        BY <2>1, <2>2 DEF Shape
    <2> QED
        BY <2>3 DEF Update, Defer, Reconstruct, Kept
<1>3. /\ i \in Issues /\ updated[i] \in 0 .. now /\ now \in Nat
      /\ x.updated \in Nat /\ x.at \in Nat /\ Alive' = Alive
    <2>1. x.issue \in Alive /\ x.updated \in Nat /\ x.at \in Nat /\ now \in Nat
        BY DEF Shape
    <2>2. Alive \subseteq Issues /\ Alive' = Alive
        BY <1>1, Constants DEF Shape, Alive, Issues
    <2> QED
        BY <2>1, <2>2 DEF Times
<1>5. Times'
    <2>1. current' \subseteq Alive
        BY <1>2 DEF Writes, cache, Times, Shape
    <2>2. put_off' \subseteq Nat
        BY <1>2, <1>3 DEF Times
    <2> QED
        BY <1>1, <1>3, <2>1, <2>2 DEF Times
<1>6. OldMarkIsSeen' /\ FreshIsLast'
    BY <1>1 DEF OldMarkIsSeen, FreshIsLast
<1>7. CASE UNCHANGED cache
    <2>1. Owed' = Owed /\ CacheIsHonest' /\ MarkIsBehind' /\ StaleIsSafe'
        BY <1>1, <1>3, <1>7 DEF cache, Owed, Pending, CacheIsHonest, MarkIsBehind,
                                StaleIsSafe, Returns
    <2>2. ASSUME NEW j \in Owed PROVE Minds(j)'
        <3>1. Minds(j)
            BY <1>1 DEF NothingIsLost
        <3>2. CASE \E t \in put_off : t <= updated[j]
            BY <1>1, <1>2, <3>2 DEF Minds, Writes, cache
        <3>3. CASE \E y \in batch \cap fresh : y.issue = j
            <4>1. PICK y \in batch \cap fresh : y.issue = j
                BY <3>3
            <4>2. CASE y # x
                BY <1>1, <4>1, <4>2 DEF Minds
            <4>3. CASE y = x
                <5>1. x.updated = updated[j] /\ j = i
                    BY <4>1, <4>3 DEF Times
                <5>2. i \notin current
                    BY <5>1 DEF Owed, Pending, CacheIsHonest
                <5>3. put_off' = put_off \cup {x.updated}
                    BY <1>2, <1>7, <4>1, <4>3, <5>2 DEF Writes, cache
                <5> QED
                    BY <1>1, <1>3, <5>1, <5>3 DEF Minds
            <4> QED
                BY <4>2, <4>3
        <3> QED
            BY <1>1, <3>1, <3>2, <3>3 DEF Minds
    <2> QED
        BY <1>1, <1>5, <1>6, <2>1, <2>2 DEF NothingIsLost
<1>8. ASSUME NEW f \in Kept, Writes(x, f), UNCHANGED put_off
      PROVE  MarkInv'
    <2>1. /\ files' = [files EXCEPT ![i] = @ \cup {f}]
          /\ removed' = removed \ {i}
          /\ x \in fresh => current' = current \cup {i} /\ slipped' = slipped \ {i}
          /\ x \notin fresh => current' = current \ {i} /\ slipped' = slipped
        BY <1>8 DEF Writes
    <2>2. /\ files'[i] # {} /\ \A j \in Issues : j # i => files'[j] = files[j]
          /\ Alive \subseteq Issues
        BY <1>3, <2>1, Constants DEF Shape, Alive, Issues
    <2>3. \A j \in Owed' : IF x \in fresh THEN j # i /\ j \in Owed
                           ELSE j # i => j \in Owed
        BY <1>3, <2>1, <2>2 DEF Owed, Pending
    <2>4. x \notin fresh /\ i \in Owed' => \A t \in seen : t <= updated[i]
        BY <1>1, <2>1 DEF StaleIsSafe, Owed
    <2>5. CacheIsHonest'
        BY <1>3, <2>1, <2>2 DEF CacheIsHonest, Times
    <2>6. MarkIsBehind'
        <3> SUFFICES ASSUME NEW j \in Owed' PROVE Returns(j, watermark)
            BY <1>1 DEF MarkIsBehind, Returns
        <3>1. CASE j \in Owed
            BY <3>1 DEF MarkIsBehind
        <3>2. CASE j = i /\ x \notin fresh
            BY <1>1, <2>4, <3>2 DEF OldMarkIsSeen, Returns
        <3> QED
            BY <2>3, <3>1, <3>2
    <2>7. StaleIsSafe'
        <3> SUFFICES ASSUME NEW y \in batch \ fresh, y # x
                     PROVE  \/ y.issue \in slipped'
                            \/ \A t \in seen : t <= updated[y.issue]
            BY <1>1 DEF StaleIsSafe
        <3>1. \/ y.issue \in slipped
              \/ \A t \in seen : t <= updated[y.issue]
            BY DEF StaleIsSafe
        <3>2. x \in fresh => y.issue # i
            <4> SUFFICES ASSUME x \in fresh, y.issue = i PROVE FALSE
                OBVIOUS
            <4>1. y.at < x.at
                BY DEF FreshIsLast
            <4>2. x.at <= y.at /\ y.at \in Nat
                BY <1>1 DEF Shape
            <4> QED
                BY <1>3, <4>1, <4>2
        <3> QED
            BY <2>1, <3>1, <3>2
    <2>8. ASSUME NEW j \in Owed' PROVE Minds(j)'
        <3>1. CASE j = i
            BY <1>1, <2>3, <2>4, <3>1 DEF Minds
        <3>2. CASE j # i
            <4>1. Minds(j)
                BY <1>1, <2>3, <3>2 DEF NothingIsLost
            <4> QED
                BY <1>1, <1>8, <3>2, <4>1 DEF Minds
        <3> QED
            BY <3>1, <3>2
    <2> QED
        BY <1>1, <1>5, <1>6, <2>5, <2>6, <2>7, <2>8 DEF NothingIsLost
<1> QED
    BY <1>2, <1>7, <1>8

\* The next watermark is no newer than something seen, nor than anything put off.
LEMMA AdvanceIs ==
    ASSUME now \in Nat, Times
    PROVE  /\ Advance \in (0 .. now) \cup {None}
           /\ Advance # None => /\ \E t \in seen : Advance <= t
                                /\ \A t \in put_off : Advance <= t
<1>1. CASE seen = {}
    BY <1>1 DEF Advance
<1>2. CASE seen # {}
    <2>1. Max(seen) \in seen
        BY <1>2, MaxIs DEF Times
    <2>2. Max(seen) \in 0 .. now
        BY <2>1 DEF Times
    <2>3. CASE put_off = {}
        BY <1>2, <2>1, <2>2, <2>3 DEF Advance
    <2>4. CASE put_off # {}
        <3> DEFINE T == {Max(seen)} \cup put_off
        <3>1. T \in SUBSET Nat /\ T # {}
            <4>1. Max(seen) \in Nat /\ put_off \in SUBSET Nat
                BY <2>2 DEF Times
            <4> QED
                BY <4>1
        <3>2. Min(T) \in T /\ \A t \in T : Min(T) <= t
            <4> HIDE DEF T
            <4> QED
                BY <3>1, MinIs
        <3>3. Min(T) \in Nat /\ Min(T) <= Max(seen)
            BY <3>1, <3>2
        <3>4. Advance = Min(T)
            BY <1>2, <2>4 DEF Advance
        <3> HIDE DEF T
        <3>5. Min(T) \in 0 .. now
            BY <2>2, <3>3
        <3>6. \A t \in put_off : t \in T
            BY DEF T
        <3> QED
            BY <2>1, <3>2, <3>3, <3>4, <3>5, <3>6
    <2> QED
        BY <2>3, <2>4
<1> QED
    BY <1>1, <1>2

\* The end of a pass, saved or not.
LEMMA LeaveMark ==
    ASSUME FilingInv, MarkInv, Finish \/ Fail
    PROVE  MarkInv'
<1> USE DEF FilingInv, MarkInv
<1>1. /\ UNCHANGED <<now, newest, updated, files, current, removed, slipped>>
      /\ Leave
    BY DEF Finish, Fail, github, cache
<1>2. /\ pc' = "idle" /\ since' = None /\ offset' = 0
      /\ batch' = {} /\ fresh' = {} /\ seen' = {} /\ put_off' = {}
    BY <1>1 DEF Leave
<1>3. Owed' = Owed
    BY <1>1 DEF Owed, Pending, Alive
<1>4. now \in Nat
    BY DEF Shape
<1>5. /\ watermark' \in (0 .. now) \cup {None}
      /\ \A i \in Owed : Returns(i, watermark')
    <2>1. CASE Fail
        BY <2>1 DEF Fail, saved, Times, MarkIsBehind
    <2>2. CASE Finish
        <3>1. watermark' = Advance /\ pc = "handle" /\ batch = {}
            BY <2>2 DEF Finish
        <3>2. /\ Advance \in (0 .. now) \cup {None}
              /\ Advance # None => /\ \E t \in seen : Advance <= t
                                   /\ \A t \in put_off : Advance <= t
            BY <1>4, AdvanceIs
        <3>3. ASSUME NEW i \in Owed PROVE Returns(i, Advance)
            <4>1. Minds(i)
                BY <3>1 DEF NothingIsLost
            <4>2. updated[i] \in Nat
                BY Constants DEF Owed, Pending, Alive, Issues, Shape
            <4>3. (\A t \in seen : t \in Nat) /\ (\A t \in put_off : t \in Nat)
                BY DEF Times
            <4> SUFFICES ASSUME Advance # None PROVE updated[i] >= Advance
                BY DEF Returns
            <4>4. Advance \in Nat
                BY <3>2
            <4>5. CASE \A t \in seen : t <= updated[i]
                BY <3>2, <4>2, <4>3, <4>4, <4>5
            <4>6. CASE \E t \in put_off : t <= updated[i]
                BY <3>2, <4>2, <4>3, <4>4, <4>6
            <4> QED
                BY <3>1, <4>1, <4>5, <4>6 DEF Minds
        <3> QED
            BY <3>1, <3>2, <3>3
    <2> QED
        BY <2>1, <2>2
<1>6. Times'
    BY <1>1, <1>2, <1>5 DEF Times, Alive
<1>7. CacheIsHonest' /\ StaleIsSafe' /\ FreshIsLast' /\ OldMarkIsSeen' /\ NothingIsLost'
    BY <1>1, <1>2 DEF CacheIsHonest, StaleIsSafe, FreshIsLast, OldMarkIsSeen, NothingIsLost
<1>8. MarkIsBehind'
    BY <1>1, <1>3, <1>5 DEF MarkIsBehind, Returns
<1> QED
    BY <1>6, <1>7, <1>8

LEMMA MarkStep == FilingInv /\ FilingInv' /\ MarkInv /\ [Next]_vars => MarkInv'
<1> SUFFICES ASSUME FilingInv, FilingInv', MarkInv, [Next]_vars PROVE MarkInv'
    OBVIOUS
<1> USE DEF MarkInv, FilingInv
<1>1. CASE Tick \/ UNCHANGED vars
    <2>1. /\ UNCHANGED <<newest, updated, files, removed, current, watermark, pc,
                         since, offset, batch, fresh, seen, put_off, slipped>>
          /\ now' \in {now, now + 1}
        BY <1>1 DEF Tick, vars, github, cache, saved, pass
    <2>2. now' \in Nat /\ now <= now'
        BY <2>1 DEF Shape
    <2>3. CacheIsHonest' /\ Owed' \subseteq Owed
        BY <2>1 DEF CacheIsHonest, Owed, Pending, Alive
    <2> QED
        BY <2>1, <2>2, <2>3, QuietStep
<1>2. ASSUME NEW full \in BOOLEAN, Begin(full) PROVE MarkInv'
    <2>1. /\ pc = "idle" /\ Page(since', 0) /\ since' \in {None, watermark}
          /\ UNCHANGED <<github, cache, saved, put_off>>
        BY <1>2 DEF Begin
    <2>2. batch = {} /\ put_off = {} /\ since' \in (0 .. now) \cup {None}
        BY <2>1 DEF Times
    <2>3. \A i \in Owed : Returns(i, since') /\ Place(i, since') >= 0
        BY <2>1, PlaceIs DEF MarkIsBehind, Returns
    <2> QED
        BY <2>1, <2>2, <2>3, PageMark
<1>3. CASE ListPage
    <2>1. /\ pc = "list" /\ Page(since, offset) /\ since' = since
          /\ UNCHANGED <<github, cache, saved, put_off>>
        BY <1>3 DEF ListPage
    <2>2. /\ put_off = {} /\ since \in (0 .. now) \cup {None} /\ offset \in Nat
          /\ \A x \in batch : x.at < offset
        BY <2>1 DEF Times, Shape, FreshIsLast
    <2>3. \A i \in Owed : \/ \E x \in batch \cap fresh : x.issue = i
                          \/ Returns(i, since) /\ Place(i, since) >= offset
        BY <2>1 DEF NothingIsLost, Awaits
    <2> QED
        BY <2>1, <2>2, <2>3, PageMark
<1>4. ASSUME NEW x \in batch, Update(x) \/ Defer(x) \/ Reconstruct(x)
      PROVE  MarkInv'
    BY <1>4, HandleMark
<1>5. CASE Finish \/ Fail
    BY <1>5, LeaveMark
<1>6. ASSUME NEW i \in Issues, World(i) PROVE MarkInv'
    BY <1>6, WorldMark
<1> QED
    BY <1>1, <1>2, <1>3, <1>4, <1>5, <1>6 DEF Next, Pull

LEMMA MarkAlways == Spec => []MarkInv
BY FilingAlways, MarkInit, MarkStep, PTL DEF Spec

\* The next incremental pull is told of everything the cache lacks, but what was
\* deleted by hand or changed while a list was fetched.
THEOREM NothingIsSkipped == Spec => []NothingSkipped
<1>1. MarkInv => NothingSkipped
    BY DEF MarkInv, MarkIsBehind, NothingSkipped, Owed
<1> QED
    BY <1>1, MarkAlways, PTL

-----------------------------------------------------------------------------
(* The promise of a full pull. *)

\* Only an Issue has a file, or a session that writes one.
Filed == filing \subseteq Alive /\ \A i \in Issues : files[i] # {} => i \in Alive

\* What has changed since it was returned is not in the cache before it is handled.
StaleIsOutdated == \A x \in batch \ fresh : x.issue \notin current

MirrorInv == Filed /\ StaleIsOutdated

LEMMA MirrorInit == Init => MirrorInv
BY DEF Init, MirrorInv, Filed, StaleIsOutdated

\* Handling an Issue brings the cache up to date with the last it has of it.
LEMMA HandleKeeps ==
    ASSUME FilingInv, MarkInv, MirrorInv, NEW x \in batch,
           Update(x) \/ Defer(x) \/ Reconstruct(x)
    PROVE  MirrorInv'
<1> USE DEF FilingInv, MirrorInv
<1>1. /\ UNCHANGED <<newest, filing, fresh>> /\ batch' = batch \ {x}
      /\ \A y \in batch : y.issue = x.issue => x.at <= y.at
      /\ UNCHANGED cache \/ \E f : Writes(x, f)
    BY DEF Update, Defer, Reconstruct, Handles, github
<1>2. CASE UNCHANGED cache
    BY <1>1, <1>2 DEF Filed, StaleIsOutdated, Alive, cache
<1>3. ASSUME NEW f, Writes(x, f) PROVE MirrorInv'
    <2>1. x.issue \in Alive /\ Alive' = Alive
        BY <1>1 DEF Shape, Alive
    <2>2. \A j \in Issues : j # x.issue => files'[j] = files[j]
        BY <1>3 DEF Writes, Shape
    <2>3. Filed'
        BY <1>1, <2>1, <2>2 DEF Filed
    <2>4. ASSUME NEW y \in batch', y \notin fresh' PROVE y.issue \notin current'
        <3>1. y \in batch /\ y \notin fresh /\ y.issue \notin current
            BY <1>1, <2>4 DEF StaleIsOutdated
        <3>2. x \in fresh => y.issue # x.issue
            <4> SUFFICES ASSUME x \in fresh, y.issue = x.issue PROVE FALSE
                OBVIOUS
            <4>1. y.at < x.at
                BY <3>1 DEF MarkInv, FreshIsLast
            <4>2. x.at <= y.at /\ x.at \in Nat /\ y.at \in Nat
                BY <1>1, <3>1 DEF Shape
            <4> QED
                BY <4>1, <4>2
        <3> QED
            BY <1>3, <3>1, <3>2 DEF Writes
    <2> QED
        BY <2>3, <2>4 DEF StaleIsOutdated
<1> QED
    BY <1>1, <1>2, <1>3

LEMMA WorldKeeps ==
    ASSUME FilingInv, MirrorInv, NEW i \in Issues, World(i)
    PROVE  MirrorInv'
<1> USE DEF FilingInv, MirrorInv
<1>1. CASE \E claim \in BOOLEAN : Create(i, claim)
    <2>1. /\ newest' = newest + 1 /\ i = newest + 1 /\ filing' = filing \cup {i}
          /\ files' = files /\ batch' = batch /\ Changes(i)
        BY <1>1 DEF Create
    <2>2. Alive' = Alive \cup {i}
        BY <2>1 DEF Alive, Shape
    <2> QED
        BY <2>1, <2>2 DEF Filed, StaleIsOutdated, Changes
<1>2. CASE WriteFile(i)
    <2>1. /\ i \in Alive /\ Alive' = Alive /\ filing' \subseteq filing
          /\ UNCHANGED <<batch, fresh, current>>
        BY <1>2 DEF WriteFile, Alive, Filed, pass
    <2>2. \A j \in Issues : j # i => files'[j] = files[j]
        BY <1>2 DEF WriteFile, Shape
    <2> QED
        BY <2>1, <2>2 DEF Filed, StaleIsOutdated
<1>3. CASE DeleteFile(i)
    <2>1. /\ UNCHANGED <<newest, filing, batch, fresh, current>>
          /\ files' = [files EXCEPT ![i] = {}]
        BY <1>3 DEF DeleteFile, github, pass
    <2> QED
        BY <2>1 DEF Alive, Shape, Filed, StaleIsOutdated
<1>4. CASE Release(i) \/ Touch(i)
    <2>1. UNCHANGED <<newest, filing, files, batch>> /\ Changes(i)
        BY <1>4 DEF Release, Touch
    <2> QED
        BY <2>1 DEF Alive, Filed, StaleIsOutdated, Changes
<1> QED
    BY <1>1, <1>2, <1>3, <1>4 DEF World

LEMMA MirrorKept == FilingInv /\ MarkInv /\ MirrorInv /\ [Next]_vars => MirrorInv'
<1> SUFFICES ASSUME FilingInv, MarkInv, MirrorInv, [Next]_vars PROVE MirrorInv'
    OBVIOUS
<1>1. ASSUME UNCHANGED <<newest, filing, files, current>>,
             \A y \in batch' : y \in fresh' \/ y \in batch \ fresh
      PROVE  MirrorInv'
    BY <1>1 DEF Alive, MirrorInv, Filed, StaleIsOutdated
<1>2. CASE Tick \/ UNCHANGED vars
    BY <1>1, <1>2 DEF Tick, vars, github, cache, pass
<1>3. CASE Finish \/ Fail
    BY <1>1, <1>3 DEF Finish, Fail, Leave, github, cache
<1>4. CASE ListPage \/ \E full \in BOOLEAN : Begin(full)
    <2>1. UNCHANGED <<github, cache>> /\ \E s, o : Page(s, o)
        BY <1>4 DEF ListPage, Begin
    <2> QED
        BY <1>1, <2>1 DEF Page, github, cache
<1> QED
    BY <1>2, <1>3, <1>4, HandleKeeps, WorldKeeps DEF Next, Pull

LEMMA MirrorAlways == Spec => []MirrorInv
BY FilingAlways, MarkAlways, MirrorInit, MirrorKept, PTL DEF Spec

\* What GitHub, sessions and a deleted file do to what is pending and acknowledged.
LEMMA WorldMirrors ==
    ASSUME FilingInv, FilingInv', MarkInv, MirrorInv, NEW i \in Issues, World(i)
    PROVE  [Absorbing!Next]_(Absorbing!vars)
<1> USE DEF FilingInv, MarkInv
<1>1. /\ files \in [Issues -> SUBSET Kept] /\ Alive \subseteq Issues
      /\ updated \in [Issues -> Nat] /\ now \in Nat
    BY Constants DEF Shape, Alive, Issues
<1>2. ASSUME Changes(i), Alive' = Alive \cup {i},
             UNCHANGED <<now, files, removed, watermark>>
      PROVE  Absorbing!Change(i) \/ Absorbing!Slip(i)
    <2>1. /\ current' = current \ {i} /\ updated' = [updated EXCEPT ![i] = now]
          /\ slipped' = IF pc = "list" THEN slipped \cup {i} ELSE slipped \ {i}
        BY <1>2 DEF Changes
    <2>2. Pending' = Pending \cup {i}
        BY <1>2, <2>1 DEF Pending
    <2>3. watermark # None => now >= watermark
        BY DEF Times
    <2>4. Acknowledged' = Acknowledged \ {i}
        <3>1. updated'[i] = now /\ \A j \in Issues : j # i => updated'[j] = updated[j]
            BY <1>1, <2>1
        <3>2. i \in Asked(watermark)'
            BY <1>2, <2>3, <3>1 DEF Asked, Returns
        <3>3. \A j \in Alive : j # i => (j \in Asked(watermark)' <=> j \in Asked(watermark))
            BY <1>1, <1>2, <3>1 DEF Asked, Returns
        <3> QED
            BY <1>2, <3>2, <3>3 DEF Acknowledged
    <2>5. \/ (removed \cup slipped)' = (removed \cup slipped) \cup {i}
          \/ (removed \cup slipped)' \in {removed \cup slipped, (removed \cup slipped) \ {i}}
        <3>1. CASE pc = "list"
            BY <1>2, <2>1, <3>1
        <3>2. CASE pc # "list" /\ i \in removed
            BY <1>2, <2>1, <3>2
        <3>3. CASE pc # "list" /\ i \notin removed
            <4>1. (removed \cup slipped)' = (removed \cup slipped) \ {i}
                BY <1>2, <2>1, <3>3
            <4> QED
                BY <4>1
        <3> QED
            BY <3>1, <3>2, <3>3
    <2> QED
        BY <2>2, <2>4, <2>5
           DEF Absorbing!Change, Absorbing!Slip, Absorbing!MayRecall
<1>3. CASE \E claim \in BOOLEAN : Create(i, claim)
    <2>1. /\ Changes(i) /\ UNCHANGED <<now, files, removed, watermark>>
          /\ newest' = newest + 1 /\ i = newest + 1
        BY <1>3 DEF Create, saved
    <2>2. Alive' = Alive \cup {i}
        BY <2>1 DEF Alive, Shape
    <2> QED
        BY <1>2, <2>1, <2>2 DEF Absorbing!Next
<1>4. CASE Release(i) \/ Touch(i)
    <2>1. /\ Changes(i) /\ UNCHANGED <<now, files, removed, watermark, newest>>
          /\ i \in Alive
        BY <1>4 DEF Release, Touch, saved, Shape
    <2>2. Alive' = Alive \cup {i}
        BY <2>1 DEF Alive
    <2> QED
        BY <1>2, <2>1, <2>2 DEF Absorbing!Next
<1>5. CASE WriteFile(i)
    <2>1. /\ files' = [files EXCEPT ![i] = @ \cup {"authored"}]
          /\ UNCHANGED <<newest, updated, current, removed, slipped, watermark>>
        BY <1>5 DEF WriteFile, saved
    <2>2. \A j \in Alive : files'[j] = {} \/ j \notin current
                             <=> (files[j] = {} /\ j # i) \/ j \notin current
        BY <1>1, <2>1
    <2>3. Pending' = IF i \in current THEN Pending \ {i} ELSE Pending
        BY <2>1, <2>2 DEF Pending, Alive
    <2>4. UNCHANGED <<Acknowledged, removed \cup slipped>>
        BY <2>1 DEF Acknowledged, Asked, Returns, Alive
    <2>5. CASE Pending' = Pending
        BY <2>4, <2>5 DEF Absorbing!vars
    <2>6. CASE Pending' # Pending
        <3>1. i \in Pending /\ Pending' = Pending \ {i}
            BY <2>3, <2>6
        <3> QED
            BY <2>4, <3>1 DEF Absorbing!Next, Absorbing!Absorb, Absorbing!MayRecall
    <2> QED
        BY <2>5, <2>6
<1>6. CASE DeleteFile(i)
    <2>1. /\ files' = [files EXCEPT ![i] = {}] /\ i \in Alive
          /\ removed' = removed \cup {i}
          /\ UNCHANGED <<newest, updated, current, slipped, watermark>>
        BY <1>6 DEF DeleteFile, MirrorInv, Filed, github, saved
    <2>2. \A j \in Alive : files'[j] = {} \/ j \notin current
                             <=> files[j] = {} \/ j = i \/ j \notin current
        BY <1>1, <2>1
    <2>3. Pending' = Pending \cup {i}
        BY <2>1, <2>2 DEF Pending, Alive
    <2>4. Acknowledged' = Acknowledged
        BY <2>1 DEF Acknowledged, Asked, Returns, Alive
    <2>5. (removed \cup slipped)' = (removed \cup slipped) \cup {i}
        BY <2>1
    <2> QED
        BY <2>3, <2>4, <2>5 DEF Absorbing!Next, Absorbing!Lose
<1> QED
    BY <1>3, <1>4, <1>5, <1>6 DEF World

\* What handling an Issue does: it is absorbed, or its file is outdated again and the
\* next request returns it, or it had slipped before.
LEMMA HandleMirrors ==
    ASSUME FilingInv, MarkInv, MarkInv', MirrorInv, NEW x \in batch,
           Update(x) \/ Defer(x) \/ Reconstruct(x)
    PROVE  [Absorbing!Next]_(Absorbing!vars)
<1> USE DEF FilingInv, MarkInv
<1> DEFINE i == x.issue
           excuse == removed \cup slipped
<1>1. /\ i \in Alive /\ i \in Issues /\ Alive \subseteq Issues
    BY Constants DEF Shape, Alive, Issues
<1>2. UNCHANGED <<newest, updated, watermark>>
    BY DEF Update, Defer, Reconstruct, Handles, github, saved
<1>3. Alive' = Alive /\ Acknowledged' = Acknowledged
    BY <1>2 DEF Acknowledged, Asked, Returns, Alive
<1>4. CASE UNCHANGED cache
    BY <1>3, <1>4 DEF Absorbing!vars, Pending, cache
<1>5. ASSUME NEW f, Writes(x, f) PROVE [Absorbing!Next]_(Absorbing!vars)
    <2>1. /\ files' = [files EXCEPT ![i] = @ \cup {f}]
          /\ removed' = removed \ {i}
        BY <1>5 DEF Writes
    <2>2. files'[i] # {} /\ \A j \in Issues : j # i => files'[j] = files[j]
        BY <1>1, <2>1 DEF Shape
    <2>3. CASE x \in fresh
        <3>1. current' = current \cup {i} /\ slipped' = slipped \ {i}
            BY <1>5, <2>3 DEF Writes
        <3>2. Pending' = Pending \ {i}
            BY <1>1, <1>3, <2>2, <3>1 DEF Pending
        <3>3. (removed \cup slipped)' = excuse \ {i}
            BY <2>1, <3>1
        <3>4. CASE i \in Pending
            BY <1>1, <1>3, <3>2, <3>3, <3>4
               DEF Absorbing!Next, Absorbing!Absorb, Absorbing!MayRecall
        <3>5. CASE i \notin Pending
            <4>1. i \in current
                BY <1>1, <3>5 DEF Pending
            <4>2. Pending' = Pending
                BY <3>2, <3>5
            <4> QED
                BY <1>1, <1>3, <3>3, <3>5, <4>2
                   DEF Absorbing!Next, Absorbing!Rewrite, Absorbing!vars
        <3> QED
            BY <3>4, <3>5
    <2>4. CASE x \notin fresh
        <3>1. current' = current \ {i} /\ slipped' = slipped
            BY <1>5, <2>4 DEF Writes
        <3>2. i \in Pending' /\ Pending' = Pending \cup {i}
            BY <1>1, <1>3, <2>2, <3>1 DEF Pending
        <3>3. Pending' = Pending
            <4>1. i \in Pending
                BY <1>1, <2>4 DEF MirrorInv, StaleIsOutdated, Pending
            <4> QED
                BY <3>2, <4>1
        <3>4. (removed \cup slipped)' \in {excuse, excuse \ {i}}
            BY <2>1, <3>1
        <3>5. i \notin (removed \cup slipped)' => i \notin Acknowledged
            <4>1. i \notin (removed \cup slipped)' => Returns(i, watermark)'
                BY <3>2 DEF MarkIsBehind, Owed
            <4> QED
                BY <1>2, <4>1 DEF Acknowledged, Asked, Returns
        <3> QED
            BY <1>1, <1>3, <3>3, <3>4, <3>5
               DEF Absorbing!Next, Absorbing!Rewrite, Absorbing!vars
    <2> QED
        BY <2>3, <2>4
<1> QED
    BY <1>4, <1>5 DEF Update, Defer, Reconstruct

\* Whatever a pull asks GitHub for, it keeps the promise of one that lists every Issue:
\* what its saved watermark passes over is in the cache, or was deleted by hand or
\* changed while a list was fetched; and what is pending is so by a change or a
\* deletion and until it is absorbed.
THEOREM PullMirrorsGitHub == Spec => Absorbing!Safety
<1>1. Init => Absorbing!Init
    BY DEF Init, Absorbing!Init, Pending, Alive, Acknowledged, Asked
<1>2. FilingInv /\ FilingInv' /\ MarkInv /\ MarkInv' /\ MirrorInv /\ [Next]_vars
        => [Absorbing!Next]_(Absorbing!vars)
    <2> SUFFICES ASSUME FilingInv, FilingInv', MarkInv, MarkInv', MirrorInv, [Next]_vars
                 PROVE  [Absorbing!Next]_(Absorbing!vars)
        OBVIOUS
    <2>1. CASE \E i \in Issues : World(i)
        BY <2>1, WorldMirrors
    <2>2. CASE \E x \in batch : Update(x) \/ Defer(x) \/ Reconstruct(x)
        BY <2>2, HandleMirrors
    <2>3. CASE Finish
        <3>1. UNCHANGED <<newest, updated, files, current, removed, slipped>>
            BY <2>3 DEF Finish, github, cache
        <3>2. Acknowledged' \subseteq Issues
            BY Constants DEF Acknowledged, Alive, Issues, FilingInv, Shape
        <3>3. Acknowledged' \cap Pending \subseteq removed \cup slipped
            BY <3>1 DEF MarkInv, MarkIsBehind, Owed, Acknowledged, Asked, Pending, Alive
        <3>4. UNCHANGED <<Pending, removed \cup slipped>>
            BY <3>1 DEF Pending, Alive
        <3> QED
            BY <3>2, <3>3, <3>4 DEF Absorbing!Next, Absorbing!Ack
    <2>4. CASE \/ Tick \/ Fail \/ ListPage \/ UNCHANGED vars
               \/ \E full \in BOOLEAN : Begin(full)
        <3>1. UNCHANGED <<newest, updated, files, current, removed, slipped, watermark>>
            BY <2>4 DEF Tick, Fail, ListPage, Begin, vars, github, cache, saved
        <3> QED
            BY <3>1 DEF Absorbing!vars, Pending, Acknowledged, Asked, Returns, Alive
    <2> QED
        BY <2>1, <2>2, <2>3, <2>4 DEF Next, Pull
<1> QED
    BY <1>1, <1>2, FilingAlways, MarkAlways, MirrorAlways, PTL
       DEF Spec, Absorbing!Safety
=============================================================================
