--------------------------- MODULE PassLockProofs ---------------------------
(***************************************************************************)
(* What the pass lock guarantees, for any number of passes and tickets.    *)
(*                                                                         *)
(* TypeOK alone is not inductive: Bind needs the ticket its pass is        *)
(* creating an Issue for.  LockInv adds that, and ties the lock to the     *)
(* program counters; the three other invariants each rest on it.           *)
(***************************************************************************)
EXTENDS PassLock, TLAPS

Listing(p) == pc[p] \in {"push", "created"}

\* The lock and the program counters agree; a created Issue has a ticket.
LockInv ==
    /\ TypeOK
    /\ flock => \A p \in Passes : InPass(p) => held = p
    /\ held # Nobody => InPass(held)
    /\ \A p \in Passes : pc[p] = "created" => at[p] \in todo[p] \ seen[p]

\* Whatever a pass or the sidecar knows a hash of carries a number, and a
\* number is only ever written for an Issue that exists.
HashInv ==
    /\ HashedIsBound
    /\ \A p \in Passes : new[p] \subseteq bound /\ seen[p] \subseteq bound
    /\ \A p \in Passes : pc[p] = "created" => issues[at[p]] >= 1

\* Under a working lock a pass carries every recorded hash along and pushes
\* only tickets that have none.
KeepInv ==
    flock => \A p \in Passes :
        Listing(p) => hashed \subseteq new[p] /\ todo[p] \cap hashed = {}

\* Under a working lock a pass knows every number there is, and a ticket that
\* is neither bound nor about to be has lost one Issue per accident at most.
BirthInv ==
    flock =>
      /\ \A p \in Passes : Listing(p) => (todo[p] \ seen[p]) \cap bound = {}
      /\ \A t \in Tickets :
            \/ issues[t] <= faults
            \/ /\ issues[t] = faults + 1
               /\ t \in bound \/ \E p \in Passes : pc[p] = "created" /\ at[p] = t

-----------------------------------------------------------------------------
LEMMA LockInit == Init => LockInv
BY PassLockAssumption DEF Init, LockInv, TypeOK, InPass

\* Every step of a pass, and every accident, preserves the lock's invariant.
LEMMA LockStep == LockInv /\ [Next]_vars => LockInv'
<1> SUFFICES ASSUME LockInv, [Next]_vars PROVE LockInv'
    OBVIOUS
<1> USE PassLockAssumption
        DEF LockInv, TypeOK, InPass, local, disk, Owns, Release
<1>1. ASSUME NEW p \in Passes, Begin(p) PROVE LockInv'
    BY <1>1 DEF Begin
<1>2. ASSUME NEW p \in Passes, Load(p) PROVE LockInv'
    BY <1>2 DEF Load
<1>3. ASSUME NEW p \in Passes, NEW t \in Tickets, Create(p, t) PROVE LockInv'
    BY <1>3 DEF Create
<1>4. ASSUME NEW p \in Passes, Bind(p) PROVE LockInv'
    BY <1>4 DEF Bind
<1>5. ASSUME NEW p \in Passes, NEW t \in Tickets, Update(p, t) PROVE LockInv'
    BY <1>5 DEF Update
<1>6. ASSUME NEW p \in Passes, LookupError(p) PROVE LockInv'
    BY <1>6 DEF LookupError
<1>7. ASSUME NEW p \in Passes, Save(p) PROVE LockInv'
    BY <1>7 DEF Save
<1>8. ASSUME NEW p \in Passes, Kill(p) PROVE LockInv'
    BY <1>8 DEF Kill
<1>9. CASE UNCHANGED vars
    BY <1>9 DEF vars
<1> QED
    BY <1>1, <1>2, <1>3, <1>4, <1>5, <1>6, <1>7, <1>8, <1>9 DEF Next, Step

LEMMA LockAlways == Spec => []LockInv
BY LockInit, LockStep, PTL DEF Spec

\* Every reachable state is well typed, however many passes overlap.
THEOREM TypeCorrect == Spec => []TypeOK
<1>1. LockInv => TypeOK
    BY DEF LockInv
<1> QED
    BY <1>1, LockAlways, PTL

\* Where flock works on the cache directory, two passes never overlap.
THEOREM MutualExclusion == Spec => []OnePassAtATime
<1>1. LockInv => OnePassAtATime
    BY DEF LockInv, OnePassAtATime
<1> QED
    BY <1>1, LockAlways, PTL

\* No accident leaves the lock with a pass that is gone.
THEOREM LockFreed == Spec => []NoWedgedLock
<1>1. LockInv => NoWedgedLock
    BY DEF LockInv, NoWedgedLock
<1> QED
    BY <1>1, LockAlways, PTL

-----------------------------------------------------------------------------
LEMMA HashStep == LockInv /\ HashInv /\ [Next]_vars => HashInv'
<1> SUFFICES ASSUME LockInv, HashInv, [Next]_vars PROVE HashInv'
    OBVIOUS
<1> USE PassLockAssumption
        DEF LockInv, TypeOK, HashInv, HashedIsBound, local, disk
<1>1. ASSUME NEW p \in Passes, Begin(p) PROVE HashInv'
    BY <1>1 DEF Begin
<1>2. ASSUME NEW p \in Passes, Load(p) PROVE HashInv'
    BY <1>2 DEF Load
<1>3. ASSUME NEW p \in Passes, NEW t \in Tickets, Create(p, t) PROVE HashInv'
    BY <1>3 DEF Create
<1>4. ASSUME NEW p \in Passes, Bind(p) PROVE HashInv'
    BY <1>4 DEF Bind
<1>5. ASSUME NEW p \in Passes, NEW t \in Tickets, Update(p, t) PROVE HashInv'
    BY <1>5 DEF Update
<1>6. ASSUME NEW p \in Passes, LookupError(p) PROVE HashInv'
    BY <1>6 DEF LookupError
<1>7. ASSUME NEW p \in Passes, Save(p) PROVE HashInv'
    BY <1>7 DEF Save
<1>8. ASSUME NEW p \in Passes, Kill(p) PROVE HashInv'
    BY <1>8 DEF Kill
<1>9. CASE UNCHANGED vars
    BY <1>9 DEF vars
<1> QED
    BY <1>1, <1>2, <1>3, <1>4, <1>5, <1>6, <1>7, <1>8, <1>9 DEF Next, Step

\* Killed, failed, overlapping or unlocked passes: a hash always stands for a
\* file with a number, and a number for an Issue that exists.
THEOREM HashesAreBound == Spec => []HashedIsBound
<1>1. Init => HashInv
    BY DEF Init, HashInv, HashedIsBound
<1>2. HashInv => HashedIsBound
    BY DEF HashInv
<1> QED
    BY <1>1, <1>2, HashStep, LockAlways, PTL DEF Spec

-----------------------------------------------------------------------------
\* A pass under the lock starts from the whole sidecar, so the hashes it writes
\* back contain those it read, and nobody wrote in between.
LEMMA KeepStep ==
    LockInv /\ KeepInv /\ [Next]_vars
        => KeepInv' /\ (flock => hashed \subseteq hashed')
<1> DEFINE Goal == KeepInv' /\ (flock => hashed \subseteq hashed')
<1> SUFFICES ASSUME LockInv, KeepInv, [Next]_vars PROVE Goal
    OBVIOUS
<1> USE PassLockAssumption
        DEF LockInv, TypeOK, KeepInv, Listing, InPass, local, disk
<1>1. ASSUME NEW p \in Passes, Begin(p) PROVE Goal
    BY <1>1 DEF Begin
<1>2. ASSUME NEW p \in Passes, Load(p) PROVE Goal
    BY <1>2 DEF Load
<1>3. ASSUME NEW p \in Passes, NEW t \in Tickets, Create(p, t) PROVE Goal
    BY <1>3 DEF Create
<1>4. ASSUME NEW p \in Passes, Bind(p) PROVE Goal
    BY <1>4 DEF Bind
<1>5. ASSUME NEW p \in Passes, NEW t \in Tickets, Update(p, t) PROVE Goal
    BY <1>5 DEF Update
<1>6. ASSUME NEW p \in Passes, LookupError(p) PROVE Goal
    BY <1>6 DEF LookupError
<1>7. ASSUME NEW p \in Passes, Save(p) PROVE Goal
    BY <1>7 DEF Save
<1>8. ASSUME NEW p \in Passes, Kill(p) PROVE Goal
    BY <1>8 DEF Kill
<1>9. CASE UNCHANGED vars
    BY <1>9 DEF vars
<1> QED
    BY <1>1, <1>2, <1>3, <1>4, <1>5, <1>6, <1>7, <1>8, <1>9 DEF Next, Step

\* No pass under a working lock loses a hash that another one recorded.
THEOREM NoHashIsLost == Spec => HashesKept
<1>1. Init => KeepInv
    BY DEF Init, KeepInv, Listing
<1>2. LockInv /\ KeepInv /\ [Next]_vars => KeepInv'
    BY KeepStep
<1>3. LockInv /\ KeepInv /\ [Next]_vars
          => [flock => hashed \subseteq hashed']_vars
    BY KeepStep
<1> QED
    BY <1>1, <1>2, <1>3, LockAlways, PTL DEF Spec, HashesKept

-----------------------------------------------------------------------------
LEMMA BirthStep == LockInv /\ BirthInv /\ [Next]_vars => BirthInv'
<1> SUFFICES ASSUME LockInv, BirthInv, [Next]_vars PROVE BirthInv'
    OBVIOUS
<1> USE PassLockAssumption
        DEF LockInv, TypeOK, BirthInv, Listing, InPass, local, disk
<1>1. ASSUME NEW p \in Passes, Begin(p) PROVE BirthInv'
    BY <1>1 DEF Begin
<1>2. ASSUME NEW p \in Passes, Load(p) PROVE BirthInv'
    BY <1>2 DEF Load
<1>3. ASSUME NEW p \in Passes, NEW t \in Tickets, Create(p, t) PROVE BirthInv'
    BY <1>3 DEF Create
<1>4. ASSUME NEW p \in Passes, Bind(p) PROVE BirthInv'
    BY <1>4 DEF Bind
<1>5. ASSUME NEW p \in Passes, NEW t \in Tickets, Update(p, t) PROVE BirthInv'
    BY <1>5 DEF Update
<1>6. ASSUME NEW p \in Passes, LookupError(p) PROVE BirthInv'
    BY <1>6 DEF LookupError
<1>7. ASSUME NEW p \in Passes, Save(p) PROVE BirthInv'
    BY <1>7 DEF Save
<1>8. ASSUME NEW p \in Passes, Kill(p) PROVE BirthInv'
    BY <1>8 DEF Kill
<1>9. CASE UNCHANGED vars
    BY <1>9 DEF vars
<1> QED
    BY <1>1, <1>2, <1>3, <1>4, <1>5, <1>6, <1>7, <1>8, <1>9 DEF Next, Step

\* Where flock works, overlapping passes create one Issue per ticket and one
\* more for each accident at most.
THEOREM NoSecondIssue == Spec => []SurplusIsAccidental
<1>1. Init => BirthInv
    BY DEF Init, BirthInv, Listing
<1>2. LockInv /\ BirthInv => SurplusIsAccidental
    BY DEF LockInv, TypeOK, BirthInv, SurplusIsAccidental
<1> QED
    BY <1>1, <1>2, BirthStep, LockAlways, PTL DEF Spec
=============================================================================
