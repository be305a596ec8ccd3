---------------------------- MODULE WatcherProofs ----------------------------
(***************************************************************************)
(* What one machine's watcher guarantees: its backoff (WatchTick) and the  *)
(* board caches its runs carry from one process to the next (BoardIndex).  *)
(*                                                                         *)
(* The two specifications stand side by side.  WatchTick is extended;      *)
(* BoardIndex is an instance over constants and variables of its own,      *)
(* declared below; the two share Tickets.  Every theorem is about the      *)
(* behaviours of one of them, and what the instance assumes of its         *)
(* constants is a hypothesis of its theorems.                              *)
(*                                                                         *)
(* The backoff.  How long a change has waited says nothing by itself: what *)
(* is bounded is that time and the time still to wait together.  A minute  *)
(* moves one unit from the second to the first as long as there is         *)
(* something left; when there is not, this minute's process must run, and  *)
(* it can only fail to push at the price of an obstacle or a kill.  Due    *)
(* and Stalled say so.  A move has to be rendered first, which is the      *)
(* minute it may add.                                                      *)
(***************************************************************************)
EXTENDS WatchTick, TLAPS

Allowed == Patience + used["move"]

\* Minutes until a process runs that sees the written files.
Due == IF touched THEN 0 ELSE wait

\* This minute's process has come and gone, or is only rendering, and the next
\* one runs.
Stalled(due) == ran /\ pc # "pass" /\ due = 0

RemoteInv ==
    /\ ~remote => lag = 0
    /\ remote => /\ lag + wait <= Patience
                 /\ Stalled(wait) => lag < Patience

EditedInv(t) ==
    /\ age[t] + Due <= Allowed
    /\ Stalled(Due) => age[t] < Allowed
    /\ pc = "pass" /\ t \notin batch => age[t] = 0

\* A moved file reaches GitHub one minute after its render.
MovedInv(t) ==
    /\ t \notin batch
    /\ age[t] < Allowed
    /\ pc # "render" => /\ pc = "idle" => age[t] + Due < Allowed
                        /\ pc = "idle" /\ Stalled(Due) => age[t] + 1 < Allowed

WaitInv ==
    /\ TypeOK
    /\ pc # "idle" => ran
    /\ pc # "pass" => batch = {}
    /\ RemoteInv
    /\ \A t \in Tickets : /\ work[t] = "none" => age[t] = 0
                          /\ work[t] = "edited" => EditedInv(t)
                          /\ work[t] = "moved" => MovedInv(t)

-----------------------------------------------------------------------------
LEMMA SmallerIs == ASSUME NEW a \in Nat, NEW b \in Nat
                   PROVE  Smaller(a, b) \in Nat /\ Smaller(a, b) <= a /\ Smaller(a, b) <= b
BY DEF Smaller

\* The cap holds whatever the number of quiet passes (_backoff_due).
LEMMA BackoffIsCapped == ASSUME NEW q \in Nat PROVE Backoff(q) \in 0..Cap
<1> USE WatchTickAssumption
<1>1. CASE q < Grace
    BY <1>1 DEF Backoff
<1>2. CASE ~(q < Grace)
    <2>1. q - Grace \in Nat
        BY <1>2
    <2>2. Exponent(q) \in 0..MaxShift
        BY <2>1, SmallerIs DEF Exponent
    <2> DEFINE doubled == Base * 2 ^ Exponent(q)
    <2>3. doubled \in Nat
        BY <2>2, PowerAssumption
    <2>4. Backoff(q) = Smaller(doubled, Cap)
        BY <1>2 DEF Backoff
    <2> HIDE DEF doubled
    <2> QED
        BY <2>3, <2>4, SmallerIs DEF Smaller
<1> QED
    BY <1>1, <1>2

\* The process never dies over the doubling (BACKOFF_MAX_SHIFT).
LEMMA NeverOverflows == ASSUME NEW q \in Nat PROVE ~Overflows(q)
<1> SUFFICES ASSUME q >= Grace PROVE ~(Exponent(q) > MaxExp)
    BY DEF Overflows
<1>1. q - Grace \in Nat
    BY WatchTickAssumption
<1> QED
    BY <1>1, SmallerIs, WatchTickAssumption DEF Exponent

\* What an event adds to the minutes allowed.
LEMMA PatienceIs == ASSUME TypeOK PROVE Patience \in Nat /\ Cap <= Patience
<1>1. /\ used["kill"] \in Nat /\ used["obstacle"] \in Nat /\ Cap \in Nat
    BY WatchTickAssumption DEF TypeOK, Kinds
<1>2. Cap * used["kill"] \in Nat /\ Cap * (1 + used["kill"]) = Cap + Cap * used["kill"]
    BY <1>1
<1> QED
    BY <1>1, <1>2 DEF Patience

LEMMA AllowedAfter ==
    ASSUME TypeOK, NEW k \in Kinds, used' = [used EXCEPT ![k] = @ + 1]
    PROVE  /\ used' \in [Kinds -> Nat]
           /\ Patience' = Patience + (IF k = "kill" THEN Cap ELSE IF k = "obstacle" THEN 1 ELSE 0)
           /\ Allowed' = Allowed + (IF k = "kill" THEN Cap
                                    ELSE IF k \in {"obstacle", "move"} THEN 1 ELSE 0)
<1>1. /\ used["kill"] \in Nat /\ used["obstacle"] \in Nat /\ used["move"] \in Nat /\ Cap \in Nat
      /\ used \in [Kinds -> Nat] /\ {"kill", "obstacle", "move"} \subseteq Kinds
    BY WatchTickAssumption DEF TypeOK, Kinds
<1>2. used' = [used EXCEPT ![k] = @ + 1]
    OBVIOUS
<1>3. Cap * used["kill"] \in Nat
    BY <1>1
<1>4. ASSUME NEW n \in Nat PROVE Cap * (1 + n) = Cap + Cap * n /\ Cap * (1 + (n + 1)) = Cap * (1 + n) + Cap
    BY <1>1
<1>5. CASE k = "kill"
    <2>1. used'["kill"] = used["kill"] + 1 /\ used'["obstacle"] = used["obstacle"] /\ used'["move"] = used["move"]
        BY <1>1, <1>2, <1>5
    <2>2. Cap * (1 + used'["kill"]) = Cap * (1 + used["kill"]) + Cap
        BY <2>1, <1>4, <1>1
    <2>3. Cap * (1 + used["kill"]) \in Nat
        BY <1>1
    <2> QED
        BY <2>1, <2>2, <2>3, <1>1, <1>2, <1>5 DEF Patience, Allowed
<1>6. CASE k # "kill"
    <2>1. Cap * (1 + used["kill"]) \in Nat /\ used'["kill"] = used["kill"]
        BY <1>1, <1>2, <1>6
    <2> DEFINE c == Cap * (1 + used["kill"])
    <2>2. c \in Nat /\ Patience = c + used["obstacle"] /\ Patience' = c + used'["obstacle"]
        BY <2>1 DEF Patience
    <2> HIDE DEF c
    <2> QED
        BY <2>2, <1>1, <1>2, <1>6 DEF Allowed
<1> QED
    BY <1>5, <1>6

LEMMA AllowedIs == ASSUME TypeOK
                   PROVE  Patience \in Nat /\ Allowed \in Nat /\ Cap <= Patience
                            /\ Patience <= Allowed /\ Cap \in Nat \ {0}
BY PatienceIs, WatchTickAssumption DEF TypeOK, Allowed, Kinds

LEMMA AllowedKept == ASSUME UNCHANGED used PROVE Patience' = Patience /\ Allowed' = Allowed
BY DEF Patience, Allowed

-----------------------------------------------------------------------------
LEMMA WaitInit == Init => WaitInv
<1> SUFFICES ASSUME Init PROVE WaitInv
    OBVIOUS
<1>1. TypeOK
    <2>1. /\ 0 \in 0..AgeTop /\ 0 \in 0..QuietTop /\ 0 \in 0..Cap
        BY WatchTickAssumption
    <2> QED
        BY <2>1 DEF Init, TypeOK, Kinds
<1> QED
    BY <1>1 DEF Init, WaitInv, RemoteInv

\* Sessions, other machines and the clock.
LEMMA WaitWorld ==
    ASSUME WaitInv, Minute \/ RemoteChange \/ (\E t \in Tickets : Edit(t) \/ Move(t))
    PROVE  WaitInv'
<1> USE DEF WaitInv, RemoteInv, EditedInv, MovedInv, Stalled, Due
<1>0. /\ Patience \in Nat /\ Allowed \in Nat /\ Cap <= Patience /\ Patience <= Allowed
      /\ Cap \in Nat /\ Cap # 0 /\ AgeTop \in Nat
    BY AllowedIs, WatchTickAssumption
<1>1. CASE Minute
    <2> USE <1>1 DEF Minute
    <2>1. Patience' = Patience /\ Allowed' = Allowed
        BY AllowedKept
    <2>2. /\ wait' \in 0..Cap /\ (wait = 0 => wait' = 0) /\ (wait > 0 => wait' = wait - 1)
        BY <1>0 DEF TypeOK
    <2>3. /\ lag' \in 0..AgeTop /\ (~remote => lag' = 0) /\ lag' <= lag + 1
        BY <1>0, SmallerIs DEF TypeOK
    <2>4. \A t \in Tickets : /\ age'[t] \in 0..AgeTop /\ age'[t] <= age[t] + 1
                             /\ work[t] = "none" => age'[t] = 0
        BY <1>0 DEF TypeOK, Smaller
    <2>5. TypeOK'
        <3>1. age' \in [Tickets -> 0..AgeTop]
            BY <2>4
        <3> QED
            BY <3>1, <2>2, <2>3 DEF TypeOK
    <2>6. RemoteInv'
        BY <2>1, <2>2, <2>3, <1>0 DEF TypeOK
    <2>7. ASSUME NEW t \in Tickets PROVE /\ work'[t] = "none" => age'[t] = 0
                                         /\ work'[t] = "edited" => EditedInv(t)'
                                         /\ work'[t] = "moved" => MovedInv(t)'
        <3>1. /\ work'[t] = work[t] /\ pc = "idle" /\ pc' = "idle" /\ batch' = batch
              /\ ~ran' /\ ran /\ age[t] \in Nat /\ wait \in Nat /\ touched' = touched
            BY DEF TypeOK
        <3>2. age'[t] \in Nat /\ age'[t] <= age[t] + 1 /\ (work[t] = "none" => age'[t] = 0)
            BY <2>4
        <3> QED
            BY <2>1, <2>2, <3>1, <3>2, <1>0
    <2> QED
        BY <2>5, <2>6, <2>7
<1>2. CASE RemoteChange
    <2> USE <1>2 DEF RemoteChange
    <2>1. Patience' = Patience /\ Allowed' = Allowed /\ used' \in [Kinds -> Nat]
        BY AllowedAfter, <1>0 DEF Spend, Kinds
    <2> QED
        BY <2>1, <1>0 DEF TypeOK
<1>3. ASSUME NEW t \in Tickets, Edit(t) PROVE WaitInv'
    <2> USE <1>3 DEF Edit, SessionMayAct
    <2>1. Patience' = Patience /\ Allowed' = Allowed /\ used' \in [Kinds -> Nat]
        BY AllowedAfter, <1>0 DEF Spend, Kinds
    <2>2. TypeOK' /\ RemoteInv'
        BY <2>1 DEF TypeOK
    <2>3. ASSUME NEW u \in Tickets PROVE /\ work'[u] = "none" => age'[u] = 0
                                         /\ work'[u] = "edited" => EditedInv(u)'
                                         /\ work'[u] = "moved" => MovedInv(u)'
        BY <2>1, <1>0 DEF TypeOK
    <2> QED
        BY <2>2, <2>3
<1>4. ASSUME NEW t \in Tickets, Move(t) PROVE WaitInv'
    <2> USE <1>4 DEF Move, SessionMayAct
    <2>1. Patience' = Patience /\ Allowed' = Allowed + 1 /\ used' \in [Kinds -> Nat]
        BY AllowedAfter, <1>0 DEF Spend, Kinds
    <2>2. TypeOK' /\ RemoteInv'
        BY <2>1 DEF TypeOK
    <2>3. ASSUME NEW u \in Tickets PROVE /\ work'[u] = "none" => age'[u] = 0
                                         /\ work'[u] = "edited" => EditedInv(u)'
                                         /\ work'[u] = "moved" => MovedInv(u)'
        <3>1. CASE u = t
            <4>1. work'[t] = "moved" /\ age'[t] = age[t] /\ age[t] \in Nat /\ wait \in Nat
                    /\ wait <= Cap /\ work[t] \in {"none", "moved", "edited"}
                BY DEF TypeOK
            <4>2. t \notin batch
                OBVIOUS
            <4>3. age[t] <= Allowed /\ (pc # "idle" => age[t] < Allowed + 1)
                BY <4>1, <1>0
            <4>4. pc = "idle" => age[t] + Due < Allowed + 1
                BY <4>1, <1>0
            <4>5. pc = "idle" /\ Stalled(Due) => age[t] + 1 < Allowed + 1
                BY <4>1, <1>0
            <4> QED
                BY <4>1, <4>2, <4>3, <4>4, <4>5, <3>1, <2>1, <1>0
        <3>2. CASE u # t
            <4>1. work'[u] = work[u] /\ age'[u] = age[u] /\ age[u] \in Nat /\ wait \in Nat
                BY <3>2 DEF TypeOK
            <4> QED
                BY <4>1, <2>1, <1>0
        <3> QED
            BY <3>1, <3>2
    <2> QED
        BY <2>2, <2>3
<1> QED
    BY <1>1, <1>2, <1>3, <1>4

\* The gates of a process, and a pass that begins.
LEMMA WaitGates ==
    ASSUME WaitInv, Skip \/ Contended \/ Breached \/ Begin
    PROVE  WaitInv'
<1> USE DEF WaitInv, RemoteInv, EditedInv, MovedInv, Stalled, Due
<1>0. /\ Patience \in Nat /\ Allowed \in Nat /\ Cap <= Patience /\ Patience <= Allowed
      /\ Cap \in Nat /\ Cap # 0
    BY AllowedIs
<1>1. CASE Skip
    <2> USE <1>1 DEF Skip, Skipping
    <2>1. Patience' = Patience /\ Allowed' = Allowed
        BY AllowedKept
    <2> QED
        BY <2>1, <1>0 DEF TypeOK
<1>2. CASE Contended
    <2> USE <1>2 DEF Contended, Skipping
    <2>1. Patience' = Patience + 1 /\ Allowed' = Allowed + 1 /\ used' \in [Kinds -> Nat]
        BY AllowedAfter, <1>0 DEF Spend, Kinds
    <2> QED
        BY <2>1, <1>0 DEF TypeOK
<1>3. CASE Breached
    <2> USE <1>3 DEF Breached, Skipping
    <2>1. Patience' = Patience + 1 /\ Allowed' = Allowed + 1 /\ used' \in [Kinds -> Nat]
        BY AllowedAfter, <1>0 DEF Spend, Kinds
    <2> QED
        BY <2>1, <1>0 DEF TypeOK
<1>4. CASE Begin
    <2> USE <1>4 DEF Begin, Skipping
    <2>1. Patience' = Patience /\ Allowed' = Allowed
        BY AllowedKept
    <2> QED
        BY <2>1, <1>0 DEF TypeOK
<1> QED
    BY <1>1, <1>2, <1>3, <1>4

\* The ways a pass and its process end.
LEMMA WaitEnds ==
    ASSUME WaitInv, Finish \/ Fail \/ Die \/ Render
    PROVE  WaitInv'
<1> USE DEF WaitInv, RemoteInv, EditedInv, MovedInv, Stalled, Due
<1>0. /\ Patience \in Nat /\ Allowed \in Nat /\ Cap <= Patience /\ Patience <= Allowed
      /\ Cap \in Nat /\ Cap # 0
    BY AllowedIs
<1>1. CASE Finish
    <2> DEFINE q == IF batch # {} \/ remote THEN 0 ELSE Smaller(quiet + 1, QuietTop)
    <2>1. q \in 0..QuietTop
        BY SmallerIs, WatchTickAssumption DEF TypeOK
    <2>2. ~Overflows(q) /\ Backoff(q) \in 0..Cap
        BY <2>1, NeverOverflows, BackoffIsCapped
    <2>3. /\ pc = "pass" /\ pc' = "render" /\ quiet' = q /\ wait' = Backoff(q) /\ touched' = FALSE
          /\ work' = [t \in Tickets |-> IF t \in batch THEN "none" ELSE work[t]]
          /\ age' = [t \in Tickets |-> IF t \in batch THEN 0 ELSE age[t]]
          /\ remote' = FALSE /\ lag' = 0 /\ batch' = {} /\ ran' = ran /\ used' = used
        BY <1>1, <2>2 DEF Finish, SaveState
    <2> HIDE DEF q
    <2>4. Patience' = Patience /\ Allowed' = Allowed
        BY <2>3, AllowedKept
    <2>5. TypeOK' /\ RemoteInv'
        <3>1. work' \in [Tickets -> {"none", "moved", "edited"}]
            BY <2>3 DEF TypeOK
        <3>2. age' \in [Tickets -> 0..AgeTop] /\ lag' \in 0..AgeTop
            BY <2>3, WatchTickAssumption DEF TypeOK
        <3> QED
            BY <2>1, <2>2, <2>3, <3>1, <3>2 DEF TypeOK
    <2>6. ASSUME NEW t \in Tickets PROVE /\ work'[t] = "none" => age'[t] = 0
                                         /\ work'[t] = "edited" => EditedInv(t)'
                                         /\ work'[t] = "moved" => MovedInv(t)'
        BY <2>2, <2>3, <2>4, <1>0 DEF TypeOK
    <2> QED
        BY <2>3, <2>5, <2>6
<1>2. CASE Fail
    <2> USE <1>2 DEF Fail
    <2>1. Patience' = Patience + 1 /\ Allowed' = Allowed + 1 /\ used' \in [Kinds -> Nat]
        BY AllowedAfter, <1>0 DEF Spend, Kinds
    <2>2. TypeOK'
        <3>1. 0 \in 0..QuietTop /\ 0 \in 0..Cap
            BY WatchTickAssumption
        <3> QED
            BY <3>1, <2>1 DEF TypeOK
    <2>4. RemoteInv'
        BY <2>1, <1>0 DEF TypeOK
    <2> QED
        BY <2>1, <2>2, <2>4, <1>0 DEF TypeOK
<1>3. CASE Die
    <2> USE <1>3 DEF Die
    <2>1. Patience' = Patience + Cap /\ Allowed' = Allowed + Cap /\ used' \in [Kinds -> Nat]
        BY AllowedAfter, <1>0 DEF Spend, Kinds
    <2> QED
        BY <2>1, <1>0 DEF TypeOK
<1>4. CASE Render
    <2> USE <1>4 DEF Render, Rendered
    <2>1. Patience' = Patience /\ Allowed' = Allowed
        BY AllowedKept
    <2>2. TypeOK' /\ RemoteInv'
        BY <2>1 DEF TypeOK
    <2>3. ASSUME NEW t \in Tickets, work[t] = "moved" PROVE Rendered # work
        BY <2>3 DEF TypeOK
    <2>4. ASSUME NEW t \in Tickets
          PROVE  /\ work'[t] = "none" => age'[t] = 0
                 /\ work'[t] = "edited" => EditedInv(t)'
                 /\ work'[t] = "moved" => MovedInv(t)'
        <3>1. CASE work[t] = "moved"
            <4>1. Rendered # work
                BY <2>3, <3>1
            <4>2. touched' = TRUE
                BY <4>1 DEF TypeOK
            <4>3. work'[t] = "edited" /\ age'[t] < Allowed' /\ age'[t] \in Nat
                BY <2>1, <3>1 DEF TypeOK
            <4> QED
                BY <4>2, <4>3, <2>1, <1>0
        <3>2. CASE work[t] # "moved"
            <4>1. work'[t] = work[t] /\ age'[t] = age[t] /\ age[t] \in Nat /\ wait \in Nat
                    /\ work[t] \in {"none", "edited"} /\ pc' = "idle" /\ wait' = wait
                BY <3>2 DEF TypeOK
            <4>2. work[t] = "edited" => age[t] < Allowed
                BY <4>1, <1>0
            <4>3. ~touched' => ~touched
                OBVIOUS
            <4>4. work[t] = "edited" => age[t] + Due' <= Allowed
                BY <4>1, <4>2, <4>3, <1>0
            <4> QED
                BY <4>1, <4>2, <4>4, <2>1, <1>0
        <3> QED
            BY <3>1, <3>2
    <2> QED
        BY <2>2, <2>4
<1> QED
    BY <1>1, <1>2, <1>3, <1>4

LEMMA WaitStep == WaitInv /\ [Next]_vars => WaitInv'
<1>1. CASE UNCHANGED vars
    BY <1>1 DEF vars, WaitInv, TypeOK, RemoteInv, EditedInv, MovedInv, Stalled, Due,
                Allowed, Patience
<1> QED
    BY <1>1, WaitWorld, WaitGates, WaitEnds DEF Next, Process

LEMMA WaitAlways == Spec => []WaitInv
BY WaitInit, WaitStep, PTL DEF Spec

\* Every reachable state is well typed: among other things the time to wait
\* never leaves 0..Cap, and no process dies over computing it.
THEOREM TypeCorrect == Spec => []TypeOK
<1>1. WaitInv => TypeOK
    BY DEF WaitInv
<1> QED
    BY <1>1, WaitAlways, PTL

\* However the watcher backs off, whatever fails and whoever moves files while
\* it runs: no change is left alone for longer than the cap, one more cap for
\* each killed process and a minute for each obstacle and each move.
THEOREM NothingWaitsLong == Spec => []NoChangeWaitsLong
<1>1. ASSUME WaitInv PROVE NoChangeWaitsLong
    <2>1. Patience \in Nat /\ Allowed \in Nat /\ TypeOK
        BY <1>1, AllowedIs DEF WaitInv
    <2>2. lag <= Patience
        BY <1>1, <2>1 DEF WaitInv, RemoteInv, TypeOK
    <2>3. \A t \in Tickets : age[t] <= Allowed
        BY <1>1, <2>1 DEF WaitInv, EditedInv, MovedInv, Due, TypeOK
    <2> QED
        BY <2>2, <2>3 DEF NoChangeWaitsLong, Allowed
<1> QED
    BY <1>1, WaitAlways, PTL

-----------------------------------------------------------------------------
(***************************************************************************)
(* The board caches, for any number of machines, tickets and lanes.        *)
(*                                                                         *)
(* KnownCardsAreRight speaks of the moment a push leaves a card alone.     *)
(* What makes it hold is said of the index in all the time before: of a    *)
(* card the machine knows, the copy it will go by, the process's or, while *)
(* there is none, the sidecar's, has the column the card is in, or no      *)
(* entry.  That the process's index covers the sidecar's is what lets the  *)
(* process end without saving an empty one.                                *)
(***************************************************************************)
CONSTANTS Machines, Lanes, None, Starts, Budget
VARIABLES lane, known, label, card, field, index, ctx, phase, todo, at, item, new,
          mine, held, knows, adrift, spent

Board == INSTANCE BoardIndex WITH pc <- phase, used <- spent, Limit <- Budget

Phases == {"off", "idle", "push", "context", "index", "card", "status"}

\* Where a pass is says what it has.
Where ==
    \A m \in Machines :
        /\ phase[m] \in {"context", "index", "card", "status"} => at[m] \in Tickets
        /\ phase[m] \in {"card", "status"} => mine[m] # None
        /\ phase[m] = "status" => item[m] \in Nat

BoardInv == Board!TypeOK /\ Where

\* The index a machine goes by: its process's, else the sidecar's.
Own(m) == IF mine[m] = None THEN index[m] ELSE mine[m]

\* The entry of t is the board's, or its card has no column.
Right(m, t) ==
    Own(m)[t] # None => card[t] # None /\ card[t].status \in {None, Own(m)[t].status}

\* What the process has no entry of, the sidecar has none of.
Covers(m) == mine[m] # None => \A t \in Tickets : mine[m][t] = None => index[m][t] = None

CacheInv ==
    /\ \A m \in Machines : Covers(m)
    /\ \A t \in Tickets : \A m \in knows[t] : Right(m, t)

-----------------------------------------------------------------------------
\* The process is gone: what it held has its type again.
LEMMA Exits ==
    ASSUME BoardInv, NEW n \in Machines, Board!Exit(n)
    PROVE  /\ phase' \in [Machines -> Phases]
           /\ todo' \in [Machines -> SUBSET Tickets] /\ at' \in [Machines -> Tickets \cup {None}]
           /\ item' \in [Machines -> Nat \cup {None}]
           /\ new' \in [Machines -> [Tickets -> Lanes \cup {None}]]
           /\ mine' \in [Machines -> Board!Index \cup {None}]
           /\ held' \in [Machines -> Board!Context \cup {None}]
           /\ phase'[n] = "idle" /\ mine'[n] = None
           /\ \A m \in Machines \ {n} : /\ phase'[m] = phase[m] /\ at'[m] = at[m]
                                        /\ mine'[m] = mine[m] /\ item'[m] = item[m]
BY DEF BoardInv, Board!TypeOK, Board!Exit, Board!NoCards, Phases

\* The sidecar takes over what the process has.
LEMMA Saves ==
    ASSUME BoardInv, NEW n \in Machines, NEW hashes \in [Tickets -> Lanes \cup {None}],
           Board!Save(n, hashes)
    PROVE  /\ known' \in [Machines -> [Tickets -> Lanes \cup {None}]]
           /\ index' \in [Machines -> Board!Index]
           /\ ctx' \in [Machines -> Board!Context \cup {None}]
           /\ index'[n] = IF mine[n] \in {None, Board!NoCards} THEN index[n] ELSE mine[n]
           /\ \A m \in Machines \ {n} : index'[m] = index[m]
BY DEF BoardInv, Board!TypeOK, Board!Save

\* The pass leaves its ticket.
LEMMA Leaves ==
    ASSUME BoardInv, NEW n \in Machines, NEW hash \in Lanes \cup {None}, at[n] \in Tickets,
           Board!Leave(n, hash)
    PROVE  /\ phase' \in [Machines -> Phases] /\ phase'[n] = "push"
           /\ todo' \in [Machines -> SUBSET Tickets] /\ at' \in [Machines -> Tickets \cup {None}]
           /\ item' \in [Machines -> Nat \cup {None}]
           /\ new' \in [Machines -> [Tickets -> Lanes \cup {None}]]
           /\ \A m \in Machines \ {n} : /\ phase'[m] = phase[m] /\ at'[m] = at[m]
                                        /\ item'[m] = item[m]
BY DEF BoardInv, Board!TypeOK, Board!Leave, Phases

LEMMA DoneLeaves ==
    ASSUME BoardInv, NEW n \in Machines, NEW landed, at[n] \in Tickets, Board!Done(n, landed)
    PROVE  Board!Leave(n, lane[n][at[n]]) /\ lane[n][at[n]] \in Lanes /\ adrift' \in SUBSET Tickets
BY DEF BoardInv, Board!TypeOK, Board!Done

\* A card that is added keeps its type.
LEMMA AddedIs ==
    ASSUME BoardInv, NEW t \in Tickets
    PROVE  Board!Added(t) \in Board!Card /\ (card[t] # None => Board!Added(t) = card[t])
                             /\ (card[t] = None => Board!Added(t).status = None)
<1>1. card[t] \in Board!Card \cup {None} /\ spent["admin"] \in Nat
    BY DEF BoardInv, Board!TypeOK, Board!Index, Board!Kinds
<1> QED BY <1>1 DEF Board!Added, Board!Card

\* Cards that lose their column keep everything else.
LEMMA LosesIs ==
    ASSUME Board!CardAssumption,
           BoardInv, NEW gone, Board!LoseColumns(gone)
    PROVE  /\ card' \in Board!Index
           /\ \A t \in Tickets : \/ card'[t] = card[t]
                                 \/ card[t] # None /\ card'[t] # None /\ card'[t].status = None
<1>1. ASSUME NEW t \in Tickets
      PROVE  /\ card'[t] \in Board!Card \cup {None}
             /\ \/ card'[t] = card[t]
                \/ card[t] # None /\ card'[t] # None /\ card'[t].status = None
    <2>1. card[t] \in Board!Card \cup {None}
        BY DEF BoardInv, Board!TypeOK, Board!Index
    <2>2. CASE card[t] # None /\ card[t].status \in gone
        <3>1. card'[t] = [card[t] EXCEPT !.status = None] /\ card[t] \in Board!Card
            BY <2>1, <2>2 DEF Board!LoseColumns
        <3>2. card'[t] \in Board!Card /\ card'[t].status = None
            BY <3>1 DEF Board!Card
        <3> QED BY <2>2, <3>2, Board!CardAssumption
    <2>3. CASE ~(card[t] # None /\ card[t].status \in gone)
        BY <2>1, <2>3 DEF Board!LoseColumns
    <2> QED BY <2>2, <2>3
<1>2. card' = [t \in Tickets |-> card'[t]]
    BY DEF Board!LoseColumns
<1> QED BY <1>1, <1>2 DEF Board!Index

LEMMA Spends ==
    ASSUME BoardInv, NEW k \in Board!Kinds, Board!Spend(k)
    PROVE  spent' \in [Board!Kinds -> Nat]
BY DEF BoardInv, Board!TypeOK, Board!Spend

\* What the process finds in its caches has the type of what they keep.
LEMMA FindsIs ==
    ASSUME BoardInv, NEW n \in Machines
    PROVE  /\ Board!Cached(n) \in Board!Context \cup {None} /\ Board!Fetched \in Board!Context
           /\ Board!Blanks \subseteq Board!Context /\ Board!Indexed(n) \in Board!Index \cup {None}
<1>1. /\ held[n] \in Board!Context \cup {None} /\ ctx[n] \in Board!Context \cup {None}
      /\ mine[n] \in Board!Index \cup {None} /\ index[n] \in Board!Index
      /\ field.id \in Nat /\ field.columns \in SUBSET Lanes
    BY DEF BoardInv, Board!TypeOK, Board!Field
<1>2. Board!Cached(n) \in Board!Context \cup {None} /\ Board!Indexed(n) \in Board!Index \cup {None}
    BY <1>1 DEF Board!Cached, Board!Indexed
<1> QED BY <1>1, <1>2 DEF Board!Fetched, Board!Blanks, Board!Context

LEMMA NoCardsIs == Board!NoCards \in Board!Index
BY DEF Board!NoCards, Board!Index

-----------------------------------------------------------------------------
LEMMA BoardInit ==
    ASSUME Board!BoardIndexAssumption
    PROVE  Board!Init => BoardInv
<1> SUFFICES ASSUME Board!Init PROVE BoardInv
    OBVIOUS
<1>1. PICK s \in Starts :
         /\ lane = [m \in Machines |-> s.home] /\ label = s.home
         /\ card = IF s.bare THEN Board!NoCards
                   ELSE [t \in Tickets |-> [item |-> 0, status |-> s.home[t]]]
         /\ phase = [m \in Machines |-> IF m \in s.running THEN "idle" ELSE "off"]
         /\ spent = s.used
    BY DEF Board!Init
<1>2. s.home \in [Tickets -> Lanes] /\ s.used \in [Board!Kinds -> Nat]
    BY <1>1, Board!BoardIndexAssumption
<1>3. card \in Board!Index
    BY <1>1, <1>2 DEF Board!Index, Board!Card, Board!NoCards
<1>4. Board!TypeOK
    BY <1>1, <1>2, <1>3 DEF Board!Init, Board!TypeOK, Board!NoCards, Board!Index,
       Board!Field
<1>5. Where
    BY <1>1 DEF Where
<1> QED
    BY <1>4, <1>5 DEF BoardInv

\* What is done to the board from outside.
LEMMA AdminTypes ==
    ASSUME Board!CardAssumption
    PROVE  BoardInv /\ Board!Admin => BoardInv'
<1> SUFFICES ASSUME BoardInv, Board!Admin PROVE BoardInv'
    OBVIOUS
<1>0. Board!TypeOK /\ Where
    BY DEF BoardInv
<1>1. /\ UNCHANGED <<lane, label, Board!saved, Board!proc, adrift>>
      /\ spent' \in [Board!Kinds -> Nat]
    BY Spends DEF Board!Admin, Board!RemoveCard, Board!RecreateField,
       Board!RemoveColumn, Board!Kinds, Board!seen
<1>2. card' \in Board!Index
    <2>1. CASE \E t \in Tickets : Board!RemoveCard(t)
        BY <1>0, <2>1 DEF Board!RemoveCard, Board!TypeOK, Board!Index
    <2>2. CASE \E gone : Board!LoseColumns(gone)
        BY <2>2, LosesIs
    <2> QED BY <2>1, <2>2 DEF Board!Admin, Board!RecreateField, Board!RemoveColumn
<1>3. field' \in Board!Field
    <2>1. field \in Board!Field /\ field.id + 1 \in Nat
        BY <1>0 DEF Board!TypeOK, Board!Field
    <2>2. \/ \E columns \in SUBSET Lanes : field' = [id |-> field.id + 1, columns |-> columns]
          \/ \E l \in Lanes : field' = [field EXCEPT !.columns = @ \ {l}]
          \/ field' = field
        BY DEF Board!Admin, Board!RemoveCard, Board!RecreateField, Board!RemoveColumn
    <2> QED BY <2>1, <2>2 DEF Board!Field
<1>4. knows' \in [Tickets -> SUBSET Machines]
    BY <1>0 DEF Board!Admin, Board!RemoveCard, Board!RecreateField, Board!RemoveColumn,
       Board!TypeOK, Board!seen
<1>5. Board!TypeOK'
    BY <1>0, <1>1, <1>2, <1>3, <1>4 DEF Board!TypeOK, Board!saved, Board!proc
<1> QED
    BY <1>0, <1>1, <1>5 DEF BoardInv, Where, Board!proc

\* What happens to a machine beside its passes, and the ends of a process.
LEMMA WorldTypes ==
    ASSUME BoardInv, NEW m \in Machines,
           \/ Board!Crash(m) \/ Board!RateLimited(m) \/ Board!Expire(m)
           \/ \E t \in Tickets, l \in Lanes : Board!Move(m, t, l)
    PROVE  BoardInv'
<1>0. Board!TypeOK /\ Where
    BY DEF BoardInv
<1>1. CASE Board!Crash(m)
    <2>1. Board!Exit(m) /\ UNCHANGED <<lane, Board!board, Board!saved>> /\ spent' \in [Board!Kinds -> Nat]
        BY <1>1, Spends DEF Board!Crash, Board!Kinds
    <2>2. knows' \in [Tickets -> SUBSET Machines] /\ adrift' \subseteq Tickets
        BY <1>0, <1>1 DEF Board!Crash, Board!TypeOK
    <2>3. Board!TypeOK'
        BY <1>0, <2>1, <2>2, Exits DEF Board!TypeOK, Board!board, Board!saved, Phases
    <2> QED
        BY <1>0, <2>1, <2>3, Exits DEF BoardInv, Where
<1>2. CASE Board!RateLimited(m)
    <2>1. /\ Board!Save(m, new[m]) /\ Board!Exit(m) /\ UNCHANGED <<lane, Board!board, knows>>
          /\ spent' \in [Board!Kinds -> Nat] /\ new[m] \in [Tickets -> Lanes \cup {None}]
        BY <1>0, <1>2, Spends DEF Board!RateLimited, Board!Kinds, Board!TypeOK
    <2>2. adrift' \subseteq Tickets
        BY <1>0, <1>2 DEF Board!RateLimited, Board!Reads, Board!Writes, Where,
           Board!TypeOK
    <2>3. Board!TypeOK'
        BY <1>0, <2>1, <2>2, Exits, Saves DEF Board!TypeOK, Board!board, Phases
    <2> QED
        BY <1>0, <2>1, <2>3, Exits DEF BoardInv, Where
<1>3. CASE Board!Expire(m)
    BY <1>0, <1>3 DEF Board!Expire, BoardInv, Board!TypeOK, Where, Board!board,
       Board!proc, Board!seen
<1>4. CASE \E t \in Tickets, l \in Lanes : Board!Move(m, t, l)
    <2>1. /\ spent' \in [Board!Kinds -> Nat] /\ lane' \in [Machines -> [Tickets -> Lanes]]
          /\ UNCHANGED <<Board!board, Board!saved, Board!proc, Board!seen>>
        BY <1>0, <1>4, Spends DEF Board!Move, Board!Kinds, Board!TypeOK
    <2> QED
        BY <1>0, <2>1 DEF BoardInv, Board!TypeOK, Where, Board!board, Board!saved,
           Board!proc, Board!seen
<1> QED
    BY <1>1, <1>2, <1>3, <1>4

\* The steps of a pass that look something up.
LEMMA LookTypes ==
    ASSUME Board!CardAssumption,
           BoardInv, NEW m \in Machines,
           \/ Board!Start(m) \/ (\E t \in Tickets : Board!Push(m, t)) \/ Board!FindContext(m) \/ Board!FindIndex(m)
           \/ Board!FindCard(m) \/ Board!Finish(m)
    PROVE  BoardInv'
<1>0. Board!TypeOK /\ Where
    BY DEF BoardInv
<1>1. CASE Board!Start(m)
    BY <1>0, <1>1 DEF Board!Start, BoardInv, Board!TypeOK, Where, Board!board,
       Board!saved, Board!seen
<1>2. CASE \E t \in Tickets : Board!Push(m, t)
    BY <1>0, <1>2 DEF Board!Push, BoardInv, Board!TypeOK, Where, Board!saved, Board!seen
<1>3. CASE Board!FindContext(m)
    <2>1. held' \in [Machines -> Board!Context \cup {None}] /\ spent' \in [Board!Kinds -> Nat]
        <3>1. held \in [Machines -> Board!Context \cup {None}] /\ spent \in [Board!Kinds -> Nat]
            BY <1>0 DEF Board!TypeOK
        <3>2. \E c \in Board!Context : held' = [held EXCEPT ![m] = c]
            <4>1. CASE held' = [held EXCEPT ![m] = IF Board!Cached(m) # None THEN Board!Cached(m) ELSE Board!Fetched]
                BY <4>1, FindsIs
            <4>2. CASE \E c \in Board!Blanks : held' = [held EXCEPT ![m] = c]
                BY <4>2, FindsIs
            <4> QED BY <1>3, <4>1, <4>2 DEF Board!FindContext
        <3>3. spent' \in [Board!Kinds -> Nat]
            BY <1>3, <3>1, Spends DEF Board!FindContext, Board!Kinds
        <3> QED BY <3>1, <3>2, <3>3
    <2>2. /\ phase[m] = "context" /\ phase' \in [Machines -> Phases]
          /\ phase'[m] \in {"context", "index"} /\ \A n \in Machines \ {m} : phase'[n] = phase[n]
          /\ UNCHANGED <<lane, Board!board, Board!saved, todo, at, item, new, mine, Board!seen>>
        BY <1>0, <1>3 DEF Board!FindContext, Board!TypeOK, Phases
    <2> QED
        BY <1>0, <2>1, <2>2 DEF BoardInv, Board!TypeOK, Where, Board!board, Board!saved,
           Board!seen, Phases
<1>4. CASE Board!FindIndex(m)
    <2>1. \E i \in Board!Index : mine' = [mine EXCEPT ![m] = i]
        BY <1>0, <1>4, FindsIs, NoCardsIs DEF Board!FindIndex, Board!TypeOK
    <2>2. spent' \in [Board!Kinds -> Nat] /\ knows' \in [Tickets -> SUBSET Machines]
        BY <1>0, <1>4, Spends DEF Board!FindIndex, Board!TypeOK, Board!Kinds
    <2>3. /\ phase[m] = "index" /\ phase' = [phase EXCEPT ![m] = "card"]
          /\ UNCHANGED <<lane, Board!board, Board!saved, todo, at, item, new, held, adrift>>
        BY <1>4 DEF Board!FindIndex
    <2>4. /\ mine' \in [Machines -> Board!Index \cup {None}] /\ mine'[m] # None
          /\ \A n \in Machines \ {m} : mine'[n] = mine[n]
        BY <1>0, <2>1, Board!CardAssumption DEF Board!TypeOK
    <2> QED
        BY <1>0, <2>2, <2>3, <2>4 DEF BoardInv, Board!TypeOK, Where, Board!board,
           Board!saved
<1>5. CASE Board!FindCard(m)
    <2>1. mine[m] \in Board!Index /\ at[m] \in Tickets /\ mine[m][at[m]] # None
        BY <1>0, <1>5 DEF Board!FindCard, Board!TypeOK, Where
    <2>2. mine[m][at[m]].item \in Nat
        BY <2>1 DEF Board!Index, Board!Card
    <2> QED
        BY <1>0, <1>5, <2>2 DEF Board!FindCard, BoardInv, Board!TypeOK, Where,
           Board!board, Board!saved, Board!seen
<1>6. CASE Board!Finish(m)
    <2> DEFINE home == [t \in Tickets |-> IF new[m][t] = lane[m][t]
                                          THEN label[t] ELSE lane[m][t]]
               hashes == [t \in Tickets |-> IF new[m][t] = lane[m][t]
                                            THEN home[t] ELSE new[m][t]]
    <2>1. /\ Board!Save(m, hashes) /\ Board!Exit(m) /\ lane' = [lane EXCEPT ![m] = home]
          /\ UNCHANGED <<Board!board, Board!seen, spent>>
        BY <1>6 DEF Board!Finish
    <2>2. home \in [Tickets -> Lanes] /\ hashes \in [Tickets -> Lanes \cup {None}]
        BY <1>0 DEF Board!TypeOK
    <2> HIDE DEF home, hashes
    <2>3. Board!TypeOK'
        BY <1>0, <2>1, <2>2, Exits, Saves DEF Board!TypeOK, Board!board, Board!seen,
           Phases
    <2> QED
        BY <1>0, <2>1, <2>3, Exits DEF BoardInv, Where
<1> QED
    BY <1>1, <1>2, <1>3, <1>4, <1>5, <1>6

\* The steps of a pass that write to the board, or mean to.
LEMMA WriteTypes ==
    ASSUME Board!CardAssumption,
           BoardInv, NEW m \in Machines,
           \/ Board!NoProject(m) \/ Board!AddCard(m) \/ Board!AddUnheard(m) \/ Board!SkipCard(m)
           \/ Board!SetStatus(m) \/ Board!SetNothing(m) \/ Board!WriteFails(m) \/ Board!ReadFails(m)
    PROVE  BoardInv'
<1>0. Board!TypeOK /\ Where
    BY DEF BoardInv
<1> DEFINE t == at[m]
<1>t. t \in Tickets
    BY <1>0 DEF Where, Board!NoProject, Board!AddCard, Board!AddUnheard, Board!SkipCard,
       Board!SetStatus, Board!SetNothing,
                Board!WriteFails, Board!ReadFails, Board!Reads, Board!Writes
<1>a. ASSUME NEW landed, Board!Done(m, landed), UNCHANGED <<lane, label, field, Board!saved, held>>,
             card' \in Board!Index, mine' \in [Machines -> Board!Index \cup {None}],
             knows' \in [Tickets -> SUBSET Machines], spent' \in [Board!Kinds -> Nat],
             \A n \in Machines : mine[n] # None => mine'[n] # None
      PROVE  BoardInv'
    <2>1. Board!Leave(m, lane[m][t]) /\ lane[m][t] \in Lanes /\ adrift' \in SUBSET Tickets
        BY <1>t, <1>a, DoneLeaves
    <2>2. Board!TypeOK'
        BY <1>0, <1>t, <1>a, <2>1, Leaves DEF Board!TypeOK, Board!saved, Phases
    <2> QED
        BY <1>0, <1>t, <1>a, <2>1, <2>2, Leaves DEF BoardInv, Where
<1>p. ASSUME mine[m] # None, mine' = [mine EXCEPT ![m][t] = Board!Placed(m)], item[m] \in Nat
      PROVE  /\ mine' \in [Machines -> Board!Index \cup {None}]
             /\ \A n \in Machines : mine[n] # None => mine'[n] # None
    <2>1. Board!Placed(m) \in Board!Card
        BY <1>0, <1>t, <1>p DEF Board!Placed, Board!Card, Board!TypeOK
    <2>2. mine[m] \in Board!Index /\ mine'[m] = [mine[m] EXCEPT ![t] = Board!Placed(m)]
        BY <1>0, <1>p DEF Board!TypeOK
    <2>3. mine'[m] \in Board!Index
        BY <1>t, <2>1, <2>2 DEF Board!Index
    <2> QED BY <1>0, <1>p, <2>3, Board!CardAssumption DEF Board!TypeOK
<1>1. CASE Board!NoProject(m) \/ Board!SkipCard(m)
    BY <1>0, <1>1, <1>a DEF Board!NoProject, Board!SkipCard, Board!TypeOK, Board!board
<1>2. CASE Board!AddUnheard(m)
    <2>1. card' \in Board!Index
        BY <1>0, <1>t, <1>2, AddedIs DEF Board!AddUnheard, Board!TypeOK, Board!Index
    <2> QED
        BY <1>0, <1>2, <1>a, <2>1, Spends DEF Board!AddUnheard, Board!TypeOK,
           Board!Kinds
<1>3. CASE Board!SetNothing(m)
    <2>1. mine[m] # None /\ item[m] \in Nat
        BY <1>0, <1>3 DEF Board!SetNothing, Where
    <2>2. knows' \in [Tickets -> SUBSET Machines]
        BY <1>0, <1>t, <1>3 DEF Board!SetNothing, Board!TypeOK
    <2> QED
        BY <1>0, <1>3, <1>a, <1>p, <2>1, <2>2 DEF Board!SetNothing, Board!TypeOK,
           Board!board
<1>4. CASE Board!SetStatus(m)
    <2>1. mine[m] # None /\ item[m] \in Nat
        BY <1>0, <1>4 DEF Board!SetStatus, Where
    <2>2. knows' \in [Tickets -> SUBSET Machines]
        BY <1>0, <1>t, <1>4 DEF Board!SetStatus, Board!TypeOK
    <2>3. Board!Placed(m) \in Board!Card
        BY <1>0, <1>t, <2>1 DEF Board!Placed, Board!Card, Board!TypeOK
    <2>4. card' \in Board!Index
        BY <1>0, <1>t, <1>4, <2>3 DEF Board!SetStatus, Board!TypeOK, Board!Index
    <2> QED
        BY <1>0, <1>4, <1>a, <1>p, <2>1, <2>2, <2>4 DEF Board!SetStatus, Board!TypeOK
<1>5. CASE Board!AddCard(m)
    <2>1. Board!Added(t) \in Board!Card /\ Board!Added(t).item \in Nat
        BY <1>t, AddedIs DEF Board!Card
    <2>2. card' \in Board!Index
        BY <1>0, <1>t, <1>5, <2>1 DEF Board!AddCard, Board!TypeOK, Board!Index
    <2>3. /\ item' = [item EXCEPT ![m] = Board!Added(t).item] /\ phase[m] = "card"
          /\ phase' = [phase EXCEPT ![m] = "status"]
          /\ UNCHANGED <<lane, label, field, Board!saved, todo, at, new, mine, held, Board!seen, spent>>
        BY <1>5 DEF Board!AddCard
    <2> QED
        BY <1>0, <2>1, <2>2, <2>3 DEF BoardInv, Board!TypeOK, Where, Board!saved,
           Board!seen
<1>6. CASE Board!WriteFails(m)
    <2>1. mine[m] # None /\ mine[m] \in Board!Index
        BY <1>0, <1>6 DEF Board!WriteFails, Board!Writes, Where, Board!TypeOK
    <2>2. /\ mine' = [mine EXCEPT ![m][t] = None] /\ index' = [index EXCEPT ![m][t] = None]
          /\ held' = [held EXCEPT ![m] = None] /\ ctx' = [ctx EXCEPT ![m] = None]
          /\ Board!Leave(m, None) /\ UNCHANGED <<lane, Board!board, known, Board!seen>>
        BY <1>6 DEF Board!WriteFails, Board!Invalidate
    <2>3. spent' \in [Board!Kinds -> Nat]
        BY <1>0, <1>6, Spends DEF Board!WriteFails, Board!TypeOK, Board!Kinds
    <2>4. /\ mine'[m] \in Board!Index /\ index' \in [Machines -> Board!Index]
          /\ mine' \in [Machines -> Board!Index \cup {None}]
          /\ \A n \in Machines \ {m} : mine'[n] = mine[n]
        BY <1>0, <1>t, <2>1, <2>2 DEF Board!TypeOK, Board!Index
    <2>5. Board!TypeOK'
        BY <1>0, <1>t, <2>2, <2>3, <2>4, Leaves DEF Board!TypeOK, Board!board,
           Board!seen, Phases
    <2> QED
        BY <1>0, <1>t, <2>2, <2>4, <2>5, Leaves DEF BoardInv, Where
<1>7. CASE Board!ReadFails(m)
    <2>1. /\ Board!Leave(m, None) /\ UNCHANGED <<lane, Board!board, Board!saved, mine, held, Board!seen>>
          /\ spent' \in [Board!Kinds -> Nat]
        BY <1>7, Spends DEF Board!ReadFails, Board!Kinds
    <2>2. Board!TypeOK'
        BY <1>0, <1>t, <2>1, Leaves DEF Board!TypeOK, Board!board, Board!saved,
           Board!seen, Phases
    <2> QED
        BY <1>0, <1>t, <2>1, <2>2, Leaves DEF BoardInv, Where
<1> QED
    BY <1>1, <1>2, <1>3, <1>4, <1>5, <1>6, <1>7

LEMMA BoardStep ==
    ASSUME Board!CardAssumption
    PROVE  BoardInv /\ [Board!Next]_Board!vars => BoardInv'
<1>1. ASSUME BoardInv, UNCHANGED Board!vars PROVE BoardInv'
    BY <1>1 DEF BoardInv, Board!TypeOK, Where, Board!vars, Board!board, Board!saved,
       Board!proc, Board!seen
<1>2. ASSUME BoardInv, NEW m \in Machines, Board!Step(m) PROVE BoardInv'
    BY <1>2, LookTypes, WriteTypes DEF Board!Step
<1> QED
    BY <1>1, <1>2, WorldTypes, AdminTypes DEF Board!Next

-----------------------------------------------------------------------------
\* Nobody writes and no entry changes: the cards only lose their columns, or a card
\* appears, or one goes that then nobody knows.
LEMMA Untouched ==
    ASSUME CacheInv, UNCHANGED <<mine, index>>,
           \A t \in Tickets :
              /\ knows'[t] \subseteq knows[t]
              /\ \/ card'[t] = card[t] \/ card[t] = None \/ knows'[t] = {}
                 \/ card'[t] # None /\ card'[t].status = None
    PROVE  CacheInv'
<1>1. \A m \in Machines : Covers(m)'
    BY DEF CacheInv, Covers
<1>2. ASSUME NEW t \in Tickets, NEW m \in knows'[t] PROVE Right(m, t)'
    <2>1. Right(m, t)
        BY <1>2 DEF CacheInv
    <2>2. Own(m)' = Own(m)
        BY DEF Own
    <2> QED BY <1>2, <2>1, <2>2 DEF Right
<1> QED BY <1>1, <1>2 DEF CacheInv

\* The process ends and the sidecar has taken over its entries.
LEMMA SavedRight ==
    ASSUME Board!CardAssumption,
           BoardInv, CacheInv, NEW n \in Machines, NEW hashes \in [Tickets -> Lanes \cup {None}],
           Board!Save(n, hashes), Board!Exit(n), UNCHANGED <<card, knows>>
    PROVE  CacheInv'
<1>1. /\ index'[n] = IF mine[n] \in {None, Board!NoCards} THEN index[n] ELSE mine[n]
      /\ mine'[n] = None
      /\ \A m \in Machines \ {n} : index'[m] = index[m] /\ mine'[m] = mine[m]
    BY Exits, Saves
<1>2. \A m \in Machines : Covers(m)'
    BY <1>1 DEF CacheInv, Covers
<1>3. ASSUME NEW t \in Tickets, NEW m \in knows[t] PROVE Right(m, t)'
    <2>0. m \in Machines /\ Right(m, t)
        BY DEF BoardInv, Board!TypeOK, CacheInv
    <2>1. CASE m # n
        BY <1>1, <2>0, <2>1 DEF Right, Own
    <2>2. CASE m = n /\ mine[n] = Board!NoCards
        <3>1. Board!NoCards # None /\ Board!NoCards[t] = None
            BY NoCardsIs, Board!CardAssumption DEF Board!NoCards
        <3>2. Own(m)'[t] = None
            BY <1>1, <2>0, <2>2, <3>1 DEF CacheInv, Covers, Own
        <3> QED BY <3>2 DEF Right
    <2>3. CASE m = n /\ mine[n] # Board!NoCards
        BY <1>1, <2>0, <2>3 DEF Right, Own
    <2> QED BY <2>1, <2>2, <2>3
<1> QED BY <1>2, <1>3 DEF CacheInv

\* One entry of the process is replaced, and who knew the card otherwise no longer does.
LEMMA EntryRight ==
    ASSUME Board!CardAssumption,
           BoardInv, CacheInv, NEW n \in Machines, NEW t \in Tickets, NEW e \in Board!Card,
           mine[n] # None, mine' = [mine EXCEPT ![n][t] = e], UNCHANGED index,
           \A u \in Tickets \ {t} : card'[u] = card[u] /\ knows'[u] = knows[u],
           \/ card'[t] = e /\ knows'[t] = {n}
           \/ card'[t] = card[t] /\ knows'[t] = knows[t] \ {n}
    PROVE  CacheInv'
<1>1. /\ mine'[n] = [mine[n] EXCEPT ![t] = e] /\ mine[n] \in Board!Index
      /\ \A m \in Machines \ {n} : mine'[m] = mine[m]
    BY DEF BoardInv, Board!TypeOK
<1>2. e # None /\ mine'[n][t] = e /\ \A u \in Tickets \ {t} : mine'[n][u] = mine[n][u]
    BY <1>1, Board!CardAssumption DEF Board!Index
<1>3. mine'[n] # None
    BY <1>1, Board!CardAssumption DEF Board!Index
<1>4. \A m \in Machines : Covers(m)'
    BY <1>1, <1>2 DEF CacheInv, Covers
<1>5. ASSUME NEW u \in Tickets, NEW m \in knows'[u] PROVE Right(m, u)'
    <2>1. m \in Machines
        <3>1. knows'[u] \subseteq knows[u] \cup {n}
            OBVIOUS
        <3> QED BY <1>5, <3>1 DEF BoardInv, Board!TypeOK
    <2>2. CASE m # n
        <3>1. m \in knows[u] /\ card'[u] = card[u]
            BY <1>5, <2>2
        <3>2. Right(m, u) /\ Own(m)' = Own(m)
            BY <1>1, <2>1, <2>2, <3>1 DEF CacheInv, Own
        <3> QED BY <3>1, <3>2 DEF Right
    <2>3. CASE m = n /\ u # t
        <3>1. Right(m, u) /\ Own(m)'[u] = Own(m)[u] /\ card'[u] = card[u]
            BY <1>2, <1>3, <1>5, <2>3 DEF CacheInv, Own
        <3> QED BY <3>1 DEF Right
    <2>4. CASE m = n /\ u = t
        <3>1. card'[t] = e /\ Own(n)'[t] = e
            BY <1>2, <1>3, <1>5, <2>4 DEF Own
        <3> QED BY <1>2, <2>4, <3>1 DEF Right
    <2> QED BY <2>2, <2>3, <2>4
<1> QED BY <1>4, <1>5 DEF CacheInv

LEMMA CacheInit == Board!Init => CacheInv
<1> SUFFICES ASSUME Board!Init PROVE CacheInv
    OBVIOUS
<1>1. \A m \in Machines : mine[m] = None /\ index[m] = card
    BY DEF Board!Init
<1>2. \A t \in Tickets : knows[t] = Machines
    BY DEF Board!Init
<1> QED
    BY <1>1, <1>2 DEF CacheInv, Covers, Right, Own

LEMMA CacheStep ==
    ASSUME Board!CardAssumption
    PROVE  BoardInv /\ CacheInv /\ [Board!Next]_Board!vars => CacheInv'
<1> SUFFICES ASSUME BoardInv, CacheInv, [Board!Next]_Board!vars PROVE CacheInv'
    OBVIOUS
<1>0. Board!TypeOK /\ Where
    BY DEF BoardInv
<1>1. CASE UNCHANGED Board!vars
    BY <1>1, Untouched DEF Board!vars, Board!board, Board!saved, Board!proc, Board!seen
<1>2. CASE Board!Admin
    <2>1. CASE \E t \in Tickets : Board!RemoveCard(t)
        BY <1>0, <2>1, Untouched DEF Board!RemoveCard, Board!TypeOK, Board!Index,
           Board!saved, Board!proc
    <2>2. CASE /\ \E gone : Board!LoseColumns(gone)
               /\ UNCHANGED <<Board!saved, Board!proc, Board!seen>>
        BY <2>2, LosesIs, Untouched DEF Board!saved, Board!proc, Board!seen
    <2> QED BY <1>2, <2>1, <2>2 DEF Board!Admin, Board!RecreateField, Board!RemoveColumn
<1>3. ASSUME NEW m \in Machines,
             \/ Board!Expire(m) \/ Board!Start(m) \/ Board!FindContext(m) \/ Board!NoProject(m) \/ Board!FindCard(m)
             \/ Board!SkipCard(m) \/ Board!ReadFails(m) \/ (\E t \in Tickets : Board!Push(m, t))
             \/ \E t \in Tickets, l \in Lanes : Board!Move(m, t, l)
      PROVE  CacheInv'
    <2>1. UNCHANGED <<mine, index, card, knows>>
        BY <1>3 DEF Board!Expire, Board!Start, Board!FindContext, Board!NoProject,
           Board!FindCard, Board!SkipCard, Board!ReadFails,
                    Board!Push, Board!Move, Board!board, Board!saved, Board!proc,
                    Board!seen
    <2> QED BY <2>1, Untouched
<1>4. ASSUME NEW m \in Machines, Board!Crash(m) PROVE CacheInv'
    <2>1. /\ mine'[m] = None /\ \A n \in Machines \ {m} : mine'[n] = mine[n]
          /\ UNCHANGED <<card, index>>
        BY <1>4, Exits DEF Board!Crash, Board!board, Board!saved
    <2>2. \A n \in Machines : Covers(n)'
        BY <2>1 DEF CacheInv, Covers
    <2>3. ASSUME NEW t \in Tickets, NEW n \in knows'[t] PROVE Right(n, t)'
        <3>1. /\ n \in Machines /\ Right(n, t)
              /\ n = m => mine[m] = None \/ mine[m][t] = index[m][t]
            BY <1>0, <1>4, <2>3 DEF Board!Crash, CacheInv, Board!TypeOK
        <3>2. Own(n)'[t] = Own(n)[t]
            BY <2>1, <3>1 DEF Own
        <3> QED BY <2>1, <3>1, <3>2 DEF Right
    <2> QED BY <2>2, <2>3 DEF CacheInv
<1>5. ASSUME NEW m \in Machines, Board!RateLimited(m) PROVE CacheInv'
    <2>1. Board!Save(m, new[m]) /\ Board!Exit(m) /\ UNCHANGED <<card, knows>>
        BY <1>5 DEF Board!RateLimited, Board!board
    <2>2. new[m] \in [Tickets -> Lanes \cup {None}]
        BY <1>0 DEF Board!TypeOK
    <2> QED BY <2>1, <2>2, SavedRight
<1>6. ASSUME NEW m \in Machines, Board!Finish(m) PROVE CacheInv'
    <2> DEFINE hashes == [t \in Tickets |->
                            IF new[m][t] = lane[m][t]
                            THEN [u \in Tickets |-> IF new[m][u] = lane[m][u]
                                                    THEN label[u] ELSE lane[m][u]][t]
                            ELSE new[m][t]]
    <2>1. Board!Save(m, hashes) /\ Board!Exit(m) /\ UNCHANGED <<card, knows>>
        BY <1>6 DEF Board!Finish, Board!board, Board!seen
    <2>2. hashes \in [Tickets -> Lanes \cup {None}]
        BY <1>0 DEF Board!TypeOK
    <2> QED BY <2>1, <2>2, SavedRight
<1>7. ASSUME NEW m \in Machines, Board!FindIndex(m) PROVE CacheInv'
    <2>1. /\ \A n \in Machines \ {m} : mine'[n] = mine[n]
          /\ UNCHANGED <<index, card>>
        BY <1>0, <1>7 DEF Board!FindIndex, Board!TypeOK, Board!board, Board!saved
    <2>2. CASE Board!Indexed(m) # None /\ mine'[m] = Board!Indexed(m) /\ knows' = knows
        <3>1. mine'[m] # None /\ mine'[m] = Own(m)
            BY <2>2 DEF Board!Indexed, Own
        <3>2. \A n \in Machines : Own(n)' = Own(n)
            BY <2>1, <3>1 DEF Own
        <3>3. \A n \in Machines : Covers(n)'
            BY <2>1, <3>1 DEF CacheInv, Covers, Own
        <3>4. ASSUME NEW t \in Tickets, NEW n \in knows[t] PROVE Right(n, t)'
            BY <1>0, <2>1, <3>2 DEF CacheInv, Right, Board!TypeOK
        <3> QED BY <2>2, <3>3, <3>4 DEF CacheInv
    <2>3. ASSUME Board!Indexed(m) = None
          PROVE  mine[m] = None /\ index[m] = Board!NoCards
        BY <1>0, <2>3, NoCardsIs, Board!CardAssumption DEF Board!Indexed, Board!TypeOK
    <2>4. CASE /\ Board!Indexed(m) = None /\ mine'[m] = card
               /\ \A t \in Tickets : knows'[t] = knows[t] \cup {m}
        <3>1. mine'[m] # None
            BY <1>0, <2>4, Board!CardAssumption DEF Board!TypeOK
        <3>2. \A n \in Machines : Covers(n)'
            BY <2>1, <2>3, <2>4 DEF CacheInv, Covers, Board!NoCards
        <3>3. ASSUME NEW t \in Tickets, NEW n \in knows'[t] PROVE Right(n, t)'
            <4>1. CASE n = m
                BY <2>1, <2>4, <3>1, <4>1 DEF Right, Own
            <4>2. CASE n # m
                <5>1. n \in Machines /\ Right(n, t)
                    BY <1>0, <2>4, <3>3, <4>2 DEF CacheInv, Board!TypeOK
                <5> QED BY <2>1, <4>2, <5>1 DEF Right, Own
            <4> QED BY <4>1, <4>2
        <3> QED BY <3>2, <3>3 DEF CacheInv
    <2>5. CASE Board!Indexed(m) = None /\ mine'[m] = Board!NoCards /\ knows' = knows
        <3>1. \A n \in Machines : Covers(n)'
            BY <2>1, <2>3, <2>5 DEF CacheInv, Covers, Board!NoCards
        <3>2. \A t \in Tickets, n \in Machines : Right(n, t) => Right(n, t)'
            BY <2>1, <2>3, <2>5, NoCardsIs, Board!CardAssumption DEF Right, Own,
               Board!NoCards
        <3> QED BY <1>0, <2>5, <3>1, <3>2 DEF CacheInv, Board!TypeOK
    <2> QED
        <3>1. ASSUME NEW i, mine' = [mine EXCEPT ![m] = i] PROVE mine'[m] = i
            BY <1>0, <3>1 DEF Board!TypeOK
        <3>2. \/ Board!Indexed(m) # None /\ mine'[m] = Board!Indexed(m) /\ knows' = knows
              \/ /\ Board!Indexed(m) = None /\ mine'[m] = card
                 /\ knows' = [t \in Tickets |-> knows[t] \cup {m}]
              \/ Board!Indexed(m) = None /\ mine'[m] = Board!NoCards /\ knows' = knows
            BY <1>7, <3>1 DEF Board!FindIndex
        <3> QED BY <2>2, <2>4, <2>5, <3>2
<1>8. ASSUME NEW m \in Machines, Board!AddCard(m) \/ Board!AddUnheard(m) PROVE CacheInv'
    <2>1. at[m] \in Tickets
        BY <1>0, <1>8 DEF Board!AddCard, Board!AddUnheard, Where
    <2>2. UNCHANGED <<mine, index, knows>>
        BY <1>8 DEF Board!AddCard, Board!AddUnheard, Board!saved, Board!seen
    <2>3. card' = card \/ card' = [card EXCEPT ![at[m]] = Board!Added(at[m])]
        BY <1>8 DEF Board!AddCard, Board!AddUnheard
    <2>4. \A t \in Tickets : card'[t] = card[t] \/ card[t] = None
        BY <1>0, <2>1, <2>3, AddedIs DEF Board!TypeOK, Board!Index
    <2> QED BY <2>2, <2>4, Untouched
<1>9. ASSUME NEW m \in Machines, Board!SetStatus(m) \/ Board!SetNothing(m) PROVE CacheInv'
    <2> DEFINE t == at[m]
    <2>1. /\ t \in Tickets /\ mine[m] # None /\ item[m] \in Nat
          /\ mine' = [mine EXCEPT ![m][t] = Board!Placed(m)] /\ UNCHANGED index
        BY <1>0, <1>9 DEF Board!SetStatus, Board!SetNothing, Where, Board!saved
    <2>2. Board!Placed(m) \in Board!Card
        BY <1>0, <2>1 DEF Board!Placed, Board!Card, Board!TypeOK
    <2>3. \/ card' = [card EXCEPT ![t] = Board!Placed(m)] /\ knows' = [knows EXCEPT ![t] = {m}]
          \/ UNCHANGED card /\ knows' = [knows EXCEPT ![t] = @ \ {m}]
        BY <1>9 DEF Board!SetStatus, Board!SetNothing, Board!board
    <2>4. /\ \A u \in Tickets \ {t} : card'[u] = card[u] /\ knows'[u] = knows[u]
          /\ \/ card'[t] = Board!Placed(m) /\ knows'[t] = {m}
             \/ card'[t] = card[t] /\ knows'[t] = knows[t] \ {m}
        BY <1>0, <2>1, <2>3 DEF Board!TypeOK, Board!Index
    <2> QED BY <2>1, <2>2, <2>4, EntryRight
<1>10. ASSUME NEW m \in Machines, Board!WriteFails(m) PROVE CacheInv'
    <2> DEFINE t == at[m]
    <2>1. /\ t \in Tickets /\ mine[m] # None /\ mine[m] \in Board!Index /\ index[m] \in Board!Index
          /\ mine' = [mine EXCEPT ![m][t] = None] /\ index' = [index EXCEPT ![m][t] = None]
          /\ UNCHANGED <<card, knows>>
        BY <1>0, <1>10 DEF Board!WriteFails, Board!Writes, Where, Board!Invalidate,
           Board!TypeOK, Board!board, Board!seen
    <2>2. /\ \A n \in Machines \ {m} : mine'[n] = mine[n] /\ index'[n] = index[n]
          /\ mine'[m] = [mine[m] EXCEPT ![t] = None]
          /\ index'[m] = [index[m] EXCEPT ![t] = None]
        BY <1>0, <2>1 DEF Board!TypeOK
    <2>3. /\ mine'[m][t] = None /\ index'[m][t] = None
          /\ \A u \in Tickets \ {t} : mine'[m][u] = mine[m][u] /\ index'[m][u] = index[m][u]
          /\ mine'[m] \in Board!Index
        BY <2>1, <2>2 DEF Board!Index
    <2>4. mine'[m] # None
        BY <2>3, Board!CardAssumption
    <2>5. \A n \in Machines : Covers(n)'
        BY <2>1, <2>2, <2>3 DEF CacheInv, Covers
    <2>6. \A u \in Tickets, n \in Machines : Right(n, u) => Right(n, u)'
        BY <2>1, <2>2, <2>3, <2>4 DEF Right, Own
    <2> QED BY <1>0, <2>1, <2>5, <2>6 DEF CacheInv, Board!TypeOK
<1> QED
    BY <1>1, <1>2, <1>3, <1>4, <1>5, <1>6, <1>7, <1>8, <1>9, <1>10 DEF Board!Next,
       Board!Step

LEMMA CacheAlways ==
    ASSUME Board!CardAssumption, Board!BoardIndexAssumption
    PROVE  Board!Spec => [](BoardInv /\ CacheInv)
<1>1. Board!Init => BoardInv /\ CacheInv
    BY BoardInit, CacheInit
<1>2. BoardInv /\ [Board!Next]_Board!vars => BoardInv'
    BY BoardStep
<1>3. BoardInv /\ CacheInv /\ [Board!Next]_Board!vars => CacheInv'
    BY CacheStep
<1> QED
    BY <1>1, <1>2, <1>3, PTL DEF Board!Spec

\* The caches, the passes that fill them and what the board is taken for keep their
\* types, whatever fails, is killed or is answered with nothing (_project_ctx,
\* _board_index, _persist_state).
THEOREM BoardTypes ==
    ASSUME Board!CardAssumption, Board!BoardIndexAssumption
    PROVE  Board!Spec => []Board!TypeOK
<1>1. Board!Spec => [](BoardInv /\ CacheInv)
    BY CacheAlways
<1>2. BoardInv => Board!TypeOK
    BY DEF BoardInv
<1> QED
    BY <1>1, <1>2, PTL

\* On any number of machines: a push that leaves alone a card which its machine wrote
\* last, or has read since, finds it in the ticket's lane or without a column
\* (_board_write).
THEOREM SkipsAreRight ==
    ASSUME Board!CardAssumption, Board!BoardIndexAssumption
    PROVE  Board!Spec => Board!KnownCardsAreRight
<1>1. BoardInv /\ CacheInv => \A m \in Machines :
        LET t == at[m]
        IN Board!SkipCard(m) /\ m \in knows[t]
             => card[t] # None /\ card[t].status \in {None, lane[m][t]}
    <2> SUFFICES ASSUME BoardInv, CacheInv, NEW m \in Machines,
                        Board!SkipCard(m), m \in knows[at[m]]
                 PROVE  card[at[m]] # None /\ card[at[m]].status \in {None, lane[m][at[m]]}
        OBVIOUS
    <2>1. /\ at[m] \in Tickets /\ mine[m] # None
          /\ mine[m][at[m]] # None /\ mine[m][at[m]].status = lane[m][at[m]]
        BY DEF Board!SkipCard, BoardInv, Where
    <2>2. Right(m, at[m]) /\ Own(m) = mine[m]
        BY <2>1 DEF CacheInv, Own
    <2> QED BY <2>1, <2>2 DEF Right
<1>2. Board!Spec => [](BoardInv /\ CacheInv)
    BY CacheAlways
<1> QED
    BY <1>1, <1>2, PTL DEF Board!KnownCardsAreRight
=============================================================================
