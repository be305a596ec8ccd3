----------------------------- MODULE WatchTick ------------------------------
(***************************************************************************)
(* One machine's watcher (tools/adt_watch.py): every minute launchd starts *)
(* a process that decides whether to run a pass at all.  Quiet passes make *)
(* it wait longer and longer; a ticket file written in the meantime makes  *)
(* it run at once; a taken lock or a nearly empty quota makes it let the   *)
(* minute go by.                                                           *)
(*                                                                         *)
(* The fingerprint that tells a written file is the newest mtime in the    *)
(* cache.  Writing a file makes its mtime the newest, renaming one leaves  *)
(* every mtime as it was, so "the fingerprint differs from the saved one"  *)
(* is "some ticket file was written since": variable touched.              *)
(***************************************************************************)
EXTENDS Naturals, FiniteSets

CONSTANTS
    Tickets,
    Grace,      \* QUIET_GRACE: quiet passes before the watcher waits
    Base,       \* BACKOFF_BASE, in minutes
    Cap,        \* BACKOFF_CAP, in minutes
    MaxShift,   \* BACKOFF_MAX_SHIFT
    MaxExp,     \* the largest exponent a float survives
    QuietTop,   \* bound: quiet passes are counted up to here
    AgeTop,     \* bound: minutes a change waits are counted up to here
    Limit       \* bound: how often each kind of event happens

Kinds == {"edit", "move", "remote", "obstacle", "kill"}

ASSUME WatchTickAssumption ==
    /\ Grace \in Nat /\ Base \in Nat \ {0} /\ Cap \in Nat \ {0}
    /\ MaxShift \in Nat /\ MaxExp \in Nat /\ MaxShift <= MaxExp
    /\ QuietTop \in Nat /\ AgeTop \in Nat
    /\ Limit \in [Kinds -> Nat]

\* Arithmetic, said in so many words for the provers, which know nothing of ^.
ASSUME PowerAssumption == \A n \in 0 .. MaxShift : 2 ^ n \in Nat

VARIABLES
    work,     \* work[t]: local work on t that GitHub has not got: "none",
              \* "moved" (the folder changed, the frontmatter not) or "edited"
    age,      \* age[t]: minutes that work has waited
    remote,   \* a ticket was changed on GitHub since the last pull
    lag,      \* minutes that change has waited
    touched,  \* the cache's fingerprint differs from the saved one
    quiet,    \* watch.quiet in the sidecar
    wait,     \* watch.next_due in the sidecar, in minutes from now
    pc,       \* "idle", "pass" (reconcile_all is running), "render"
    batch,    \* the changed tickets the running pass has listed
    ran,      \* this minute's process has run or is running
    used      \* used[k]: how many events of kind k happened

vars == <<work, age, remote, lag, touched, quiet, wait, pc, batch, ran, used>>

TypeOK ==
    /\ work \in [Tickets -> {"none", "moved", "edited"}]
    /\ age \in [Tickets -> 0 .. AgeTop]
    /\ remote \in BOOLEAN
    /\ lag \in 0 .. AgeTop
    /\ touched \in BOOLEAN
    /\ quiet \in 0 .. QuietTop
    /\ wait \in 0 .. Cap
    /\ pc \in {"idle", "pass", "render"}
    /\ batch \in SUBSET Tickets
    /\ ran \in BOOLEAN
    /\ used \in [Kinds -> Nat]

\* No state saved yet: an empty fingerprint differs from any.
Init ==
    /\ work = [t \in Tickets |-> "none"]
    /\ age = [t \in Tickets |-> 0]
    /\ remote = FALSE
    /\ lag = 0
    /\ touched = TRUE
    /\ quiet = 0
    /\ wait = 0
    /\ pc = "idle"
    /\ batch = {}
    /\ ran = FALSE
    /\ used = [k \in Kinds |-> 0]

Spend(k) == /\ used[k] < Limit[k]
            /\ used' = [used EXCEPT ![k] = @ + 1]

Smaller(a, b) == IF a < b THEN a ELSE b

-----------------------------------------------------------------------------
(* Sessions, other machines, the clock. *)

\* A listed file is left alone here while its pass runs: AdtSync has that race.
SessionMayAct(t) == pc = "pass" => t \notin batch

Edit(t) ==
    /\ SessionMayAct(t)
    /\ Spend("edit")
    /\ work' = [work EXCEPT ![t] = IF @ = "moved" THEN @ ELSE "edited"]
    /\ touched' = TRUE
    /\ UNCHANGED <<age, remote, lag, quiet, wait, pc, batch, ran>>

\* `mv` between lane folders, which is all it takes to change a status.
Move(t) ==
    /\ SessionMayAct(t)
    /\ Spend("move")
    /\ work' = [work EXCEPT ![t] = "moved"]
    /\ UNCHANGED <<age, remote, lag, touched, quiet, wait, pc, batch, ran>>

RemoteChange ==
    /\ pc = "idle" /\ ~remote
    /\ Spend("remote")
    /\ remote' = TRUE
    /\ UNCHANGED <<work, age, lag, touched, quiet, wait, pc, batch, ran>>

\* A minute goes by and launchd starts the next process.
Minute ==
    /\ pc = "idle" /\ ran
    /\ ran' = FALSE
    /\ wait' = IF wait = 0 THEN 0 ELSE wait - 1
    /\ age' = [t \in Tickets |-> IF work[t] = "none" THEN 0
                                 ELSE Smaller(age[t] + 1, AgeTop)]
    /\ lag' = IF remote THEN Smaller(lag + 1, AgeTop) ELSE 0
    /\ UNCHANGED <<work, remote, touched, quiet, pc, batch, used>>

-----------------------------------------------------------------------------
(* One process of the watcher: watch(once=True). *)

\* A bug: a changed file only lifts the wait, and is required to run (ADT-149).
SkippingUnlessTouched == ~touched

\* Gate 1: not due, and nothing written since the last pass.
Skipping == wait > 0 /\ ~touched

Skip ==
    /\ pc = "idle" /\ ~ran /\ Skipping
    /\ ran' = TRUE
    /\ UNCHANGED <<work, age, remote, lag, touched, quiet, wait, pc, batch, used>>

\* Gate 3: another pass holds the lock.
Contended ==
    /\ pc = "idle" /\ ~ran /\ ~Skipping
    /\ Spend("obstacle")
    /\ ran' = TRUE
    /\ UNCHANGED <<work, age, remote, lag, touched, quiet, wait, pc, batch>>

\* What is left to push after a render put the folder into the frontmatter.
Rendered == [t \in Tickets |-> IF work[t] = "moved" THEN "edited" ELSE work[t]]

\* Gate 2: a pool is under its floor.  No sync, nothing saved, but a render.
Breached ==
    /\ pc = "idle" /\ ~ran /\ ~Skipping
    /\ Spend("obstacle")
    /\ pc' = "render"
    /\ ran' = TRUE
    /\ UNCHANGED <<work, age, remote, lag, touched, quiet, wait, batch>>

\* The pass starts and lists the cache.  A file whose frontmatter lags behind
\* its folder is pushed as it reads, which changes nothing.
Begin ==
    /\ pc = "idle" /\ ~ran /\ ~Skipping
    /\ pc' = "pass"
    /\ ran' = TRUE
    /\ batch' = {t \in Tickets : work[t] = "edited"}
    /\ UNCHANGED <<work, age, remote, lag, touched, quiet, wait, used>>

\* A bug: only the product is bounded, not the exponent.
ExponentUnclamped(q) == q - Grace

\* The doublings after q quiet passes.
Exponent(q) == Smaller(q - Grace, MaxShift)

\* _backoff_due: minutes until the next pass is due.
Backoff(q) == IF q < Grace THEN 0 ELSE Smaller(Base * 2 ^ Exponent(q), Cap)

\* The exponent leaves float range: OverflowError ends the process.
Overflows(q) == q >= Grace /\ Exponent(q) > MaxExp

\* _save_watch_state: the fingerprint is read again, after the pass's own writes
\* and whatever a session wrote since the listing.
SaveState(q) ==
    /\ quiet' = q
    /\ wait' = Backoff(q)
    /\ touched' = FALSE

\* The pass pushed and pulled; the process saves, or dies over the overflow.
Finish ==
    LET moved == batch # {} \/ remote
        q == IF moved THEN 0 ELSE Smaller(quiet + 1, QuietTop)
    IN /\ pc = "pass"
       /\ work' = [t \in Tickets |-> IF t \in batch THEN "none" ELSE work[t]]
       /\ age' = [t \in Tickets |-> IF t \in batch THEN 0 ELSE age[t]]
       /\ remote' = FALSE
       /\ lag' = 0
       /\ batch' = {}
       /\ IF Overflows(q)
          THEN pc' = "idle" /\ UNCHANGED <<quiet, wait, touched>>
          ELSE pc' = "render" /\ SaveState(q)
       /\ UNCHANGED <<ran, used>>

\* reconcile_all failed half way or at once, which counts as movement.
Fail ==
    /\ pc = "pass"
    /\ Spend("obstacle")
    /\ quiet' = 0
    /\ wait' = 0
    /\ touched' = FALSE
    /\ batch' = {}
    /\ pc' = "render"
    /\ UNCHANGED <<work, age, remote, lag, ran>>

\* The process is killed.
Die ==
    /\ pc # "idle"
    /\ Spend("kill")
    /\ pc' = "idle"
    /\ batch' = {}
    /\ UNCHANGED <<work, age, remote, lag, touched, quiet, wait, ran>>

\* A bug: the summary the render writes into the cache counts as a ticket.
RenderCounted ==
    /\ pc = "render"
    /\ work' = Rendered
    /\ touched' = TRUE
    /\ pc' = "idle"
    /\ UNCHANGED <<age, remote, lag, quiet, wait, batch, ran, used>>

\* The render rewrites the frontmatter of moved files, after the fingerprint.
Render ==
    /\ pc = "render"
    /\ work' = Rendered
    /\ touched' = (touched \/ Rendered # work)
    /\ pc' = "idle"
    /\ UNCHANGED <<age, remote, lag, quiet, wait, batch, ran, used>>

-----------------------------------------------------------------------------
Process == Skip \/ Begin \/ Finish \/ Render

Next ==
    \/ Minute \/ RemoteChange \/ Process \/ Contended \/ Breached \/ Fail \/ Die
    \/ \E t \in Tickets : Edit(t) \/ Move(t)

Spec == Init /\ [][Next]_vars

\* Minutes go by and the process they start goes on.
FairSpec == Spec /\ WF_vars(Minute) /\ WF_vars(Process)

-----------------------------------------------------------------------------
\* Minutes a watcher may leave a change alone: the cap, another cap for every
\* process killed before it rendered, and the minutes that obstacles took.
Patience == Cap * (1 + used["kill"]) + used["obstacle"]

\* No remote change waits longer than that, and no local one, though an edit may
\* come too late for its pass and be taken into the saved fingerprint.  A move
\* costs one minute more, in which the next pass pushes what the render of the
\* first made visible (_backoff_due, gate 1).
NoChangeWaitsLong ==
    /\ \A t \in Tickets : age[t] <= Patience + used["move"]
    /\ lag <= Patience

\* Every change is pushed or pulled in the end, whatever the watcher skipped.
EveryChangeLands == <>[](~remote /\ \A t \in Tickets : work[t] = "none")

\* A board without changes goes quiet: what the passes write themselves does not
\* keep the watcher running every minute (_cache_fingerprint).
BoardGoesQuiet == []<><<Skip>>_vars

=============================================================================
