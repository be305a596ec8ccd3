------------------------------ MODULE PassLock ------------------------------
(***************************************************************************)
(* The passes of one machine and the lock that serialises them: watcher    *)
(* ticks, runs of the adt_sync command line and of the legacy migrator,    *)
(* all against one cache (tools/adt_sync.py, pass_lock).  A pass creates   *)
(* the Issue of every ticket that has none, writes the number back into    *)
(* the ticket's file and ends by replacing the sidecar of hashes.          *)
(*                                                                         *)
(* Only what overlapping passes can spoil is kept: which tickets carry an  *)
(* Issue number, how many Issues were created for each, and which hashes   *)
(* the sidecar records.  AdtSync models what one pass does to content.     *)
(***************************************************************************)
EXTENDS Naturals

CONSTANTS
    Passes,     \* processes that run a pass
    Tickets,    \* tickets filed in the cache, at first without an Issue
    Nobody,     \* the lock is free, or no ticket
    Accidents,  \* which accidents occur: "kill", "error"
    MaxFaults   \* how many accidents occur at most

ASSUME PassLockAssumption ==
    /\ Nobody \notin Passes \cup Tickets
    /\ Accidents \subseteq {"kill", "error"}
    /\ MaxFaults \in Nat

VARIABLES
    flock,    \* whether flock works on the cache directory; never changes
    held,     \* the pass that holds .adt-sync.lock, or Nobody
    pc,       \* pc[p]: where pass p is
    todo,     \* todo[p]: the tickets p still has to push
    seen,     \* seen[p]: the tickets that carried a number when p listed them
    at,       \* at[p]: the ticket p is creating an Issue for
    new,      \* new[p]: new_state, the tickets p knows a hash of
    bound,    \* the tickets whose file carries an Issue number
    hashed,   \* the tickets the sidecar has a hash of
    issues,   \* issues[t]: how many Issues exist for t
    faults    \* accidents so far

local == <<todo, seen, at, new>>
disk  == <<bound, hashed>>
vars  == <<flock, held, pc, local, disk, issues, faults>>

TypeOK ==
    /\ flock \in BOOLEAN
    /\ held \in Passes \cup {Nobody}
    /\ pc \in [Passes -> {"out", "load", "push", "created"}]
    /\ todo \in [Passes -> SUBSET Tickets]
    /\ seen \in [Passes -> SUBSET Tickets]
    /\ at \in [Passes -> Tickets \cup {Nobody}]
    /\ new \in [Passes -> SUBSET Tickets]
    /\ bound \in SUBSET Tickets
    /\ hashed \in SUBSET Tickets
    /\ issues \in [Tickets -> Nat]
    /\ faults \in Nat

Init ==
    /\ flock \in BOOLEAN
    /\ held = Nobody
    /\ pc = [p \in Passes |-> "out"]
    /\ todo = [p \in Passes |-> {}]
    /\ seen = [p \in Passes |-> {}]
    /\ at = [p \in Passes |-> Nobody]
    /\ new = [p \in Passes |-> {}]
    /\ bound = {}
    /\ hashed = {}
    /\ issues = [t \in Tickets |-> 0]
    /\ faults = 0

-----------------------------------------------------------------------------
\* A bug: contention reads like any other failure and fails open, too.
TakesAnyway(p) == held' = IF flock /\ held = Nobody THEN p ELSE held

\* pass_lock yields True: p is the only holder, or locking does not work here
\* and the pass fails open.  Contention lets the tick go by and changes nothing.
Owns(p) == /\ flock => held = Nobody
           /\ held' = IF flock THEN p ELSE held

\* The descriptor is closed, by the `finally` or by the kernel.
Release(p) == held' = IF held = p THEN Nobody ELSE held

Begin(p) ==
    /\ pc[p] = "out"
    /\ Owns(p)
    /\ pc' = [pc EXCEPT ![p] = "load"]
    /\ UNCHANGED <<flock, local, disk, issues, faults>>

\* The sidecar and the cache are read; unchanged tickets will be skipped.
Load(p) ==
    /\ pc[p] = "load"
    /\ new' = [new EXCEPT ![p] = hashed]
    /\ seen' = [seen EXCEPT ![p] = bound]
    /\ todo' = [todo EXCEPT ![p] = Tickets \ hashed]
    /\ pc' = [pc EXCEPT ![p] = "push"]
    /\ UNCHANGED <<flock, held, at, disk, issues, faults>>

\* A listed ticket without a number: `gh issue create`.
Create(p, t) ==
    /\ pc[p] = "push" /\ t \in todo[p] \ seen[p]
    /\ issues' = [issues EXCEPT ![t] = @ + 1]
    /\ at' = [at EXCEPT ![p] = t]
    /\ pc' = [pc EXCEPT ![p] = "created"]
    /\ UNCHANGED <<flock, held, todo, seen, new, disk, faults>>

\* The node lookup succeeded: the number is written back and the hash noted.
Bind(p) ==
    /\ pc[p] = "created"
    /\ bound' = bound \cup {at[p]}
    /\ new' = [new EXCEPT ![p] = @ \cup {at[p]}]
    /\ todo' = [todo EXCEPT ![p] = @ \ {at[p]}]
    /\ at' = [at EXCEPT ![p] = Nobody]
    /\ pc' = [pc EXCEPT ![p] = "push"]
    /\ UNCHANGED <<flock, held, seen, hashed, issues, faults>>

\* A listed ticket with a number is updated in place.
Update(p, t) ==
    /\ pc[p] = "push" /\ t \in todo[p] \cap seen[p]
    /\ new' = [new EXCEPT ![p] = @ \cup {t}]
    /\ todo' = [todo EXCEPT ![p] = @ \ {t}]
    /\ UNCHANGED <<flock, held, pc, seen, at, disk, issues, faults>>

\* The node lookup failed: the Issue exists, its number is forgotten.
LookupError(p) ==
    /\ "error" \in Accidents /\ faults < MaxFaults
    /\ pc[p] = "created"
    /\ new' = [new EXCEPT ![p] = @ \ {at[p]}]
    /\ todo' = [todo EXCEPT ![p] = @ \ {at[p]}]
    /\ at' = [at EXCEPT ![p] = Nobody]
    /\ pc' = [pc EXCEPT ![p] = "push"]
    /\ faults' = faults + 1
    /\ UNCHANGED <<flock, held, seen, disk, issues>>

\* A bug: only the hashes this pass pushed are written.
SaveOwnOnly(p) ==
    /\ pc[p] = "push" /\ todo[p] = {}
    /\ hashed' = new[p] \ seen[p]
    /\ pc' = [pc EXCEPT ![p] = "out"]
    /\ Release(p)
    /\ UNCHANGED <<flock, local, bound, issues, faults>>

\* The sidecar's file_hashes are replaced wholesale, the lock is released.
Save(p) ==
    /\ pc[p] = "push" /\ todo[p] = {}
    /\ hashed' = new[p]
    /\ pc' = [pc EXCEPT ![p] = "out"]
    /\ Release(p)
    /\ UNCHANGED <<flock, local, bound, issues, faults>>

\* A bug: the lock outlives the process that held it.
KillWedges(p) ==
    /\ "kill" \in Accidents /\ faults < MaxFaults
    /\ pc[p] # "out"
    /\ pc' = [pc EXCEPT ![p] = "out"]
    /\ at' = [at EXCEPT ![p] = Nobody]
    /\ faults' = faults + 1
    /\ UNCHANGED <<flock, held, todo, seen, new, disk, issues>>

\* kill -9 anywhere in the pass.
Kill(p) ==
    /\ "kill" \in Accidents /\ faults < MaxFaults
    /\ pc[p] # "out"
    /\ pc' = [pc EXCEPT ![p] = "out"]
    /\ at' = [at EXCEPT ![p] = Nobody]
    /\ faults' = faults + 1
    /\ Release(p)
    /\ UNCHANGED <<flock, todo, seen, new, disk, issues>>

Step(p) == \/ Begin(p) \/ Load(p) \/ Bind(p) \/ Save(p)
           \/ \E t \in Tickets : Create(p, t) \/ Update(p, t)

Next == \E p \in Passes : Step(p) \/ LookupError(p) \/ Kill(p)

Spec == Init /\ [][Next]_vars

\* The timer starts the watcher's pass again and again, and a pass that is not
\* killed ends.  Nothing is assumed of any single process: one that always
\* finds the lock taken may wait for ever.
FairSpec == Spec /\ WF_vars(\E p \in Passes : Step(p))

-----------------------------------------------------------------------------
InPass(p) == pc[p] # "out"

\* Two passes never run at once where flock works (pass_lock).
OnePassAtATime ==
    flock => \A p, q \in Passes : InPass(p) /\ InPass(q) => p = q

\* The lock is only ever held by a running pass: a killed one leaves nothing
\* behind that a timeout or a human would have to clear.
NoWedgedLock == held # Nobody => InPass(held)

\* Where flock works, overlapping attempts never turn one ticket into two
\* Issues: only an accident between an Issue's creation and its number's
\* write-back does, and each costs one surplus Issue at most.
SurplusIsAccidental == flock => \A t \in Tickets : issues[t] <= 1 + faults

\* Where flock works, a pass never discards a hash that another pass recorded
\* (_persist_state replaces them all).
HashesKept == [][flock => hashed \subseteq hashed']_vars

\* A file carries a number only if its Issue exists, and a hash only if it
\* carries a number: no accident makes the sidecar skip an unborn Issue.
HashedIsBound ==
    /\ hashed \subseteq bound
    /\ \A t \in bound : issues[t] >= 1

\* Every ticket gets an Issue and its number, whichever way the lock behaves: a
\* lost race defers the work, a broken lock never stops it, and no accident makes
\* the sidecar skip a ticket that has none.
EveryTicketSynced ==
    <>[](/\ hashed = Tickets /\ bound = Tickets
         /\ \A t \in Tickets : issues[t] >= 1)
=============================================================================
