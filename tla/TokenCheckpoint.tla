-------------------------- MODULE TokenCheckpoint --------------------------
(***************************************************************************)
(* How the spend on one ticket reaches its Issue (tools/adt_sync.py,       *)
(* checkpoint_tokens, restamp_closed, checkpoint_stamp), on every machine  *)
(* that works on it.                                                       *)
(*                                                                         *)
(* A session appends to the ledger of its machine.  A pass posts the sum   *)
(* of the ledger as the machine's register, a comment on the Issue, and    *)
(* remembers in a cursor what it posted and where.  Whoever closes the     *)
(* ticket writes the total over all machines to its file, a pass corrects  *)
(* it while spend keeps coming in, and publishes it as a second comment,   *)
(* the stamp.                                                              *)
(*                                                                         *)
(* One unit of spend is a token and a micro-dollar.                        *)
(***************************************************************************)
EXTENDS Integers, Sequences, FiniteSets, SequencesExt

CONSTANTS
    Machines,
    Closers,    \* the machines on which a human closes tickets
    None,
    Gone,       \* what a human left of a deleted comment
    Drift,      \* CHECKPOINT_DRIFT
    MaxSpend,   \* bound: what is spent in all
    MaxFaults   \* bound: failing calls, kills, prunes and deletions

ASSUME TokenCheckpointAssumption ==
    /\ None \notin Nat /\ Gone \notin Nat /\ None # Gone
    /\ Drift \in Nat \ {0}
    /\ {MaxSpend, MaxFaults} \subseteq Nat
    /\ IsFiniteSet(Machines) /\ Closers \subseteq Machines

VARIABLES
    spent,      \* spent[m]: what sessions of m ever spent
    ledger,     \* ledger[m]: the sum of the rows its ledger still has
    done,       \* the machines whose file of the ticket is in the done lane
    window,     \* the ticket was closed less than RESTAMP_WINDOW_DAYS ago
    cost,       \* cost[m]: cost_usd in the file of m, or None
    registers,  \* the register comments by id, [machine, total] or Gone
    stamps,     \* the stamp comments by id, the cost or Gone
    cursor,     \* cursor[m]: [sum, id], token-checkpoint/<tix>
    restamped,  \* restamped[m]: restamp-cursor/<tix>, the sum of the ledger
    published,  \* published[m]: [cost, id], stamp-checkpoint/<tix>
    pc,         \* what the pass of m does next
    scan,       \* scan[m]: the ledger as the phase read it
    moved,      \* the machines whose pass changed the stage label
    target,     \* target[m]: the comment the running call writes or wrote
    pruned,     \* the machines whose ledger ever lost rows
    faults

world  == <<spent, ledger, done, window, pruned>>
issue  == <<registers, stamps>>
saved  == <<cost, cursor, restamped, published>>
pass   == <<pc, scan, moved, target>>
vars   == <<world, issue, saved, pass, faults>>

Larger(a, b) == IF a >= b THEN a ELSE b

\* The registers of m that are there.
Own(m) == {k \in DOMAIN registers :
               registers[k] # Gone /\ registers[k].machine = m}

\* A machine counts once, with the highest of its registers.
Reported(m) == Max({registers[k].total : k \in Own(m)} \cup {0})

\* A bug: a machine's own register is added to its ledger.
TotalTwice(m) == ledger[m] + SumFunction([o \in Machines |-> Reported(o)])

\* What adt-token-total.sh prints on m.
Total(m) == Larger(ledger[m], Reported(m))
            + SumFunction([o \in Machines \ {m} |-> Reported(o)])

\* Where the stored id does not lead to a comment (any more).
Missing(comments, id) == id = None \/ comments[id] = Gone

\* The first stamp comment there is (_find_comment).
Found == LET live == {k \in DOMAIN stamps : stamps[k] # Gone}
         IN IF live = {} THEN None ELSE Min(live)

Steps == {"idle", "tokens", "cursor", "restamp", "write", "stamp", "upsert", "save"}

TypeOK ==
    /\ spent \in [Machines -> 0 .. MaxSpend]
    /\ ledger \in [Machines -> 0 .. MaxSpend]
    /\ {done, moved, pruned} \subseteq SUBSET Machines
    /\ window \in BOOLEAN
    /\ cost \in [Machines -> Nat \cup {None}]
    /\ registers \in Seq([machine : Machines, total : Nat] \cup {Gone})
    /\ stamps \in Seq(Nat \cup {Gone})
    /\ cursor \in [Machines -> [sum : Nat, id : DOMAIN registers \cup {None}]]
    /\ restamped \in [Machines -> Nat]
    /\ published \in [Machines -> [cost : Nat \cup {None},
                                   id : DOMAIN stamps \cup {None}]]
    /\ pc \in [Machines -> Steps]
    /\ scan \in [Machines -> Nat]
    /\ target \in [Machines -> Nat \cup {None}]
    /\ faults \in 0 .. MaxFaults

Init ==
    /\ spent = [m \in Machines |-> 0] /\ ledger = spent
    /\ done = {} /\ window = TRUE
    /\ cost = [m \in Machines |-> None]
    /\ registers = <<>> /\ stamps = <<>>
    /\ cursor = [m \in Machines |-> [sum |-> 0, id |-> None]]
    /\ restamped = [m \in Machines |-> 0]
    /\ published = [m \in Machines |-> [cost |-> None, id |-> None]]
    /\ pc = [m \in Machines |-> "idle"]
    /\ scan = [m \in Machines |-> 0]
    /\ moved = {} /\ pruned = {}
    /\ target = [m \in Machines |-> None]
    /\ faults = 0

Fault == /\ faults < MaxFaults
         /\ faults' = faults + 1

\* The next call of a phase, and the next phase, which starts from nothing.
Goto(m, step) == pc' = [pc EXCEPT ![m] = step]
Enter(m, step) == /\ Goto(m, step)
                  /\ scan' = [scan EXCEPT ![m] = 0]
                  /\ moved' = moved \ {m}
                  /\ target' = [target EXCEPT ![m] = None]

-----------------------------------------------------------------------------
(* Sessions and people. *)

\* A turn on m is billed to the ticket, open or closed.
Spend(m) ==
    /\ SumFunction(spent) < MaxSpend
    /\ spent' = [spent EXCEPT ![m] = @ + 1]
    /\ ledger' = [ledger EXCEPT ![m] = @ + 1]
    /\ UNCHANGED <<done, window, pruned, issue, saved, pass, faults>>

\* /adt-close on m moves the file to done and writes the total known there.
Close(m) ==
    /\ m \in Closers \ done
    /\ done' = done \cup {m}
    /\ cost' = [cost EXCEPT ![m] = Total(m)]
    /\ UNCHANGED <<spent, ledger, window, pruned, issue, cursor, restamped,
                   published, pass, faults>>

\* The pull of m brings the done lane of a ticket closed elsewhere.
Relocated(m) ==
    /\ m \notin done /\ done # {} /\ pc[m] = "idle"
    /\ done' = done \cup {m}
    /\ UNCHANGED <<spent, ledger, window, pruned, issue, saved, pass, faults>>

\* Seven days are over.
Age ==
    /\ window /\ done # {}
    /\ window' = FALSE
    /\ UNCHANGED <<spent, ledger, done, pruned, issue, saved, pass, faults>>

\* The oldest rows of the ledger are deleted by hand.
Prune(m) ==
    /\ Fault
    /\ ledger[m] > 0
    /\ ledger' = [ledger EXCEPT ![m] = @ - 1]
    /\ pruned' = pruned \cup {m}
    /\ UNCHANGED <<spent, done, window, issue, saved, pass>>

\* A human deletes a comment on github.com.
DeleteComment ==
    /\ Fault
    /\ \/ \E k \in DOMAIN registers : registers' = [registers EXCEPT ![k] = Gone]
                                      /\ UNCHANGED stamps
       \/ \E k \in DOMAIN stamps : stamps' = [stamps EXCEPT ![k] = Gone]
                                   /\ UNCHANGED registers
    /\ UNCHANGED <<world, saved, pass>>

-----------------------------------------------------------------------------
(* The register of a machine (checkpoint_tokens). *)

\* The pushes are over; one of them may have changed the stage label.
Begin(m, label) ==
    /\ pc[m] = "idle"
    /\ label => m \notin done
    /\ Goto(m, "tokens")
    /\ scan' = [scan EXCEPT ![m] = ledger[m]]
    /\ moved' = IF label THEN moved \cup {m} ELSE moved \ {m}
    /\ UNCHANGED <<world, issue, saved, target, faults>>

Unposted(m) == scan[m] - cursor[m].sum

\* A bug: a closed ticket is only looked at when a lot was spent.
DueOpenOnly(m) == Unposted(m) > 0 /\ (m \in moved \/ Unposted(m) >= Drift)

\* There is something to post, and a reason to post it now.
Due(m) == Unposted(m) > 0 /\ (m \in moved \/ m \in done \/ Unposted(m) >= Drift)

\* The ledger shrank below the cursor: later deltas are measured from here.
Realign(m) ==
    /\ pc[m] = "tokens" /\ Unposted(m) < 0
    /\ cursor' = [cursor EXCEPT ![m].sum = scan[m]]
    /\ Enter(m, "restamp")
    /\ UNCHANGED <<world, issue, cost, restamped, published, faults>>

NotDue(m) ==
    /\ pc[m] = "tokens" /\ Unposted(m) >= 0 /\ ~Due(m)
    /\ Enter(m, "restamp")
    /\ UNCHANGED <<world, issue, saved, faults>>

\* The id of the comment that is written.
RegisterId(m) == IF Missing(registers, cursor[m].id)
                 THEN Len(registers) + 1 ELSE cursor[m].id

\* The registers once that of m says what the ledger held: the comment with the
\* stored id is rewritten, and posted when there is none (any more).
WithRegister(m) ==
    LET new == [machine |-> m, total |-> scan[m]]
    IN IF Missing(registers, cursor[m].id)
       THEN Append(registers, new)
       ELSE [registers EXCEPT ![cursor[m].id] = new]

Upsert(m) ==
    /\ pc[m] = "tokens" /\ Due(m)
    /\ registers' = WithRegister(m)
    /\ target' = [target EXCEPT ![m] = RegisterId(m)]
    /\ Goto(m, "cursor")
    /\ UNCHANGED <<world, stamps, saved, scan, moved, faults>>

\* The call fails for this ticket and the pass goes on, though the comment may have
\* been written, or the quota is gone and the phase ends.
UpsertFails(m) ==
    /\ pc[m] = "tokens" /\ Due(m)
    /\ Fault
    /\ \/ Enter(m, "restamp") /\ registers' \in {registers, WithRegister(m)}
       \/ Enter(m, "idle") /\ UNCHANGED registers
    /\ UNCHANGED <<world, stamps, saved>>

\* The cursor advances after the call.
SaveCursor(m) ==
    /\ pc[m] = "cursor"
    /\ cursor' = [cursor EXCEPT ![m] = [sum |-> scan[m], id |-> target[m]]]
    /\ Enter(m, "restamp")
    /\ UNCHANGED <<world, issue, cost, restamped, published, faults>>

-----------------------------------------------------------------------------
(* The correction of a closed ticket's cost (restamp_closed). *)

\* A bug: the cost is corrected once, when the closing turn is billed.
CorrectsOnce(m) ==
    /\ m \in done /\ cost[m] # None /\ window
    /\ ledger[m] > 0 /\ restamped[m] = 0

\* The ticket was closed here lately, and the ledger moved since the last time.
Corrects(m) ==
    /\ m \in done /\ cost[m] # None /\ window
    /\ ledger[m] > 0 /\ ledger[m] # restamped[m]

Leave(m) ==
    /\ pc[m] = "restamp" /\ ~Corrects(m)
    /\ Enter(m, "stamp")
    /\ UNCHANGED <<world, issue, saved, faults>>

Rescan(m) ==
    /\ pc[m] = "restamp" /\ Corrects(m)
    /\ scan' = [scan EXCEPT ![m] = ledger[m]]
    /\ Goto(m, "write")
    /\ UNCHANGED <<world, issue, saved, moved, target, faults>>

\* The total over all machines goes to the file, the scanned sum to the cursor.
Restamp(m) ==
    /\ pc[m] = "write"
    /\ cost' = [cost EXCEPT ![m] = Total(m)]
    /\ restamped' = [restamped EXCEPT ![m] = scan[m]]
    /\ Enter(m, "stamp")
    /\ UNCHANGED <<world, issue, cursor, published, faults>>

\* The registers cannot be read: the stamp and the cursor stay as they are.
Degraded(m) ==
    /\ pc[m] = "write"
    /\ Fault
    /\ Enter(m, "stamp")
    /\ UNCHANGED <<world, issue, saved>>

-----------------------------------------------------------------------------
(* The stamp comment (checkpoint_stamp). *)

Publishes(m) == cost[m] # None /\ published[m].cost # cost[m]

UpToDate(m) ==
    /\ pc[m] = "stamp" /\ ~Publishes(m)
    /\ Enter(m, "idle")
    /\ UNCHANGED <<world, issue, saved, faults>>

\* A bug: a comment whose id is not stored is not looked for (before ADT-354).
KnownOnly(m) == published[m].id

\* The comment to write: the stored one, or the one found by its marker.
StampComment(m) == IF published[m].id # None THEN published[m].id ELSE Found

LookUp(m) ==
    /\ pc[m] = "stamp" /\ Publishes(m)
    /\ target' = [target EXCEPT ![m] = StampComment(m)]
    /\ Goto(m, "upsert")
    /\ UNCHANGED <<world, issue, saved, scan, moved, faults>>

WithStamp(m) ==
    IF Missing(stamps, target[m]) THEN Append(stamps, cost[m])
                                  ELSE [stamps EXCEPT ![target[m]] = cost[m]]

Publish(m) ==
    /\ pc[m] = "upsert"
    /\ stamps' = WithStamp(m)
    /\ target' = [target EXCEPT ![m] = IF Missing(stamps, @)
                                       THEN Len(stamps) + 1 ELSE @]
    /\ Goto(m, "save")
    /\ UNCHANGED <<world, registers, saved, scan, moved, faults>>

PublishFails(m) ==
    /\ pc[m] = "upsert"
    /\ Fault
    /\ stamps' \in {stamps, WithStamp(m)}
    /\ Enter(m, "idle")
    /\ UNCHANGED <<world, registers, saved>>

SavePublished(m) ==
    /\ pc[m] = "save"
    /\ published' = [published EXCEPT ![m] = [cost |-> cost[m], id |-> target[m]]]
    /\ Enter(m, "idle")
    /\ UNCHANGED <<world, issue, cost, cursor, restamped, faults>>

\* A killed process leaves a file it was writing as it was, or written, or empty,
\* which says nothing (_read_cursor).
Torn(f, m, left, writing) ==
    {f} \cup IF writing THEN {[f EXCEPT ![m] = left]} ELSE {}

Kill(m) ==
    /\ pc[m] # "idle"
    /\ Fault
    /\ cursor' \in Torn(cursor, m, [sum |-> 0, id |-> None],
                        \/ pc[m] = "cursor"
                        \/ pc[m] = "tokens" /\ Unposted(m) < 0)
    /\ cost' \in Torn(cost, m, Total(m), pc[m] = "write")
    /\ restamped' \in Torn(restamped, m, 0, pc[m] = "write" /\ cost'[m] = Total(m))
    /\ published' \in Torn(published, m, [cost |-> None, id |-> None],
                           pc[m] = "save")
    /\ Enter(m, "idle")
    /\ UNCHANGED <<world, issue>>

-----------------------------------------------------------------------------
Pass(m) == \/ \E label \in BOOLEAN : Begin(m, label)
           \/ Realign(m) \/ NotDue(m) \/ Upsert(m) \/ SaveCursor(m)
           \/ Leave(m) \/ Rescan(m) \/ Restamp(m)
           \/ UpToDate(m) \/ LookUp(m) \/ Publish(m) \/ SavePublished(m)

Mishap(m) == UpsertFails(m) \/ Degraded(m) \/ PublishFails(m) \/ Kill(m) \/ Prune(m)

People(m) == Spend(m) \/ Close(m) \/ Relocated(m)

Next == \/ Age \/ DeleteComment
        \/ \E m \in Machines : Pass(m) \/ Mishap(m) \/ People(m)

Spec == Init /\ [][Next]_vars

\* The timer of a machine starts passes again and again, its pull brings the lane.
FairSpec == Spec /\ \A m \in Machines : WF_vars(Pass(m)) /\ WF_vars(Relocated(m))

-----------------------------------------------------------------------------
\* No reader ever sees more than was spent, on any machine: what a pass posts twice,
\* or posts and forgets, is counted once ("exact, never double-counted", cost.md).
NeverOverstated ==
    /\ \A m \in Machines : Total(m) <= SumFunction(spent)
    /\ \A m \in Machines : cost[m] # None => cost[m] <= SumFunction(spent)
    /\ \A k \in DOMAIN stamps : stamps[k] # Gone => stamps[k] <= SumFunction(spent)

\* A ticket has no more stamp comments than machines that closed it, however often
\* a pass was killed before it noted the comment it posted.  Where a human deleted
\* the comment a pass knows, it posts another one without looking.
StampIsFound ==
    Gone \notin Range(stamps) =>
        Len(stamps) <= Cardinality({m \in Machines : cost[m] # None})

\* Once the ticket is done a machine reports everything it spent, in the end.
EverythingReported ==
    \A m \in Machines :
        <>[](m \in done => Reported(m) >= ledger[m] \/ Gone \in Range(registers))

\* While it is corrected, the stamp of a closed ticket comes to include all that the
\* closing machine spent, the closing turn too, and to be on the Issue, unless
\* somebody cut the ledger or deleted a comment: what comes back to an earlier
\* value looks as if it had not moved.
StampSettles ==
    LET Settled(m) == /\ cost[m] >= ledger[m]
                      /\ published[m].cost = cost[m]
                      /\ stamps[published[m].id] = cost[m]
        Cut(m) == m \in pruned \/ Gone \in Range(registers)
                               \/ Gone \in Range(stamps)
    IN \A m \in Closers : <>[](cost[m] # None /\ window => Settled(m) \/ Cut(m))
=============================================================================
