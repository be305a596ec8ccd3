------------------------------- MODULE Mirror -------------------------------
(***************************************************************************)
(* What a pull promises, whatever it asks GitHub for.  An Issue whose      *)
(* changes the cache lacks is pending.  An Issue is acknowledged when the  *)
(* next request for changes will not return it.  Only an Issue that the    *)
(* cache has may be acknowledged, or one that is left to the sweep, and    *)
(* every pending Issue is absorbed in the end.  A pull that lists every    *)
(* Issue acknowledges none and implements this trivially.  PullWatermark   *)
(* shows that one which asks for changes since a watermark, and puts some  *)
(* Issues off, does so as well.                                            *)
(***************************************************************************)
CONSTANT Issues

VARIABLES
    pending,    \* the Issues whose cache file is missing or outdated
    acked,      \* the acknowledged Issues
    excused     \* the Issues that may have to wait for the sweep

vars == <<pending, acked, excused>>

Init == pending = {} /\ acked = {} /\ excused = {}

\* Whatever left i to the sweep may be over.
MayRecall(i) == excused' \in {excused, excused \ {i}}

\* An Issue is created or changed: the next request returns it.
Change(i) == /\ pending' = pending \cup {i}
             /\ acked' = acked \ {i}
             /\ MayRecall(i)

\* It changes while a list is fetched, and may be passed over.
Slip(i) == /\ pending' = pending \cup {i}
           /\ acked' = acked \ {i}
           /\ excused' = excused \cup {i}

\* Its file is deleted, of which GitHub knows nothing.
Lose(i) == /\ pending' = pending \cup {i}
           /\ excused' = excused \cup {i}
           /\ UNCHANGED acked

\* The pull brings the cache file of i up to date.
Absorb(i) == /\ i \in pending
             /\ pending' = pending \ {i}
             /\ MayRecall(i)
             /\ UNCHANGED acked

\* The pull writes a file of i once more, or one that is outdated again already, which
\* the next request is to return.
Rewrite(i) == /\ i \in pending => i \notin acked
              /\ excused' = excused \ {i}
              /\ UNCHANGED <<pending, acked>>

\* The pull saves what it has seen: what it passes over from now on it has absorbed.
Ack == /\ acked' \in SUBSET Issues
       /\ acked' \cap pending \subseteq excused
       /\ UNCHANGED <<pending, excused>>

Next == \/ Ack
        \/ \E i \in Issues : Change(i) \/ Slip(i) \/ Lose(i) \/ Absorb(i) \/ Rewrite(i)

Safety == Init /\ [][Next]_vars

Spec == Safety /\ \A i \in Issues : WF_vars(Absorb(i))
=============================================================================
