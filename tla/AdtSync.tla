------------------------------ MODULE AdtSync ------------------------------
(***************************************************************************)
(* The backlog sync of tools/adt_sync.py and the render that follows it in *)
(* tools/adt_watch.py: on every machine a cache of ticket files, shared by *)
(* the sessions of that machine, and one GitHub Issue per ticket that the  *)
(* machines meet at.  A pass lists the cache, pushes what changed since    *)
(* the last push, pulls lane moves back, saves the sidecar of hashes and   *)
(* renders the board, which rewrites frontmatter from folders.             *)
(*                                                                         *)
(* Every step of a pass that touches a file or GitHub is an action of its  *)
(* own; sessions, github.com users, other machines, failing calls and      *)
(* killed processes act between them.  All tickets share one slug, so a    *)
(* ticket's path in a cache is the lane folder it lies in: tickets with    *)
(* different slugs have no path in common and meet nowhere in a pass.      *)
(***************************************************************************)
EXTENDS Naturals, FiniteSets

CONSTANTS
    Machines,   \* installs of the project, each with a cache and a watcher
    Tickets,    \* tickets, each with exactly one Issue and one slug for all
    Lanes,      \* the lane folders, which are also the `stage:` label values
    Ideas,      \* the lane of a ticket that names none
    DoneLanes,  \* lanes whose tickets are closed (ticket_serializer.DONE_STAGES)
    None,       \* no file, no hash, no lane
    LastStage,  \* the stage: label that from_issue meets last in a label set
    Worlds      \* the worlds to consider: which machines take part and which
                \* tickets there are (machines, tickets), which hard behaviours
                \* the environment has (env, see below) and how often each kind
                \* of bounded event may happen (limit)

(***************************************************************************)
(* "midpass": sessions edit and move files while a pass is running.        *)
(* "breach":  a tick under the rate-limit floor renders without syncing.   *)
(* "error":   a gh call fails.                                             *)
(* "quota":   a gh call reports that the API quota is exhausted.           *)
(* "crash":   the process of a pass is killed.                             *)
(* "sidecar": the sidecar file is lost.                                    *)
(***************************************************************************)
Behaviours == {"midpass", "breach", "error", "quota", "crash", "sidecar"}
Kinds == {"edit", "move", "human", "fault"}

ASSUME AdtSyncAssumption ==
    /\ Ideas \in Lanes
    /\ DoneLanes \subseteq Lanes
    /\ None \notin Lanes \cup Tickets
    /\ Lanes \cap Tickets = {}
    /\ LastStage \in [SUBSET Lanes -> Lanes \cup {None}]
    /\ \A L \in SUBSET Lanes :
         IF L = {} THEN LastStage[L] = None ELSE LastStage[L] \in L
    /\ Worlds \subseteq [machines : SUBSET Machines, tickets : SUBSET Tickets,
                         env : SUBSET Behaviours, limit : [Kinds -> Nat]]

\* A cache file: its frontmatter's stage and state, and its title and body.
Content == [ticket : Tickets, stage : Lanes, closed : BOOLEAN, body : Nat]
Slot == Content \cup {None}

ASSUME NoneAssumption == None \notin Content

\* An Issue: its stage: labels, whether it is closed, its title and body.
Issue == [labels : SUBSET Lanes, closed : BOOLEAN, body : Nat]

VARIABLES
    cache,      \* cache[m][l]: the ticket file in lane folder l of machine m
    sidecar,    \* sidecar[m][l]: file_hashes of .adt-sync-state.json, by path
    issue,      \* issue[t]: the Issue on GitHub
    pc,         \* pc[m]: where m's pass is
    todo,       \* todo[m]: what the current loop of the pass has still to visit
    snap,       \* snap[m]: the files as the latest walk of the pass read them
    new,        \* new[m]: new_state, the hashes the pass will save
    at,         \* at[m]: the path being pushed or relocated
    fetched,    \* fetched[m][t]: the Issue as the pass last read it
    moved,      \* moved[m]: the `relocated` records of the pull
    used,       \* used[k]: how many events of kind k happened
    world,      \* the member of Worlds this behaviour lives in
    sent,       \* sent[m][t], history: the content m last exchanged with the Issue
    worked      \* worked[m], history: what sessions of m worked on and m has not
                \* exchanged since, as the file of the lane it lies in

file   == <<cache, sidecar>>
pass   == <<pc, todo, snap, new, at, fetched, moved>>
hist   == <<sent, worked>>
vars   == <<cache, sidecar, issue, pass, used, world, hist>>

Running == world.machines
Present == world.tickets
Env == world.env

Phases == {"idle", "walk", "push", "edit", "state", "record",
           "index", "pull", "rewrite", "load", "render"}

NoFiles == [l \in Lanes |-> None]

TypeOK ==
    /\ cache \in [Machines -> [Lanes -> Slot]]
    /\ sidecar \in [Machines -> [Lanes -> Slot]]
    /\ issue \in [Present -> Issue]
    /\ pc \in [Machines -> Phases]
    /\ todo \in [Machines -> SUBSET (Lanes \cup Tickets)]
    /\ snap \in [Machines -> [Lanes -> Slot]]
    /\ new \in [Machines -> [Lanes -> Slot]]
    /\ at \in [Machines -> Lanes \cup {None}]
    /\ fetched \in [Machines -> [Present -> Issue]]
    /\ moved \in [Machines -> SUBSET [from : Lanes, to : Content]]
    /\ used \in [Kinds -> Nat]
    /\ world \in Worlds
    /\ sent \in [Machines -> [Present -> Content]]
    /\ worked \in [Machines -> SUBSET Tickets]

-----------------------------------------------------------------------------
\* The state a lane implies: done is closed, every other lane is open.  No ticket here
\* is cancelled: what `status: cancelled` changes is in IssueText.
ClosedIn(l) == l \in DoneLanes

\* c with the stage and state its folder l dictates.
Settled(c, l) == [c EXCEPT !.stage = l, !.closed = ClosedIn(l)]

\* Where a set of files holds ticket t, and which tickets it holds twice.
CopiesIn(files, t) == {l \in Lanes : files[l] # None /\ files[l].ticket = t}
Duplicate(files, l) == Cardinality(CopiesIn(files, files[l].ticket)) > 1

\* The push leaves l alone: a duplicate, or its last pushed hash is unchanged.
Skips(m, l) == Duplicate(snap[m], l) \/ sidecar[m][l] = snap[m][l]

Spend(k) == /\ used[k] < world.limit[k]
            /\ used' = [used EXCEPT ![k] = @ + 1]

\* Leave the pass of m for phase p, forgetting what only the pass held.
Leave(m, p) ==
    /\ pc' = [pc EXCEPT ![m] = p]
    /\ todo' = [todo EXCEPT ![m] = IF p = "load" THEN Lanes ELSE {}]
    /\ snap' = [snap EXCEPT ![m] = NoFiles]
    /\ new' = [new EXCEPT ![m] = NoFiles]
    /\ at' = [at EXCEPT ![m] = None]
    /\ moved' = [moved EXCEPT ![m] = {}]
    /\ fetched' = [fetched EXCEPT ![m] = issue]

Init ==
    world \in Worlds /\ \E home \in [Present -> Lanes] :
      LET start(t) == [ticket |-> t, stage |-> home[t],
                       closed |-> ClosedIn(home[t]), body |-> 0]
          files == [l \in Lanes |->
                      IF \E t \in Present : home[t] = l
                      THEN start(CHOOSE t \in Present : home[t] = l)
                      ELSE None]
      IN /\ \A t, u \in Present : home[t] = home[u] => t = u
         /\ cache = [m \in Machines |-> files]
         /\ sidecar = [m \in Machines |-> files]
         /\ issue = [t \in Present |-> [labels |-> {home[t]},
                                        closed |-> ClosedIn(home[t]),
                                        body |-> 0]]
         /\ pc = [m \in Machines |-> "idle"]
         /\ todo = [m \in Machines |-> {}]
         /\ snap = [m \in Machines |-> NoFiles]
         /\ new = [m \in Machines |-> NoFiles]
         /\ at = [m \in Machines |-> None]
         /\ fetched = [m \in Machines |-> issue]
         /\ moved = [m \in Machines |-> {}]
         /\ used = [k \in Kinds |-> 0]
         /\ sent = [m \in Machines |-> [t \in Present |-> start(t)]]
         /\ worked = [m \in Machines |-> {}]

-----------------------------------------------------------------------------
(* Sessions, github.com and accidents. *)

SessionMayAct(m) == pc[m] = "idle" \/ "midpass" \in Env

\* A session rewrites a ticket's body; no two edits write the same text.
Edit(m, l) ==
    /\ SessionMayAct(m)
    /\ cache[m][l] # None
    /\ Spend("edit")
    /\ cache' = [cache EXCEPT ![m][l].body = used["edit"] + 1]
    /\ worked' = [worked EXCEPT ![m] = @ \cup {cache[m][l].ticket}]
    /\ UNCHANGED <<sidecar, issue, pass, sent, world>>

\* A session changes a ticket's status: `mv` between lane folders, nothing else.
Move(m, l, k) ==
    /\ SessionMayAct(m)
    /\ cache[m][l] # None /\ cache[m][k] = None
    /\ Spend("move")
    /\ cache' = [cache EXCEPT ![m][k] = cache[m][l], ![m][l] = None]
    /\ worked' = [worked EXCEPT ![m] = @ \cup {cache[m][l].ticket}]
    /\ UNCHANGED <<sidecar, issue, pass, sent, world>>

\* Somebody on github.com gives the Issue another stage label ...
Relabel(t, l) ==
    /\ Spend("human")
    /\ issue[t].labels # {l}
    /\ issue' = [issue EXCEPT ![t].labels = {l}]
    /\ UNCHANGED <<file, pass, hist, world>>

\* ... or closes or reopens it there.
Toggle(t) ==
    /\ Spend("human")
    /\ issue' = [issue EXCEPT ![t].closed = ~@]
    /\ UNCHANGED <<file, pass, hist, world>>

\* The process of m's pass is killed: the kernel drops its lock, the files stay.
Crash(m) ==
    /\ "crash" \in Env
    /\ pc[m] # "idle"
    /\ Spend("fault")
    /\ Leave(m, "idle")
    /\ UNCHANGED <<file, issue, hist, world>>

\* The sidecar is deleted or found corrupt: _load_state_doc returns no hashes.
LoseSidecar(m) ==
    /\ "sidecar" \in Env
    /\ pc[m] = "idle"
    /\ Spend("fault")
    /\ sidecar' = [sidecar EXCEPT ![m] = NoFiles]
    /\ UNCHANGED <<cache, issue, pass, hist, world>>

-----------------------------------------------------------------------------
(* The pass of machine m: reconcile_all. *)

\* A tick takes the pass lock; reconcile_all reads the sidecar.
Start(m) ==
    /\ pc[m] = "idle"
    /\ pc' = [pc EXCEPT ![m] = "walk"]
    /\ todo' = [todo EXCEPT ![m] = Lanes]
    /\ new' = [new EXCEPT ![m] = sidecar[m]]
    /\ UNCHANGED <<file, issue, snap, at, fetched, moved, used, hist, world>>

AfterWalk == [walk |-> "push", index |-> "pull", load |-> "render"]

\* What the loop after a walk that read the files in s has to visit.
Agenda(m, s) ==
    CASE pc[m] = "walk"  -> {l \in Lanes : s[l] # None}
      [] pc[m] = "index" -> Present
      [] pc[m] = "load"  -> {l \in Lanes : s[l] # None /\ s[l] # Settled(s[l], l)}

\* A walk reads one folder after another, in no particular order.  Without
\* sessions in the middle of passes nothing changes m's files during a walk
\* and one step for all folders reaches the same states.
Walk(m, ls) ==
    /\ pc[m] \in DOMAIN AfterWalk
    /\ ls \subseteq todo[m] /\ ls # {}
    /\ IF "midpass" \in Env THEN \E l \in Lanes : ls = {l} ELSE ls = todo[m]
    /\ LET s == [l \in Lanes |-> IF l \in ls THEN cache[m][l] ELSE snap[m][l]]
       IN /\ snap' = [snap EXCEPT ![m] = s]
          /\ IF ls = todo[m]
             THEN /\ pc' = [pc EXCEPT ![m] = AfterWalk[pc[m]]]
                  /\ todo' = [todo EXCEPT ![m] = Agenda(m, s)]
             ELSE /\ todo' = [todo EXCEPT ![m] = @ \ ls]
                  /\ UNCHANGED pc
    /\ UNCHANGED <<file, issue, new, at, fetched, moved, used, hist, world>>

\* PUSH.  A duplicate or unchanged file is skipped before any call.
PushSkip(m, l) ==
    /\ pc[m] = "push" /\ l \in todo[m]
    /\ Skips(m, l)
    /\ todo' = [todo EXCEPT ![m] = @ \ {l}]
    /\ UNCHANGED <<file, issue, pc, snap, new, at, fetched, moved, used, hist, world>>

\* reconcile_one reads the Issue ...  No Issue here was deleted or is an archive, with
\* which the push would be over.
PushFetch(m, l) ==
    /\ pc[m] = "push" /\ l \in todo[m]
    /\ ~Skips(m, l)
    /\ LET t == snap[m][l].ticket
       IN fetched' = [fetched EXCEPT ![m][t] = issue[t]]
    /\ at' = [at EXCEPT ![m] = l]
    /\ pc' = [pc EXCEPT ![m] = "edit"]
    /\ UNCHANGED <<file, issue, todo, snap, new, moved, used, hist, world>>

\* The Issue after `gh issue edit`: the difference between the file and the
\* Issue as it was read, applied to the Issue as it is.
Edited(t, c, was) ==
    [issue[t] EXCEPT !.labels = (@ \cup ({c.stage} \ was.labels))
                                   \ (was.labels \ {c.stage}),
                     !.body = IF was.body # c.body THEN c.body ELSE @]

\* ... writes title, body and labels in one edit ...
PushEdit(m) ==
    /\ pc[m] = "edit"
    /\ LET c == snap[m][at[m]]
       IN /\ issue' = [issue EXCEPT ![c.ticket] =
                                   Edited(c.ticket, c, fetched[m][c.ticket])]
          /\ sent' = [sent EXCEPT ![m][c.ticket] =
                                   [@ EXCEPT !.stage = c.stage, !.body = c.body]]
    /\ pc' = [pc EXCEPT ![m] = "state"]
    /\ UNCHANGED <<file, todo, snap, new, at, fetched, moved, used, worked, world>>

\* ... then closes or reopens it, and moves its card (module BoardIndex) ...
PushState(m) ==
    /\ pc[m] = "state"
    /\ LET c == snap[m][at[m]]
       IN /\ issue' = IF fetched[m][c.ticket].closed # c.closed
                      THEN [issue EXCEPT ![c.ticket].closed = c.closed]
                      ELSE issue
          /\ sent' = [sent EXCEPT ![m][c.ticket] = c]
    /\ pc' = [pc EXCEPT ![m] = "record"]
    /\ UNCHANGED <<file, todo, snap, new, at, fetched, moved, used, worked, world>>

\* ... and reconcile_all records the hash of the file as it is on disk NOW.
PushRecord(m) ==
    /\ pc[m] = "record"
    /\ new' = [new EXCEPT ![m][at[m]] = IF cache[m][at[m]] # None
                                        THEN cache[m][at[m]]
                                        ELSE snap[m][at[m]]]
    /\ pc' = [pc EXCEPT ![m] = "push"]
    /\ todo' = [todo EXCEPT ![m] = @ \ {at[m]}]
    /\ at' = [at EXCEPT ![m] = None]
    /\ LET c == snap[m][at[m]]
       IN worked' = [worked EXCEPT ![m] = IF cache[m][at[m]] = c /\ c = Settled(c, at[m])
                                          THEN @ \ {c.ticket} ELSE @]
    /\ UNCHANGED <<file, issue, snap, fetched, moved, used, sent, world>>

\* A bug: the failed file keeps the hash it had ...
PushErrorKeepsHash(m) ==
    /\ "error" \in Env
    /\ pc[m] \in {"edit", "state", "record"}
    /\ Spend("fault")
    /\ pc' = [pc EXCEPT ![m] = "push"]
    /\ todo' = [todo EXCEPT ![m] = @ \ {at[m]}]
    /\ at' = [at EXCEPT ![m] = None]
    /\ UNCHANGED <<file, issue, snap, new, fetched, moved, hist, world>>

\* ... or gets the hash of a success.
PushErrorRecords(m) ==
    /\ "error" \in Env
    /\ pc[m] \in {"edit", "state", "record"}
    /\ Spend("fault")
    /\ new' = [new EXCEPT ![m][at[m]] = snap[m][at[m]]]
    /\ pc' = [pc EXCEPT ![m] = "push"]
    /\ todo' = [todo EXCEPT ![m] = @ \ {at[m]}]
    /\ at' = [at EXCEPT ![m] = None]
    /\ UNCHANGED <<file, issue, snap, fetched, moved, hist, world>>

\* A call of reconcile_one fails: forget the hash, go on with the next file.
PushError(m) ==
    /\ "error" \in Env
    /\ pc[m] \in {"edit", "state", "record"}
    /\ Spend("fault")
    /\ new' = [new EXCEPT ![m][at[m]] = None]
    /\ pc' = [pc EXCEPT ![m] = "push"]
    /\ todo' = [todo EXCEPT ![m] = @ \ {at[m]}]
    /\ at' = [at EXCEPT ![m] = None]
    /\ UNCHANGED <<file, issue, snap, fetched, moved, hist, world>>

\* A call reports the exhausted quota: save what was done; no pull this pass.
RateLimited(m) ==
    /\ "quota" \in Env
    /\ pc[m] \in {"edit", "state", "record"}
    /\ Spend("fault")
    /\ sidecar' = [sidecar EXCEPT ![m] = new[m]]
    /\ Leave(m, "load")
    /\ UNCHANGED <<cache, issue, hist, world>>

\* PULL.  pull_all lists the Issues, then indexes the cache by Issue number.
PullFetch(m) ==
    /\ pc[m] = "push" /\ todo[m] = {}
    /\ fetched' = [fetched EXCEPT ![m] = issue]
    /\ pc' = [pc EXCEPT ![m] = "index"]
    /\ todo' = [todo EXCEPT ![m] = Lanes]
    /\ snap' = [snap EXCEPT ![m] = NoFiles]
    /\ UNCHANGED <<file, issue, new, at, moved, used, hist, world>>

\* The lane the `stage:` label of the Issue names, as from_issue reads it.
Recovered(m, t) == LastStage[fetched[m][t].labels]

\* The pull handles t, by the last of its files the index saw.
PullsFrom(m, t, l) == /\ pc[m] = "pull" /\ t \in todo[m]
                      /\ l \in CopiesIn(snap[m], t)

\* A bug: guard 2 is dropped.
RelocatesMidMove(m, t, l) ==
    LET d == snap[m][l]
        k == Recovered(m, t)
    IN /\ k # d.stage /\ k \in Lanes
       /\ sidecar[m][l] = d /\ cache[m][k] = None

\* A bug: guard 4 is dropped, os.rename overwrites.
RelocatesOver(m, t, l) ==
    LET d == snap[m][l]
        k == Recovered(m, t)
    IN /\ k # d.stage /\ k \in Lanes
       /\ l = d.stage /\ sidecar[m][l] = d

\* A bug: a copy of the lane list that has drifted and lacks the done lanes.
RelocatesToOpenLanes(m, t, l) ==
    LET d == snap[m][l]
        k == Recovered(m, t)
    IN /\ k # d.stage /\ k \in Lanes \ DoneLanes
       /\ l = d.stage /\ sidecar[m][l] = d /\ cache[m][k] = None

\* The four guards of _relocate_to_stage.
Relocates(m, t, l) ==
    LET d == snap[m][l]
        k == Recovered(m, t)
    IN /\ k # d.stage
       /\ k \in Lanes                    \* 1: a known lane
       /\ l = d.stage                    \* 2: not in the middle of a move
       /\ sidecar[m][l] = d              \* 3: no unpushed work
       /\ cache[m][k] = None             \* 4: nothing at the destination

\* os.rename carries whatever file is there now.
PullRename(m, t, l) ==
    /\ PullsFrom(m, t, l)
    /\ Relocates(m, t, l)
    /\ cache[m][l] # None
    /\ cache' = [cache EXCEPT ![m][Recovered(m, t)] = cache[m][l],
                              ![m][l] = None]
    /\ at' = [at EXCEPT ![m] = l]
    /\ pc' = [pc EXCEPT ![m] = "rewrite"]
    /\ UNCHANGED <<sidecar, issue, todo, snap, new, fetched, moved, used, hist, world>>

\* The file is written at its new path from what the index read of it.
PullRewrite(m) ==
    /\ pc[m] = "rewrite"
    /\ LET d == snap[m][at[m]]
           c == Settled(d, Recovered(m, d.ticket))
       IN /\ cache' = [cache EXCEPT ![m][c.stage] = c]
          /\ moved' = [moved EXCEPT ![m] = @ \cup {[from |-> at[m], to |-> c]}]
          /\ sent' = [sent EXCEPT ![m][d.ticket] = c]
          /\ worked' = [worked EXCEPT ![m] = @ \ {d.ticket}]
          /\ todo' = [todo EXCEPT ![m] = @ \ {d.ticket}]
    /\ pc' = [pc EXCEPT ![m] = "pull"]
    /\ at' = [at EXCEPT ![m] = None]
    /\ UNCHANGED <<sidecar, issue, snap, new, fetched, used, world>>

\* The file to rename is gone: FileNotFoundError ends the pass, unsaved.
PullDies(m, t, l) ==
    /\ PullsFrom(m, t, l)
    /\ Relocates(m, t, l)
    /\ cache[m][l] = None
    /\ Leave(m, "load")
    /\ UNCHANGED <<file, issue, used, hist, world>>

\* GitHub-owned fields (assignees, updated) changed: the file is written back.
PullWrite(m, t, l) ==
    /\ PullsFrom(m, t, l)
    /\ ~Relocates(m, t, l)
    /\ cache' = [cache EXCEPT ![m][l] = snap[m][l]]
    /\ todo' = [todo EXCEPT ![m] = @ \ {t}]
    /\ UNCHANGED <<sidecar, issue, pc, snap, new, at, fetched, moved, used, hist, world>>

\* They did not.
PullSkip(m, t, l) ==
    /\ PullsFrom(m, t, l)
    /\ ~Relocates(m, t, l)
    /\ todo' = [todo EXCEPT ![m] = @ \ {t}]
    /\ UNCHANGED <<file, issue, pc, snap, new, at, fetched, moved, used, hist, world>>

Missing(m, t) == pc[m] = "pull" /\ t \in todo[m] /\ CopiesIn(snap[m], t) = {}

\* The lane folder a rebuilt file goes to.
RebuiltIn(m, t) == IF Recovered(m, t) = None THEN Ideas ELSE Recovered(m, t)

\* No file carries t's number: one is rebuilt from the Issue, in its lane.
Reconstruct(m, t) ==
    /\ Missing(m, t)
    /\ LET i == fetched[m][t]
           k == RebuiltIn(m, t)
           c == [ticket |-> t, stage |-> k, closed |-> i.closed, body |-> i.body]
       IN /\ cache' = [cache EXCEPT ![m][k] = c]
          /\ sent' = [sent EXCEPT ![m][t] = c]
    /\ todo' = [todo EXCEPT ![m] = @ \ {t}]
    /\ UNCHANGED <<sidecar, issue, pc, snap, new, at, fetched, moved, used, worked, world>>

\* The list call fails, or the quota ends at the comments of a missing file:
\* the pull stops, and what it relocated so far is not re-keyed.
PullError(m) ==
    /\ \/ {"error", "quota"} \cap Env # {} /\ pc[m] = "push" /\ todo[m] = {}
       \/ "quota" \in Env /\ \E t \in Present : Missing(m, t)
    /\ Spend("fault")
    /\ sidecar' = [sidecar EXCEPT ![m] = new[m]]
    /\ Leave(m, "load")
    /\ UNCHANGED <<cache, issue, hist, world>>

\* A bug: the relocations of the pull are not re-keyed.
NotRekeyed(m) == new[m]

\* A bug: the hashes of the pass are not saved.
SidecarKept(m) == sidecar[m]

\* The hashes to save: a relocated file's under its new path only.
Rekeyed(m) ==
    [l \in Lanes |->
       IF \E r \in moved[m] : r.to.stage = l
       THEN (CHOOSE r \in moved[m] : r.to.stage = l).to
       ELSE IF \E r \in moved[m] : r.from = l THEN None ELSE new[m][l]]

\* The sidecar is replaced.  The watcher renders next, the CLI stops here.
Persist(m, next) ==
    /\ pc[m] = "pull" /\ todo[m] = {}
    /\ sidecar' = [sidecar EXCEPT ![m] = Rekeyed(m)]
    /\ Leave(m, next)
    /\ UNCHANGED <<cache, issue, used, hist, world>>

\* A tick that finds a pool under its floor syncs nothing, but renders.
BreachedTick(m) ==
    /\ "breach" \in Env
    /\ pc[m] = "idle"
    /\ Spend("fault")
    /\ Leave(m, "load")
    /\ UNCHANGED <<file, issue, hist, world>>

\* RENDER.  A file whose frontmatter disagrees with its folder is rewritten,
\* from the text load_items read.
RenderFix(m, l) ==
    /\ pc[m] = "render" /\ l \in todo[m]
    /\ cache' = [cache EXCEPT ![m][l] = Settled(snap[m][l], l)]
    /\ todo' = [todo EXCEPT ![m] = @ \ {l}]
    /\ UNCHANGED <<sidecar, issue, pc, snap, new, at, fetched, moved, used, hist, world>>

RenderDone(m) ==
    /\ pc[m] = "render" /\ todo[m] = {}
    /\ Leave(m, "idle")
    /\ UNCHANGED <<file, issue, used, hist, world>>

-----------------------------------------------------------------------------
Session(m) == \E l, k \in Lanes : Edit(m, l) \/ Move(m, l, k)

Human == \E t \in Present : Toggle(t) \/ \E l \in Lanes : Relabel(t, l)

Accident(m) == Crash(m) \/ LoseSidecar(m) \/ BreachedTick(m)
                 \/ PushError(m) \/ RateLimited(m) \/ PullError(m)

Step(m) ==
    /\ m \in Running
    /\ \/ Start(m) \/ PushEdit(m) \/ PushState(m) \/ PushRecord(m)
       \/ PullFetch(m) \/ PullRewrite(m) \/ RenderDone(m)
       \/ \E ls \in SUBSET Lanes : Walk(m, ls)
       \/ \E next \in {"load", "idle"} : Persist(m, next)
       \/ \E l \in Lanes : PushSkip(m, l) \/ PushFetch(m, l) \/ RenderFix(m, l)
       \/ \E t \in Present : Reconstruct(m, t)
       \/ \E t \in Present, l \in Lanes :
            \/ PullRename(m, t, l) \/ PullDies(m, t, l)
            \/ PullWrite(m, t, l) \/ PullSkip(m, t, l)

Next == \/ Human
        \/ \E m \in Running : Session(m) \/ Accident(m) \/ Step(m)

Spec == Init /\ [][Next]_vars

\* The timer starts a pass on every machine again and again, and a pass that
\* is not killed goes on to its end.  The passes a human starts on the command
\* line do not render, but they cannot keep out the timer's for ever.
Fairness == \A m \in Machines : /\ WF_vars(Step(m))
                                /\ SF_vars(Persist(m, "load"))

FairSpec == Spec /\ Fairness
-----------------------------------------------------------------------------
(* What the sync promises. *)

\* Between passes, a file in its own lane that the next push would skip as
\* unchanged (reconcile_all's hash test) is what the machine last exchanged
\* with the Issue: skipping it leaves no local work behind ...
UnchangedIsConverged ==
    \A m \in Running, l \in Lanes :
      LET c == cache[m][l]
      IN (pc[m] = "idle" /\ c # None) =>
           (c.stage = l /\ sidecar[m][l] = c => sent[m][c.ticket] = c)

\* ... whatever fails or is killed, as long as sessions keep out of passes and no
\* board is rendered before its files were pushed: a tick under the floor and a
\* push that ran out of quota rewrite frontmatter, and the sidecar may still have
\* the file that results from an earlier stay in that folder.
PushesFirst == {"midpass", "breach", "quota"} \cap Env = {}

SkipIsSafe == PushesFirst => UnchangedIsConverged

\* The pull never undoes a local lane move (_relocate_to_stage, guard 3): what
\* it moves away lies where the machine and the Issue last agreed it lies.
RelocationKeepsMoves ==
    [][PushesFirst => \A m \in Running, t \in Present, l \in Lanes :
         PullRename(m, t, l) => sent[m][t].stage = l]_vars

\* A push calls GitHub for a ticket only to carry work of its own machine: a
\* machine with nothing new costs no call and never reverts what another one
\* sent, and a change that a pull or a render brought does not reach a push
\* (_push_hash: f = 0; reconcile_all: a relocated ticket is already converged).
PushCarriesWork ==
    {"midpass", "crash", "sidecar"} \cap Env = {} =>
       \A m \in Running : pc[m] \in {"edit", "state", "record"} =>
          snap[m][at[m]].ticket \in worked[m]

\* While sessions keep out of passes, every ticket has exactly one file on every
\* machine, whatever fails or is killed: no relocation or render makes its only
\* file disappear under another one (_relocate_to_stage, guard 4), and neither a
\* pull nor a restart in the middle of one makes a second (pull_all).
TicketsKeepTheirFile ==
    "midpass" \notin Env =>
       \A m \in Running, t \in Present : \E l \in Lanes : CopiesIn(cache[m], t) = {l}

\* Once sessions and users stop, the passes stop writing to GitHub: no pulled
\* change re-arms a push for ever (ADT-147).
WritesCease == <>[][issue' = issue]_vars

\* Once they stop, every machine shows a ticket in the lane its Issue names, or
\* has another ticket of that slug there.  Where sessions act in the middle of
\* passes it may also hold the ticket twice.  A pass reports both on every run
\* and leaves them to a human (_relocate_to_stage, guard 4; ADT-354).
LanesAgree ==
    <>[](\A m \in Running, t \in Present :
           LET k == LastStage[issue[t].labels]
               copies == CopiesIn(cache[m], t)
           IN k # None => \/ copies = {k}
                          \/ cache[m][k] # None /\ cache[m][k].ticket # t
                          \/ "midpass" \in Env /\ Cardinality(copies) > 1)

\* Once the sessions of the only machine stop, the Issue mirrors its file, if
\* nobody touched it on github.com and no session acted in the middle of a pass.
IssueMirrorsFile ==
    <>[](used["human"] = 0 /\ {"midpass", "quota"} \cap Env = {} /\ Cardinality(Running) = 1 =>
           \A m \in Running, t \in Present : \E l \in Lanes :
             /\ CopiesIn(cache[m], t) = {l}
             /\ issue[t] = [labels |-> {l}, closed |-> ClosedIn(l),
                            body |-> cache[m][l].body])
=============================================================================
