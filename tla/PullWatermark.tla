--------------------------- MODULE PullWatermark ----------------------------
(***************************************************************************)
(* The pull of one machine (tools/adt_sync.py, pull_all) and its watermark: *)
(* a pull asks GitHub for the Issues updated since the newest update it    *)
(* has seen, rebuilds the cache file of an Issue that has none, but puts   *)
(* off an Issue that a session may still be filing.  Once in a while it    *)
(* lists every Issue.                                                      *)
(*                                                                         *)
(* AdtSync lists every Issue in every pass and has what a pull does to the *)
(* lane of a file.  Here a file is present or not and has the fields that  *)
(* GitHub owns (_PULL_OWNED) as they are on the Issue or not; what matters *)
(* is which Issues a pull gets to see, and when.                           *)
(***************************************************************************)
EXTENDS Integers, FiniteSets, FiniteSetsExt

CONSTANTS
    MaxIssue,   \* bound: how many Issues there are in the end
    None,       \* no time
    PageSize,   \* _REST_PAGE_SIZE
    Grace,      \* RECONSTRUCT_GRACE_SECONDS
    MaxAge,     \* FILING_CLAIM_MAX_AGE_SECONDS
    Interval,   \* _FULL_SWEEP_INTERVAL
    PassTime,   \* assumed: no pass takes longer
    Horizon,    \* bound: the clock stops here
    MaxEvents   \* bound: how many changes, removals and failures happen

Issues == 1 .. MaxIssue

ASSUME PullWatermarkAssumption ==
    /\ None \notin Nat /\ None \notin {"authored", "rebuilt"}
    /\ PageSize \in Nat \ {0}
    /\ {Grace, MaxAge, Interval, PassTime, Horizon} \subseteq Nat
    /\ PassTime < Grace /\ Grace <= MaxAge
    /\ {MaxIssue, MaxEvents} \subseteq Nat

VARIABLES
    now,        \* seconds, on GitHub and on the machine: one clock
    newest,     \* the number of the newest Issue, 0 if there is none
    born,       \* born[i]: createdAt
    updated,    \* updated[i]: updatedAt
    claimed,    \* the Issues with the adt:filing label
    filing,     \* the Issues a session is writing the file of
    files,      \* files[i]: the cache files of i: "authored", "rebuilt"
    current,    \* the Issues whose GitHub-owned fields the cache has
    removed,    \* the Issues whose file was deleted since they were pulled
    slipped,    \* history: those that last changed while a pull was listing
    watermark,  \* pull.watermark in the sidecar, or None
    swept,      \* pull.last_full_pull in the sidecar, or None
    pc,         \* "idle", "list", "handle"
    start,      \* when the running pass began
    since,      \* what the running pull asks for: a time, or None for a sweep
    offset,     \* how many Issues the pages so far have returned
    batch,      \* the returned Issues still to handle, as they were returned
    fresh,      \* what was returned and has not changed since
    found,      \* found[i]: the file of i that the index has, or None
    seen,       \* updatedAt of the returned Issues, and the old watermark
    put_off,    \* deferred_updated: those of the Issues put off in this pass
    events      \* how many of the bounded events happened

github == <<now, newest, born, updated, claimed, filing>>
cache  == <<files, current, removed, slipped>>
saved  == <<watermark, swept>>
pass   == <<pc, start, since, offset, batch, fresh, found, seen, put_off>>
vars   == <<github, cache, saved, pass, events>>

Time == 0 .. Horizon
Kept == {"authored", "rebuilt"}
Alive == 1 .. newest

\* An Issue as the page at an offset returned it.
Item == [issue : Issues, at : Nat, updated : Time, claimed : BOOLEAN]

TypeOK ==
    /\ now \in Time
    /\ newest \in 0 .. MaxIssue
    /\ born \in [Issues -> Time] /\ updated \in [Issues -> Time]
    /\ claimed \subseteq Alive /\ filing \subseteq Alive
    /\ {current, removed, slipped} \subseteq SUBSET Alive
    /\ files \in [Issues -> SUBSET Kept]
    /\ watermark \in Time \cup {None} /\ swept \in Time \cup {None}
    /\ pc \in {"idle", "list", "handle"}
    /\ start \in Time
    /\ since \in Time \cup {None}
    /\ offset \in Nat
    /\ batch \subseteq Item
    /\ fresh \subseteq Item
    /\ seen \subseteq Time /\ put_off \subseteq Time
    /\ found \in [Issues -> Kept \cup {None}]
    /\ events \in 0 .. MaxEvents

Init ==
    /\ now = 0
    /\ newest = 0
    /\ born = [i \in Issues |-> 0] /\ updated = [i \in Issues |-> 0]
    /\ claimed = {} /\ filing = {} /\ current = {} /\ removed = {}
    /\ slipped = {}
    /\ files = [i \in Issues |-> {}]
    /\ watermark = None /\ swept = None
    /\ pc = "idle"
    /\ start = 0
    /\ since = None
    /\ offset = 0
    /\ batch = {} /\ fresh = {} /\ seen = {} /\ put_off = {}
    /\ found = [i \in Issues |-> None]
    /\ events = 0

Spend == /\ events < MaxEvents
         /\ events' = events + 1

\* The running pass ends and forgets what only it knew.
Leave ==
    /\ pc' = "idle"
    /\ start' = 0
    /\ since' = None
    /\ offset' = 0
    /\ batch' = {} /\ fresh' = {} /\ seen' = {} /\ put_off' = {}
    /\ found' = [i \in Issues |-> None]

-----------------------------------------------------------------------------
(* Time, GitHub and sessions. *)

Tick ==
    /\ now < Horizon
    /\ pc # "idle" => now < start + PassTime
    /\ now' = now + 1
    /\ UNCHANGED <<newest, born, updated, claimed, filing, cache, saved, pass, events>>

\* What GitHub does to updatedAt when i changes, and what that makes stale.
Changes(i) ==
    /\ updated' = [updated EXCEPT ![i] = now]
    /\ current' = current \ {i}
    /\ fresh' = {x \in fresh : x.issue # i}
    /\ slipped' = IF pc = "list" THEN slipped \cup {i} ELSE slipped \ {i}

\* The lifetime of the reason to put i off: its claim, or its age alone.
Window(i) == IF i \in claimed THEN MaxAge ELSE Grace

\* An Issue appears.  The session that files it with the claim (/adt-brief) or by
\* hand without one may write a file for it; nobody writes one for an Issue that
\* comes from elsewhere, which is an unclaimed one whose session never does.
Create(i, claim) ==
    /\ i = newest + 1 /\ now + MaxAge <= Horizon
    /\ newest' = i
    /\ born' = [born EXCEPT ![i] = now]
    /\ claimed' = IF claim THEN claimed \cup {i} ELSE claimed
    /\ filing' = filing \cup {i}
    /\ Changes(i)
    /\ UNCHANGED <<now, files, removed, saved, pc, start, since, offset,
                   batch, found, seen, put_off, events>>

\* The session that files i writes its file.  It keeps its promise to be done
\* while the pull still puts i off, whenever the running pass looks at it, or
\* dies: nothing says that it ever writes.
WriteFile(i) ==
    /\ i \in filing /\ now + PassTime < born[i] + Window(i)
    /\ filing' = filing \ {i}
    /\ files' = [files EXCEPT ![i] = @ \cup {"authored"}]
    /\ UNCHANGED <<now, newest, born, updated, claimed, current, removed,
                   slipped, saved, pass, events>>

\* A push of the authored file takes the label off.
Release(i) ==
    /\ pc = "idle"
    /\ i \in claimed /\ files[i] # {}
    /\ claimed' = claimed \ {i}
    /\ Changes(i)
    /\ UNCHANGED <<now, newest, born, filing, files, removed, saved, pc, start,
                   since, offset, batch, found, seen, put_off, events>>

\* The Issue changes on GitHub.
Touch(i) ==
    /\ i \in Alive
    /\ Spend
    /\ Changes(i)
    /\ UNCHANGED <<now, newest, born, claimed, filing, files, removed, saved, pc,
                   start, since, offset, batch, found, seen, put_off>>

\* The file of i is deleted in the cache.
DeleteFile(i) ==
    /\ files[i] # {} /\ now + Interval + PassTime <= Horizon
    /\ Spend
    /\ files' = [files EXCEPT ![i] = {}]
    /\ removed' = removed \cup {i}
    /\ UNCHANGED <<github, current, slipped, saved, pass>>

-----------------------------------------------------------------------------
(* The pull. *)

\* A sweep is due, or asked for on the command line (full).
Sweeps(full) == \/ full
                \/ watermark = None
                \/ swept = None
                \/ swept # None /\ now - swept >= Interval

\* A bug: the second of the watermark itself is left out.
ReturnsAfter(i, s) == s # None => updated[i] > s

\* Whether `GET /issues?since=s` returns i.
Returns(i, s) == s # None => updated[i] >= s

Asked(s) == {i \in Alive : Returns(i, s)}

\* How many Issues of the list from s on come before i.  GitHub sorts it by number,
\* newest first, at every request anew.
Place(i, s) == Cardinality({j \in Asked(s) : j > i})

\* The page at offset o of the list from s on.  A page that is not full is the last;
\* after it the cache is indexed by Issue number.
Page(s, o) ==
    LET page == {i \in Asked(s) : Place(i, s) \in o .. o + PageSize - 1}
        item(i) == [issue |-> i, at |-> o, updated |-> updated[i],
                    claimed |-> i \in claimed]
    IN /\ batch' = batch \cup {item(i) : i \in page}
       /\ fresh' = fresh \cup {item(i) : i \in page}
       /\ seen' = seen \cup {updated[i] : i \in page} \cup ({watermark} \ {None})
       /\ IF Cardinality(page) < PageSize
          THEN /\ pc' = "handle"
               /\ offset' = 0
               /\ found' \in [Issues -> Kept \cup {None}]
               /\ \A i \in Issues : IF files[i] = {} THEN found'[i] = None
                                                     ELSE found'[i] \in files[i]
          ELSE /\ pc' = "list"
               /\ offset' = o + PageSize
               /\ UNCHANGED found

Begin(full) ==
    /\ pc = "idle"
    /\ start' = now
    /\ since' = IF Sweeps(full) THEN None ELSE watermark
    /\ Page(since', 0)
    /\ UNCHANGED <<github, cache, saved, put_off, events>>

ListPage ==
    /\ pc = "list"
    /\ Page(since, offset)
    /\ UNCHANGED <<github, cache, saved, start, since, put_off, events>>

\* What the cache has of an Issue once the pull wrote x to file f.
Writes(x, f) ==
    /\ files' = [files EXCEPT ![x.issue] = @ \cup {f}]
    /\ current' = IF x \in fresh THEN current \cup {x.issue}
                                 ELSE current \ {x.issue}
    /\ removed' = removed \ {x.issue}
    /\ slipped' = IF x \in fresh THEN slipped \ {x.issue} ELSE slipped

\* The returned Issues are handled one after another.  The order matters only for an
\* Issue that two pages returned.
Handles(x) ==
    /\ pc = "handle" /\ x \in batch
    /\ \A y \in batch : y.issue = x.issue => x.at <= y.at
    /\ batch' = batch \ {x}
    /\ UNCHANGED <<github, saved, pc, start, since, offset, fresh, found, seen,
                   events>>

\* The Issue has a file: the fields GitHub owns are written if they differ.
Update(x) ==
    /\ Handles(x)
    /\ found[x.issue] # None
    /\ IF x.issue \in current THEN UNCHANGED cache
                             ELSE Writes(x, found[x.issue])
    /\ UNCHANGED put_off

\* A bug: the filing label is not looked at.
PutsOffYoung(x) == now - born[x.issue] < Grace

\* It is claimed, or so young that a session may be about to write its file.  The
\* code takes createdAt from GitHub and the time from the machine; the model's one
\* clock leaves out that they differ, and with it the Issue that seems to be created
\* in the future, which is rebuilt at once.
PutsOff(x) == now - born[x.issue] < (IF x.claimed THEN MaxAge ELSE Grace)

\* No file yet, but there may be one soon.
Defer(x) ==
    /\ Handles(x)
    /\ found[x.issue] = None /\ PutsOff(x)
    /\ put_off' = put_off \cup {x.updated}
    /\ UNCHANGED cache

\* No file, and none to come: it is rebuilt from the Issue.
Reconstruct(x) ==
    /\ Handles(x)
    /\ found[x.issue] = None /\ ~PutsOff(x)
    /\ Writes(x, "rebuilt")
    /\ UNCHANGED put_off

\* A bug: Issues that were put off are passed over (ADT-342).
AdvancePast == IF seen = {} THEN None ELSE Max(seen)

\* The next watermark: the newest update seen, but none beyond an Issue put off.
Advance == IF seen = {} THEN None
           ELSE IF put_off = {} THEN Max(seen)
           ELSE Min({Max(seen)} \cup put_off)

\* Every returned Issue was handled: the pull state is saved.
Finish ==
    /\ pc = "handle" /\ batch = {}
    /\ watermark' = Advance
    /\ swept' = IF since = None THEN now ELSE swept
    /\ Leave
    /\ UNCHANGED <<github, cache, events>>

\* A request fails, the quota ends, the process is killed: nothing is saved.
Fail ==
    /\ pc # "idle"
    /\ Spend
    /\ Leave
    /\ UNCHANGED <<github, cache, saved>>

-----------------------------------------------------------------------------
World(i) == \/ WriteFile(i) \/ Release(i) \/ Touch(i) \/ DeleteFile(i)
            \/ \E claim \in BOOLEAN : Create(i, claim)

Pull == \/ ListPage \/ Finish
        \/ \E full \in BOOLEAN : Begin(full)
        \/ \E x \in batch : Update(x) \/ Defer(x) \/ Reconstruct(x)

Next == Tick \/ Pull \/ Fail \/ \E i \in Issues : World(i)

Spec == Init /\ [][Next]_vars

\* The clock runs, and the timer starts pulls that go on to their end.
FairSpec == Spec /\ WF_vars(Tick) /\ WF_vars(Pull)

-----------------------------------------------------------------------------
\* The Issues whose changes the cache lacks.
Pending == {i \in Alive : files[i] = {} \/ i \notin current}

\* The next incremental pull is told of everything the cache lacks, put off or
\* changed in the middle of a pull (pull_all, the clamp).  Two things have to wait for
\* the sweep: a file deleted by hand, and a change that comes while the list is fetched
\* page by page (_list_issues_rest): the page the Issue belongs on may be gone, and a
\* later page may bring a newer update.
NothingSkipped ==
    pc = "idle" =>
        \A i \in Pending \ (removed \cup slipped) : Returns(i, watermark)

\* A session that files an Issue within its time never finds that the pull has
\* rebuilt the file beside its own (ADT-116).
OneFilePerFiling == \A i \in Issues : Cardinality(files[i]) <= 1

\* The Issues that the next request for changes does not return.
Acknowledged == Alive \ Asked(watermark)

\* The incremental pull keeps the promise of a full one (pull_all): what the saved
\* watermark passes over is in the cache or left to the sweep, and all that the cache
\* lacks gets there in the end.
Absorbing == INSTANCE Mirror WITH pending <- Pending, acked <- Acknowledged,
                                  excused <- removed \cup slipped
Implements == Absorbing!Spec
=============================================================================
