---------------------------- MODULE AdtSyncProofs ----------------------------
(***************************************************************************)
(* What the sync promises, for any number of machines, tickets, lanes and  *)
(* events.                                                                 *)
(*                                                                         *)
(* Every invariant is about one machine, since passes meet on GitHub only  *)
(* and nothing proved here asks what an Issue holds: Elsewhere says so,    *)
(* and the rest is about the steps of one machine.  While sessions keep    *)
(* out of passes, what a pass has in its hands is what is on disk and each *)
(* ticket has one file: KeptInv.  It makes the steps simple (the lemmas    *)
(* named ...Does): no file is missing or a duplicate, a relocation finds   *)
(* the file where it was and nothing at its destination.                   *)
(*                                                                         *)
(* A hash is of a text and stands under a path.  That a file has the hash  *)
(* of its stage's folder shows that it was sent only if no file ever comes *)
(* back to an old hash: an edit makes a new text (NothingNewer), a move    *)
(* leaves stage and folder apart, and a render, which puts them together,  *)
(* finds the file's own hash or none there (Drafts, in SafeInv).  The push *)
(* before it sees to that, which is why SkipIsSafe asks for one.           *)
(*                                                                         *)
(* WorkInv is the converse: what no session worked on has its own hash     *)
(* under its own path whenever a push looks at it.  A relocated file gets  *)
(* it when the pull saves the sidecar (Relocated).                         *)
(***************************************************************************)
EXTENDS AdtSync, FiniteSetTheorems, TLAPS

-----------------------------------------------------------------------------
(* The invariants *)

Pushing == {"push", "edit", "state", "record"}
Visiting == {"edit", "state", "record"}
Pulling == {"pull", "rewrite"}

\* What the pass of m has in its hands is there.
Held(m) ==
    /\ pc[m] \in Pushing => \A l \in todo[m] : l \in Lanes /\ snap[m][l] # None
    /\ pc[m] \in Visiting => at[m] \in todo[m]
    /\ pc[m] = "rewrite" => /\ at[m] \in Lanes /\ snap[m][at[m]] # None
                            /\ Recovered(m, snap[m][at[m]].ticket) \in Lanes
    /\ pc[m] = "render" => \A l \in todo[m] : l \in Lanes /\ snap[m][l] # None

TypeInv == TypeOK /\ \A m \in Machines : Held(m)

\* Every ticket has one file in files, and there are no others.
Complete(files) ==
    /\ \A l \in Lanes : files[l] # None => files[l].ticket \in Present
    /\ \A t \in Present : \E l \in Lanes : files[l] # None /\ files[l].ticket = t
    /\ \A l, k \in Lanes : files[l] # None /\ files[k] # None
                             /\ files[l].ticket = files[k].ticket => l = k

\* Where the file lies that is being relocated, t its ticket.
Between(m, t) == pc[m] = "rewrite" /\ t = snap[m][at[m]].ticket

\* The pass of m knows the files it has still to handle.
Known(m) ==
    /\ pc[m] \in {"walk", "index", "load"} => todo[m] = Lanes
    /\ pc[m] \in Pushing => snap[m] = cache[m]
    /\ pc[m] \in Visiting => sidecar[m][at[m]] # snap[m][at[m]]
    /\ pc[m] = "record" => sent[m][snap[m][at[m]].ticket] = snap[m][at[m]]
    /\ pc[m] \in Pulling =>
         /\ Complete(snap[m])
         /\ \A l \in Lanes :
              snap[m][l] # None /\ snap[m][l].ticket \in todo[m]
                /\ ~Between(m, snap[m][l].ticket) => cache[m][l] = snap[m][l]
    /\ pc[m] = "rewrite" =>
         LET d == snap[m][at[m]]
         IN  /\ d.ticket \in todo[m] /\ d.stage = at[m]
             /\ Recovered(m, d.ticket) # at[m]
             /\ cache[m][Recovered(m, d.ticket)] = d
             /\ cache[m][at[m]] = None
    /\ pc[m] = "render" => \A l \in todo[m] : cache[m][l] = snap[m][l]

\* What the pull of m relocated lies where it was put, as it was put there.
Relocated(m) ==
    /\ pc[m] \notin Pulling => moved[m] = {}
    /\ \A r \in moved[m] :
         /\ cache[m][r.to.stage] = r.to
         /\ sent[m][r.to.ticket] = r.to
         /\ r.to.ticket \notin todo[m]
         /\ cache[m][r.from] # None =>
              \/ Between(m, cache[m][r.from].ticket)
              \/ \E q \in moved[m] : q.to.ticket = cache[m][r.from].ticket

\* No text is newer than the last edit.
Dated(files) == \A l \in Lanes : files[l] # None => files[l].body <= used["edit"]

NothingNewer(m) ==
    /\ Dated(cache[m]) /\ Dated(sidecar[m]) /\ Dated(snap[m]) /\ Dated(new[m])
    /\ \A r \in moved[m] : r.to.body <= used["edit"]

KeptInv(m) == Complete(cache[m]) /\ Known(m) /\ Relocated(m) /\ NothingNewer(m)

\* Files which have the hash of their stage's folder were sent as they are.
Exchanged(files, out, hashes) ==
    \A l \in Lanes : LET c == files[l]
                     IN c # None /\ hashes[c.stage] = c => out[c.ticket] = c

\* A file c in folder l that a render would rewrite has its own hash h or none.
Drafts(c, l, h) == c # None /\ c # Settled(c, l) => h \in {c, None}

SafeInv(m) ==
    /\ Exchanged(cache[m], sent[m], sidecar[m])
    /\ pc[m] \in {"walk", "index"} \cup Pushing \cup Pulling =>
          Exchanged(cache[m], sent[m], new[m])
    /\ pc[m] = "walk" => new[m] = sidecar[m]
    /\ pc[m] \in Pushing => \A l \in todo[m] : new[m][l] = sidecar[m][l]
    /\ pc[m] \in {"index"} \cup Pushing \cup Pulling =>
         \A l \in Lanes : \/ pc[m] \in Pushing /\ l \in todo[m]
                          \/ cache[m][l] # None /\ Between(m, cache[m][l].ticket)
                          \/ Drafts(cache[m][l], l, new[m][l])
    /\ pc[m] \in {"load", "render"} =>
         \A l \in Lanes : Drafts(cache[m][l], l, sidecar[m][l])

\* What no session of m worked on lies settled in its lane and has its hash.
WorkInv(m) ==
    /\ pc[m] = "walk" => new[m] = sidecar[m]
    /\ pc[m] \in Visiting => snap[m][at[m]].ticket \in worked[m]
    /\ \A l \in Lanes :
         LET c == cache[m][l]
         IN  c # None /\ c.ticket \notin worked[m] /\ ~Between(m, c.ticket) =>
               /\ c = Settled(c, l)
               /\ pc[m] \in {"idle", "walk", "load", "render"} => sidecar[m][l] = c
               /\ pc[m] \in Pushing /\ l \in todo[m] => sidecar[m][l] = c
               /\ pc[m] \in {"index"} \cup Pushing => new[m][l] = c
               /\ pc[m] \in Pulling =>
                    \/ new[m][l] = c
                    \/ \E r \in moved[m] : r.to.ticket = c.ticket

-----------------------------------------------------------------------------
(* Types *)

\* The text of a file settled in a lane is a text.
LEMMA SettledType ==
    ASSUME NEW c \in Content, NEW l \in Lanes
    PROVE  /\ Settled(c, l) \in Content /\ Settled(c, l).stage = l
           /\ Settled(c, l).ticket = c.ticket /\ Settled(c, l).body = c.body
           /\ Settled(c, l) # None
<1>1. ClosedIn(l) \in BOOLEAN
    BY DEF ClosedIn
<1>2. Settled(c, l) \in Content /\ Settled(c, l).stage = l
           /\ Settled(c, l).ticket = c.ticket /\ Settled(c, l).body = c.body
    BY <1>1 DEF Settled, Content
<1> QED BY <1>2, NoneAssumption

\* A stage: label that from_issue finds is a lane.
LEMMA StageType ==
    ASSUME TypeOK, NEW m \in Machines, NEW t \in Present
    PROVE  /\ Recovered(m, t) \in Lanes \cup {None}
           /\ RebuiltIn(m, t) \in Lanes
<1>1. fetched[m][t].labels \in SUBSET Lanes
    BY DEF TypeOK, Issue
<1>2. LastStage[fetched[m][t].labels] \in Lanes \cup {None}
    BY <1>1, AdtSyncAssumption
<1> QED BY <1>2, AdtSyncAssumption DEF Recovered, RebuiltIn

\* The machines, tickets and behaviours of a world stay what they are.
LEMMA WorldStays == [Next]_vars => world' = world
<1>1. Human => world' = world
    BY DEF Human, Toggle, Relabel
<1>2. ASSUME NEW m \in Running, Session(m) PROVE world' = world
    BY <1>2 DEF Session, Edit, Move
<1>3. ASSUME NEW m \in Running, Accident(m) PROVE world' = world
    BY <1>3 DEF Accident, Crash, LoseSidecar, BreachedTick, PushError, RateLimited, PullError
<1>4. ASSUME NEW m \in Running, Step(m) PROVE world' = world
    BY <1>4 DEF Step, Start, PushEdit, PushState, PushRecord, PullFetch, PullRewrite,
                RenderDone, Walk, Persist, PushSkip, PushFetch, RenderFix, Reconstruct,
                PullRename, PullDies, PullWrite, PullSkip
<1>5. UNCHANGED vars => world' = world
    BY DEF vars
<1> QED BY <1>1, <1>2, <1>3, <1>4, <1>5 DEF Next

\* All of the state that is a machine's own.
My(m) == <<cache[m], sidecar[m], pc[m], todo[m], snap[m], new[m], at[m], fetched[m],
           moved[m], sent[m], worked[m]>>

\* What a session, an accident or a step of m is.
Own(m) == m \in Running /\ (Session(m) \/ Accident(m) \/ Step(m))

\* Sessions and passes of one machine leave the files and passes of others alone.
LEMMA Elsewhere ==
    ASSUME TypeOK, [Next]_vars, NEW m \in Machines, ~Own(m)
    PROVE  UNCHANGED My(m) /\ used'["edit"] >= used["edit"]
<1> DEFINE F == Machines
<1>d. /\ DOMAIN cache = F /\ DOMAIN sidecar = F /\ DOMAIN pc = F /\ DOMAIN todo = F
      /\ DOMAIN snap = F /\ DOMAIN new = F /\ DOMAIN at = F /\ DOMAIN fetched = F
      /\ DOMAIN moved = F /\ DOMAIN sent = F /\ DOMAIN worked = F
    BY DEF TypeOK
<1>0. \A k \in Kinds : used[k] \in Nat
    BY DEF TypeOK
<1>1. ASSUME NEW k \in Kinds, Spend(k) PROVE used'["edit"] >= used["edit"]
    BY <1>0, <1>1 DEF Spend, TypeOK, Kinds
<1>2. used' = used => used'["edit"] >= used["edit"]
    BY <1>0 DEF Kinds
<1>3. CASE Human
    BY <1>1, <1>3 DEF Human, Toggle, Relabel, My, file, pass, hist, Kinds
<1>4. CASE UNCHANGED vars
    BY <1>2, <1>4 DEF vars, My, file, pass, hist
<1>5. ASSUME NEW n \in Running, n # m, n \in Machines, Session(n)
      PROVE  UNCHANGED My(m) /\ used'["edit"] >= used["edit"]
    BY <1>d, <1>1, <1>5 DEF Session, Edit, Move, My, pass, Kinds
<1>6. ASSUME NEW n \in Running, n # m, n \in Machines, Accident(n)
      PROVE  UNCHANGED My(m) /\ used'["edit"] >= used["edit"]
    <2>1. CASE Crash(n)
        BY <1>d, <1>1, <1>6, <2>1 DEF Crash, Leave, My, file, hist, Kinds
    <2>2. CASE LoseSidecar(n)
        BY <1>d, <1>1, <1>6, <2>2 DEF LoseSidecar, My, pass, hist, Kinds
    <2>3. CASE BreachedTick(n)
        BY <1>d, <1>1, <1>6, <2>3 DEF BreachedTick, Leave, My, file, hist, Kinds
    <2>4. CASE PushError(n)
        BY <1>d, <1>1, <1>6, <2>4 DEF PushError, My, file, hist, Kinds
    <2>5. CASE RateLimited(n)
        BY <1>d, <1>1, <1>6, <2>5 DEF RateLimited, Leave, My, hist, Kinds
    <2>6. CASE PullError(n)
        BY <1>d, <1>1, <1>6, <2>6 DEF PullError, Leave, My, hist, Kinds
    <2> QED BY <1>6, <2>1, <2>2, <2>3, <2>4, <2>5, <2>6 DEF Accident
<1>7. ASSUME NEW n \in Running, n # m, n \in Machines, Step(n)
      PROVE  UNCHANGED My(m) /\ used'["edit"] >= used["edit"]
    <2>1. used' = used
        BY <1>7 DEF Step, Start, PushEdit, PushState, PushRecord, PullFetch, PullRewrite,
                    RenderDone, Walk, Persist, PushSkip, PushFetch, RenderFix,
                    Reconstruct, PullRename, PullDies, PullWrite, PullSkip
    <2>2. ASSUME Start(n) \/ PushEdit(n) \/ PushState(n) \/ PushRecord(n) \/ PullFetch(n)
          PROVE  UNCHANGED My(m)
        <3>1. CASE Start(n) \/ PullFetch(n)
            BY <1>d, <1>7, <3>1 DEF Start, PullFetch, My, file, hist
        <3>2. CASE PushEdit(n) \/ PushState(n)
            BY <1>d, <1>7, <3>2 DEF PushEdit, PushState, My, file
        <3>3. CASE PushRecord(n)
            BY <1>d, <1>7, <3>3 DEF PushRecord, My, file
        <3> QED BY <2>2, <3>1, <3>2, <3>3
    <2>3. ASSUME PullRewrite(n) PROVE UNCHANGED My(m)
        BY <1>d, <1>7, <2>3 DEF PullRewrite, My
    <2>4. ASSUME RenderDone(n) PROVE UNCHANGED My(m)
        BY <1>d, <1>7, <2>4 DEF RenderDone, Leave, My, file, hist
    <2>5. ASSUME NEW ls \in SUBSET Lanes, Walk(n, ls) PROVE UNCHANGED My(m)
        BY <1>d, <1>7, <2>5 DEF Walk, My, file, hist
    <2>6. ASSUME NEW next \in {"load", "idle"}, Persist(n, next) PROVE UNCHANGED My(m)
        BY <1>d, <1>7, <2>6 DEF Persist, Leave, My, hist
    <2>7. ASSUME NEW l \in Lanes, PushSkip(n, l) \/ PushFetch(n, l) \/ RenderFix(n, l)
          PROVE  UNCHANGED My(m)
        BY <1>d, <1>7, <2>7 DEF PushSkip, PushFetch, RenderFix, My, file, hist
    <2>8. ASSUME NEW t \in Present, Reconstruct(n, t) PROVE UNCHANGED My(m)
        BY <1>d, <1>7, <2>8 DEF Reconstruct, My
    <2>9. ASSUME NEW t \in Present, NEW l \in Lanes, PullRename(n, t, l)
          PROVE  UNCHANGED My(m)
        BY <1>d, <1>7, <2>9 DEF PullRename, My, hist
    <2>10. ASSUME NEW t \in Present, NEW l \in Lanes, PullDies(n, t, l)
           PROVE  UNCHANGED My(m)
        BY <1>d, <1>7, <2>10 DEF PullDies, Leave, My, file, hist
    <2>11. ASSUME NEW t \in Present, NEW l \in Lanes,
                  PullWrite(n, t, l) \/ PullSkip(n, t, l)
           PROVE  UNCHANGED My(m)
        BY <1>d, <1>7, <2>11 DEF PullWrite, PullSkip, My, file, hist
    <2>12. UNCHANGED My(m)
        BY <1>7, <2>2, <2>3, <2>4, <2>5, <2>6, <2>7, <2>8, <2>9, <2>10, <2>11 DEF Step
    <2> QED BY <1>2, <2>1, <2>12
<1>8. Running \subseteq Machines
    BY AdtSyncAssumption DEF TypeOK, Running
<1>9. ASSUME NEW n \in Running, Session(n) \/ Accident(n) \/ Step(n) PROVE n # m /\ n \in Machines
    BY <1>8, <1>9 DEF Own
<1> QED BY <1>3, <1>4, <1>5, <1>6, <1>7, <1>9 DEF Next

\* Leaving the pass keeps the types, and nothing is held.
LEMMA LeaveType ==
    ASSUME TypeInv, NEW m \in Machines, NEW p \in {"idle", "load"}, Leave(m, p),
           world' = world, used' \in [Kinds -> Nat], cache' \in [Machines -> [Lanes -> Slot]],
           sidecar' \in [Machines -> [Lanes -> Slot]], UNCHANGED <<issue, hist>>
    PROVE  TypeOK' /\ Held(m)'
<1>1. Present' = Present
    BY DEF Present
<1>2. TypeOK'
    BY <1>1 DEF Leave, TypeInv, TypeOK, NoFiles, Phases, Slot, hist
<1>3. pc'[m] = p
    BY DEF Leave, TypeInv, TypeOK
<1> QED BY <1>2, <1>3 DEF Held, Pushing, Visiting

\* The files and hashes keep their types when one of them is written.
LEMMA WriteType ==
    ASSUME NEW f \in [Machines -> [Lanes -> Slot]], NEW m \in Machines,
           NEW l \in Lanes, NEW c \in Slot
    PROVE  [f EXCEPT ![m][l] = c] \in [Machines -> [Lanes -> Slot]]
OBVIOUS

\* At first nothing is held.
LEMMA TypeInit == Init => TypeInv
<1> SUFFICES ASSUME Init PROVE TypeInv
    OBVIOUS
<1>1. world \in Worlds /\ Present \subseteq Tickets
    BY AdtSyncAssumption DEF Init, Present
<1>2. PICK home \in [Present -> Lanes] :
        LET start(t) == [ticket |-> t, stage |-> home[t],
                         closed |-> ClosedIn(home[t]), body |-> 0]
            files == [l \in Lanes |->
                        IF \E t \in Present : home[t] = l
                        THEN start(CHOOSE t \in Present : home[t] = l)
                        ELSE None]
        IN /\ cache = [m \in Machines |-> files]
           /\ sidecar = [m \in Machines |-> files]
           /\ issue = [t \in Present |-> [labels |-> {home[t]},
                                          closed |-> ClosedIn(home[t]),
                                          body |-> 0]]
           /\ sent = [m \in Machines |-> [t \in Present |-> start(t)]]
    BY DEF Init
<1>3. /\ pc = [m \in Machines |-> "idle"]
      /\ todo = [m \in Machines |-> {}]
      /\ snap = [m \in Machines |-> NoFiles]
      /\ new = [m \in Machines |-> NoFiles]
      /\ at = [m \in Machines |-> None]
      /\ fetched = [m \in Machines |-> issue]
      /\ moved = [m \in Machines |-> {}]
      /\ used = [k \in Kinds |-> 0]
      /\ worked = [m \in Machines |-> {}]
    BY DEF Init
<1> DEFINE start(t) == [ticket |-> t, stage |-> home[t],
                        closed |-> ClosedIn(home[t]), body |-> 0]
           files == [l \in Lanes |->
                       IF \E t \in Present : home[t] = l
                       THEN start(CHOOSE t \in Present : home[t] = l)
                       ELSE None]
<1>4. \A l \in Lanes : ClosedIn(l) \in BOOLEAN
    BY DEF ClosedIn
<1>5. \A t \in Present : start(t) \in Content
    BY <1>1, <1>4 DEF Content
<1>6. files \in [Lanes -> Slot]
    <2> HIDE DEF start
    <2> QED BY <1>5 DEF Slot
<1>7. issue \in [Present -> Issue]
    BY <1>2, <1>4 DEF Issue
<1>8. cache \in [Machines -> [Lanes -> Slot]] /\ sidecar \in [Machines -> [Lanes -> Slot]]
    <2>1. cache = [m \in Machines |-> files] /\ sidecar = [m \in Machines |-> files]
        BY <1>2
    <2> HIDE DEF files
    <2> QED BY <1>6, <2>1
<1>9. sent \in [Machines -> [Present -> Content]]
    <2>1. sent = [m \in Machines |-> [t \in Present |-> start(t)]]
        BY <1>2
    <2> HIDE DEF start
    <2> QED BY <1>5, <2>1
<1>10. TypeOK
    BY <1>1, <1>3, <1>7, <1>8, <1>9 DEF TypeOK, NoFiles, Slot, Phases
<1>11. \A m \in Machines : Held(m)
    BY <1>3 DEF Held, Pushing, Visiting
<1> QED BY <1>10, <1>11 DEF TypeInv

\* A session's own steps keep the types.
LEMMA TypeSession ==
    ASSUME TypeInv, NEW m \in Machines, Session(m)
    PROVE  TypeOK' /\ Held(m)'
<1>1. PICK l \in Lanes, k \in Lanes : Edit(m, l) \/ Move(m, l, k)
    BY DEF Session
<1>2. Present' = Present /\ world' = world
    BY <1>1 DEF Edit, Move, Present
<1>3. cache[m][l] \in Content /\ cache[m][l].ticket \in Tickets
    BY <1>1 DEF Edit, Move, TypeInv, TypeOK, Slot, Content
<1>4. used' \in [Kinds -> Nat]
    BY <1>1 DEF Edit, Move, Spend, TypeInv, TypeOK, Kinds
<1>5. cache' \in [Machines -> [Lanes -> Slot]]
    <2>1. CASE Edit(m, l)
        <3>1. used["edit"] + 1 \in Nat
            BY DEF TypeInv, TypeOK, Kinds
        <3>2. [cache[m][l] EXCEPT !.body = used["edit"] + 1] \in Content
            BY <1>3, <3>1 DEF Content
        <3>3. cache' = [cache EXCEPT ![m][l] = [cache[m][l] EXCEPT !.body = used["edit"] + 1]]
            BY <2>1 DEF Edit
        <3> QED BY <3>2, <3>3 DEF TypeInv, TypeOK, Slot
    <2>2. CASE Move(m, l, k)
        BY <1>3, <2>2 DEF Move, TypeInv, TypeOK, Slot
    <2> QED BY <1>1, <2>1, <2>2
<1>6. UNCHANGED <<sidecar, issue, pass, sent>>
    BY <1>1 DEF Edit, Move
<1>7. Held(m)'
    BY <1>6, <1>2 DEF pass, Held, Recovered, TypeInv
<1>8. worked' \in [Machines -> SUBSET Tickets]
    <2>1. worked' = [worked EXCEPT ![m] = @ \cup {cache[m][l].ticket}]
        BY <1>1 DEF Edit, Move
    <2> QED BY <1>3, <2>1 DEF TypeInv, TypeOK
<1> QED BY <1>2, <1>4, <1>5, <1>6, <1>7, <1>8 DEF TypeInv, TypeOK, pass

\* So do accidents.
LEMMA TypeAccident ==
    ASSUME TypeInv, NEW m \in Machines, Accident(m)
    PROVE  TypeOK' /\ Held(m)'
<1>1. used' \in [Kinds -> Nat]
    <2>1. Spend("fault")
        BY DEF Accident, Crash, LoseSidecar, BreachedTick, PushError, RateLimited, PullError
    <2> QED BY <2>1 DEF Spend, TypeInv, TypeOK, Kinds
<1>2. NoFiles \in [Lanes -> Slot]
    BY DEF NoFiles, Slot
<1>3. CASE Crash(m)
    BY <1>1, <1>3, LeaveType DEF Crash, file, TypeInv, TypeOK
<1>4. CASE LoseSidecar(m)
    <2>1. sidecar' \in [Machines -> [Lanes -> Slot]]
        BY <1>2, <1>4 DEF LoseSidecar, TypeInv, TypeOK
    <2>2. Held(m)'
        BY <1>4 DEF LoseSidecar, pass, Held, Recovered, TypeInv
    <2> QED BY <1>1, <1>4, <2>1, <2>2 DEF LoseSidecar, pass, hist, Present, TypeInv, TypeOK
<1>5. CASE BreachedTick(m)
    BY <1>1, <1>5, LeaveType DEF BreachedTick, file, TypeInv, TypeOK
<1>6. CASE PushError(m)
    <2>1. /\ pc[m] \in Visiting /\ pc' = [pc EXCEPT ![m] = "push"]
          /\ todo' = [todo EXCEPT ![m] = @ \ {at[m]}]
          /\ new' = [new EXCEPT ![m][at[m]] = None]
          /\ at' = [at EXCEPT ![m] = None]
          /\ UNCHANGED <<file, issue, snap, fetched, moved, hist, world>>
        BY <1>6 DEF PushError, Visiting
    <2>2. at[m] \in Lanes
        BY <2>1 DEF TypeInv, Held, Visiting, Pushing
    <2>3. new' \in [Machines -> [Lanes -> Slot]]
        BY <2>1, <2>2 DEF TypeInv, TypeOK, Slot
    <2>4. TypeOK'
        BY <1>1, <2>1, <2>3 DEF file, hist, Present, Phases, TypeInv, TypeOK
    <2>5. /\ pc'[m] = "push" /\ todo'[m] = todo[m] \ {at[m]} /\ snap'[m] = snap[m]
          /\ pc[m] \in Pushing
        BY <2>1 DEF TypeInv, TypeOK, Visiting, Pushing
    <2>6. \A l \in todo[m] : l \in Lanes /\ snap[m][l] # None
        BY <2>5 DEF TypeInv, Held
    <2>7. Held(m)'
        BY <2>5, <2>6 DEF Held, Visiting
    <2> QED BY <2>4, <2>7
<1>7. CASE RateLimited(m)
    <2>1. sidecar' \in [Machines -> [Lanes -> Slot]]
        BY <1>7 DEF RateLimited, TypeInv, TypeOK
    <2> QED BY <1>1, <1>7, <2>1, LeaveType DEF RateLimited, TypeInv, TypeOK
<1>8. CASE PullError(m)
    <2>1. sidecar' \in [Machines -> [Lanes -> Slot]]
        BY <1>8 DEF PullError, TypeInv, TypeOK
    <2> QED BY <1>1, <1>8, <2>1, LeaveType DEF PullError, TypeInv, TypeOK
<1> QED BY <1>3, <1>4, <1>5, <1>6, <1>7, <1>8 DEF Accident

\* The Issue that a push leaves is an Issue.
LEMMA EditedType ==
    ASSUME TypeOK, NEW t \in Present, NEW c \in Content, NEW was \in Issue
    PROVE  Edited(t, c, was) \in Issue
<1>1. issue[t] \in Issue
    BY DEF TypeOK
<1> QED BY <1>1 DEF Edited, Issue, Content

\* A push keeps the types.
LEMMA TypePush ==
    ASSUME TypeInv, NEW m \in Machines, NEW l \in Lanes,
           \/ Start(m) \/ PushSkip(m, l) \/ PushFetch(m, l) \/ PushEdit(m)
           \/ PushState(m) \/ PushRecord(m) \/ PullFetch(m)
    PROVE  TypeOK' /\ Held(m)'
<1>1. world' = world /\ Present' = Present /\ used' = used
    BY DEF Start, PushSkip, PushFetch, PushEdit, PushState, PushRecord, PullFetch, Present
<1>2. \A x \in Lanes : snap[m][x] # None =>
        snap[m][x] \in Content /\ snap[m][x].stage \in Lanes /\ snap[m][x].body \in Nat
            /\ snap[m][x].closed \in BOOLEAN /\ snap[m][x].ticket \in Tickets
    <2>1. \A x \in Lanes : snap[m][x] # None => snap[m][x] \in Content
        BY DEF TypeInv, TypeOK, Slot
    <2> QED BY <2>1 DEF Content
<1>3. pc[m] \in Pushing => \A x \in todo[m] : x \in Lanes /\ snap[m][x] # None
    BY DEF TypeInv, Held
<1>4. pc[m] \in Visiting => at[m] \in todo[m] /\ at[m] \in Lanes /\ snap[m][at[m]] # None
    BY <1>3 DEF TypeInv, Held, Visiting, Pushing
<1>5. CASE Start(m)
    <2>1. pc'[m] = "walk"
        BY <1>5 DEF Start, TypeInv, TypeOK
    <2>2. Held(m)'
        BY <2>1 DEF Held, Pushing, Visiting
    <2>3. TypeOK'
        BY <1>1, <1>5 DEF Start, file, hist, Phases, TypeInv, TypeOK
    <2> QED BY <2>2, <2>3
<1>6. CASE PushSkip(m, l)
    <2>1. pc[m] = "push" /\ pc' = pc /\ snap' = snap /\ todo'[m] = todo[m] \ {l}
        BY <1>6 DEF PushSkip, TypeInv, TypeOK
    <2>2. Held(m)'
        BY <1>3, <2>1 DEF Held, Pushing, Visiting
    <2>3. TypeOK'
        BY <1>1, <1>6 DEF PushSkip, file, hist, TypeInv, TypeOK
    <2> QED BY <2>2, <2>3
<1>7. CASE PushFetch(m, l)
    <2>1. /\ pc[m] = "push" /\ l \in todo[m] /\ pc'[m] = "edit" /\ at'[m] = l
          /\ snap' = snap /\ todo' = todo
        BY <1>7 DEF PushFetch, TypeInv, TypeOK
    <2>2. Held(m)'
        BY <1>3, <2>1 DEF Held, Pushing, Visiting
    <2>3. fetched' \in [Machines -> [Present -> Issue]]
        BY <1>7 DEF PushFetch, TypeInv, TypeOK
    <2>4. TypeOK'
        BY <1>1, <1>7, <2>3 DEF PushFetch, file, hist, Phases, TypeInv, TypeOK
    <2> QED BY <2>2, <2>4
<1>8. CASE PushEdit(m)
    <2> DEFINE c == snap[m][at[m]]
               t == c.ticket
    <2>1. /\ pc[m] = "edit" /\ pc' = [pc EXCEPT ![m] = "state"]
          /\ issue' = [issue EXCEPT ![t] = Edited(t, c, fetched[m][t])]
          /\ sent' = [sent EXCEPT ![m][t] = [@ EXCEPT !.stage = c.stage, !.body = c.body]]
          /\ UNCHANGED <<file, todo, snap, new, at, fetched, moved, used, worked, world>>
        BY <1>8 DEF PushEdit
    <2>2. c \in Content /\ c.stage \in Lanes /\ c.body \in Nat
        BY <1>2, <1>4, <2>1 DEF Visiting
    <2>3. issue' \in [Present -> Issue]
        <3>1. t \in Present => Edited(t, c, fetched[m][t]) \in Issue
            BY <2>2, EditedType DEF TypeInv, TypeOK
        <3> HIDE DEF c
        <3> QED BY <2>1, <3>1 DEF TypeInv, TypeOK
    <2>4. sent' \in [Machines -> [Present -> Content]]
        <3>1. \A d \in Content : [d EXCEPT !.stage = c.stage, !.body = c.body] \in Content
            BY <2>2 DEF Content
        <3>2. \A u \in Present : sent[m][u] \in Content
            BY DEF TypeInv, TypeOK
        <3>3. t \in Present => [sent[m][t] EXCEPT !.stage = c.stage, !.body = c.body] \in Content
            BY <3>1, <3>2
        <3>4. sent' = [sent EXCEPT ![m][t] = [sent[m][t] EXCEPT !.stage = c.stage, !.body = c.body]]
            BY <2>1
        <3> HIDE DEF c
        <3> QED BY <3>3, <3>4 DEF TypeInv, TypeOK
    <2>5. Held(m)'
        <3>1. pc'[m] = "state"
            BY <2>1 DEF TypeInv, TypeOK
        <3> QED BY <1>3, <1>4, <2>1, <3>1 DEF Held, Pushing, Visiting
    <2>6. TypeOK'
        BY <1>1, <2>1, <2>3, <2>4 DEF file, Phases, TypeInv, TypeOK
    <2> QED BY <2>5, <2>6
<1>9. CASE PushState(m)
    <2> DEFINE c == snap[m][at[m]]
               t == c.ticket
    <2>1. /\ pc[m] = "state" /\ pc' = [pc EXCEPT ![m] = "record"]
          /\ \/ issue' = [issue EXCEPT ![t].closed = c.closed]
             \/ issue' = issue
          /\ sent' = [sent EXCEPT ![m][t] = c]
          /\ UNCHANGED <<file, todo, snap, new, at, fetched, moved, used, worked, world>>
        BY <1>9 DEF PushState
    <2>2. c \in Content /\ c.closed \in BOOLEAN
        BY <1>2, <1>4, <2>1 DEF Visiting
    <2>3. issue' \in [Present -> Issue]
        <3>1. t \in Present => [issue[t] EXCEPT !.closed = c.closed] \in Issue
            <4>1. t \in Present => issue[t] \in Issue
                BY DEF TypeInv, TypeOK
            <4> HIDE DEF c
            <4> QED BY <2>2, <4>1 DEF Issue
        <3>2. \/ issue' = [issue EXCEPT ![t] = [issue[t] EXCEPT !.closed = c.closed]]
              \/ issue' = issue
            BY <2>1
        <3> HIDE DEF c
        <3> QED BY <3>1, <3>2 DEF TypeInv, TypeOK
    <2>4. sent' \in [Machines -> [Present -> Content]]
        <3> HIDE DEF c
        <3> QED BY <2>1, <2>2 DEF TypeInv, TypeOK
    <2>5. Held(m)'
        <3>1. pc'[m] = "record"
            BY <2>1 DEF TypeInv, TypeOK
        <3> QED BY <1>3, <1>4, <2>1, <3>1 DEF Held, Pushing, Visiting
    <2>6. TypeOK'
        BY <1>1, <2>1, <2>3, <2>4 DEF file, Phases, TypeInv, TypeOK
    <2> QED BY <2>5, <2>6
<1>10. CASE PushRecord(m)
    <2>1. /\ pc[m] = "record" /\ pc' = [pc EXCEPT ![m] = "push"]
          /\ \E c \in {cache[m][at[m]], snap[m][at[m]]} : new' = [new EXCEPT ![m][at[m]] = c]
          /\ todo' = [todo EXCEPT ![m] = @ \ {at[m]}]
          /\ at' = [at EXCEPT ![m] = None]
          /\ \E w \in SUBSET worked[m] : worked' = [worked EXCEPT ![m] = w]
          /\ UNCHANGED <<file, issue, snap, fetched, moved, used, sent, world>>
        BY <1>10 DEF PushRecord
    <2>2. new' \in [Machines -> [Lanes -> Slot]]
        BY <1>4, <2>1 DEF TypeInv, TypeOK, Visiting
    <2>3. worked' \in [Machines -> SUBSET Tickets]
        BY <2>1 DEF TypeInv, TypeOK
    <2>4. Held(m)'
        <3>1. pc'[m] = "push" /\ todo'[m] = todo[m] \ {at[m]}
            BY <2>1 DEF TypeInv, TypeOK
        <3> QED BY <1>3, <2>1, <3>1 DEF Held, Pushing, Visiting
    <2>5. TypeOK'
        BY <1>1, <2>1, <2>2, <2>3 DEF file, Phases, TypeInv, TypeOK
    <2> QED BY <2>4, <2>5
<1>11. CASE PullFetch(m)
    <2>1. pc'[m] = "index"
        BY <1>11 DEF PullFetch, TypeInv, TypeOK
    <2>2. Held(m)'
        BY <2>1 DEF Held, Pushing, Visiting
    <2>3. NoFiles \in [Lanes -> Slot]
        BY DEF NoFiles, Slot
    <2>4. TypeOK'
        BY <1>1, <1>11, <2>3 DEF PullFetch, file, hist, Phases, TypeInv, TypeOK
    <2> QED BY <2>2, <2>4
<1> QED BY <1>5, <1>6, <1>7, <1>8, <1>9, <1>10, <1>11

\* A walk keeps the types.
LEMMA TypeWalk ==
    ASSUME TypeInv, NEW m \in Machines, NEW ls \in SUBSET Lanes, Walk(m, ls)
    PROVE  TypeOK' /\ Held(m)'
<1> DEFINE s == [l \in Lanes |-> IF l \in ls THEN cache[m][l] ELSE snap[m][l]]
<1>1. /\ pc[m] \in {"walk", "index", "load"}
      /\ snap' = [snap EXCEPT ![m] = s]
      /\ \/ /\ pc' = [pc EXCEPT ![m] = AfterWalk[pc[m]]]
            /\ todo' = [todo EXCEPT ![m] = Agenda(m, s)]
         \/ /\ todo' = [todo EXCEPT ![m] = @ \ ls]
            /\ UNCHANGED pc
      /\ UNCHANGED <<file, issue, new, at, fetched, moved, used, hist, world>>
    BY DEF Walk, AfterWalk
<1>2. Present' = Present /\ Present \subseteq Tickets
    BY <1>1, AdtSyncAssumption DEF Present, TypeInv, TypeOK
<1>3. s \in [Lanes -> Slot]
    BY DEF TypeInv, TypeOK
<1> HIDE DEF s
<1>4. Agenda(m, s) \in SUBSET (Lanes \cup Tickets)
    BY <1>1, <1>2 DEF Agenda
<1>5. AfterWalk[pc[m]] \in {"push", "pull", "render"}
    BY <1>1 DEF AfterWalk
<1>6. TypeOK'
    <2>1. pc' \in [Machines -> Phases]
        <3>1. pc' = pc \/ pc' = [pc EXCEPT ![m] = AfterWalk[pc[m]]]
            BY <1>1
        <3>2. AfterWalk[pc[m]] \in Phases /\ pc \in [Machines -> Phases]
            BY <1>5 DEF Phases, TypeInv, TypeOK
        <3> QED BY <3>1, <3>2
    <2>2. todo' \in [Machines -> SUBSET (Lanes \cup Tickets)]
        <3>1. \/ todo' = [todo EXCEPT ![m] = Agenda(m, s)]
              \/ todo' = [todo EXCEPT ![m] = todo[m] \ ls]
            BY <1>1
        <3>2. /\ todo \in [Machines -> SUBSET (Lanes \cup Tickets)]
              /\ todo[m] \ ls \in SUBSET (Lanes \cup Tickets)
            BY DEF TypeInv, TypeOK
        <3> QED BY <1>4, <3>1, <3>2
    <2> QED BY <1>1, <1>2, <1>3, <2>1, <2>2 DEF file, hist, TypeInv, TypeOK
<1>7. snap'[m] = s
    BY <1>1 DEF TypeInv, TypeOK
<1>8. ASSUME pc' = pc PROVE Held(m)'
    BY <1>1, <1>8 DEF Held, Pushing, Visiting
<1>9. ASSUME pc' = [pc EXCEPT ![m] = AfterWalk[pc[m]]],
             todo' = [todo EXCEPT ![m] = Agenda(m, s)]
      PROVE  Held(m)'
    <2>1. pc'[m] = AfterWalk[pc[m]] /\ todo'[m] = Agenda(m, s)
        BY <1>9 DEF TypeInv, TypeOK
    <2>2. CASE pc[m] = "walk"
        BY <1>7, <2>1, <2>2 DEF Held, Pushing, Visiting, AfterWalk, Agenda
    <2>3. CASE pc[m] = "index"
        BY <2>1, <2>3 DEF Held, Pushing, Visiting, AfterWalk
    <2>4. CASE pc[m] = "load"
        BY <1>7, <2>1, <2>4 DEF Held, Pushing, Visiting, AfterWalk, Agenda
    <2> QED BY <1>1, <2>2, <2>3, <2>4
<1> QED BY <1>1, <1>6, <1>8, <1>9

\* A pull keeps the types.
LEMMA TypePull ==
    ASSUME TypeInv, NEW m \in Machines, NEW t \in Present, NEW l \in Lanes,
           \/ PullRename(m, t, l) \/ PullDies(m, t, l) \/ PullWrite(m, t, l)
           \/ PullSkip(m, t, l) \/ Reconstruct(m, t)
    PROVE  TypeOK' /\ Held(m)'
<1>1. world' = world /\ Present' = Present /\ used' = used /\ used \in [Kinds -> Nat]
    BY DEF PullRename, PullDies, PullWrite, PullSkip, Reconstruct, Present, TypeInv, TypeOK
<1>2. /\ snap[m][l] \in Slot /\ cache[m][l] \in Slot
      /\ Recovered(m, t) \in Lanes \cup {None} /\ RebuiltIn(m, t) \in Lanes
    BY StageType DEF TypeInv, TypeOK
<1>3. pc'[m] = "pull" => Held(m)'
    BY DEF Held, Pushing, Visiting
<1>4. CASE PullRename(m, t, l)
    <2>1. /\ snap[m][l] # None /\ snap[m][l].ticket = t /\ Recovered(m, t) \in Lanes
          /\ cache' = [cache EXCEPT ![m][Recovered(m, t)] = cache[m][l], ![m][l] = None]
          /\ at' = [at EXCEPT ![m] = l]
          /\ pc' = [pc EXCEPT ![m] = "rewrite"]
          /\ UNCHANGED <<sidecar, issue, todo, snap, new, fetched, moved, used, hist, world>>
        BY <1>4 DEF PullRename, PullsFrom, CopiesIn, Relocates
    <2>2. cache' \in [Machines -> [Lanes -> Slot]]
        BY <1>2, <2>1 DEF TypeInv, TypeOK, Slot
    <2>3. Held(m)'
        <3>1. pc'[m] = "rewrite" /\ at'[m] = l
            BY <2>1 DEF TypeInv, TypeOK
        <3> QED BY <2>1, <3>1 DEF Held, Pushing, Visiting, Recovered
    <2>4. TypeOK'
        BY <1>1, <2>1, <2>2 DEF hist, Phases, TypeInv, TypeOK
    <2> QED BY <2>3, <2>4
<1>5. CASE PullDies(m, t, l)
    BY <1>1, <1>5, LeaveType DEF PullDies, file, TypeInv, TypeOK
<1>6. CASE PullWrite(m, t, l)
    <2>1. cache' \in [Machines -> [Lanes -> Slot]]
        BY <1>2, <1>6 DEF PullWrite, TypeInv, TypeOK
    <2>2. TypeOK' /\ pc'[m] = "pull"
        BY <1>1, <1>6, <2>1 DEF PullWrite, PullsFrom, hist, TypeInv, TypeOK
    <2> QED BY <1>3, <2>2
<1>7. CASE PullSkip(m, t, l)
    <2>1. TypeOK' /\ pc'[m] = "pull"
        BY <1>1, <1>7 DEF PullSkip, PullsFrom, file, hist, TypeInv, TypeOK
    <2> QED BY <1>3, <2>1
<1>8. CASE Reconstruct(m, t)
    <2> DEFINE i == fetched[m][t]
               k == RebuiltIn(m, t)
               c == [ticket |-> t, stage |-> k, closed |-> i.closed, body |-> i.body]
    <2>1. /\ pc[m] = "pull"
          /\ cache' = [cache EXCEPT ![m][k] = c]
          /\ sent' = [sent EXCEPT ![m][t] = c]
          /\ todo' = [todo EXCEPT ![m] = @ \ {t}]
          /\ UNCHANGED <<sidecar, issue, pc, snap, new, at, fetched, moved, used, worked, world>>
        BY <1>8 DEF Reconstruct, Missing
    <2>2. c \in Content /\ k \in Lanes
        <3>1. i \in Issue
            BY DEF TypeInv, TypeOK
        <3>2. t \in Tickets
            BY AdtSyncAssumption DEF Present, TypeInv, TypeOK
        <3> QED BY <1>2, <3>1, <3>2 DEF Issue, Content
    <2> HIDE DEF c, k
    <2>3. cache' \in [Machines -> [Lanes -> Slot]] /\ sent' \in [Machines -> [Present -> Content]]
        BY <2>1, <2>2 DEF TypeInv, TypeOK, Slot
    <2>4. TypeOK' /\ pc'[m] = "pull"
        BY <1>1, <2>1, <2>3 DEF Phases, TypeInv, TypeOK
    <2> QED BY <1>3, <2>4
<1> QED BY <1>4, <1>5, <1>6, <1>7, <1>8

\* So does the rewrite that ends a relocation.
LEMMA TypeRewrite ==
    ASSUME TypeInv, NEW m \in Machines, PullRewrite(m)
    PROVE  TypeOK' /\ Held(m)'
<1>0. world' = world /\ Present' = Present /\ used' = used /\ used \in [Kinds -> Nat]
    BY DEF PullRewrite, Present, TypeInv, TypeOK
<1> DEFINE d == snap[m][at[m]]
           k == Recovered(m, d.ticket)
           c == Settled(d, k)
<1>1. /\ pc[m] = "rewrite" /\ pc' = [pc EXCEPT ![m] = "pull"]
      /\ cache' = [cache EXCEPT ![m][c.stage] = c]
      /\ moved' = [moved EXCEPT ![m] = @ \cup {[from |-> at[m], to |-> c]}]
      /\ sent' = [sent EXCEPT ![m][d.ticket] = c]
      /\ worked' = [worked EXCEPT ![m] = @ \ {d.ticket}]
      /\ todo' = [todo EXCEPT ![m] = @ \ {d.ticket}]
      /\ at' = [at EXCEPT ![m] = None]
      /\ UNCHANGED <<sidecar, issue, snap, new, fetched, used, world>>
    BY DEF PullRewrite
<1>2. d \in Content /\ at[m] \in Lanes /\ k \in Lanes
    BY <1>1 DEF TypeInv, Held, TypeOK, Slot
<1>3. c \in Content /\ c.stage \in Lanes
    BY <1>2, SettledType
<1> HIDE DEF c, d
<1>4. cache' \in [Machines -> [Lanes -> Slot]] /\ sent' \in [Machines -> [Present -> Content]]
    BY <1>1, <1>3 DEF TypeInv, TypeOK, Slot
<1>5. moved' \in [Machines -> SUBSET [from : Lanes, to : Content]]
    <2>1. [from |-> at[m], to |-> c] \in [from : Lanes, to : Content]
        BY <1>2, <1>3
    <2> QED BY <1>1, <2>1 DEF TypeInv, TypeOK
<1>6. TypeOK' /\ pc'[m] = "pull"
    BY <1>0, <1>1, <1>4, <1>5 DEF Phases, TypeInv, TypeOK
<1>7. Held(m)'
    BY <1>6 DEF Held, Pushing, Visiting
<1> QED BY <1>6, <1>7

\* A save and a render keep the types.
LEMMA TypeRender ==
    ASSUME TypeInv, NEW m \in Machines, NEW l \in Lanes, NEW next \in {"load", "idle"},
           Persist(m, next) \/ RenderFix(m, l) \/ RenderDone(m)
    PROVE  TypeOK' /\ Held(m)'
<1>1. world' = world /\ Present' = Present /\ used' = used /\ used \in [Kinds -> Nat]
    BY DEF Persist, RenderFix, RenderDone, Present, TypeInv, TypeOK
<1>2. CASE Persist(m, next)
    <2>1. Rekeyed(m) \in [Lanes -> Slot]
        <3>1. \A l2 \in Lanes : new[m][l2] \in Slot
            BY DEF TypeInv, TypeOK
        <3>2. \A r \in moved[m] : r.to \in Slot
            BY DEF TypeInv, TypeOK, Slot
        <3> QED BY <3>1, <3>2 DEF Rekeyed, Slot
    <2>2. sidecar' \in [Machines -> [Lanes -> Slot]]
        BY <1>2, <2>1 DEF Persist, TypeInv, TypeOK
    <2> QED BY <1>1, <1>2, <2>2, LeaveType DEF Persist, TypeInv, TypeOK
<1>3. CASE RenderFix(m, l)
    <2>1. /\ pc[m] = "render" /\ pc' = pc /\ snap' = snap /\ todo'[m] = todo[m] \ {l}
          /\ l \in todo[m]
        BY <1>3 DEF RenderFix, TypeInv, TypeOK
    <2>2. snap[m][l] \in Content
        BY <2>1 DEF TypeInv, Held, TypeOK, Slot
    <2>3. Settled(snap[m][l], l) \in Slot
        BY <2>2, SettledType DEF Slot
    <2>4. cache' \in [Machines -> [Lanes -> Slot]]
        BY <1>3, <2>3 DEF RenderFix, TypeInv, TypeOK
    <2>5. TypeOK'
        BY <1>1, <1>3, <2>4 DEF RenderFix, hist, TypeInv, TypeOK
    <2>6. Held(m)'
        BY <2>1 DEF TypeInv, Held, Pushing, Visiting
    <2> QED BY <2>5, <2>6
<1>4. CASE RenderDone(m)
    BY <1>1, <1>4, LeaveType DEF RenderDone, file, TypeInv, TypeOK
<1> QED BY <1>2, <1>3, <1>4

\* Every step keeps the types.
LEMMA TypeStep == TypeInv /\ [Next]_vars => TypeInv'
<1> SUFFICES ASSUME TypeInv, [Next]_vars PROVE TypeInv'
    OBVIOUS
<1>1. Running \subseteq Machines
    BY AdtSyncAssumption DEF TypeInv, TypeOK, Running
<1>2. ASSUME NEW m \in Machines, Own(m) PROVE TypeOK' /\ Held(m)'
    <2>1. CASE Step(m)
        <3>1. \E l \in Lanes : TRUE
            BY AdtSyncAssumption
        <3>2. ASSUME \/ Start(m) \/ PushEdit(m) \/ PushState(m) \/ PushRecord(m) \/ PullFetch(m)
                     \/ \E l \in Lanes : PushSkip(m, l) \/ PushFetch(m, l)
              PROVE  TypeOK' /\ Held(m)'
            BY <3>1, <3>2, TypePush
        <3>3. ASSUME \/ \E t \in Present : Reconstruct(m, t)
                     \/ \E t \in Present, l \in Lanes :
                          \/ PullRename(m, t, l) \/ PullDies(m, t, l)
                          \/ PullWrite(m, t, l) \/ PullSkip(m, t, l)
              PROVE  TypeOK' /\ Held(m)'
            BY <3>1, <3>3, TypePull
        <3>4. ASSUME \/ RenderDone(m) \/ \E l \in Lanes : RenderFix(m, l)
                     \/ \E next \in {"load", "idle"} : Persist(m, next)
              PROVE  TypeOK' /\ Held(m)'
            BY <3>1, <3>4, TypeRender
        <3>5. ASSUME NEW ls \in SUBSET Lanes, Walk(m, ls) PROVE TypeOK' /\ Held(m)'
            BY <3>5, TypeWalk
        <3> QED BY <2>1, <3>2, <3>3, <3>4, <3>5, TypeRewrite DEF Step
    <2> QED BY <1>2, <2>1, TypeSession, TypeAccident DEF Own
<1>3. ASSUME NEW m \in Machines, ~Own(m) PROVE Held(m)'
    <2>1. UNCHANGED My(m)
        BY <1>3, Elsewhere DEF TypeInv
    <2> QED BY <2>1 DEF My, TypeInv, Held, Recovered
<1>4. TypeOK'
    <2>1. CASE Human
        <3>1. UNCHANGED <<file, pass, hist, world>> /\ Present' = Present
            BY <2>1 DEF Human, Toggle, Relabel, Present
        <3>2. used' \in [Kinds -> Nat]
            <4>1. Spend("human")
                BY <2>1 DEF Human, Toggle, Relabel
            <4> QED BY <4>1 DEF Spend, TypeInv, TypeOK, Kinds
        <3>3. issue' \in [Present -> Issue]
            <4>1. PICK t \in Present : Toggle(t) \/ \E l \in Lanes : Relabel(t, l)
                BY <2>1 DEF Human
            <4>2. issue \in [Present -> Issue] /\ issue[t] \in Issue
                BY DEF TypeInv, TypeOK
            <4>3. [issue[t] EXCEPT !.closed = ~issue[t].closed] \in Issue
                BY <4>2 DEF Issue
            <4>4. \A l \in Lanes : [issue[t] EXCEPT !.labels = {l}] \in Issue
                BY <4>2 DEF Issue
            <4> QED BY <4>1, <4>2, <4>3, <4>4 DEF Toggle, Relabel
        <3> QED BY <3>1, <3>2, <3>3 DEF file, pass, hist, TypeInv, TypeOK
    <2>2. CASE UNCHANGED vars
        BY <2>2 DEF vars, file, pass, hist, Present, TypeInv, TypeOK
    <2> QED BY <1>1, <1>2, <2>1, <2>2 DEF Next, Own
<1> QED BY <1>2, <1>3, <1>4 DEF TypeInv

\* Files, hashes and passes keep their shape, whatever happens in the world.
THEOREM TypeCorrect == Spec => []TypeOK
<1>1. TypeInv => TypeOK
    BY DEF TypeInv
<1> QED BY <1>1, TypeInit, TypeStep, PTL DEF Spec

-----------------------------------------------------------------------------
(* What the steps of a machine do to its own files and its own pass, while    *)
(* sessions keep out of passes                                                *)

Kept == "midpass" \notin Env

\* What the variables of a machine are.
LEMMA MyTypes ==
    ASSUME TypeOK, NEW m \in Machines
    PROVE  /\ cache[m] \in [Lanes -> Slot] /\ sidecar[m] \in [Lanes -> Slot]
           /\ snap[m] \in [Lanes -> Slot] /\ new[m] \in [Lanes -> Slot]
           /\ sent[m] \in [Present -> Content]
           /\ moved[m] \in SUBSET [from : Lanes, to : Content]
           /\ used["edit"] \in Nat
BY DEF TypeOK, Kinds

\* A session rewrites one text, between passes ...
LEMMA EditDoes ==
    ASSUME TypeOK, Kept, NEW m \in Machines, NEW l \in Lanes, Edit(m, l)
    PROVE  /\ pc[m] = "idle" /\ cache[m][l] # None
           /\ cache'[m] = [cache[m] EXCEPT ![l] =
                              [cache[m][l] EXCEPT !.body = used["edit"] + 1]]
           /\ worked'[m] = worked[m] \cup {cache[m][l].ticket}
           /\ used'["edit"] = used["edit"] + 1
           /\ UNCHANGED <<sidecar, pc, todo, snap, new, at, fetched, moved, sent, world>>
BY DEF Edit, SessionMayAct, Kept, Spend, TypeOK, pass, Kinds

\* ... or moves one file.
LEMMA MoveDoes ==
    ASSUME TypeOK, Kept, NEW m \in Machines, NEW l \in Lanes, NEW k \in Lanes, Move(m, l, k)
    PROVE  /\ pc[m] = "idle" /\ cache[m][l] # None /\ cache[m][k] = None /\ k # l
           /\ cache'[m] = [cache[m] EXCEPT ![k] = cache[m][l], ![l] = None]
           /\ worked'[m] = worked[m] \cup {cache[m][l].ticket}
           /\ used'["edit"] = used["edit"]
           /\ UNCHANGED <<sidecar, pc, todo, snap, new, at, fetched, moved, sent, world>>
BY DEF Move, SessionMayAct, Kept, Spend, TypeOK, pass, Kinds

\* A pass that ends holds nothing.
LEMMA LeaveDoes ==
    ASSUME TypeOK, NEW m \in Machines, NEW p, Leave(m, p)
    PROVE  /\ pc'[m] = p /\ todo'[m] = (IF p = "load" THEN Lanes ELSE {})
           /\ snap'[m] = NoFiles /\ new'[m] = NoFiles /\ moved'[m] = {}
BY DEF Leave, TypeOK

\* The ways to leave a pass, or to go on to the render.
Leaves(m) == \/ Crash(m) \/ BreachedTick(m) \/ RateLimited(m) \/ PullError(m)
             \/ RenderDone(m) \/ \E next \in {"load", "idle"} : Persist(m, next)
             \/ \E t \in Present, l \in Lanes : PullDies(m, t, l)

LEMMA LeavesDo ==
    ASSUME TypeOK, NEW m \in Machines, Leaves(m)
    PROVE  /\ pc'[m] \in {"load", "idle"}
           /\ todo'[m] = (IF pc'[m] = "load" THEN Lanes ELSE {})
           /\ snap'[m] = NoFiles /\ new'[m] = NoFiles /\ moved'[m] = {}
           /\ sidecar'[m] \in {sidecar[m], new[m], Rekeyed(m)}
           /\ used'["edit"] = used["edit"]
           /\ UNCHANGED <<cache, sent, worked, world>>
<1>1. PICK p \in {"load", "idle"} : Leave(m, p)
    BY DEF Leaves, Crash, BreachedTick, RateLimited, PullError, RenderDone, Persist, PullDies
<1>2. sidecar'[m] \in {sidecar[m], new[m], Rekeyed(m)}
    BY DEF Leaves, Crash, BreachedTick, RateLimited, PullError, RenderDone, Persist, PullDies,
           file, TypeOK
<1>3. UNCHANGED <<cache, sent, worked, world>>
    BY DEF Leaves, Crash, BreachedTick, RateLimited, PullError, RenderDone, Persist, PullDies,
           file, hist
<1>4. used'["edit"] = used["edit"]
    <2>1. Spend("fault") => used'["edit"] = used["edit"]
        BY DEF Spend, TypeOK, Kinds
    <2>2. Spend("fault") \/ used' = used
        BY DEF Leaves, Crash, BreachedTick, RateLimited, PullError, RenderDone, Persist,
               PullDies
    <2> QED BY <2>1, <2>2
<1> QED BY <1>1, <1>2, <1>3, <1>4, LeaveDoes

\* The sidecar is lost between passes.
LEMMA LoseDoes ==
    ASSUME TypeOK, NEW m \in Machines, LoseSidecar(m)
    PROVE  /\ pc[m] = "idle" /\ sidecar'[m] = NoFiles /\ used'["edit"] = used["edit"]
           /\ UNCHANGED <<cache, pc, todo, snap, new, at, fetched, moved, sent, worked, world>>
BY DEF LoseSidecar, Spend, TypeOK, Kinds, pass, hist

\* A pass begins with the hashes it finds.
LEMMA StartDoes ==
    ASSUME TypeOK, NEW m \in Machines, Start(m)
    PROVE  /\ pc[m] = "idle" /\ pc'[m] = "walk" /\ todo'[m] = Lanes /\ new'[m] = sidecar[m]
           /\ UNCHANGED <<cache, sidecar, snap, at, fetched, moved, used, sent, worked, world>>
BY DEF Start, TypeOK, file, hist

\* A walk reads every folder at once: nothing happens in the middle of it.
LEMMA WalkDoes ==
    ASSUME TypeOK, Kept, NEW m \in Machines, todo[m] = Lanes,
           NEW ls \in SUBSET Lanes, Walk(m, ls)
    PROVE  /\ snap'[m] = cache[m]
           /\ \/ pc[m] = "walk" /\ pc'[m] = "push" /\ todo'[m] = {l \in Lanes : cache[m][l] # None}
              \/ pc[m] = "index" /\ pc'[m] = "pull" /\ todo'[m] = Present
              \/ /\ pc[m] = "load" /\ pc'[m] = "render"
                 /\ todo'[m] = {l \in Lanes : /\ cache[m][l] # None
                                              /\ cache[m][l] # Settled(cache[m][l], l)}
           /\ UNCHANGED <<cache, sidecar, new, at, fetched, moved, used, sent, worked, world>>
<1> DEFINE s == [l \in Lanes |-> IF l \in ls THEN cache[m][l] ELSE snap[m][l]]
<1>1. ls = Lanes
    BY DEF Walk, Kept
<1>2. s = cache[m]
    BY <1>1 DEF TypeOK
<1>3. /\ pc[m] \in {"walk", "index", "load"}
      /\ snap' = [snap EXCEPT ![m] = s]
      /\ pc' = [pc EXCEPT ![m] = AfterWalk[pc[m]]]
      /\ todo' = [todo EXCEPT ![m] = Agenda(m, s)]
      /\ UNCHANGED <<file, issue, new, at, fetched, moved, used, hist, world>>
    BY <1>1 DEF Walk, AfterWalk
<1> HIDE DEF s
<1>4. snap'[m] = cache[m] /\ pc'[m] = AfterWalk[pc[m]] /\ todo'[m] = Agenda(m, cache[m])
    BY <1>2, <1>3 DEF TypeOK
<1>5. UNCHANGED <<cache, sidecar, new, at, fetched, moved, used, sent, worked, world>>
    BY <1>3 DEF file, hist
<1>6. CASE pc[m] = "walk"
    BY <1>4, <1>5, <1>6 DEF AfterWalk, Agenda
<1>7. CASE pc[m] = "index"
    BY <1>4, <1>5, <1>7 DEF AfterWalk, Agenda
<1>8. CASE pc[m] = "load"
    BY <1>4, <1>5, <1>8 DEF AfterWalk, Agenda
<1> QED BY <1>3, <1>6, <1>7, <1>8

\* The push passes over a file, or reads its Issue ...
LEMMA SkipDoes ==
    ASSUME TypeOK, NEW m \in Machines, NEW l \in Lanes, PushSkip(m, l)
    PROVE  /\ pc[m] = "push" /\ l \in todo[m] /\ todo'[m] = todo[m] \ {l} /\ Skips(m, l)
           /\ UNCHANGED <<cache, sidecar, pc, snap, new, at, fetched, moved, used, sent,
                          worked, world>>
BY DEF PushSkip, TypeOK, file, hist

LEMMA FetchDoes ==
    ASSUME TypeOK, NEW m \in Machines, NEW l \in Lanes, PushFetch(m, l)
    PROVE  /\ pc[m] = "push" /\ l \in todo[m] /\ ~Skips(m, l)
           /\ pc'[m] = "edit" /\ at'[m] = l
           /\ UNCHANGED <<cache, sidecar, todo, snap, new, moved, used, sent, worked, world>>
BY DEF PushFetch, TypeOK, file, hist

\* ... writes it ...
LEMMA EditSends ==
    ASSUME TypeOK, NEW m \in Machines, PushEdit(m)
    PROVE  LET c == snap[m][at[m]]
           IN  /\ pc[m] = "edit" /\ pc'[m] = "state"
               /\ sent'[m] = [sent[m] EXCEPT ![c.ticket] =
                                 [@ EXCEPT !.stage = c.stage, !.body = c.body]]
               /\ UNCHANGED <<cache, sidecar, todo, snap, new, at, fetched, moved, used,
                              worked, world>>
BY DEF PushEdit, TypeOK, file

LEMMA StateSends ==
    ASSUME TypeOK, NEW m \in Machines, PushState(m)
    PROVE  LET c == snap[m][at[m]]
           IN  /\ pc[m] = "state" /\ pc'[m] = "record"
               /\ sent'[m] = [sent[m] EXCEPT ![c.ticket] = c]
               /\ UNCHANGED <<cache, sidecar, todo, snap, new, at, fetched, moved, used,
                              worked, world>>
BY DEF PushState, TypeOK, file

\* ... and records the file, or forgets it.
LEMMA RecordDoes ==
    ASSUME TypeInv, NEW m \in Machines, PushRecord(m), snap[m] = cache[m]
    PROVE  LET c == cache[m][at[m]]
           IN  /\ pc[m] = "record" /\ pc'[m] = "push" /\ todo'[m] = todo[m] \ {at[m]}
               /\ new'[m] = [new[m] EXCEPT ![at[m]] = c]
               /\ worked'[m] = (IF c = Settled(c, at[m]) THEN worked[m] \ {c.ticket}
                                ELSE worked[m])
               /\ UNCHANGED <<cache, sidecar, snap, fetched, moved, used, sent, world>>
<1>1. pc[m] = "record" /\ at[m] \in Lanes /\ snap[m][at[m]] # None
    BY DEF PushRecord, TypeInv, Held, Pushing, Visiting
<1> QED BY <1>1 DEF PushRecord, TypeInv, TypeOK, file

LEMMA ErrorDoes ==
    ASSUME TypeOK, NEW m \in Machines, PushError(m)
    PROVE  /\ pc[m] \in Visiting /\ pc'[m] = "push" /\ todo'[m] = todo[m] \ {at[m]}
           /\ new'[m] = [new[m] EXCEPT ![at[m]] = None]
           /\ used'["edit"] = used["edit"]
           /\ UNCHANGED <<cache, sidecar, snap, fetched, moved, sent, worked, world>>
BY DEF PushError, Visiting, Spend, TypeOK, Kinds, file, hist

\* The pull begins when the push is done.
LEMMA PullDoes ==
    ASSUME TypeOK, NEW m \in Machines, PullFetch(m)
    PROVE  /\ pc[m] = "push" /\ todo[m] = {} /\ pc'[m] = "index" /\ todo'[m] = Lanes
           /\ snap'[m] = NoFiles
           /\ UNCHANGED <<cache, sidecar, new, at, moved, used, sent, worked, world>>
BY DEF PullFetch, TypeOK, file, hist

\* The pull handles a file as it lies there ...
LEMMA PullsThere ==
    ASSUME TypeInv, NEW m \in Machines, Known(m),
           NEW t \in Present, NEW l \in Lanes, PullsFrom(m, t, l)
    PROVE  /\ pc[m] = "pull" /\ t \in todo[m] /\ cache[m][l] = snap[m][l]
           /\ cache[m][l] # None /\ cache[m][l].ticket = t
<1>1. /\ pc[m] = "pull" /\ t \in todo[m] /\ snap[m][l] # None /\ snap[m][l].ticket = t
    BY DEF PullsFrom, CopiesIn
<1>2. cache[m][l] = snap[m][l]
    BY <1>1 DEF Known, Pulling, Between
<1> QED BY <1>1, <1>2

\* ... and there always is one.
LEMMA NoneMissing ==
    ASSUME TypeInv, NEW m \in Machines, Known(m), NEW t \in Present
    PROVE  ~Missing(m, t)
BY DEF Known, Complete, Missing, CopiesIn, Pulling

LEMMA NeverDies ==
    ASSUME TypeInv, NEW m \in Machines, Known(m), NEW t \in Present, NEW l \in Lanes
    PROVE  ~PullDies(m, t, l)
BY PullsThere DEF PullDies

\* A relocation moves a file the machine has not touched to a free lane ...
LEMMA RenameDoes ==
    ASSUME TypeInv, NEW m \in Machines, Known(m),
           NEW t \in Present, NEW l \in Lanes, PullRename(m, t, l)
    PROVE  LET k == Recovered(m, t)
           IN  /\ pc[m] = "pull" /\ t \in todo[m]
               /\ cache[m][l] # None /\ cache[m][l].ticket = t /\ cache[m][l].stage = l
               /\ cache[m][l] = snap[m][l] /\ sidecar[m][l] = cache[m][l]
               /\ k \in Lanes /\ k # l /\ cache[m][k] = None
               /\ cache'[m] = [cache[m] EXCEPT ![k] = cache[m][l], ![l] = None]
               /\ pc'[m] = "rewrite" /\ at'[m] = l
               /\ UNCHANGED <<sidecar, todo, snap, new, fetched, moved, used, sent, worked,
                              world>>
<1>1. /\ pc[m] = "pull" /\ t \in todo[m] /\ cache[m][l] = snap[m][l]
      /\ cache[m][l] # None /\ cache[m][l].ticket = t
    BY PullsThere DEF PullRename
<1>2. /\ Recovered(m, t) # snap[m][l].stage /\ Recovered(m, t) \in Lanes
      /\ l = snap[m][l].stage /\ sidecar[m][l] = snap[m][l] /\ cache[m][Recovered(m, t)] = None
    BY DEF PullRename, Relocates
<1>3. /\ cache' = [cache EXCEPT ![m][Recovered(m, t)] = cache[m][l], ![m][l] = None]
      /\ at' = [at EXCEPT ![m] = l] /\ pc' = [pc EXCEPT ![m] = "rewrite"]
      /\ UNCHANGED <<sidecar, todo, snap, new, fetched, moved, used, sent, worked, world>>
    BY DEF PullRename, hist
<1>4. /\ cache'[m] = [cache[m] EXCEPT ![Recovered(m, t)] = cache[m][l], ![l] = None]
      /\ at'[m] = l /\ pc'[m] = "rewrite"
    BY <1>2, <1>3 DEF TypeInv, TypeOK
<1> QED BY <1>1, <1>2, <1>3, <1>4

\* ... and settles it there.
LEMMA RewriteDoes ==
    ASSUME TypeInv, NEW m \in Machines, Known(m), PullRewrite(m)
    PROVE  LET d == snap[m][at[m]]
               k == Recovered(m, d.ticket)
               c == Settled(d, k)
           IN  /\ pc[m] = "rewrite" /\ at[m] \in Lanes /\ d # None /\ d \in Content
               /\ d.ticket \in Present
               /\ k \in Lanes /\ k # at[m] /\ d.ticket \in todo[m] /\ d.stage = at[m]
               /\ cache[m][k] = d /\ cache[m][at[m]] = None
               /\ c \in Content /\ c.stage = k /\ c.ticket = d.ticket /\ c.body = d.body
               /\ c # None
               /\ cache'[m] = [cache[m] EXCEPT ![k] = c]
               /\ moved'[m] = moved[m] \cup {[from |-> at[m], to |-> c]}
               /\ sent'[m] = [sent[m] EXCEPT ![d.ticket] = c]
               /\ worked'[m] = worked[m] \ {d.ticket}
               /\ todo'[m] = todo[m] \ {d.ticket}
               /\ pc'[m] = "pull"
               /\ UNCHANGED <<sidecar, snap, new, fetched, used, world>>
<1> DEFINE d == snap[m][at[m]]
           k == Recovered(m, d.ticket)
           c == Settled(d, k)
<1>1. pc[m] = "rewrite" /\ at[m] \in Lanes /\ d # None /\ k \in Lanes
    BY DEF PullRewrite, TypeInv, Held
<1>2. d.ticket \in todo[m] /\ d.stage = at[m] /\ k # at[m]
      /\ cache[m][k] = d /\ cache[m][at[m]] = None
    BY <1>1 DEF Known
<1>3. d.ticket \in Present
    BY <1>1 DEF Known, Pulling, Complete
<1>4. d \in Content
    BY <1>1 DEF TypeInv, TypeOK, Slot
<1>5. c \in Content /\ c.stage = k /\ c.ticket = d.ticket /\ c.body = d.body /\ c # None
    BY <1>1, <1>4, SettledType
<1>6. /\ cache' = [cache EXCEPT ![m][c.stage] = c]
      /\ moved' = [moved EXCEPT ![m] = @ \cup {[from |-> at[m], to |-> c]}]
      /\ sent' = [sent EXCEPT ![m][d.ticket] = c]
      /\ worked' = [worked EXCEPT ![m] = @ \ {d.ticket}]
      /\ todo' = [todo EXCEPT ![m] = @ \ {d.ticket}]
      /\ pc' = [pc EXCEPT ![m] = "pull"]
      /\ UNCHANGED <<sidecar, snap, new, fetched, used, world>>
    BY DEF PullRewrite
<1> HIDE DEF c, k, d
<1>7. /\ cache'[m] = [cache[m] EXCEPT ![k] = c]
      /\ moved'[m] = moved[m] \cup {[from |-> at[m], to |-> c]}
      /\ sent'[m] = [sent[m] EXCEPT ![d.ticket] = c]
      /\ worked'[m] = worked[m] \ {d.ticket}
      /\ todo'[m] = todo[m] \ {d.ticket}
      /\ pc'[m] = "pull"
    BY <1>5, <1>6 DEF TypeInv, TypeOK
<1> QED BY <1>1, <1>2, <1>3, <1>4, <1>5, <1>6, <1>7 DEF c, k, d

\* Every other file the pull leaves as it is.
Stays(m, t) == \E l \in Lanes : PullWrite(m, t, l) \/ PullSkip(m, t, l)

LEMMA StaysDoes ==
    ASSUME TypeInv, NEW m \in Machines, Known(m), NEW t \in Present, Stays(m, t)
    PROVE  /\ pc[m] = "pull" /\ t \in todo[m] /\ todo'[m] = todo[m] \ {t}
           /\ cache'[m] = cache[m]
           /\ UNCHANGED <<sidecar, pc, snap, new, at, fetched, moved, used, sent, worked, world>>
<1>1. PICK l \in Lanes : PullWrite(m, t, l) \/ PullSkip(m, t, l)
    BY DEF Stays
<1>2. pc[m] = "pull" /\ t \in todo[m] /\ cache[m][l] = snap[m][l]
    BY <1>1, PullsThere DEF PullWrite, PullSkip
<1>3. cache'[m] = cache[m]
    <2>1. cache' = cache \/ cache' = [cache EXCEPT ![m][l] = cache[m][l]]
        BY <1>1, <1>2 DEF PullWrite, PullSkip, file
    <2> QED BY <2>1 DEF TypeInv, TypeOK
<1>4. todo'[m] = todo[m] \ {t}
    BY <1>1 DEF PullWrite, PullSkip, TypeInv, TypeOK
<1>5. UNCHANGED <<sidecar, pc, snap, new, at, fetched, moved, used, sent, worked, world>>
    BY <1>1 DEF PullWrite, PullSkip, file, hist
<1> QED BY <1>2, <1>3, <1>4, <1>5

\* A render settles a file.
LEMMA FixDoes ==
    ASSUME TypeInv, NEW m \in Machines, Known(m), NEW l \in Lanes, RenderFix(m, l)
    PROVE  LET c == Settled(cache[m][l], l)
           IN  /\ pc[m] = "render" /\ l \in todo[m] /\ cache[m][l] # None
               /\ cache[m][l] \in Content
               /\ c \in Content /\ c # None /\ c.stage = l /\ c.ticket = cache[m][l].ticket
               /\ c.body = cache[m][l].body
               /\ cache'[m] = [cache[m] EXCEPT ![l] = c]
               /\ todo'[m] = todo[m] \ {l}
               /\ UNCHANGED <<sidecar, pc, snap, new, at, fetched, moved, used, sent, worked,
                              world>>
<1>1. pc[m] = "render" /\ l \in todo[m] /\ snap[m][l] # None
    BY DEF RenderFix, TypeInv, Held
<1>2. cache[m][l] = snap[m][l]
    BY <1>1 DEF Known
<1>3. cache[m][l] \in Content
    BY <1>1, <1>2 DEF TypeInv, TypeOK, Slot
<1> DEFINE c == Settled(cache[m][l], l)
<1>4. c \in Content /\ c # None /\ c.stage = l /\ c.ticket = cache[m][l].ticket
      /\ c.body = cache[m][l].body
    BY <1>3, SettledType
<1>5. /\ cache' = [cache EXCEPT ![m][l] = c] /\ todo' = [todo EXCEPT ![m] = @ \ {l}]
      /\ UNCHANGED <<sidecar, pc, snap, new, at, fetched, moved, used, sent, worked, world>>
    BY <1>2 DEF RenderFix, hist
<1> HIDE DEF c
<1>6. cache'[m] = [cache[m] EXCEPT ![l] = c] /\ todo'[m] = todo[m] \ {l}
    BY <1>5 DEF TypeInv, TypeOK
<1> QED BY <1>1, <1>2, <1>3, <1>4, <1>5, <1>6 DEF c

\* What a step of a machine may be, then.
LEMMA OwnSteps ==
    ASSUME TypeInv, Kept, NEW m \in Machines, Known(m), Own(m)
    PROVE  \/ \E l \in Lanes : Edit(m, l)
           \/ \E l, k \in Lanes : Move(m, l, k)
           \/ LoseSidecar(m) \/ Leaves(m) \/ Start(m)
           \/ \E ls \in SUBSET Lanes : Walk(m, ls)
           \/ \E l \in Lanes : PushSkip(m, l) \/ PushFetch(m, l) \/ RenderFix(m, l)
           \/ PushEdit(m) \/ PushState(m) \/ PushRecord(m) \/ PushError(m)
           \/ PullFetch(m) \/ PullRewrite(m)
           \/ \E t \in Present, l \in Lanes : PullRename(m, t, l)
           \/ \E t \in Present : Stays(m, t)
<1>1. CASE Session(m)
    BY <1>1 DEF Session
<1>2. CASE Accident(m)
    BY <1>2 DEF Accident, Leaves
<1>3. CASE Step(m)
    BY <1>3, NoneMissing DEF Step, Leaves, Stays, Reconstruct
<1> QED BY <1>1, <1>2, <1>3 DEF Own

-----------------------------------------------------------------------------
(* A cache stays complete, and a pass knows its files                         *)

\* Files of the same tickets in the same folders are as complete ...
LEMMA CompleteSame ==
    ASSUME NEW f, NEW g, Complete(f),
           \A l \in Lanes : (g[l] = None <=> f[l] = None)
                              /\ (f[l] # None => g[l].ticket = f[l].ticket)
    PROVE  Complete(g)
BY DEF Complete

\* ... and so are files of which one went to a free folder.
LEMMA CompleteMoved ==
    ASSUME NEW f \in [Lanes -> Slot], NEW l \in Lanes, NEW k \in Lanes, Complete(f),
           f[l] # None, f[k] = None
    PROVE  Complete([f EXCEPT ![k] = f[l], ![l] = None])
<1> DEFINE g == [f EXCEPT ![k] = f[l], ![l] = None]
<1>1. /\ g[k] = f[l] /\ g[l] = None
      /\ \A j \in Lanes : j # k /\ j # l => g[j] = f[j]
    OBVIOUS
<1> HIDE DEF g
<1>2. \A j \in Lanes : g[j] # None => g[j].ticket \in Present
    BY <1>1 DEF Complete
<1>3. \A t \in Present : \E j \in Lanes : g[j] # None /\ g[j].ticket = t
    BY <1>1 DEF Complete
<1>4. \A i, j \in Lanes : g[i] # None /\ g[j] # None /\ g[i].ticket = g[j].ticket => i = j
    BY <1>1 DEF Complete
<1>5. Complete(g)
    BY <1>2, <1>3, <1>4 DEF Complete
<1> QED BY <1>5 DEF g

LEMMA CompleteSteps ==
    ASSUME TypeInv, Kept, NEW m \in Machines, Known(m), Complete(cache[m]), Own(m),
           world' = world
    PROVE  Complete(cache[m])'
<1>f. cache[m] \in [Lanes -> Slot]
    BY DEF TypeInv, TypeOK
<1>s. Complete(cache'[m]) => Complete(cache[m])'
    BY DEF Complete, Present
<1>1. ASSUME NEW l \in Lanes, Edit(m, l) PROVE Complete(cache'[m])
    <2>1. cache[m][l] # None /\ cache'[m] = [cache[m] EXCEPT ![l] =
                              [cache[m][l] EXCEPT !.body = used["edit"] + 1]]
        BY <1>1, EditDoes DEF TypeInv
    <2>2. cache[m][l] \in Content /\ used["edit"] \in Nat
        BY <2>1 DEF TypeInv, TypeOK, Slot, Kinds
    <2> DEFINE c == [cache[m][l] EXCEPT !.body = used["edit"] + 1]
    <2>3. c \in Content /\ c.ticket = cache[m][l].ticket /\ c # None
        BY <2>2, NoneAssumption DEF Content
    <2> HIDE DEF c
    <2>4. cache'[m] = [cache[m] EXCEPT ![l] = c]
        BY <2>1 DEF c
    <2> QED BY <1>f, <2>1, <2>3, <2>4, CompleteSame
<1>2. ASSUME NEW l \in Lanes, NEW k \in Lanes, Move(m, l, k) PROVE Complete(cache'[m])
    <2>1. cache[m][l] # None /\ cache[m][k] = None
            /\ cache'[m] = [cache[m] EXCEPT ![k] = cache[m][l], ![l] = None]
        BY <1>2, MoveDoes DEF TypeInv
    <2> QED BY <1>f, <2>1, CompleteMoved
<1>3. ASSUME \/ LoseSidecar(m) \/ Leaves(m) \/ Start(m)
             \/ PushEdit(m) \/ PushState(m) \/ PushError(m) \/ PullFetch(m) \/ PushRecord(m)
      PROVE  cache' = cache
    BY <1>3, LeavesDo DEF LoseSidecar, Start, PushEdit, PushState, PushError, PullFetch,
                          PushRecord, file, TypeInv
<1>4. ASSUME NEW ls \in SUBSET Lanes, Walk(m, ls) PROVE cache' = cache
    BY <1>4 DEF Walk, file
<1>5. ASSUME NEW l \in Lanes, PushSkip(m, l) \/ PushFetch(m, l) PROVE cache' = cache
    BY <1>5 DEF PushSkip, PushFetch, file
<1>6. ASSUME NEW l \in Lanes, RenderFix(m, l) PROVE Complete(cache'[m])
    <2> DEFINE c == Settled(cache[m][l], l)
    <2>1. cache[m][l] # None /\ c # None /\ c.ticket = cache[m][l].ticket
            /\ cache'[m] = [cache[m] EXCEPT ![l] = c]
        BY <1>6, FixDoes
    <2> HIDE DEF c
    <2> QED BY <1>f, <2>1, CompleteSame
<1>7. ASSUME PullRewrite(m) PROVE Complete(cache'[m])
    <2> DEFINE d == snap[m][at[m]]
               k == Recovered(m, d.ticket)
               c == Settled(d, k)
    <2>1. d # None /\ k \in Lanes /\ cache[m][k] = d /\ c # None /\ c.ticket = d.ticket
            /\ cache'[m] = [cache[m] EXCEPT ![k] = c]
        BY <1>7, RewriteDoes
    <2> HIDE DEF d, k, c
    <2> QED BY <1>f, <2>1, CompleteSame
<1>8. ASSUME NEW t \in Present, NEW l \in Lanes, PullRename(m, t, l) PROVE Complete(cache'[m])
    <2> DEFINE k == Recovered(m, t)
    <2>1. cache[m][l] # None /\ k \in Lanes /\ cache[m][k] = None
            /\ cache'[m] = [cache[m] EXCEPT ![k] = cache[m][l], ![l] = None]
        BY <1>8, RenameDoes
    <2> HIDE DEF k
    <2> QED BY <1>f, <2>1, CompleteMoved
<1>9. ASSUME NEW t \in Present, Stays(m, t) PROVE cache'[m] = cache[m]
    BY <1>9, StaysDoes
<1>10. cache' = cache => Complete(cache'[m])
    OBVIOUS
<1> QED BY <1>s, <1>1, <1>2, <1>3, <1>4, <1>5, <1>6, <1>7, <1>8, <1>9, <1>10, OwnSteps

\* The step of a machine between passes, or one that ends a pass, holds nothing.
LEMMA Rests ==
    ASSUME NEW m \in Machines,
           pc'[m] \in {"idle", "walk", "index", "load"},
           pc'[m] \in {"walk", "index", "load"} => todo'[m] = Lanes
    PROVE  Known(m)'
BY DEF Known, Pushing, Visiting, Pulling

LEMMA KnownSteps ==
    ASSUME TypeInv, Kept, NEW m \in Machines, Known(m), Complete(cache[m]), Own(m),
           world' = world
    PROVE  Known(m)'
<1>f. /\ cache[m] \in [Lanes -> Slot] /\ snap[m] \in [Lanes -> Slot]
      /\ sent[m] \in [Present -> Content] /\ TypeOK
    BY DEF TypeInv, TypeOK
<1>1. ASSUME NEW l \in Lanes, Edit(m, l) PROVE Known(m)'
    BY <1>f, <1>1, EditDoes, Rests
<1>2. ASSUME NEW l \in Lanes, NEW k \in Lanes, Move(m, l, k) PROVE Known(m)'
    BY <1>f, <1>2, MoveDoes, Rests
<1>3. ASSUME LoseSidecar(m) PROVE Known(m)'
    BY <1>f, <1>3, LoseDoes, Rests
<1>4. ASSUME Leaves(m) PROVE Known(m)'
    BY <1>f, <1>4, LeavesDo, Rests
<1>5. ASSUME Start(m) PROVE Known(m)'
    BY <1>f, <1>5, StartDoes, Rests
<1>6. ASSUME PullFetch(m) PROVE Known(m)'
    BY <1>f, <1>6, PullDoes, Rests
<1>7. ASSUME NEW ls \in SUBSET Lanes, Walk(m, ls) PROVE Known(m)'
    <2>0. pc[m] \in {"walk", "index", "load"}
        BY <1>7 DEF Walk, AfterWalk
    <2>1. /\ snap'[m] = cache[m] /\ cache'[m] = cache[m]
          /\ \/ pc'[m] = "push" \/ pc'[m] = "pull" \/ pc'[m] = "render"
          /\ pc'[m] = "render" => todo'[m] \subseteq Lanes
        BY <1>f, <1>7, <2>0, WalkDoes DEF Known
    <2>2. Complete(cache[m]) => Complete(snap[m])'
        BY <2>1 DEF Complete, Present
    <2> QED BY <2>1, <2>2 DEF Known, Pushing, Visiting, Pulling
<1>8. ASSUME NEW l \in Lanes, PushSkip(m, l) PROVE Known(m)'
    <2>1. /\ pc'[m] = "push" /\ pc[m] = "push" /\ UNCHANGED <<cache, snap>>
        BY <1>f, <1>8, SkipDoes
    <2> QED BY <2>1 DEF Known, Pushing, Visiting, Pulling
<1>9. ASSUME NEW l \in Lanes, PushFetch(m, l) PROVE Known(m)'
    <2>1. /\ pc'[m] = "edit" /\ pc[m] = "push" /\ UNCHANGED <<cache, snap, sidecar>>
          /\ at'[m] = l /\ ~Skips(m, l)
        BY <1>f, <1>9, FetchDoes
    <2>2. sidecar[m][l] # snap[m][l]
        BY <2>1 DEF Skips
    <2> QED BY <2>1, <2>2 DEF Known, Pushing, Visiting, Pulling
<1>10. ASSUME PushEdit(m) PROVE Known(m)'
    <2>1. /\ pc'[m] = "state" /\ pc[m] = "edit" /\ UNCHANGED <<cache, snap, sidecar, at>>
        BY <1>f, <1>10, EditSends
    <2> QED BY <2>1 DEF Known, Pushing, Visiting, Pulling
<1>11. ASSUME PushState(m) PROVE Known(m)'
    <2>1. /\ pc'[m] = "record" /\ pc[m] = "state" /\ UNCHANGED <<cache, snap, sidecar, at>>
          /\ sent'[m] = [sent[m] EXCEPT ![snap[m][at[m]].ticket] = snap[m][at[m]]]
        BY <1>f, <1>11, StateSends
    <2>2. at[m] \in Lanes /\ snap[m][at[m]] # None /\ snap[m] = cache[m]
        BY <2>1 DEF TypeInv, Held, Known, Pushing, Visiting
    <2>3. snap[m][at[m]].ticket \in Present
        BY <2>2 DEF Complete
    <2>4. sent'[m][snap[m][at[m]].ticket] = snap[m][at[m]]
        BY <1>f, <2>1, <2>3
    <2> QED BY <2>1, <2>4 DEF Known, Pushing, Visiting, Pulling
<1>12. ASSUME PushRecord(m) \/ PushError(m) PROVE Known(m)'
    <2>1. pc[m] \in Visiting
        BY <1>12 DEF PushRecord, PushError, Visiting
    <2>2. snap[m] = cache[m]
        BY <2>1 DEF Known, Visiting, Pushing
    <2>3. /\ pc'[m] = "push" /\ UNCHANGED <<cache, snap>>
        BY <1>f, <1>12, <2>2, RecordDoes, ErrorDoes
    <2> QED BY <2>2, <2>3 DEF Known, Pushing, Visiting, Pulling
<1>13. ASSUME NEW t \in Present, NEW l \in Lanes, PullRename(m, t, l) PROVE Known(m)'
    <2> DEFINE k == Recovered(m, t)
    <2>1. /\ pc[m] = "pull" /\ t \in todo[m]
          /\ cache[m][l] # None /\ cache[m][l].ticket = t /\ cache[m][l].stage = l
          /\ cache[m][l] = snap[m][l] /\ k \in Lanes /\ k # l /\ cache[m][k] = None
          /\ cache'[m] = [cache[m] EXCEPT ![k] = cache[m][l], ![l] = None]
          /\ pc'[m] = "rewrite" /\ at'[m] = l
          /\ UNCHANGED <<todo, snap, fetched>>
        BY <1>13, RenameDoes
    <2>2. Recovered(m, t)' = k
        BY <2>1 DEF Recovered
    <2>3. Complete(snap[m])'
        BY <2>1 DEF Known, Pulling, Complete, Present
    <2> HIDE DEF k
    <2>4. \A t2 : Between(m, t2)' <=> t2 = t
        BY <2>1 DEF Between
    <2>5. \A j \in Lanes : snap[m][j] # None /\ snap[m][j].ticket \in todo[m]
                              /\ snap[m][j].ticket # t => cache'[m][j] = snap[m][j]
        <3> SUFFICES ASSUME NEW j \in Lanes, snap[m][j] # None,
                            snap[m][j].ticket \in todo[m], snap[m][j].ticket # t
                     PROVE  cache'[m][j] = snap[m][j]
            OBVIOUS
        <3>1. cache[m][j] = snap[m][j]
            BY <2>1 DEF Known, Pulling, Between
        <3> QED BY <1>f, <2>1, <3>1
    <2>6. cache'[m][k] = snap[m][l] /\ cache'[m][l] = None
        BY <1>f, <2>1
    <2> QED BY <2>1, <2>2, <2>3, <2>4, <2>5, <2>6 DEF Known, Pushing, Visiting, Pulling
<1>14. ASSUME PullRewrite(m) PROVE Known(m)'
    <2> DEFINE d == snap[m][at[m]]
               k == Recovered(m, d.ticket)
               c == Settled(d, k)
    <2>1. /\ pc[m] = "rewrite" /\ pc'[m] = "pull" /\ d # None /\ k \in Lanes
          /\ cache[m][k] = d /\ cache'[m] = [cache[m] EXCEPT ![k] = c]
          /\ todo'[m] = todo[m] \ {d.ticket} /\ UNCHANGED snap
        BY <1>14, RewriteDoes
    <2>2. Complete(snap[m])'
        BY <2>1 DEF Known, Pulling, Complete, Present
    <2>3. \A t \in Tickets : Between(m, t) <=> t = d.ticket
        BY <2>1 DEF Between
    <2>4. \A j \in Lanes : snap[m][j] # None /\ snap[m][j].ticket \in todo[m]
                             /\ snap[m][j].ticket # d.ticket => cache[m][j] = snap[m][j]
        BY <2>1 DEF Known, Pulling, Between
    <2> HIDE DEF d, k, c
    <2>5. \A j \in Lanes : snap[m][j] # None /\ snap[m][j].ticket \in todo'[m]
                             => cache'[m][j] = snap[m][j]
        BY <1>f, <2>1, <2>4
    <2> QED BY <2>1, <2>2, <2>5 DEF Known, Pushing, Visiting, Pulling
<1>15. ASSUME NEW t \in Present, Stays(m, t) PROVE Known(m)'
    <2>1. /\ pc[m] = "pull" /\ todo'[m] = todo[m] \ {t} /\ cache'[m] = cache[m]
          /\ UNCHANGED <<pc, snap>>
        BY <1>15, StaysDoes
    <2>2. Complete(snap[m])'
        BY <2>1 DEF Known, Pulling, Complete, Present
    <2> QED BY <2>1, <2>2 DEF Known, Pushing, Visiting, Pulling, Between
<1>16. ASSUME NEW l \in Lanes, RenderFix(m, l) PROVE Known(m)'
    <2> DEFINE c == Settled(cache[m][l], l)
    <2>1. /\ pc[m] = "render" /\ cache'[m] = [cache[m] EXCEPT ![l] = c]
          /\ todo'[m] = todo[m] \ {l} /\ UNCHANGED <<pc, snap>>
        BY <1>16, FixDoes
    <2>2. todo[m] \subseteq Lanes
        BY <2>1 DEF TypeInv, Held
    <2>3. \A j \in todo[m] : cache[m][j] = snap[m][j]
        BY <2>1 DEF Known
    <2> HIDE DEF c
    <2>4. \A j \in todo'[m] : cache'[m][j] = snap[m][j]
        BY <1>f, <2>1, <2>2, <2>3
    <2> QED BY <2>1, <2>4 DEF Known, Pushing, Visiting, Pulling
<1> QED BY <1>1, <1>2, <1>3, <1>4, <1>5, <1>6, <1>7, <1>8, <1>9, <1>10, <1>11, <1>12, <1>13,
           <1>14, <1>15, <1>16, OwnSteps

\* What a relocated file of m looks like.
LEMMA MovedType ==
    ASSUME TypeOK, NEW m \in Machines, NEW r \in moved[m]
    PROVE  /\ r.from \in Lanes /\ r.to \in Content /\ r.to # None
           /\ r.to.stage \in Lanes /\ r.to.ticket \in Tickets
<1>1. r \in [from : Lanes, to : Content]
    BY DEF TypeOK
<1> QED BY <1>1, NoneAssumption DEF Content

LEMMA RelocatedSteps ==
    ASSUME TypeInv, Kept, NEW m \in Machines, Known(m), Complete(cache[m]), Relocated(m), Own(m),
           world' = world
    PROVE  Relocated(m)'
<1>f. /\ cache[m] \in [Lanes -> Slot] /\ sent[m] \in [Present -> Content] /\ TypeOK
      /\ \A r \in moved[m] : /\ r.from \in Lanes /\ r.to \in Content /\ r.to # None
                             /\ r.to.stage \in Lanes /\ r.to.ticket \in Tickets
    BY MovedType DEF TypeInv, TypeOK
<1>e. moved'[m] = {} => Relocated(m)'
    BY DEF Relocated
<1>i. pc[m] \notin Pulling => moved[m] = {}
    BY DEF Relocated
<1>1. ASSUME NEW l \in Lanes, Edit(m, l) PROVE moved'[m] = {}
    BY <1>f, <1>i, <1>1, EditDoes DEF Pulling
<1>2. ASSUME NEW l \in Lanes, NEW k \in Lanes, Move(m, l, k) PROVE moved'[m] = {}
    BY <1>f, <1>i, <1>2, MoveDoes DEF Pulling
<1>3. ASSUME LoseSidecar(m) PROVE moved'[m] = {}
    BY <1>f, <1>i, <1>3, LoseDoes DEF Pulling
<1>4. ASSUME Leaves(m) PROVE moved'[m] = {}
    BY <1>f, <1>4, LeavesDo
<1>5. ASSUME Start(m) PROVE moved'[m] = {}
    BY <1>f, <1>i, <1>5, StartDoes DEF Pulling
<1>6. ASSUME PullFetch(m) PROVE moved'[m] = {}
    BY <1>f, <1>i, <1>6, PullDoes DEF Pulling
<1>7. ASSUME NEW ls \in SUBSET Lanes, Walk(m, ls) PROVE moved'[m] = {}
    <2>1. pc[m] \in {"walk", "index", "load"} /\ moved' = moved
        BY <1>7 DEF Walk, AfterWalk
    <2> QED BY <1>i, <2>1 DEF Pulling
<1>8. ASSUME NEW l \in Lanes, PushSkip(m, l) \/ PushFetch(m, l) \/ RenderFix(m, l)
      PROVE  moved'[m] = {}
    <2>1. pc[m] \in {"push", "render"} /\ moved' = moved
        BY <1>8 DEF PushSkip, PushFetch, RenderFix
    <2> QED BY <1>i, <2>1 DEF Pulling
<1>9. ASSUME PushEdit(m) \/ PushState(m) \/ PushRecord(m) \/ PushError(m) PROVE moved'[m] = {}
    <2>1. pc[m] \in {"edit", "state", "record"} /\ moved' = moved
        BY <1>9 DEF PushEdit, PushState, PushRecord, PushError
    <2> QED BY <1>i, <2>1 DEF Pulling
<1>10. ASSUME NEW t \in Present, NEW l \in Lanes, PullRename(m, t, l) PROVE Relocated(m)'
    <2> DEFINE k == Recovered(m, t)
    <2>1. /\ pc[m] = "pull" /\ t \in todo[m]
          /\ cache[m][l] # None /\ cache[m][l].ticket = t
          /\ cache[m][l] = snap[m][l] /\ k \in Lanes /\ k # l /\ cache[m][k] = None
          /\ cache'[m] = [cache[m] EXCEPT ![k] = cache[m][l], ![l] = None]
          /\ pc'[m] = "rewrite" /\ at'[m] = l
          /\ UNCHANGED <<todo, snap, moved, sent>>
        BY <1>10, RenameDoes
    <2> HIDE DEF k
    <2>2. Between(m, t)'
        BY <2>1 DEF Between
    <2>3. cache'[m][k].ticket = t /\ cache'[m][l] = None
            /\ \A j \in Lanes : j # k /\ j # l => cache'[m][j] = cache[m][j]
        BY <1>f, <2>1
    <2>4. ASSUME NEW r \in moved[m]
          PROVE  /\ cache'[m][r.to.stage] = r.to
                 /\ cache'[m][r.from] # None =>
                      \/ cache'[m][r.from].ticket = t
                      \/ \E q \in moved[m] : q.to.ticket = cache'[m][r.from].ticket
        <3>1. /\ cache[m][r.to.stage] = r.to /\ r.to.ticket \notin todo[m]
              /\ cache[m][r.from] # None =>
                    \E q \in moved[m] : q.to.ticket = cache[m][r.from].ticket
            BY <2>1 DEF Relocated, Between
        <3>2. r.to.stage # k /\ r.to.stage # l
            BY <1>f, <2>1, <3>1
        <3>3. cache'[m][r.to.stage] = r.to
            BY <1>f, <2>3, <3>1, <3>2
        <3> QED BY <1>f, <2>3, <3>1, <3>3
    <2>5. \A r \in moved[m] : /\ sent'[m][r.to.ticket] = r.to /\ r.to.ticket \notin todo'[m]
        BY <2>1 DEF Relocated
    <2> QED BY <2>1, <2>2, <2>4, <2>5 DEF Relocated, Pulling
<1>11. ASSUME PullRewrite(m) PROVE Relocated(m)'
    <2> DEFINE d == snap[m][at[m]]
               k == Recovered(m, d.ticket)
               c == Settled(d, k)
               n == [from |-> at[m], to |-> c]
    <2>1. /\ pc[m] = "rewrite" /\ pc'[m] = "pull" /\ d # None /\ k \in Lanes
          /\ at[m] \in Lanes /\ k # at[m] /\ cache[m][at[m]] = None
          /\ d.ticket \in Present /\ d.ticket \in todo[m]
          /\ c \in Content /\ c.stage = k /\ c.ticket = d.ticket
          /\ cache[m][k] = d /\ cache'[m] = [cache[m] EXCEPT ![k] = c]
          /\ todo'[m] = todo[m] \ {d.ticket}
          /\ moved'[m] = moved[m] \cup {n}
          /\ sent'[m] = [sent[m] EXCEPT ![d.ticket] = c]
        BY <1>11, RewriteDoes
    <2>2. \A u : Between(m, u) => u = d.ticket
        BY DEF Between
    <2>3. n.from = at[m] /\ n.to = c
        OBVIOUS
    <2> HIDE DEF d, k, c, n
    <2>4. ASSUME NEW r \in moved[m]
          PROVE  /\ cache'[m][r.to.stage] = r.to
                 /\ sent'[m][r.to.ticket] = r.to /\ r.to.ticket \notin todo'[m]
                 /\ cache'[m][r.from] # None =>
                      \E q \in moved'[m] : q.to.ticket = cache'[m][r.from].ticket
        <3>1. /\ cache[m][r.to.stage] = r.to /\ r.to.ticket \notin todo[m]
              /\ sent[m][r.to.ticket] = r.to
              /\ cache[m][r.from] # None =>
                    \/ cache[m][r.from].ticket = d.ticket
                    \/ \E q \in moved[m] : q.to.ticket = cache[m][r.from].ticket
            BY <2>1, <2>2 DEF Relocated
        <3>2. r.to.stage # k
            BY <1>f, <2>1, <3>1
        <3>3. cache'[m][r.to.stage] = r.to
            BY <1>f, <2>1, <3>1, <3>2
        <3>4. sent'[m][r.to.ticket] = r.to
            BY <1>f, <2>1, <3>1
        <3>5. cache'[m][r.from] # None =>
                  cache[m][r.from] # None /\ cache'[m][r.from].ticket = cache[m][r.from].ticket
            BY <1>f, <2>1
        <3>6. n \in moved'[m] /\ moved[m] \subseteq moved'[m] /\ n.to.ticket = d.ticket
            BY <2>1, <2>3
        <3>7. cache'[m][r.from] # None =>
                      \E q \in moved'[m] : q.to.ticket = cache'[m][r.from].ticket
            BY <3>1, <3>5, <3>6
        <3> QED BY <2>1, <3>1, <3>3, <3>4, <3>7
    <2>5. /\ cache'[m][n.to.stage] = n.to
          /\ sent'[m][n.to.ticket] = n.to /\ n.to.ticket \notin todo'[m]
          /\ cache'[m][n.from] = None
        BY <1>f, <2>1, <2>3
    <2> QED BY <2>1, <2>4, <2>5 DEF Relocated, Pulling
<1>12. ASSUME NEW t \in Present, Stays(m, t) PROVE Relocated(m)'
    <2>1. /\ pc[m] = "pull" /\ todo'[m] = todo[m] \ {t} /\ cache'[m] = cache[m]
          /\ UNCHANGED <<pc, snap, at, moved, sent>>
        BY <1>12, StaysDoes
    <2> QED BY <2>1 DEF Relocated, Between, Pulling
<1> QED BY <1>e, <1>1, <1>2, <1>3, <1>4, <1>5, <1>6, <1>7, <1>8, <1>9, <1>10, <1>11, <1>12,
           OwnSteps

\* Texts no newer than the last edit are no newer than any later one.
LEMMA DatedOn ==
    ASSUME TypeOK, TypeOK', used'["edit"] >= used["edit"], NEW f \in [Lanes -> Slot], Dated(f)
    PROVE  \A l \in Lanes : f[l] # None => f[l].body <= used'["edit"]
<1>1. used["edit"] \in Nat /\ used'["edit"] \in Nat
    BY DEF TypeOK, Kinds
<1>2. \A l \in Lanes : f[l] # None => f[l].body \in Nat
    BY DEF Slot, Content
<1> QED BY <1>1, <1>2 DEF Dated

\* A step of the pass makes up no text.
LEMMA NewestSteps ==
    ASSUME TypeInv, TypeInv', Kept, NEW m \in Machines, Known(m), NothingNewer(m), Own(m)
    PROVE  NothingNewer(m)'
<1> DEFINE U == used["edit"]
           V == used'["edit"]
           Old(f) == \A l \in Lanes : f[l] # None => f[l].body <= V
<1>f. /\ cache[m] \in [Lanes -> Slot] /\ sidecar[m] \in [Lanes -> Slot]
      /\ snap[m] \in [Lanes -> Slot] /\ new[m] \in [Lanes -> Slot]
      /\ TypeOK /\ U \in Nat /\ V \in Nat
    BY DEF TypeInv, TypeOK, Kinds
<1>t. \A r \in moved[m] : r.to \in Content /\ r.to.body \in Nat
    BY <1>f, MovedType DEF Content
<1>v. V >= U
    <2>1. \A k \in Kinds : Spend(k) => V >= U
        BY <1>f DEF Spend, TypeOK, Kinds
    <2>2. (\E k \in Kinds : Spend(k)) \/ used' = used
        <3>1. Session(m) => \E k \in Kinds : Spend(k)
            BY DEF Session, Edit, Move, Kinds
        <3>2. Accident(m) => \E k \in Kinds : Spend(k)
            BY DEF Accident, Crash, LoseSidecar, BreachedTick, PushError, RateLimited, PullError,
                   Kinds
        <3>3. Step(m) => used' = used
            BY DEF Step, Start, PushEdit, PushState, PushRecord, PullFetch, PullRewrite,
                    RenderDone, Walk, Persist, PushSkip, PushFetch, RenderFix,
                    Reconstruct, PullRename, PullDies, PullWrite, PullSkip
        <3> QED BY <3>1, <3>2, <3>3 DEF Own
    <2> QED BY <1>f, <2>1, <2>2
<1>o. Old(cache[m]) /\ Old(sidecar[m]) /\ Old(snap[m]) /\ Old(new[m])
    <2>1. TypeOK'
        BY DEF TypeInv
    <2> QED BY <1>f, <1>v, <2>1, DatedOn DEF NothingNewer
<1>r. \A r \in moved[m] : r.to.body <= V
    BY <1>f, <1>t, <1>v DEF NothingNewer
<1>q. Old(cache'[m]) /\ Old(sidecar'[m]) /\ Old(snap'[m]) /\ Old(new'[m])
        /\ (\A r \in moved'[m] : r.to.body <= V) => NothingNewer(m)'
    BY DEF NothingNewer, Dated
<1>n. Old(NoFiles)
    BY DEF NoFiles
<1>1. ASSUME NEW l \in Lanes, Edit(m, l) PROVE NothingNewer(m)'
    <2>1. /\ cache[m][l] # None
          /\ cache'[m] = [cache[m] EXCEPT ![l] = [cache[m][l] EXCEPT !.body = U + 1]]
          /\ V = U + 1 /\ UNCHANGED <<sidecar, snap, new, moved>>
        BY <1>f, <1>1, EditDoes
    <2>2. cache[m][l] \in Content
        BY <1>f, <2>1 DEF Slot
    <2> DEFINE c == [cache[m][l] EXCEPT !.body = U + 1]
    <2>3. c.body = V
        BY <2>1, <2>2 DEF Content
    <2> HIDE DEF c
    <2>4. cache'[m] = [cache[m] EXCEPT ![l] = c]
        BY <2>1 DEF c
    <2>5. V <= V
        BY <1>f
    <2> HIDE DEF V
    <2>6. Old(cache'[m])
        BY <1>f, <1>o, <2>3, <2>4, <2>5
    <2> QED BY <1>o, <1>r, <1>q, <2>1, <2>6
<1>2. ASSUME NEW l \in Lanes, NEW k \in Lanes, Move(m, l, k) PROVE NothingNewer(m)'
    <2>1. /\ cache'[m] = [cache[m] EXCEPT ![k] = cache[m][l], ![l] = None]
          /\ UNCHANGED <<sidecar, snap, new, moved>>
        BY <1>f, <1>2, MoveDoes
    <2> HIDE DEF V
    <2>2. Old(cache'[m])
        BY <1>f, <1>o, <2>1
    <2> QED BY <1>o, <1>r, <1>q, <2>1, <2>2
<1>3. ASSUME LoseSidecar(m) PROVE NothingNewer(m)'
    BY <1>f, <1>o, <1>r, <1>q, <1>n, <1>3, LoseDoes
<1>4. ASSUME Leaves(m) PROVE NothingNewer(m)'
    <2>1. /\ UNCHANGED cache /\ sidecar'[m] \in {sidecar[m], new[m], Rekeyed(m)}
          /\ snap'[m] = NoFiles /\ new'[m] = NoFiles /\ moved'[m] = {}
        BY <1>f, <1>4, LeavesDo
    <2>2. Old(Rekeyed(m))
        <3> SUFFICES ASSUME NEW l \in Lanes, Rekeyed(m)[l] # None
                     PROVE  Rekeyed(m)[l].body <= V
            OBVIOUS
        <3>1. \/ \E r \in moved[m] : Rekeyed(m)[l] = r.to
              \/ Rekeyed(m)[l] = None \/ Rekeyed(m)[l] = new[m][l]
            BY DEF Rekeyed
        <3> HIDE DEF V
        <3> QED BY <1>o, <1>r, <3>1
    <2> HIDE DEF V
    <2> QED BY <1>o, <1>q, <1>n, <2>1, <2>2
<1>5. ASSUME Start(m) PROVE NothingNewer(m)'
    BY <1>f, <1>o, <1>r, <1>q, <1>5, StartDoes
<1>6. ASSUME PullFetch(m) PROVE NothingNewer(m)'
    BY <1>f, <1>o, <1>r, <1>q, <1>n, <1>6, PullDoes
<1>7. ASSUME NEW ls \in SUBSET Lanes, Walk(m, ls) PROVE NothingNewer(m)'
    <2>0. pc[m] \in {"walk", "index", "load"}
        BY <1>7 DEF Walk, AfterWalk
    <2>1. /\ snap'[m] = cache[m] /\ UNCHANGED <<cache, sidecar, new, moved>>
        BY <1>f, <1>7, <2>0, WalkDoes DEF Known
    <2> QED BY <1>o, <1>r, <1>q, <2>1
<1>8. ASSUME NEW l \in Lanes, PushSkip(m, l) \/ PushFetch(m, l) PROVE NothingNewer(m)'
    <2>1. UNCHANGED <<cache, sidecar, snap, new, moved>>
        BY <1>8 DEF PushSkip, PushFetch, file
    <2> QED BY <1>o, <1>r, <1>q, <2>1
<1>9. ASSUME PushEdit(m) \/ PushState(m) PROVE NothingNewer(m)'
    <2>1. UNCHANGED <<cache, sidecar, snap, new, moved>>
        BY <1>9 DEF PushEdit, PushState, file
    <2> QED BY <1>o, <1>r, <1>q, <2>1
<1>10. ASSUME PushRecord(m) \/ PushError(m) PROVE NothingNewer(m)'
    <2>1. pc[m] \in Visiting
        BY <1>10 DEF PushRecord, PushError, Visiting
    <2>2. snap[m] = cache[m] /\ at[m] \in Lanes
        BY <2>1 DEF Known, Visiting, Pushing, TypeInv, Held
    <2>3. /\ UNCHANGED <<cache, sidecar, snap, moved>>
          /\ new'[m] = [new[m] EXCEPT ![at[m]] = cache[m][at[m]]]
               \/ new'[m] = [new[m] EXCEPT ![at[m]] = None]
        BY <1>f, <1>10, <2>2, RecordDoes, ErrorDoes
    <2> HIDE DEF V
    <2>4. Old(new'[m])
        BY <1>f, <1>o, <2>2, <2>3
    <2> QED BY <1>o, <1>r, <1>q, <2>3, <2>4
<1>11. ASSUME NEW t \in Present, NEW l \in Lanes, PullRename(m, t, l) PROVE NothingNewer(m)'
    <2> DEFINE k == Recovered(m, t)
    <2>1. /\ k \in Lanes /\ UNCHANGED <<sidecar, snap, new, moved>>
          /\ cache'[m] = [cache[m] EXCEPT ![k] = cache[m][l], ![l] = None]
        BY <1>11, RenameDoes
    <2> HIDE DEF V, k
    <2>2. Old(cache'[m])
        BY <1>f, <1>o, <2>1
    <2> QED BY <1>o, <1>r, <1>q, <2>1, <2>2
<1>12. ASSUME PullRewrite(m) PROVE NothingNewer(m)'
    <2> DEFINE d == snap[m][at[m]]
               k == Recovered(m, d.ticket)
               c == Settled(d, k)
               n == [from |-> at[m], to |-> c]
    <2>1. /\ at[m] \in Lanes /\ d # None /\ k \in Lanes /\ c.body = d.body
          /\ cache'[m] = [cache[m] EXCEPT ![k] = c]
          /\ moved'[m] = moved[m] \cup {n} /\ UNCHANGED <<sidecar, snap, new>>
        BY <1>12, RewriteDoes
    <2>2. n.to = c
        OBVIOUS
    <2>3. c.body <= V
        BY <1>o, <2>1
    <2> HIDE DEF V, d, k, c, n
    <2>4. Old(cache'[m])
        BY <1>f, <1>o, <2>1, <2>3
    <2>5. \A r \in moved'[m] : r.to.body <= V
        BY <1>r, <2>1, <2>2, <2>3
    <2> QED BY <1>o, <1>q, <2>1, <2>4, <2>5
<1>13. ASSUME NEW t \in Present, Stays(m, t) PROVE NothingNewer(m)'
    BY <1>o, <1>r, <1>q, <1>13, StaysDoes
<1>14. ASSUME NEW l \in Lanes, RenderFix(m, l) PROVE NothingNewer(m)'
    <2> DEFINE c == Settled(cache[m][l], l)
    <2>1. /\ cache[m][l] # None /\ c.body = cache[m][l].body
          /\ cache'[m] = [cache[m] EXCEPT ![l] = c] /\ UNCHANGED <<sidecar, snap, new, moved>>
        BY <1>14, FixDoes
    <2>3. c.body <= V
        BY <1>o, <2>1
    <2> HIDE DEF V, c
    <2>4. Old(cache'[m])
        BY <1>f, <1>o, <2>1, <2>3
    <2> QED BY <1>o, <1>r, <1>q, <2>1, <2>4
<1> QED BY <1>1, <1>2, <1>3, <1>4, <1>5, <1>6, <1>7, <1>8, <1>9, <1>10, <1>11, <1>12, <1>13,
           <1>14, OwnSteps

\* A file that has its lane's stage and state is settled.
LEMMA SettledAlready ==
    ASSUME NEW c \in Content, NEW l, c.stage = l, c.closed = ClosedIn(l)
    PROVE  c = Settled(c, l)
<1>1. c = [c EXCEPT !.stage = c.stage, !.closed = c.closed]
    BY DEF Content
<1> QED BY <1>1 DEF Settled

\* What Init says of one machine.
LEMMA AtFirst ==
    ASSUME Init, NEW m \in Machines
    PROVE  /\ pc[m] = "idle" /\ todo[m] = {} /\ moved[m] = {} /\ worked[m] = {}
           /\ snap[m] = NoFiles /\ new[m] = NoFiles /\ used["edit"] = 0
           /\ Complete(cache[m]) /\ sidecar[m] = cache[m]
           /\ \A l \in Lanes : LET c == cache[m][l]
                               IN  c # None => /\ c = Settled(c, l) /\ c.stage = l
                                               /\ c.body = 0 /\ sent[m][c.ticket] = c
<1>1. PICK home \in [Present -> Lanes] :
        LET start(t) == [ticket |-> t, stage |-> home[t],
                         closed |-> ClosedIn(home[t]), body |-> 0]
            files == [l \in Lanes |->
                        IF \E t \in Present : home[t] = l
                        THEN start(CHOOSE t \in Present : home[t] = l)
                        ELSE None]
        IN /\ \A t, u \in Present : home[t] = home[u] => t = u
           /\ cache = [i \in Machines |-> files]
           /\ sidecar = [i \in Machines |-> files]
           /\ sent = [i \in Machines |-> [t \in Present |-> start(t)]]
    BY DEF Init
<1>2. /\ pc[m] = "idle" /\ todo[m] = {} /\ moved[m] = {} /\ worked[m] = {}
      /\ snap[m] = NoFiles /\ new[m] = NoFiles /\ used["edit"] = 0
    BY DEF Init, Kinds
<1>3. Present \subseteq Tickets
    BY AdtSyncAssumption DEF Init, Present
<1> DEFINE start(t) == [ticket |-> t, stage |-> home[t],
                        closed |-> ClosedIn(home[t]), body |-> 0]
           files == [l \in Lanes |->
                       IF \E t \in Present : home[t] = l
                       THEN start(CHOOSE t \in Present : home[t] = l)
                       ELSE None]
<1>4. \A t \in Present : /\ start(t) \in Content /\ start(t).ticket = t
                         /\ start(t) = Settled(start(t), home[t])
                         /\ start(t).stage = home[t] /\ start(t).body = 0
    <2> SUFFICES ASSUME NEW t \in Present
                 PROVE  /\ start(t) \in Content /\ start(t).ticket = t
                        /\ start(t) = Settled(start(t), home[t])
                        /\ start(t).stage = home[t] /\ start(t).body = 0
        OBVIOUS
    <2>1. t \in Tickets /\ home[t] \in Lanes /\ ClosedIn(home[t]) \in BOOLEAN
        BY <1>3 DEF ClosedIn
    <2>2. start(t) \in Content
        BY <2>1 DEF Content
    <2>3. start(t).stage = home[t] /\ start(t).closed = ClosedIn(home[t])
        OBVIOUS
    <2>4. start(t) = Settled(start(t), home[t])
        BY <2>1, <2>2, <2>3, SettledAlready
    <2> QED BY <2>2, <2>4
<1>5. cache[m] = files /\ sidecar[m] = files /\ \A t \in Present : sent[m][t] = start(t)
    BY <1>1
<1>6. \A t \in Present : start(t) # None
    BY <1>4, NoneAssumption
<1> HIDE DEF start
<1>7. \A t \in Present : files[home[t]] = start(t)
    <2> SUFFICES ASSUME NEW t \in Present PROVE files[home[t]] = start(t)
        OBVIOUS
    <2>1. (CHOOSE u \in Present : home[u] = home[t]) = t
        BY <1>1
    <2> QED BY <2>1
<1>8. \A l \in Lanes : files[l] # None => \E t \in Present : home[t] = l
    OBVIOUS
<1> HIDE DEF files
<1>9. \A l \in Lanes : files[l] # None => \E t \in Present : home[t] = l /\ files[l] = start(t)
    BY <1>7, <1>8
<1>10. Complete(files)
    <2>1. \A l \in Lanes : files[l] # None => files[l].ticket \in Present
        BY <1>4, <1>9
    <2>2. \A t \in Present : \E l \in Lanes : files[l] # None /\ files[l].ticket = t
        BY <1>4, <1>6, <1>7
    <2>3. \A l, k \in Lanes : files[l] # None /\ files[k] # None
                                /\ files[l].ticket = files[k].ticket => l = k
        BY <1>4, <1>9
    <2> QED BY <2>1, <2>2, <2>3 DEF Complete
<1>11. \A l \in Lanes : files[l] # None =>
          /\ files[l] = Settled(files[l], l) /\ files[l].stage = l /\ files[l].body = 0
          /\ sent[m][files[l].ticket] = files[l]
    BY <1>4, <1>5, <1>9
<1> QED BY <1>2, <1>5, <1>10, <1>11

LEMMA KeptInit ==
    ASSUME Init, NEW m \in Machines
    PROVE  KeptInv(m)
<1>1. Known(m)
    BY AtFirst DEF Known, Pushing, Visiting, Pulling
<1>2. Relocated(m)
    BY AtFirst DEF Relocated
<1>3. NothingNewer(m)
    BY AtFirst DEF NothingNewer, Dated, NoFiles
<1> QED BY <1>1, <1>2, <1>3, AtFirst DEF KeptInv

LEMMA KeptStep ==
    ASSUME TypeInv, TypeInv', Kept, [Next]_vars, NEW m \in Machines, KeptInv(m)
    PROVE  KeptInv(m)'
<1>w. world' = world
    BY WorldStays
<1>1. CASE Own(m)
    BY <1>1, <1>w, CompleteSteps, KnownSteps, RelocatedSteps, NewestSteps DEF KeptInv
<1>2. CASE ~Own(m)
    <2>1. UNCHANGED My(m) /\ used'["edit"] >= used["edit"]
        BY <1>2, Elsewhere DEF TypeInv
    <2>2. /\ UNCHANGED <<cache[m], sidecar[m], pc[m], todo[m], snap[m], new[m], at[m]>>
          /\ UNCHANGED <<fetched[m], moved[m], sent[m]>>
        BY <2>1 DEF My
    <2>3. Complete(cache[m])'
        BY <1>w, <2>2 DEF KeptInv, Complete, Present
    <2>4. Known(m)'
        <3>1. Known(m)
            BY DEF KeptInv
        <3>2. Complete(snap[m]) => Complete(snap[m])'
            BY <1>w, <2>2 DEF Complete, Present
        <3>3. \A t : Between(m, t)' <=> Between(m, t)
            BY <2>2 DEF Between
        <3>4. \A t : Recovered(m, t)' = Recovered(m, t)
            BY <2>2 DEF Recovered
        <3> QED BY <2>2, <3>1, <3>2, <3>3, <3>4 DEF Known
    <2>5. Relocated(m)'
        BY <2>2 DEF KeptInv, Relocated, Between
    <2>6. NothingNewer(m)'
        <3>1. /\ TypeOK /\ TypeOK' /\ cache[m] \in [Lanes -> Slot]
              /\ sidecar[m] \in [Lanes -> Slot]
              /\ snap[m] \in [Lanes -> Slot] /\ new[m] \in [Lanes -> Slot]
            BY DEF TypeInv, TypeOK
        <3>2. NothingNewer(m)
            BY DEF KeptInv
        <3>3. Dated(cache[m])' /\ Dated(sidecar[m])' /\ Dated(snap[m])' /\ Dated(new[m])'
            BY <2>1, <2>2, <3>1, <3>2, DatedOn DEF NothingNewer, Dated
        <3>4. \A r \in moved'[m] : r.to.body <= used'["edit"]
            <4>1. used["edit"] \in Nat /\ used'["edit"] \in Nat
                BY <3>1 DEF TypeOK, Kinds
            <4>2. \A r \in moved[m] : r.to.body \in Nat
                BY <3>1, MovedType DEF Content
            <4> QED BY <2>1, <2>2, <3>2, <4>1, <4>2 DEF NothingNewer
        <3> QED BY <3>3, <3>4 DEF NothingNewer
    <2> QED BY <2>3, <2>4, <2>5, <2>6 DEF KeptInv
<1> QED BY <1>1, <1>2

\* Everything the machines know, in one invariant.
FilesInv == TypeInv /\ (Kept => \A m \in Machines : KeptInv(m))

LEMMA FilesInductive ==
    /\ Init => FilesInv
    /\ FilesInv /\ [Next]_vars => FilesInv'
<1>1. Init => FilesInv
    BY TypeInit, KeptInit DEF FilesInv
<1>2. ASSUME FilesInv, [Next]_vars PROVE FilesInv'
    <2>1. Kept' = Kept
        BY <1>2, WorldStays DEF Kept, Env
    <2>2. TypeInv /\ TypeInv'
        BY <1>2, TypeStep DEF FilesInv
    <2>3. Kept => \A m \in Machines : KeptInv(m)'
        BY <1>2, <2>2, KeptStep DEF FilesInv
    <2> QED BY <2>1, <2>2, <2>3 DEF FilesInv
<1> QED BY <1>1, <1>2

\* A ticket has one file in a complete cache.
LEMMA OneCopy ==
    ASSUME NEW f, Complete(f), NEW l \in Lanes, f[l] # None
    PROVE  CopiesIn(f, f[l].ticket) = {l} /\ Cardinality(CopiesIn(f, f[l].ticket)) = 1
<1>1. CopiesIn(f, f[l].ticket) = {l}
    BY DEF CopiesIn, Complete
<1> QED BY <1>1, FS_Singleton

\* While sessions keep out of passes, every ticket has exactly one file on every
\* machine, whatever fails or is killed, for any number of machines, tickets and
\* lanes: no relocation or render loses one and no pull makes a second
\* (_relocate_to_stage, guard 4; pull_all).
THEOREM FilesAreKept == Spec => []TicketsKeepTheirFile
<1>1. FilesInv => TicketsKeepTheirFile
    <2> SUFFICES ASSUME FilesInv, NEW m \in Running, NEW t \in Present, "midpass" \notin Env
                 PROVE  \E l \in Lanes : CopiesIn(cache[m], t) = {l}
        BY DEF TicketsKeepTheirFile
    <2>1. m \in Machines
        BY AdtSyncAssumption DEF FilesInv, TypeInv, TypeOK, Running
    <2>2. Complete(cache[m])
        BY <2>1 DEF FilesInv, Kept, KeptInv
    <2>3. PICK l \in Lanes : cache[m][l] # None /\ cache[m][l].ticket = t
        BY <2>2 DEF Complete
    <2>4. CopiesIn(cache[m], t) = {l}
        BY <2>2, <2>3, OneCopy
    <2> QED BY <2>4
<1> QED BY <1>1, FilesInductive, PTL DEF Spec

-----------------------------------------------------------------------------
(* A file that a push would skip is what was last sent, if pushes come first  *)

\* Settling a file twice is settling it once.
LEMMA SettledOnce ==
    ASSUME NEW c \in Content, NEW l \in Lanes
    PROVE  Settled(Settled(c, l), l) = Settled(c, l)
<1>1. Settled(c, l) \in Content /\ Settled(c, l).stage = l
    BY SettledType
<1>2. Settled(c, l).closed = ClosedIn(l)
    BY DEF Settled, Content
<1> QED BY <1>1, <1>2, SettledAlready

\* A move changes nothing about what was sent ...
LEMMA ExchangedMoved ==
    ASSUME NEW f \in [Lanes -> Slot], NEW out, NEW h, Exchanged(f, out, h),
           NEW l \in Lanes, NEW k \in Lanes
    PROVE  Exchanged([f EXCEPT ![k] = f[l], ![l] = None], out, h)
BY DEF Exchanged

\* ... nor does a file that arrives or leaves the hashes as it was sent ...
LEMMA ExchangedPut ==
    ASSUME NEW f, NEW out, NEW h \in [Lanes -> Slot], Exchanged(f, out, h), NEW l \in Lanes,
           NEW c, c = None \/ out[c.ticket] = c
    PROVE  Exchanged(f, out, [h EXCEPT ![l] = c])
<1> SUFFICES ASSUME NEW j \in Lanes, f[j] # None, [h EXCEPT ![l] = c][f[j].stage] = f[j]
             PROVE  out[f[j].ticket] = f[j]
    BY DEF Exchanged
<1>1. CASE f[j].stage = l
    BY <1>1
<1>2. CASE f[j].stage # l
    BY <1>2 DEF Exchanged
<1> QED BY <1>1, <1>2

\* ... nor does sending a file as it is.
LEMMA ExchangedSent ==
    ASSUME NEW f, NEW out \in [Present -> Content], NEW h, Exchanged(f, out, h), Complete(f),
           NEW l \in Lanes, f[l] # None,
           NEW e, h[f[l].stage] = f[l] => e = f[l]
    PROVE  Exchanged(f, [out EXCEPT ![f[l].ticket] = e], h)
BY DEF Exchanged, Complete

\* Without a duplicate the push skips exactly what has its hash.
LEMMA SkipsUnchanged ==
    ASSUME TypeInv, NEW m \in Machines, KeptInv(m), NEW l \in Lanes,
           pc[m] \in Pushing, cache[m][l] # None
    PROVE  Skips(m, l) <=> sidecar[m][l] = cache[m][l]
<1>1. snap[m] = cache[m] /\ Complete(cache[m])
    BY DEF KeptInv, Known
<1>2. Cardinality(CopiesIn(snap[m], snap[m][l].ticket)) = 1
    BY <1>1, OneCopy
<1>3. ~Duplicate(snap[m], l)
    BY <1>2 DEF Duplicate
<1> QED BY <1>1, <1>3 DEF Skips

\* The hashes a pull saves: a relocated file's under its new path only.
LEMMA RekeyedIs ==
    ASSUME TypeInv, NEW m \in Machines, KeptInv(m), pc[m] = "pull", NEW l \in Lanes
    PROVE  \/ \E r \in moved[m] : r.to.stage = l /\ Rekeyed(m)[l] = r.to /\ cache[m][l] = r.to
           \/ /\ Rekeyed(m)[l] = None
              /\ cache[m][l] # None =>
                   \E q \in moved[m] : /\ q.to.ticket = cache[m][l].ticket
                                       /\ cache[m][q.to.stage] = q.to /\ q.to.stage # l
           \/ /\ Rekeyed(m)[l] = new[m][l]
              /\ \A r \in moved[m] : r.to.stage # l
<1>1. \A r \in moved[m] :
         /\ cache[m][r.to.stage] = r.to
         /\ cache[m][r.from] # None =>
              \E q \in moved[m] : q.to.ticket = cache[m][r.from].ticket
    BY DEF KeptInv, Relocated, Between
<1>2. CASE \E r \in moved[m] : r.to.stage = l
    <2>1. PICK r \in moved[m] : r.to.stage = l /\ Rekeyed(m)[l] = r.to
        BY <1>2 DEF Rekeyed
    <2> QED BY <1>1, <2>1
<1>3. CASE /\ ~ \E r \in moved[m] : r.to.stage = l
           /\ \E r \in moved[m] : r.from = l
    <2>1. Rekeyed(m)[l] = None
        BY <1>3 DEF Rekeyed
    <2> QED BY <1>1, <1>3, <2>1
<1>4. CASE /\ ~ \E r \in moved[m] : r.to.stage = l
           /\ ~ \E r \in moved[m] : r.from = l
    <2>1. Rekeyed(m)[l] = new[m][l]
        BY <1>4 DEF Rekeyed
    <2> QED BY <1>4, <2>1
<1> QED BY <1>2, <1>3, <1>4

LEMMA SafeLeaves ==
    ASSUME TypeInv, PushesFirst, NEW m \in Machines, KeptInv(m), SafeInv(m), Leaves(m)
    PROVE  SafeInv(m)'
<1>n. "midpass" \notin Env /\ "breach" \notin Env /\ "quota" \notin Env
    BY DEF PushesFirst
<1>k. Known(m) /\ TypeOK
    BY DEF KeptInv, TypeInv
<1>d. /\ pc'[m] \in {"load", "idle"} /\ UNCHANGED <<cache, sent>>
    BY <1>k, LeavesDo
<1>s. Exchanged(cache[m], sent[m], sidecar'[m])
        /\ (pc'[m] = "load" => \A l \in Lanes : Drafts(cache[m][l], l, sidecar'[m][l]))
        => SafeInv(m)'
    BY <1>d DEF SafeInv, Pushing, Pulling
<1>e. /\ Exchanged(cache[m], sent[m], sidecar[m])
      /\ pc[m] \in {"walk", "index"} \cup Pushing \cup Pulling =>
           Exchanged(cache[m], sent[m], new[m])
    BY DEF SafeInv
<1>1. ASSUME Crash(m) \/ RenderDone(m) PROVE SafeInv(m)'
    <2>1. sidecar' = sidecar /\ pc'[m] = "idle"
        BY <1>1, <1>k DEF Crash, RenderDone, Leave, file, TypeOK
    <2> QED BY <1>e, <1>s, <2>1
<1>2. ~BreachedTick(m) /\ ~RateLimited(m)
    BY <1>n DEF BreachedTick, RateLimited
<1>3. \A t \in Present, l \in Lanes : ~PullDies(m, t, l)
    BY <1>k, NeverDies
<1>4. ASSUME PullError(m) PROVE SafeInv(m)'
    <2>1. pc[m] = "push" /\ todo[m] = {} /\ sidecar' = [sidecar EXCEPT ![m] = new[m]]
        BY <1>4, <1>n DEF PullError
    <2>2. sidecar'[m] = new[m]
        BY <1>k, <2>1 DEF TypeOK
    <2>3. \A l \in Lanes : Drafts(cache[m][l], l, new[m][l])
        BY <2>1 DEF SafeInv, Pushing, Between
    <2> QED BY <1>e, <1>s, <2>1, <2>2, <2>3 DEF Pushing
<1>5. ASSUME NEW next \in {"load", "idle"}, Persist(m, next) PROVE SafeInv(m)'
    <2>1. pc[m] = "pull" /\ sidecar' = [sidecar EXCEPT ![m] = Rekeyed(m)]
        BY <1>5 DEF Persist
    <2>2. sidecar'[m] = Rekeyed(m)
        BY <1>k, <2>1 DEF TypeOK
    <2>3. Complete(cache[m]) /\ cache[m] \in [Lanes -> Slot] /\ Exchanged(cache[m], sent[m], new[m])
        BY <1>e, <1>k, <2>1 DEF KeptInv, TypeOK, Pulling
    <2>4. \A r \in moved[m] : sent[m][r.to.ticket] = r.to
        BY DEF KeptInv, Relocated
    <2>5. Exchanged(cache[m], sent[m], Rekeyed(m))
        <3> SUFFICES ASSUME NEW l \in Lanes, cache[m][l] # None,
                            Rekeyed(m)[cache[m][l].stage] = cache[m][l]
                     PROVE  sent[m][cache[m][l].ticket] = cache[m][l]
            BY DEF Exchanged
        <3>1. cache[m][l].stage \in Lanes
            BY <2>3 DEF Slot, Content
        <3>2. \/ \E r \in moved[m] : cache[m][l] = r.to
              \/ new[m][cache[m][l].stage] = cache[m][l]
            BY <2>1, <3>1, RekeyedIs
        <3> QED BY <2>3, <2>4, <3>2 DEF Exchanged
    <2>6. \A l \in Lanes : Drafts(cache[m][l], l, Rekeyed(m)[l])
        <3> SUFFICES ASSUME NEW l \in Lanes PROVE Drafts(cache[m][l], l, Rekeyed(m)[l])
            OBVIOUS
        <3>1. Rekeyed(m)[l] \in {cache[m][l], None, new[m][l]}
            BY <2>1, RekeyedIs
        <3>2. Drafts(cache[m][l], l, new[m][l])
            BY <2>1 DEF SafeInv, Pushing, Pulling, Between
        <3> QED BY <3>1, <3>2 DEF Drafts
    <2> QED BY <1>s, <2>2, <2>5, <2>6
<1> QED BY <1>1, <1>2, <1>3, <1>4, <1>5 DEF Leaves

LEMMA SafeSteps ==
    ASSUME TypeInv, PushesFirst, NEW m \in Machines, KeptInv(m), SafeInv(m), Own(m)
    PROVE  SafeInv(m)'
<1>k. Known(m) /\ TypeOK /\ Kept /\ Complete(cache[m])
    BY DEF KeptInv, TypeInv, Kept, PushesFirst
<1>f. /\ cache[m] \in [Lanes -> Slot] /\ sidecar[m] \in [Lanes -> Slot]
      /\ snap[m] \in [Lanes -> Slot] /\ new[m] \in [Lanes -> Slot]
      /\ sent[m] \in [Present -> Content]
    BY <1>k DEF TypeOK
<1>e. /\ Exchanged(cache[m], sent[m], sidecar[m])
      /\ pc[m] \in {"walk", "index"} \cup Pushing \cup Pulling =>
           Exchanged(cache[m], sent[m], new[m])
    BY DEF SafeInv
<1>i. pc'[m] = "idle" /\ Exchanged(cache'[m], sent'[m], sidecar'[m]) => SafeInv(m)'
    BY DEF SafeInv, Pushing, Pulling
<1>1. ASSUME NEW l \in Lanes, Edit(m, l) PROVE SafeInv(m)'
    <2>1. /\ pc[m] = "idle" /\ cache[m][l] # None
          /\ cache'[m] = [cache[m] EXCEPT ![l] = [cache[m][l] EXCEPT !.body = used["edit"] + 1]]
          /\ UNCHANGED <<sidecar, pc, sent>>
        BY <1>1, <1>k, EditDoes
    <2>2. cache[m][l] \in Content /\ used["edit"] \in Nat
        BY <1>f, <1>k, <2>1 DEF Slot, TypeOK, Kinds
    <2> DEFINE c == [cache[m][l] EXCEPT !.body = used["edit"] + 1]
    <2>3. c \in Content /\ c.body = used["edit"] + 1 /\ c.stage \in Lanes
        BY <2>2 DEF Content
    <2> HIDE DEF c
    <2>4. cache'[m] = [cache[m] EXCEPT ![l] = c]
        BY <2>1 DEF c
    <2>5. sidecar[m][c.stage] # c
        <3>1. sidecar[m][c.stage] # None => sidecar[m][c.stage].body <= used["edit"]
            BY <2>3 DEF KeptInv, NothingNewer, Dated
        <3> QED BY <2>2, <2>3, <3>1, NoneAssumption
    <2>6. Exchanged(cache'[m], sent[m], sidecar[m])
        BY <1>e, <1>f, <2>4, <2>5 DEF Exchanged
    <2> QED BY <1>i, <2>1, <2>6
<1>2. ASSUME NEW l \in Lanes, NEW k \in Lanes, Move(m, l, k) PROVE SafeInv(m)'
    <2>1. /\ pc[m] = "idle" /\ cache'[m] = [cache[m] EXCEPT ![k] = cache[m][l], ![l] = None]
          /\ UNCHANGED <<sidecar, pc, sent>>
        BY <1>2, <1>k, MoveDoes
    <2> QED BY <1>e, <1>f, <1>i, <2>1, ExchangedMoved
<1>3. ASSUME LoseSidecar(m) PROVE SafeInv(m)'
    <2>1. /\ pc[m] = "idle" /\ sidecar'[m] = NoFiles /\ UNCHANGED <<cache, pc, sent>>
        BY <1>3, <1>k, LoseDoes
    <2>2. Exchanged(cache[m], sent[m], NoFiles)
        <3>1. \A l \in Lanes : cache[m][l] # None => cache[m][l].stage \in Lanes
            BY <1>f DEF Slot, Content
        <3> QED BY <3>1 DEF Exchanged, NoFiles
    <2> QED BY <1>i, <2>1, <2>2
<1>4. ASSUME Leaves(m) PROVE SafeInv(m)'
    BY <1>4, SafeLeaves
<1>5. ASSUME Start(m) PROVE SafeInv(m)'
    <2>1. /\ pc'[m] = "walk" /\ new'[m] = sidecar[m] /\ UNCHANGED <<cache, sidecar, sent>>
        BY <1>5, <1>k, StartDoes
    <2> QED BY <1>e, <2>1 DEF SafeInv, Pushing, Pulling
<1>6. ASSUME NEW ls \in SUBSET Lanes, Walk(m, ls) PROVE SafeInv(m)'
    <2>0. todo[m] = Lanes
        BY <1>6, <1>k DEF Walk, AfterWalk, Known
    <2>1. /\ UNCHANGED <<cache, sidecar, new, sent>>
          /\ \/ pc[m] = "walk" /\ pc'[m] = "push" /\ todo'[m] = {l \in Lanes : cache[m][l] # None}
             \/ pc[m] = "index" /\ pc'[m] = "pull"
             \/ pc[m] = "load" /\ pc'[m] = "render"
        BY <1>6, <1>k, <2>0, WalkDoes
    <2>2. CASE pc[m] = "walk"
        <3>1. pc'[m] = "push" /\ \A l \in Lanes : l \in todo'[m] \/ cache[m][l] = None
            BY <2>1, <2>2
        <3>2. new[m] = sidecar[m]
            BY <2>2 DEF SafeInv
        <3> QED BY <1>e, <2>1, <2>2, <3>1, <3>2 DEF SafeInv, Pushing, Pulling, Drafts
    <2>3. CASE pc[m] = "index"
        <3>1. \A l \in Lanes : Drafts(cache[m][l], l, new[m][l])
            BY <2>3 DEF SafeInv, Pushing, Pulling, Between
        <3>2. pc'[m] = "pull"
            BY <2>1, <2>3
        <3> QED BY <1>e, <2>1, <2>3, <3>1, <3>2 DEF SafeInv, Pushing, Pulling
    <2>4. CASE pc[m] = "load"
        <3>2. pc'[m] = "render"
            BY <2>1, <2>4
        <3> QED BY <1>e, <2>1, <2>4, <3>2 DEF SafeInv, Pushing, Pulling
    <2> QED BY <2>1, <2>2, <2>3, <2>4
<1>7. ASSUME NEW l \in Lanes, PushSkip(m, l) PROVE SafeInv(m)'
    <2>1. /\ pc[m] = "push" /\ l \in todo[m] /\ todo'[m] = todo[m] \ {l} /\ Skips(m, l)
          /\ UNCHANGED <<cache, sidecar, pc, new, sent>>
        BY <1>7, <1>k, SkipDoes
    <2>2. cache[m][l] # None
        BY <1>k, <2>1 DEF TypeInv, Held, Known, Pushing
    <2>3. sidecar[m][l] = cache[m][l] /\ new[m][l] = sidecar[m][l]
        BY <2>1, <2>2, SkipsUnchanged DEF Pushing, SafeInv
    <2>4. \A j \in Lanes : j \in todo'[m] \/ Drafts(cache[m][j], j, new[m][j])
        <3>1. \A j \in Lanes : j \in todo[m] \/ Drafts(cache[m][j], j, new[m][j])
            BY <2>1 DEF SafeInv, Pushing, Between
        <3>2. Drafts(cache[m][l], l, new[m][l])
            BY <2>3 DEF Drafts
        <3> QED BY <2>1, <3>1, <3>2
    <2>5. \A j \in todo'[m] : new[m][j] = sidecar[m][j]
        BY <2>1 DEF SafeInv, Pushing
    <2> QED BY <1>e, <2>1, <2>4, <2>5 DEF SafeInv, Pushing, Pulling
<1>8. ASSUME NEW l \in Lanes, PushFetch(m, l) PROVE SafeInv(m)'
    <2>1. /\ pc[m] = "push" /\ pc'[m] = "edit"
          /\ UNCHANGED <<cache, sidecar, todo, new, sent>>
        BY <1>8, <1>k, FetchDoes
    <2>2. \A j \in Lanes : j \in todo[m] \/ Drafts(cache[m][j], j, new[m][j])
        BY <2>1 DEF SafeInv, Pushing, Between
    <2> QED BY <1>e, <2>1, <2>2 DEF SafeInv, Pushing, Pulling
<1>9. ASSUME PushEdit(m) \/ PushState(m) PROVE SafeInv(m)'
    <2> DEFINE c == snap[m][at[m]]
    <2>1. /\ pc[m] \in {"edit", "state"} /\ pc'[m] \in {"state", "record"}
          /\ UNCHANGED <<cache, sidecar, todo, new, at>>
          /\ \/ sent'[m] = [sent[m] EXCEPT ![c.ticket] =
                                 [@ EXCEPT !.stage = c.stage, !.body = c.body]]
             \/ sent'[m] = [sent[m] EXCEPT ![c.ticket] = c]
        BY <1>9, <1>k, EditSends, StateSends
    <2>2. at[m] \in Lanes /\ c = cache[m][at[m]] /\ c # None /\ c \in Content
        BY <1>f, <1>k, <2>1 DEF TypeInv, Held, Known, Pushing, Visiting, Slot
    <2>3. c.ticket \in Present
        BY <1>k, <2>2 DEF Complete
    <2>4. \A x \in Content : x = c => [x EXCEPT !.stage = c.stage, !.body = c.body] = c
        BY <2>2 DEF Content
    <2> HIDE DEF c
    <2>5. PICK e : /\ sent'[m] = [sent[m] EXCEPT ![c.ticket] = e]
                   /\ sent[m][c.ticket] = c => e = c
        BY <1>f, <2>1, <2>3, <2>4
    <2>6. ASSUME NEW h, Exchanged(cache[m], sent[m], h) PROVE Exchanged(cache[m], sent'[m], h)
        <3> DEFINE f == cache[m]
        <3>1. h[f[at[m]].stage] = f[at[m]] => e = f[at[m]]
            BY <2>2, <2>5, <2>6 DEF Exchanged
        <3>2. sent'[m] = [sent[m] EXCEPT ![f[at[m]].ticket] = e] /\ f[at[m]] # None
            BY <2>2, <2>5
        <3>3. Exchanged(f, [sent[m] EXCEPT ![f[at[m]].ticket] = e], h)
            BY <1>f, <1>k, <2>2, <2>6, <3>1, <3>2, ExchangedSent
        <3> QED BY <3>2, <3>3
    <2>7. Exchanged(cache[m], sent'[m], sidecar[m]) /\ Exchanged(cache[m], sent'[m], new[m])
        BY <1>e, <2>1, <2>6 DEF Pushing
    <2>8. \A j \in Lanes : j \in todo[m] \/ Drafts(cache[m][j], j, new[m][j])
        BY <2>1 DEF SafeInv, Pushing, Between
    <2> QED BY <2>1, <2>7, <2>8 DEF SafeInv, Pushing, Pulling
<1>10. ASSUME PushRecord(m) \/ PushError(m) PROVE SafeInv(m)'
    <2>0. pc[m] \in Visiting /\ snap[m] = cache[m]
        BY <1>10, <1>k DEF PushRecord, PushError, Visiting, Known, Pushing
    <2>1. at[m] \in Lanes /\ cache[m][at[m]] # None /\ cache[m][at[m]] = snap[m][at[m]]
        BY <2>0 DEF TypeInv, Held, Pushing, Visiting
    <2>2. /\ pc'[m] = "push" /\ todo'[m] = todo[m] \ {at[m]}
          /\ UNCHANGED <<cache, sidecar, sent>>
        BY <1>10, <1>k, <2>0, RecordDoes, ErrorDoes
    <2>3. \/ pc[m] = "record" /\ new'[m] = [new[m] EXCEPT ![at[m]] = cache[m][at[m]]]
          \/ new'[m] = [new[m] EXCEPT ![at[m]] = None]
        BY <1>10, <1>k, <2>0, RecordDoes, ErrorDoes
    <2>4. pc[m] = "record" => sent[m][cache[m][at[m]].ticket] = cache[m][at[m]]
        BY <1>k, <2>1 DEF Known
    <2>5. Exchanged(cache[m], sent[m], new'[m])
        <3>1. Exchanged(cache[m], sent[m], new[m])
            BY <1>e, <2>0 DEF Visiting, Pushing
        <3> QED BY <1>f, <2>1, <2>3, <2>4, <3>1, ExchangedPut
    <2>6. \A j \in Lanes : j \in todo'[m] \/ Drafts(cache[m][j], j, new'[m][j])
        <3>1. \A j \in Lanes : j \in todo[m] \/ Drafts(cache[m][j], j, new[m][j])
            BY <2>0 DEF SafeInv, Pushing, Visiting, Between
        <3>2. Drafts(cache[m][at[m]], at[m], new'[m][at[m]])
            BY <1>f, <2>1, <2>3 DEF Drafts
        <3>3. \A j \in Lanes : j # at[m] => new'[m][j] = new[m][j]
            BY <1>f, <2>3
        <3> QED BY <2>2, <3>1, <3>2, <3>3
    <2>7. \A j \in todo'[m] : new'[m][j] = sidecar[m][j]
        <3>1. \A j \in todo[m] : new[m][j] = sidecar[m][j] /\ j \in Lanes
            BY <2>0 DEF SafeInv, Pushing, Visiting, TypeInv, Held
        <3> QED BY <1>f, <2>2, <2>3, <3>1
    <2> QED BY <1>e, <2>2, <2>5, <2>6, <2>7 DEF SafeInv, Pushing, Pulling
<1>11. ASSUME PullFetch(m) PROVE SafeInv(m)'
    <2>1. /\ pc[m] = "push" /\ todo[m] = {} /\ pc'[m] = "index"
          /\ UNCHANGED <<cache, sidecar, new, sent>>
        BY <1>11, <1>k, PullDoes
    <2>2. \A j \in Lanes : Drafts(cache[m][j], j, new[m][j])
        BY <2>1 DEF SafeInv, Pushing, Between
    <2> QED BY <1>e, <2>1, <2>2 DEF SafeInv, Pushing, Pulling
<1>12. ASSUME NEW t \in Present, NEW l \in Lanes, PullRename(m, t, l) PROVE SafeInv(m)'
    <2> DEFINE k == Recovered(m, t)
    <2>1. /\ pc[m] = "pull" /\ cache[m][l] # None /\ cache[m][l].ticket = t
          /\ cache[m][l] = snap[m][l] /\ k \in Lanes /\ k # l
          /\ cache'[m] = [cache[m] EXCEPT ![k] = cache[m][l], ![l] = None]
          /\ pc'[m] = "rewrite" /\ at'[m] = l
          /\ UNCHANGED <<sidecar, snap, new, sent>>
        BY <1>12, <1>k, RenameDoes
    <2> HIDE DEF k
    <2>2. Between(m, t)'
        BY <2>1 DEF Between
    <2>3. Exchanged(cache'[m], sent[m], sidecar[m]) /\ Exchanged(cache'[m], sent[m], new[m])
        BY <1>e, <1>f, <2>1, ExchangedMoved DEF Pulling
    <2>4. \A j \in Lanes : \/ cache'[m][j] # None /\ cache'[m][j].ticket = t
                           \/ Drafts(cache'[m][j], j, new[m][j])
        <3>1. \A j \in Lanes : Drafts(cache[m][j], j, new[m][j])
            BY <2>1 DEF SafeInv, Pushing, Pulling, Between
        <3>2. cache'[m][k] # None /\ cache'[m][k].ticket = t
            BY <1>f, <2>1
        <3>3. Drafts(cache'[m][l], l, new[m][l])
            BY <1>f, <2>1 DEF Drafts
        <3>4. \A j \in Lanes : j # k /\ j # l => cache'[m][j] = cache[m][j]
            BY <1>f, <2>1
        <3> QED BY <3>1, <3>2, <3>3, <3>4
    <2> QED BY <2>1, <2>2, <2>3, <2>4 DEF SafeInv, Pushing, Pulling
<1>13. ASSUME PullRewrite(m) PROVE SafeInv(m)'
    <2> DEFINE d == snap[m][at[m]]
               k == Recovered(m, d.ticket)
               c == Settled(d, k)
    <2>1. /\ pc[m] = "rewrite" /\ pc'[m] = "pull" /\ d # None /\ d \in Content
          /\ k \in Lanes /\ c # None /\ c.ticket = d.ticket /\ cache[m][k] = d
          /\ d.ticket \in Present
          /\ cache'[m] = [cache[m] EXCEPT ![k] = c]
          /\ sent'[m] = [sent[m] EXCEPT ![d.ticket] = c]
          /\ UNCHANGED <<sidecar, new>>
        BY <1>13, <1>k, RewriteDoes
    <2>2. Settled(c, k) = c
        BY <2>1, SettledOnce
    <2>3. \A u : Between(m, u) => u = d.ticket
        BY DEF Between
    <2> HIDE DEF d, k, c
    <2>4. \A j \in Lanes : j # k /\ cache[m][j] # None => cache[m][j].ticket # d.ticket
        BY <1>k, <2>1 DEF Complete
    <2>5. cache'[m][k] = c /\ \A j \in Lanes : j # k => cache'[m][j] = cache[m][j]
        BY <1>f, <2>1
    <2>6. ASSUME NEW h, Exchanged(cache[m], sent[m], h) PROVE Exchanged(cache'[m], sent'[m], h)
        <3>1. sent'[m][d.ticket] = c
            BY <1>f, <2>1
        <3>2. \A j \in Lanes : j # k /\ cache[m][j] # None =>
                 sent'[m][cache[m][j].ticket] = sent[m][cache[m][j].ticket]
            BY <1>f, <2>1, <2>4
        <3> SUFFICES ASSUME NEW j \in Lanes, cache'[m][j] # None,
                            h[cache'[m][j].stage] = cache'[m][j]
                     PROVE  sent'[m][cache'[m][j].ticket] = cache'[m][j]
            BY DEF Exchanged
        <3>3. CASE j = k
            BY <2>1, <2>5, <3>1, <3>3
        <3>4. CASE j # k
            BY <2>5, <2>6, <3>2, <3>4 DEF Exchanged
        <3> QED BY <3>3, <3>4
    <2>7. Exchanged(cache'[m], sent'[m], sidecar[m]) /\ Exchanged(cache'[m], sent'[m], new[m])
        BY <1>e, <2>1, <2>6 DEF Pulling
    <2>8. \A j \in Lanes : Drafts(cache'[m][j], j, new[m][j])
        <3>1. \A j \in Lanes : \/ cache[m][j] # None /\ cache[m][j].ticket = d.ticket
                               \/ Drafts(cache[m][j], j, new[m][j])
            BY <2>1, <2>3 DEF SafeInv, Pushing, Pulling
        <3>2. Drafts(c, k, new[m][k])
            BY <2>2 DEF Drafts
        <3> QED BY <2>4, <2>5, <3>1, <3>2
    <2> QED BY <2>1, <2>7, <2>8 DEF SafeInv, Pushing, Pulling
<1>14. ASSUME NEW t \in Present, Stays(m, t) PROVE SafeInv(m)'
    <2>1. /\ pc[m] = "pull" /\ cache'[m] = cache[m] /\ UNCHANGED <<sidecar, pc, new, sent>>
        BY <1>14, <1>k, StaysDoes
    <2>2. \A j \in Lanes : Drafts(cache[m][j], j, new[m][j])
        BY <2>1 DEF SafeInv, Pushing, Pulling, Between
    <2> QED BY <1>e, <2>1, <2>2 DEF SafeInv, Pushing, Pulling
<1>15. ASSUME NEW l \in Lanes, RenderFix(m, l) PROVE SafeInv(m)'
    <2> DEFINE c == Settled(cache[m][l], l)
    <2>1. /\ pc[m] = "render" /\ cache[m][l] # None /\ cache[m][l] \in Content
          /\ c # None /\ c.stage = l
          /\ cache'[m] = [cache[m] EXCEPT ![l] = c] /\ UNCHANGED <<sidecar, pc, sent>>
        BY <1>15, <1>k, FixDoes
    <2>2. Settled(c, l) = c
        BY <2>1, SettledOnce
    <2>3. Drafts(cache[m][l], l, sidecar[m][l])
        BY <2>1 DEF SafeInv
    <2>4. c # cache[m][l] => sidecar[m][l] # c
        BY <2>1, <2>3 DEF Drafts
    <2> HIDE DEF c
    <2>5. cache'[m][l] = c /\ \A j \in Lanes : j # l => cache'[m][j] = cache[m][j]
        BY <1>f, <2>1
    <2>6. Exchanged(cache'[m], sent[m], sidecar[m])
        BY <1>e, <2>1, <2>4, <2>5 DEF Exchanged
    <2>7. \A j \in Lanes : Drafts(cache'[m][j], j, sidecar[m][j])
        <3>1. \A j \in Lanes : Drafts(cache[m][j], j, sidecar[m][j])
            BY <2>1 DEF SafeInv
        <3>2. Drafts(c, l, sidecar[m][l])
            BY <2>2 DEF Drafts
        <3> QED BY <2>5, <3>1, <3>2
    <2> QED BY <2>1, <2>6, <2>7 DEF SafeInv, Pushing, Pulling
<1> QED BY <1>k, <1>1, <1>2, <1>3, <1>4, <1>5, <1>6, <1>7, <1>8, <1>9, <1>10, <1>11, <1>12, <1>13,
           <1>14, <1>15, OwnSteps

LEMMA SafeInit ==
    ASSUME Init, NEW m \in Machines
    PROVE  SafeInv(m)
BY AtFirst DEF SafeInv, Exchanged, Pushing, Pulling

LEMMA SafeStep ==
    ASSUME TypeInv, TypeInv', PushesFirst, [Next]_vars, NEW m \in Machines,
           KeptInv(m), SafeInv(m)
    PROVE  SafeInv(m)'
<1>1. CASE Own(m)
    BY <1>1, SafeSteps
<1>2. CASE ~Own(m)
    <2>1. UNCHANGED My(m)
        BY <1>2, Elsewhere DEF TypeInv
    <2>2. /\ UNCHANGED <<cache[m], sidecar[m], pc[m], todo[m], snap[m], new[m], at[m]>>
          /\ UNCHANGED sent[m]
        BY <2>1 DEF My
    <2>3. \A t : Between(m, t)' <=> Between(m, t)
        BY <2>2 DEF Between
    <2> QED BY <2>2, <2>3 DEF SafeInv
<1> QED BY <1>1, <1>2

SkipInv == FilesInv /\ (PushesFirst => \A m \in Machines : SafeInv(m))

LEMMA SkipInductive ==
    /\ Init => SkipInv
    /\ SkipInv /\ [Next]_vars => SkipInv'
<1>1. Init => SkipInv
    BY FilesInductive, SafeInit DEF SkipInv
<1>2. ASSUME SkipInv, [Next]_vars PROVE SkipInv'
    <2>1. PushesFirst' = PushesFirst
        BY <1>2, WorldStays DEF PushesFirst, Env
    <2>2. FilesInv /\ FilesInv'
        BY <1>2, FilesInductive DEF SkipInv
    <2>3. TypeInv /\ TypeInv' /\ (PushesFirst => Kept)
        BY <2>2 DEF FilesInv, PushesFirst, Kept
    <2>4. PushesFirst => \A m \in Machines : SafeInv(m)'
        BY <1>2, <2>2, <2>3, SafeStep DEF SkipInv, FilesInv
    <2> QED BY <2>1, <2>2, <2>4 DEF SkipInv
<1> QED BY <1>1, <1>2

\* Skipping a file whose hash has not changed since the last pass leaves no local
\* work behind (reconcile_all's hash test), whatever fails or is killed, for any
\* number of machines, tickets and lanes.
THEOREM SkippedIsConverged == Spec => []SkipIsSafe
<1>1. SkipInv => SkipIsSafe
    <2> SUFFICES ASSUME SkipInv, PushesFirst, NEW m \in Running, NEW l \in Lanes,
                        cache[m][l] # None, cache[m][l].stage = l, sidecar[m][l] = cache[m][l]
                 PROVE  sent[m][cache[m][l].ticket] = cache[m][l]
        BY DEF SkipIsSafe, UnchangedIsConverged
    <2>1. m \in Machines
        BY AdtSyncAssumption DEF SkipInv, FilesInv, TypeInv, TypeOK, Running
    <2>2. Exchanged(cache[m], sent[m], sidecar[m])
        BY <2>1 DEF SkipInv, SafeInv
    <2> QED BY <2>2 DEF Exchanged
<1> QED BY <1>1, SkipInductive, PTL DEF Spec

\* What the pull renames is what the machine last sent.
LEMMA AgreedBefore ==
    ASSUME TypeInv, NEW m \in Machines, KeptInv(m), SafeInv(m),
           NEW t \in Present, NEW l \in Lanes, PullRename(m, t, l)
    PROVE  sent[m][t].stage = l
<1>1. Known(m) /\ Exchanged(cache[m], sent[m], sidecar[m])
    BY DEF KeptInv, SafeInv
<1> DEFINE k == Recovered(m, t)
<1>2. /\ cache[m][l] # None /\ cache[m][l].ticket = t /\ cache[m][l].stage = l
      /\ sidecar[m][l] = cache[m][l] /\ k \in Lanes
      /\ cache'[m] = [cache[m] EXCEPT ![k] = cache[m][l], ![l] = None]
    BY <1>1, RenameDoes
<1>3. sent[m][t] = cache[m][l]
    BY <1>1, <1>2 DEF Exchanged
<1> QED BY <1>2, <1>3

\* The pull relocates a file only from where the machine and the Issue last agreed
\* it lies, so it never undoes a local lane move (_relocate_to_stage, guard 3).
THEOREM RelocationsAreAgreed == Spec => RelocationKeepsMoves
<1>1. ASSUME SkipInv, PushesFirst, NEW m \in Running, NEW t \in Present, NEW l \in Lanes,
             PullRename(m, t, l)
      PROVE  sent[m][t].stage = l
    <2>1. m \in Machines /\ TypeInv
        BY <1>1, AdtSyncAssumption DEF SkipInv, FilesInv, TypeInv, TypeOK, Running
    <2>2. KeptInv(m) /\ SafeInv(m)
        BY <1>1, <2>1 DEF SkipInv, FilesInv, PushesFirst, Kept
    <2> QED BY <1>1, <2>1, <2>2, AgreedBefore
<1>2. SkipInv => (PushesFirst => \A m \in Running, t \in Present, l \in Lanes :
                     PullRename(m, t, l) => sent[m][t].stage = l)
    BY <1>1
<1> QED BY <1>2, SkipInductive, PTL DEF Spec, RelocationKeepsMoves

-----------------------------------------------------------------------------
(* A push carries work of its own machine                                     *)

\* Sessions keep out of passes, no pass is killed and no sidecar is lost.
Careful == {"midpass", "crash", "sidecar"} \cap Env = {}

LEMMA WorkLeaves ==
    ASSUME TypeInv, Careful, NEW m \in Machines, KeptInv(m), WorkInv(m), Leaves(m)
    PROVE  WorkInv(m)'
<1> DEFINE Fresh(j) == cache[m][j] # None /\ cache[m][j].ticket \notin worked[m]
<1>k. Known(m) /\ TypeOK /\ Kept /\ Complete(cache[m])
    BY DEF KeptInv, TypeInv, Kept, Careful
<1>d. /\ pc'[m] \in {"load", "idle"} /\ UNCHANGED <<cache, worked>>
    BY <1>k, LeavesDo
<1>b. (\A j \in Lanes : Fresh(j) => /\ cache[m][j] = Settled(cache[m][j], j)
                                    /\ sidecar'[m][j] = cache[m][j])
      => WorkInv(m)'
    BY <1>d DEF WorkInv, Pushing, Pulling, Visiting
<1>1. ~Crash(m) /\ \A t \in Present, l \in Lanes : ~PullDies(m, t, l)
    BY <1>k, NeverDies DEF Crash, Careful
<1>2. ASSUME BreachedTick(m) \/ RenderDone(m) PROVE WorkInv(m)'
    <2>1. pc[m] \in {"idle", "render"} /\ sidecar' = sidecar
        BY <1>2 DEF BreachedTick, RenderDone, file
    <2>2. \A j \in Lanes : Fresh(j) => /\ cache[m][j] = Settled(cache[m][j], j)
                                       /\ sidecar[m][j] = cache[m][j]
        BY <2>1 DEF WorkInv, Between
    <2> QED BY <1>b, <2>1, <2>2
<1>3. ASSUME RateLimited(m) \/ PullError(m) PROVE WorkInv(m)'
    <2>1. pc[m] \in Pushing /\ sidecar' = [sidecar EXCEPT ![m] = new[m]]
        BY <1>3, <1>k, NoneMissing DEF RateLimited, PullError, Pushing
    <2>2. sidecar'[m] = new[m]
        BY <1>k, <2>1 DEF TypeOK
    <2>3. \A j \in Lanes : Fresh(j) => /\ cache[m][j] = Settled(cache[m][j], j)
                                       /\ new[m][j] = cache[m][j]
        BY <2>1 DEF WorkInv, Between, Pushing
    <2> QED BY <1>b, <2>2, <2>3
<1>4. ASSUME NEW next \in {"load", "idle"}, Persist(m, next) PROVE WorkInv(m)'
    <2>1. pc[m] = "pull" /\ sidecar' = [sidecar EXCEPT ![m] = Rekeyed(m)]
        BY <1>4 DEF Persist
    <2>2. sidecar'[m] = Rekeyed(m)
        BY <1>k, <2>1 DEF TypeOK
    <2>3. \A r \in moved[m] : /\ r.to.stage \in Lanes /\ r.to # None
                              /\ cache[m][r.to.stage] = r.to
        BY <1>k, MovedType DEF KeptInv, Relocated
    <2>4. ASSUME NEW j \in Lanes, Fresh(j)
          PROVE  cache[m][j] = Settled(cache[m][j], j) /\ Rekeyed(m)[j] = cache[m][j]
        <3>1. /\ cache[m][j] = Settled(cache[m][j], j)
              /\ \/ new[m][j] = cache[m][j]
                 \/ \E q \in moved[m] : q.to.ticket = cache[m][j].ticket
            BY <2>1, <2>4 DEF WorkInv, Between, Pulling
        <3>2. \A q \in moved[m] : q.to.ticket = cache[m][j].ticket => q.to.stage = j
            BY <1>k, <2>3, <2>4 DEF Complete
        <3>3. Rekeyed(m)[j] = cache[m][j]
            BY <2>1, <2>4, <3>1, <3>2, RekeyedIs
        <3> QED BY <3>1, <3>3
    <2> QED BY <1>b, <2>2, <2>4
<1> QED BY <1>1, <1>2, <1>3, <1>4 DEF Leaves

LEMMA WorkSteps ==
    ASSUME TypeInv, Careful, NEW m \in Machines, KeptInv(m), WorkInv(m), Own(m)
    PROVE  WorkInv(m)'
<1> DEFINE Fresh(j) == cache[m][j] # None /\ cache[m][j].ticket \notin worked[m]
<1>k. Known(m) /\ TypeOK /\ Kept /\ Complete(cache[m])
    BY DEF KeptInv, TypeInv, Kept, Careful
<1>f. /\ cache[m] \in [Lanes -> Slot] /\ sidecar[m] \in [Lanes -> Slot]
      /\ snap[m] \in [Lanes -> Slot] /\ new[m] \in [Lanes -> Slot]
    BY <1>k DEF TypeOK
<1>1. ASSUME NEW l \in Lanes, Edit(m, l) PROVE WorkInv(m)'
    <2> DEFINE c == [cache[m][l] EXCEPT !.body = used["edit"] + 1]
    <2>1. /\ pc[m] = "idle" /\ cache[m][l] # None
          /\ cache'[m] = [cache[m] EXCEPT ![l] = c]
          /\ worked'[m] = worked[m] \cup {cache[m][l].ticket}
          /\ UNCHANGED <<sidecar, pc>>
        BY <1>1, <1>k, EditDoes
    <2>2. c.ticket = cache[m][l].ticket
        BY <1>f, <2>1 DEF Slot, Content
    <2> HIDE DEF c
    <2>3. cache'[m][l] = c /\ \A j \in Lanes : j # l => cache'[m][j] = cache[m][j]
        BY <1>f, <2>1
    <2>4. \A j \in Lanes : cache'[m][j] # None /\ cache'[m][j].ticket \notin worked'[m] =>
             Fresh(j) /\ cache'[m][j] = cache[m][j]
        BY <2>1, <2>2, <2>3
    <2>5. \A j \in Lanes : Fresh(j) => /\ cache[m][j] = Settled(cache[m][j], j)
                                       /\ sidecar[m][j] = cache[m][j]
        BY <2>1 DEF WorkInv, Between
    <2> QED BY <2>1, <2>4, <2>5 DEF WorkInv, Pushing, Pulling, Visiting
<1>2. ASSUME NEW l \in Lanes, NEW k \in Lanes, Move(m, l, k) PROVE WorkInv(m)'
    <2>1. /\ pc[m] = "idle" /\ cache[m][l] # None
          /\ cache'[m] = [cache[m] EXCEPT ![k] = cache[m][l], ![l] = None]
          /\ worked'[m] = worked[m] \cup {cache[m][l].ticket}
          /\ UNCHANGED <<sidecar, pc>>
        BY <1>2, <1>k, MoveDoes
    <2>4. \A j \in Lanes : cache'[m][j] # None /\ cache'[m][j].ticket \notin worked'[m] =>
             Fresh(j) /\ cache'[m][j] = cache[m][j]
        BY <1>f, <2>1
    <2>5. \A j \in Lanes : Fresh(j) => /\ cache[m][j] = Settled(cache[m][j], j)
                                       /\ sidecar[m][j] = cache[m][j]
        BY <2>1 DEF WorkInv, Between
    <2> QED BY <2>1, <2>4, <2>5 DEF WorkInv, Pushing, Pulling, Visiting
<1>3. ~LoseSidecar(m)
    BY DEF LoseSidecar, Careful
<1>4. ASSUME Leaves(m) PROVE WorkInv(m)'
    BY <1>4, WorkLeaves
<1>5. ASSUME Start(m) PROVE WorkInv(m)'
    <2>1. /\ pc[m] = "idle" /\ pc'[m] = "walk" /\ new'[m] = sidecar[m]
          /\ UNCHANGED <<cache, sidecar, worked>>
        BY <1>5, <1>k, StartDoes
    <2>5. \A j \in Lanes : Fresh(j) => /\ cache[m][j] = Settled(cache[m][j], j)
                                       /\ sidecar[m][j] = cache[m][j]
        BY <2>1 DEF WorkInv, Between
    <2> QED BY <2>1, <2>5 DEF WorkInv, Pushing, Pulling, Visiting
<1>6. ASSUME NEW ls \in SUBSET Lanes, Walk(m, ls) PROVE WorkInv(m)'
    <2>0. todo[m] = Lanes
        BY <1>6, <1>k DEF Walk, AfterWalk, Known
    <2>1. /\ UNCHANGED <<cache, sidecar, new, worked>>
          /\ \/ pc[m] = "walk" /\ pc'[m] = "push"
             \/ pc[m] = "index" /\ pc'[m] = "pull"
             \/ pc[m] = "load" /\ pc'[m] = "render"
        BY <1>6, <1>k, <2>0, WalkDoes
    <2>2. \A j \in Lanes : Fresh(j) =>
             /\ cache[m][j] = Settled(cache[m][j], j)
             /\ pc[m] \in {"walk", "load"} => sidecar[m][j] = cache[m][j]
             /\ pc[m] \in {"walk", "index"} => new[m][j] = cache[m][j]
        BY <2>1 DEF WorkInv, Between
    <2> QED BY <2>1, <2>2 DEF WorkInv, Pushing, Pulling, Visiting
<1>7. ASSUME NEW l \in Lanes, PushSkip(m, l) PROVE WorkInv(m)'
    <2>1. /\ pc[m] = "push" /\ todo'[m] = todo[m] \ {l}
          /\ UNCHANGED <<cache, sidecar, pc, new, worked>>
        BY <1>7, <1>k, SkipDoes
    <2>2. \A j \in Lanes : Fresh(j) =>
             /\ cache[m][j] = Settled(cache[m][j], j) /\ new[m][j] = cache[m][j]
             /\ j \in todo[m] => sidecar[m][j] = cache[m][j]
        BY <2>1 DEF WorkInv, Between, Pushing
    <2> QED BY <2>1, <2>2 DEF WorkInv, Pushing, Pulling, Visiting
<1>8. ASSUME NEW l \in Lanes, PushFetch(m, l) PROVE WorkInv(m)'
    <2>1. /\ pc[m] = "push" /\ pc'[m] = "edit" /\ at'[m] = l /\ l \in todo[m] /\ ~Skips(m, l)
          /\ UNCHANGED <<cache, sidecar, todo, snap, new, worked>>
        BY <1>8, <1>k, FetchDoes
    <2>2. \A j \in Lanes : Fresh(j) =>
             /\ cache[m][j] = Settled(cache[m][j], j) /\ new[m][j] = cache[m][j]
             /\ j \in todo[m] => sidecar[m][j] = cache[m][j]
        BY <2>1 DEF WorkInv, Between, Pushing
    <2>3. cache[m][l] # None /\ snap[m] = cache[m]
        BY <1>k, <2>1 DEF TypeInv, Held, Known, Pushing
    <2>4. sidecar[m][l] # cache[m][l]
        BY <2>1, <2>3, SkipsUnchanged DEF Pushing
    <2>5. snap[m][l].ticket \in worked[m]
        BY <2>1, <2>2, <2>3, <2>4
    <2> QED BY <2>1, <2>2, <2>5 DEF WorkInv, Pushing, Pulling, Visiting
<1>9. ASSUME PushEdit(m) \/ PushState(m) PROVE WorkInv(m)'
    <2>1. /\ pc[m] \in {"edit", "state"} /\ pc'[m] \in {"state", "record"}
          /\ UNCHANGED <<cache, sidecar, todo, snap, new, at, worked>>
        BY <1>9, <1>k, EditSends, StateSends
    <2>2. \A j \in Lanes : Fresh(j) =>
             /\ cache[m][j] = Settled(cache[m][j], j) /\ new[m][j] = cache[m][j]
             /\ j \in todo[m] => sidecar[m][j] = cache[m][j]
        BY <2>1 DEF WorkInv, Between, Pushing
    <2>3. snap[m][at[m]].ticket \in worked[m]
        BY <2>1 DEF WorkInv, Visiting
    <2> QED BY <2>1, <2>2, <2>3 DEF WorkInv, Pushing, Pulling, Visiting
<1>10. ASSUME PushRecord(m) \/ PushError(m) PROVE WorkInv(m)'
    <2> DEFINE a == at[m]
               c == cache[m][a]
    <2>0. pc[m] \in Visiting /\ snap[m] = cache[m]
        BY <1>10, <1>k DEF PushRecord, PushError, Visiting, Known, Pushing
    <2>1. a \in Lanes /\ c # None
        BY <2>0 DEF TypeInv, Held, Pushing, Visiting
    <2>2. /\ pc'[m] = "push" /\ todo'[m] = todo[m] \ {a}
          /\ UNCHANGED <<cache, sidecar>>
          /\ \/ /\ new'[m] = [new[m] EXCEPT ![a] = c]
                /\ worked'[m] = (IF c = Settled(c, a) THEN worked[m] \ {c.ticket}
                                 ELSE worked[m])
             \/ new'[m] = [new[m] EXCEPT ![a] = None] /\ worked' = worked
        BY <1>10, <1>k, <2>0, RecordDoes, ErrorDoes
    <2>3. \A j \in Lanes : Fresh(j) =>
             /\ cache[m][j] = Settled(cache[m][j], j) /\ new[m][j] = cache[m][j]
             /\ j \in todo[m] => sidecar[m][j] = cache[m][j]
        BY <2>0 DEF WorkInv, Between, Pushing, Visiting
    <2>4. c.ticket \in worked[m]
        BY <2>0 DEF WorkInv
    <2>5. \A j \in Lanes : j # a /\ cache[m][j] # None => cache[m][j].ticket # c.ticket
        BY <1>k, <2>1 DEF Complete
    <2> HIDE DEF a, c
    <2>6. \A j \in Lanes : j # a => new'[m][j] = new[m][j]
        BY <1>f, <2>2
    <2>7. ASSUME NEW j \in Lanes, cache[m][j] # None, cache[m][j].ticket \notin worked'[m]
          PROVE  /\ cache[m][j] = Settled(cache[m][j], j) /\ new'[m][j] = cache[m][j]
                 /\ j \in todo'[m] => sidecar[m][j] = cache[m][j]
        <3>1. CASE j = a
            <4>1. cache[m][j] = c
                BY <3>1 DEF c
            <4> QED BY <1>f, <2>2, <2>4, <2>7, <3>1, <4>1
        <3>2. CASE j # a
            <4>1. Fresh(j)
                BY <2>2, <2>5, <2>7, <3>2
            <4> QED BY <2>2, <2>3, <2>6, <3>2, <4>1
        <3> QED BY <3>1, <3>2
    <2> QED BY <2>2, <2>7 DEF WorkInv, Pushing, Pulling, Visiting
<1>11. ASSUME PullFetch(m) PROVE WorkInv(m)'
    <2>1. /\ pc[m] = "push" /\ pc'[m] = "index" /\ UNCHANGED <<cache, sidecar, new, worked>>
        BY <1>11, <1>k, PullDoes
    <2>2. \A j \in Lanes : Fresh(j) =>
             cache[m][j] = Settled(cache[m][j], j) /\ new[m][j] = cache[m][j]
        BY <2>1 DEF WorkInv, Between, Pushing
    <2> QED BY <2>1, <2>2 DEF WorkInv, Pushing, Pulling, Visiting
<1>12. ASSUME NEW t \in Present, NEW l \in Lanes, PullRename(m, t, l) PROVE WorkInv(m)'
    <2> DEFINE k == Recovered(m, t)
    <2>1. /\ pc[m] = "pull" /\ cache[m][l] # None /\ cache[m][l].ticket = t
          /\ cache[m][l] = snap[m][l] /\ k \in Lanes /\ k # l
          /\ cache'[m] = [cache[m] EXCEPT ![k] = cache[m][l], ![l] = None]
          /\ pc'[m] = "rewrite" /\ at'[m] = l
          /\ UNCHANGED <<snap, new, moved, worked>>
        BY <1>12, <1>k, RenameDoes
    <2> HIDE DEF k
    <2>2. \A u : Between(m, u)' <=> u = t
        BY <2>1 DEF Between
    <2>3. \A j \in Lanes : cache'[m][j] # None /\ cache'[m][j].ticket # t =>
             cache'[m][j] = cache[m][j]
        BY <1>f, <2>1
    <2>4. \A j \in Lanes : Fresh(j) =>
             /\ cache[m][j] = Settled(cache[m][j], j)
             /\ \/ new[m][j] = cache[m][j]
                \/ \E r \in moved[m] : r.to.ticket = cache[m][j].ticket
        BY <2>1 DEF WorkInv, Between, Pulling
    <2>5. \A j \in Lanes : cache'[m][j] # None /\ cache'[m][j].ticket \notin worked'[m]
                             /\ ~Between(m, cache[m][j].ticket)' =>
             /\ cache'[m][j] = Settled(cache'[m][j], j)
             /\ \/ new'[m][j] = cache'[m][j]
                \/ \E r \in moved'[m] : r.to.ticket = cache'[m][j].ticket
        BY <2>1, <2>2, <2>3, <2>4
    <2> QED BY <2>1, <2>5 DEF WorkInv, Pushing, Pulling, Visiting
<1>13. ASSUME PullRewrite(m) PROVE WorkInv(m)'
    <2> DEFINE d == snap[m][at[m]]
               k == Recovered(m, d.ticket)
               c == Settled(d, k)
               n == [from |-> at[m], to |-> c]
    <2>1. /\ pc[m] = "rewrite" /\ pc'[m] = "pull" /\ d \in Content
          /\ d # None /\ cache[m][k] = d
          /\ k \in Lanes /\ c.ticket = d.ticket
          /\ cache'[m] = [cache[m] EXCEPT ![k] = c]
          /\ moved'[m] = moved[m] \cup {n}
          /\ worked'[m] = worked[m] \ {d.ticket}
          /\ UNCHANGED <<sidecar, new>>
        BY <1>13, <1>k, RewriteDoes
    <2>2. Settled(c, k) = c /\ n.to = c
        BY <2>1, SettledOnce
    <2>3. \A u : Between(m, u) => u = d.ticket
        BY DEF Between
    <2> HIDE DEF d, k, c, n
    <2>4. \A j \in Lanes : j # k /\ cache[m][j] # None => cache[m][j].ticket # d.ticket
        BY <1>k, <2>1 DEF Complete
    <2>5. cache'[m][k] = c /\ \A j \in Lanes : j # k => cache'[m][j] = cache[m][j]
        BY <1>f, <2>1
    <2>6. ASSUME NEW j \in Lanes, cache'[m][j] # None, cache'[m][j].ticket \notin worked'[m]
          PROVE  /\ cache'[m][j] = Settled(cache'[m][j], j)
                 /\ \/ new'[m][j] = cache'[m][j]
                    \/ \E r \in moved'[m] : r.to.ticket = cache'[m][j].ticket
        <3>1. CASE j = k
            BY <2>1, <2>2, <2>5, <3>1
        <3>2. CASE j # k
            <4>1. cache'[m][j] = cache[m][j] /\ Fresh(j) /\ ~Between(m, cache[m][j].ticket)
                BY <2>1, <2>3, <2>4, <2>5, <2>6, <3>2
            <4>2. /\ cache[m][j] = Settled(cache[m][j], j)
                  /\ \/ new[m][j] = cache[m][j]
                     \/ \E r \in moved[m] : r.to.ticket = cache[m][j].ticket
                BY <2>1, <4>1 DEF WorkInv, Pulling
            <4> QED BY <2>1, <4>1, <4>2
        <3> QED BY <3>1, <3>2
    <2> QED BY <2>1, <2>6 DEF WorkInv, Pushing, Pulling, Visiting
<1>14. ASSUME NEW t \in Present, Stays(m, t) PROVE WorkInv(m)'
    <2>1. /\ pc[m] = "pull" /\ cache'[m] = cache[m]
          /\ UNCHANGED <<pc, snap, at, new, moved, worked>>
        BY <1>14, <1>k, StaysDoes
    <2>2. \A j \in Lanes : Fresh(j) =>
             /\ cache[m][j] = Settled(cache[m][j], j)
             /\ \/ new[m][j] = cache[m][j]
                \/ \E r \in moved[m] : r.to.ticket = cache[m][j].ticket
        BY <2>1 DEF WorkInv, Between, Pulling
    <2> QED BY <2>1, <2>2 DEF WorkInv, Pushing, Pulling, Visiting
<1>15. ASSUME NEW l \in Lanes, RenderFix(m, l) PROVE WorkInv(m)'
    <2> DEFINE c == Settled(cache[m][l], l)
    <2>1. /\ pc[m] = "render" /\ cache[m][l] # None /\ c.ticket = cache[m][l].ticket
          /\ cache'[m] = [cache[m] EXCEPT ![l] = c] /\ UNCHANGED <<sidecar, pc, worked>>
        BY <1>15, <1>k, FixDoes
    <2>2. \A j \in Lanes : Fresh(j) => /\ cache[m][j] = Settled(cache[m][j], j)
                                       /\ sidecar[m][j] = cache[m][j]
        BY <2>1 DEF WorkInv, Between
    <2>3. Fresh(l) => c = cache[m][l]
        BY <2>2
    <2> HIDE DEF c
    <2>4. cache'[m][l] = c /\ \A j \in Lanes : j # l => cache'[m][j] = cache[m][j]
        BY <1>f, <2>1
    <2>5. \A j \in Lanes : cache'[m][j] # None /\ cache'[m][j].ticket \notin worked'[m] =>
             Fresh(j) /\ cache'[m][j] = cache[m][j]
        BY <2>1, <2>3, <2>4
    <2> QED BY <2>1, <2>2, <2>5 DEF WorkInv, Pushing, Pulling, Visiting
<1> QED BY <1>k, <1>1, <1>2, <1>3, <1>4, <1>5, <1>6, <1>7, <1>8, <1>9, <1>10, <1>11, <1>12, <1>13,
           <1>14, <1>15, OwnSteps

LEMMA WorkInit ==
    ASSUME Init, NEW m \in Machines
    PROVE  WorkInv(m)
BY AtFirst DEF WorkInv, Pushing, Pulling, Visiting

LEMMA WorkStep ==
    ASSUME TypeInv, Careful, [Next]_vars, NEW m \in Machines, KeptInv(m), WorkInv(m)
    PROVE  WorkInv(m)'
<1>1. CASE Own(m)
    BY <1>1, WorkSteps
<1>2. CASE ~Own(m)
    <2>1. UNCHANGED My(m)
        BY <1>2, Elsewhere DEF TypeInv
    <2>2. /\ UNCHANGED <<cache[m], sidecar[m], pc[m], todo[m], snap[m], new[m], at[m]>>
          /\ UNCHANGED <<moved[m], worked[m]>>
        BY <2>1 DEF My
    <2>3. \A t : Between(m, t)' <=> Between(m, t)
        BY <2>2 DEF Between
    <2> QED BY <2>2, <2>3 DEF WorkInv
<1> QED BY <1>1, <1>2

CarryInv == FilesInv /\ (Careful => \A m \in Machines : WorkInv(m))

\* A push calls GitHub for a ticket only to carry work of a session of its own
\* machine, whatever calls fail or run out of quota: a change that a pull or a render
\* brought does not reach a push (_push_hash, and the re-keying of relocated files).
THEOREM PushesCarryWork == Spec => []PushCarriesWork
<1>1. Init => CarryInv
    BY FilesInductive, WorkInit DEF CarryInv
<1>2. ASSUME CarryInv, [Next]_vars PROVE CarryInv'
    <2>1. Careful' = Careful
        BY <1>2, WorldStays DEF Careful, Env
    <2>2. FilesInv /\ FilesInv' /\ TypeInv /\ (Careful => Kept)
        BY <1>2, FilesInductive DEF CarryInv, FilesInv, Careful, Kept
    <2>3. Careful => \A m \in Machines : WorkInv(m)'
        BY <1>2, <2>2, WorkStep DEF CarryInv, FilesInv
    <2> QED BY <2>1, <2>2, <2>3 DEF CarryInv
<1>3. CarryInv => PushCarriesWork
    <2>1. CarryInv => Running \subseteq Machines
        BY AdtSyncAssumption DEF CarryInv, FilesInv, TypeInv, TypeOK, Running
    <2> QED BY <2>1 DEF CarryInv, PushCarriesWork, Careful, WorkInv, Visiting
<1> QED BY <1>1, <1>2, <1>3, PTL DEF Spec
=============================================================================
