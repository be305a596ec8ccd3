----------------------------- MODULE DailyReport -----------------------------
(* What one watcher of every machine does once a UTC day after its pass:      *)
(* report() of tools/adt_machines.py writes one comment on the Issue labelled *)
(* adt:install and reads the other machines' comments, then run_once() of     *)
(* tools/adt_phone_home.py pings the collector under the install's id, which  *)
(* a board rendered by hand (build_kanban.machine_id) may mint as well.       *)
EXTENDS Naturals, Sequences, FiniteSets

CONSTANTS
    Machines,
    Versions,   \* commits of the ADT clone
    First,      \* the one every machine starts at
    MaxAge,     \* MAX_AGE, in days
    None,
    Budgets     \* bounds: how often events of each kind happen in one behaviour

Kinds == {"error", "lost", "crash", "asleep", "forget", "upgrade", "leave",
          "delete", "render", "readonly"}

ASSUME DailyReportAssumption ==
    /\ MaxAge \in Nat \ {0} /\ First \in Versions
    /\ Budgets \subseteq [Kinds -> Nat]
    /\ None \notin Machines \cup Versions \cup [issue : Nat, comment : Nat]

VARIABLES
    issues,     \* the adt:install Issues by number: "open" or "closed"
    comments,   \* their comments: [issue, by, commit, age (in days), gone]
    commit,     \* commit[m]: what m's clone is at
    stamped,    \* stamped[m]: names due_today has stamped today
    state,      \* state[m]: machine-report.json, [issue, comment], or None
    machines,   \* machines[m]: machines.json, comment numbers m's board lists
    id,         \* id[m]: install-id, 0 when there is none
    minted,     \* the last id anybody drew
    sent,       \* sent[m]: ids m has pinged under
    pc, at, mine, drawn,    \* locals of m's process
    rendering,  \* rendering[m]: m's hand-started render found no id
    writable,   \* writable[m]: .adt/state can be written
    alive,      \* alive[m]: ADT is installed on m
    used        \* used[k]: how many events of kind k happened

github == <<issues, comments>>
files  == <<stamped, state, machines, id>>
locals == <<pc, at, mine, drawn>>
world  == <<commit, rendering, writable, alive>>
vars   == <<github, files, locals, world, minted, sent, used>>

Init ==
    /\ issues = <<>> /\ comments = <<>>
    /\ commit = [m \in Machines |-> First]
    /\ stamped = [m \in Machines |-> {}]
    /\ state = [m \in Machines |-> None]
    /\ machines = [m \in Machines |-> {}]
    /\ id = [m \in Machines |-> 0]
    /\ minted = 0
    /\ sent = [m \in Machines |-> {}]
    /\ pc = [m \in Machines |-> "idle"]
    /\ at = [m \in Machines |-> 0]
    /\ mine = [m \in Machines |-> 0]
    /\ drawn = [m \in Machines |-> 0]
    /\ rendering = [m \in Machines |-> FALSE]
    /\ writable = [m \in Machines |-> TRUE]
    /\ alive = [m \in Machines |-> TRUE]
    /\ used = [k \in Kinds |-> 0]

Spend(k) == /\ used' = [used EXCEPT ![k] = @ + 1]
            /\ \E b \in Budgets : \A j \in Kinds : used'[j] <= b[j]

Goto(m, l) == pc' = [pc EXCEPT ![m] = l]

\* The locals of report() end with it, those of the process with the process.
Drop(m) == /\ at' = [at EXCEPT ![m] = 0]
           /\ mine' = [mine EXCEPT ![m] = 0]

ToPing(m) == Goto(m, "ping") /\ Drop(m)

Exit(m) == Goto(m, "idle") /\ Drop(m) /\ drawn' = [drawn EXCEPT ![m] = 0]

-----------------------------------------------------------------------------
(* due_today *)

\* A bug: fires although the day cannot be stamped.
DueUnstamped(m, name) == name \notin stamped[m]

Due(m, name) == name \notin stamped[m] /\ writable[m]

Stamp(m, name) ==
    stamped' = IF writable[m] THEN [stamped EXCEPT ![m] = @ \cup {name}]
               ELSE stamped

-----------------------------------------------------------------------------
(* report() *)

Tick(m) ==
    /\ pc[m] = "idle" /\ alive[m]
    /\ IF Due(m, "machines")
       THEN Stamp(m, "machines") /\ Goto(m, "find")
       ELSE Due(m, "telemetry") /\ Goto(m, "ping") /\ UNCHANGED stamped
    /\ UNCHANGED <<github, state, machines, id, at, mine, drawn, world, minted,
                   sent, used>>

\* lowest_install_issue
LowestIssue == IF issues = <<>> THEN 0 ELSE 1

\* A bug: the comment is updated wherever it is.
KnownAnywhere(m, i) == state[m] # None

\* A bug: the report file is written and never read.
KnownNever(m, i) == FALSE

\* This machine has a comment on the Issue i.
Known(m, i) == state[m] # None /\ state[m].issue = i

\* machine-report.json is read, and goes to the local mine.
Write(m, i) ==
    IF Known(m, i)
    THEN mine' = [mine EXCEPT ![m] = state[m].comment] /\ Goto(m, "update")
    ELSE UNCHANGED mine /\ Goto(m, "post")

Find(m) ==
    /\ pc[m] = "find"
    /\ at' = [at EXCEPT ![m] = LowestIssue]
    /\ IF LowestIssue = 0 THEN Goto(m, "create") /\ UNCHANGED mine
       ELSE Write(m, LowestIssue)
    /\ UNCHANGED <<github, files, drawn, world, minted, sent, used>>

\* A POST that GitHub carries out; its answer may be lost, which raises.
Create(m) ==
    /\ pc[m] = "create"
    /\ issues' = Append(issues, "open")
    /\ \/ /\ at' = [at EXCEPT ![m] = Len(issues')] /\ Goto(m, "close")
          /\ UNCHANGED <<mine, used>>
       \/ Spend("lost") /\ ToPing(m)
    /\ UNCHANGED <<comments, files, drawn, world, minted, sent>>

Close(m) ==
    /\ pc[m] = "close"
    /\ issues' = [issues EXCEPT ![at[m]] = "closed"]
    /\ \/ Write(m, at[m]) /\ UNCHANGED <<at, used>>
       \/ Spend("lost") /\ ToPing(m)
    /\ UNCHANGED <<comments, files, drawn, world, minted, sent>>

\* PATCH of the known comment; whatever fails, a new one is posted.
Update(m) ==
    /\ pc[m] = "update"
    /\ LET c == mine[m]
           updated == [comments EXCEPT ![c].commit = commit[m], ![c].age = 0]
       IN  \/ /\ ~comments[c].gone
              /\ comments' = updated
              /\ \/ Goto(m, "save") /\ UNCHANGED used
                 \/ Spend("lost") /\ Goto(m, "post")
           \/ /\ comments[c].gone
              /\ Goto(m, "post") /\ UNCHANGED <<comments, used>>
           \/ Spend("error") /\ Goto(m, "post") /\ UNCHANGED comments
    /\ UNCHANGED <<issues, files, at, mine, drawn, world, minted, sent>>

Post(m) ==
    /\ pc[m] = "post"
    /\ comments' = Append(comments, [issue |-> at[m], by |-> m, age |-> 0,
                                     commit |-> commit[m], gone |-> FALSE])
    /\ \/ /\ mine' = [mine EXCEPT ![m] = Len(comments')] /\ Goto(m, "save")
          /\ UNCHANGED <<at, used>>
       \/ Spend("lost") /\ ToPing(m)
    /\ UNCHANGED <<issues, files, drawn, world, minted, sent>>

\* machine-report.json; a state folder that cannot be written raises.
Save(m) ==
    /\ pc[m] = "save"
    /\ IF writable[m]
       THEN /\ state' = [state EXCEPT ![m] = [issue |-> at[m], comment |-> mine[m]]]
            /\ Goto(m, "read")
            /\ UNCHANGED <<at, mine>>
       ELSE ToPing(m) /\ UNCHANGED state
    /\ UNCHANGED <<github, stamped, machines, id, drawn, world, minted, sent, used>>

\* read_machines
Readable(i) ==
    {c \in DOMAIN comments : /\ comments[c].issue = i
                             /\ ~comments[c].gone
                             /\ comments[c].age <= MaxAge}

Read(m) ==
    /\ pc[m] = "read"
    /\ machines' = IF writable[m] THEN [machines EXCEPT ![m] = Readable(at[m])]
                   ELSE machines
    /\ ToPing(m)
    /\ UNCHANGED <<github, stamped, state, id, drawn, world, minted, sent, used>>

\* Any gh call of report() fails: it gives up for the day.
Fail(m) ==
    /\ pc[m] \in {"find", "create", "close", "post", "read"}
    /\ Spend("error")
    /\ ToPing(m)
    /\ UNCHANGED <<github, files, drawn, world, minted, sent>>

-----------------------------------------------------------------------------
(* run_once() *)

\* The ping's day is stamped; install_id reads the id, or draws one ...
RunOnce(m) ==
    /\ pc[m] = "ping"
    /\ IF ~Due(m, "telemetry")
       THEN Exit(m) /\ UNCHANGED <<stamped, minted>>
       ELSE /\ Stamp(m, "telemetry")
            /\ minted' = IF id[m] # 0 THEN minted ELSE minted + 1
            /\ drawn' = [drawn EXCEPT ![m] = IF id[m] # 0 THEN id[m] ELSE minted']
            /\ Goto(m, IF id[m] # 0 THEN "send" ELSE "mint")
            /\ UNCHANGED <<at, mine>>
    /\ UNCHANGED <<github, state, machines, id, world, sent, used>>

\* ... and write it, if the folder lets it.
Mint(m) ==
    /\ pc[m] = "mint"
    /\ id' = IF writable[m] THEN [id EXCEPT ![m] = drawn[m]] ELSE id
    /\ Goto(m, "send")
    /\ UNCHANGED <<github, stamped, state, machines, at, mine, drawn, world,
                   minted, sent, used>>

\* send_ping: one attempt, whose failure nobody looks at.
Send(m) ==
    /\ pc[m] = "send"
    /\ \/ sent' = [sent EXCEPT ![m] = @ \cup {drawn[m]}] /\ UNCHANGED used
       \/ Spend("error") /\ UNCHANGED sent
    /\ Exit(m)
    /\ UNCHANGED <<github, files, world, minted>>

-----------------------------------------------------------------------------
(* The world around: a board rendered by hand, the clock, people, accidents. *)

RenderReads(m) ==
    /\ alive[m] /\ id[m] = 0 /\ ~rendering[m]
    /\ Spend("render")
    /\ rendering' = [rendering EXCEPT ![m] = TRUE]
    /\ UNCHANGED <<github, files, locals, commit, writable, alive, minted, sent>>

RenderMints(m) ==
    /\ rendering[m]
    /\ rendering' = [rendering EXCEPT ![m] = FALSE]
    /\ minted' = minted + 1
    /\ id' = IF writable[m] /\ alive[m] THEN [id EXCEPT ![m] = minted'] ELSE id
    /\ UNCHANGED <<github, stamped, state, machines, locals, commit, writable,
                   alive, sent, used>>

Reported(m) == pc[m] = "idle" /\ (writable[m] => "machines" \in stamped[m])

\* A machine that slept through the day, or works past midnight, is an event.
NextDay ==
    /\ IF \A m \in Machines : alive[m] => Reported(m) THEN UNCHANGED used
       ELSE Spend("asleep")
    /\ stamped' = [m \in Machines |-> {}]
    /\ comments' = [c \in DOMAIN comments |-> [comments[c] EXCEPT
                      !.age = IF @ > MaxAge THEN @ ELSE @ + 1]]
    /\ UNCHANGED <<issues, state, machines, id, locals, world, minted, sent>>

Crash(m) ==
    /\ pc[m] # "idle"
    /\ Spend("crash")
    /\ Exit(m)
    /\ UNCHANGED <<github, files, world, minted, sent>>

\* .adt/state is deleted.
Forgotten(m) ==
    /\ stamped' = [stamped EXCEPT ![m] = {}]
    /\ state' = [state EXCEPT ![m] = None]
    /\ machines' = [machines EXCEPT ![m] = {}]
    /\ id' = [id EXCEPT ![m] = 0]

Forget(m) ==
    /\ alive[m] /\ Spend("forget")
    /\ Forgotten(m)
    /\ UNCHANGED <<github, locals, world, minted, sent>>

\* Uninstalling stops the watcher first.
Leave(m) ==
    /\ alive[m] /\ Spend("leave")
    /\ alive' = [alive EXCEPT ![m] = FALSE]
    /\ Exit(m)
    /\ Forgotten(m)
    /\ UNCHANGED <<github, commit, rendering, writable, minted, sent>>

Upgrade(m) == \E v \in Versions \ {commit[m]} :
    /\ Spend("upgrade")
    /\ commit' = [commit EXCEPT ![m] = v]
    /\ UNCHANGED <<github, files, locals, rendering, writable, alive, minted, sent>>

DeleteComment == \E c \in DOMAIN comments :
    /\ ~comments[c].gone /\ Spend("delete")
    /\ comments' = [comments EXCEPT ![c].gone = TRUE]
    /\ UNCHANGED <<issues, files, locals, world, minted, sent>>

ReadOnly(m) ==
    /\ writable[m] /\ Spend("readonly")
    /\ writable' = [writable EXCEPT ![m] = FALSE]
    /\ UNCHANGED <<github, files, locals, commit, rendering, alive, minted, sent>>

Repair(m) ==
    /\ ~writable[m]
    /\ writable' = [writable EXCEPT ![m] = TRUE]
    /\ UNCHANGED <<github, files, locals, commit, rendering, alive, minted, sent,
                   used>>

Step(m) ==
    \/ Tick(m) \/ Find(m) \/ Create(m) \/ Close(m) \/ Update(m) \/ Post(m)
    \/ Save(m) \/ Read(m) \/ Fail(m)
    \/ RunOnce(m) \/ Mint(m) \/ Send(m)

Next ==
    \/ NextDay \/ DeleteComment
    \/ \E m \in Machines :
         \/ Step(m) \/ RenderReads(m) \/ RenderMints(m) \/ Crash(m) \/ Forget(m)
         \/ Leave(m) \/ Upgrade(m) \/ ReadOnly(m) \/ Repair(m)

Spec == Init /\ [][Next]_vars

\* launchd starts a process every minute, days pass, and whoever finds the
\* folder read-only repairs it.
FairSpec ==
    /\ Spec /\ WF_vars(NextDay)
    /\ \A m \in Machines : WF_vars(Step(m)) /\ WF_vars(Repair(m))

-----------------------------------------------------------------------------
TypeOK ==
    /\ issues \in Seq({"open", "closed"})
    /\ \A c \in DOMAIN comments :
         comments[c] \in [issue : DOMAIN issues, by : Machines, gone : BOOLEAN,
                          commit : Versions, age : 0..(MaxAge + 1)]
    /\ stamped \in [Machines -> SUBSET {"machines", "telemetry"}]
    /\ \A m \in Machines : state[m] # None =>
         state[m].issue \in DOMAIN issues /\ state[m].comment \in DOMAIN comments
    /\ id \in [Machines -> 0..minted]

\* On one Issue a machine has one comment, and one more at most for each answer
\* or call that was lost, each killed process, each state folder deleted or
\* read-only and each comment somebody deleted (report, machine-report.json).
DuplicatesAreAccidental ==
    \A i \in DOMAIN issues, m \in Machines :
        Cardinality({c \in DOMAIN comments : comments[c].issue = i /\ comments[c].by = m})
          <= 1 + used["error"] + used["lost"] + used["crash"] + used["forget"]
                 + used["delete"] + used["readonly"]

\* An install pings under one id, and under one more at most for each deleted or
\* read-only state folder and each board rendered while the id was drawn
\* (install_id, machine_id, due_today).
IdsAreAccidental ==
    \A m \in Machines :
        Cardinality(sent[m]) <= 1 + used["forget"] + used["readonly"] + used["render"]

\* However many machines created the Issue at once and whatever was lost, in
\* the end every board lists every installed machine once, at the commit it
\* runs, and no machine that was uninstalled (lowest_install_issue, MAX_AGE).
EveryMachineListed ==
    <>[](\A m \in Machines : alive[m] =>
           /\ \A n \in Machines :
                Cardinality({c \in machines[m] : comments[c].by = n})
                  = IF alive[n] THEN 1 ELSE 0
           /\ \A c \in machines[m] : comments[c].commit = commit[comments[c].by])
=============================================================================
