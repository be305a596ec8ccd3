----------------------------- MODULE BoardIndex -----------------------------
(***************************************************************************)
(* The Projects board, one card per Issue, and the two caches a machine's  *)
(* pass writes it through (tools/adt_sync.py): the board's field ids       *)
(* (project_ctx) and the card of each Issue (board_index).  Both are kept  *)
(* in the sidecar because every tick is a fresh process; neither is ever   *)
(* compared with the board unless a write fails.                           *)
(*                                                                         *)
(* AdtSync has the pass that calls ensure_on_board.  Here that pass is     *)
(* reduced to what the caches depend on: which tickets it pushes, that it  *)
(* sets their label before it writes their card, and that its pull moves   *)
(* files without a word to the board.                                      *)
(***************************************************************************)
EXTENDS Naturals, FiniteSets

CONSTANTS
    Machines,   \* installs of the project, each with a sidecar
    Tickets,    \* tickets, each with its Issue
    Lanes,      \* lanes, which are also the columns of the board
    None,       \* no card, no column, nothing cached
    Starts,     \* [home, bare, running, used] the board starts as
    Limit       \* Limit[k]: how often an event of kind k happens at most

\* "blank": a call of gh succeeds and answers nothing.
Kinds == {"move", "admin", "error", "blank", "quota", "crash"}

ASSUME BoardIndexAssumption ==
    /\ None \notin Lanes
    /\ Limit \in [Kinds -> Nat]
    /\ \A s \in Starts : /\ s.home \in [Tickets -> Lanes] /\ s.bare \in BOOLEAN
                         /\ s.running \subseteq Machines /\ s.used \in [Kinds -> Nat]

Card == [item : Nat, status : Lanes \cup {None}]
Index == [Tickets -> Card \cup {None}]

\* The board's Status field and the columns it has.
Field == [id : Nat, columns : SUBSET Lanes]

\* What _project_ctx knows of the board; project: it has the project's id.
Context == [project : BOOLEAN, id : Nat, columns : SUBSET Lanes]

ASSUME CardAssumption == None \notin Card \cup Nat \cup Index \cup Context

VARIABLES
    lane,    \* lane[m][t]: where t's file lies in the cache of m
    known,   \* known[m][t]: the lane m's sidecar has as pushed, or None
    label,   \* label[t]: the Issue's stage label
    card,    \* card[t]: its card on the board, or None
    field,   \* the board's Status field
    index,   \* index[m][t]: board_index in the sidecar: the card of t, or None
    ctx,     \* ctx[m]: project_ctx in the sidecar: a context, or None
    pc,      \* pc[m]: where m's pass is; "off": m runs none
    todo,    \* todo[m]: the changed tickets still to push
    at,      \* at[m]: the ticket being pushed
    item,    \* item[m]: the card about to be written
    new,     \* new[m]: what the pass will save as known
    mine,    \* mine[m]: _BOARD_INDEX of the process: an index, or None
    held,    \* held[m]: _PROJECT_CTX of the process: a context, or None
    knows,   \* history: knows[t]: the machines that wrote the column of t's card last
             \* or have read it since, in so far as their caches were saved
    adrift,  \* history: the tickets whose last push left the card where it was, was
             \* overtaken by another machine's, or cut short
    used     \* used[k]: how many events of kind k happened

board == <<label, card, field>>
saved == <<known, index, ctx>>
proc  == <<pc, todo, at, item, new, mine, held>>
seen  == <<knows, adrift>>
vars  == <<lane, board, saved, proc, seen, used>>

TypeOK ==
    /\ lane \in [Machines -> [Tickets -> Lanes]]
    /\ known \in [Machines -> [Tickets -> Lanes \cup {None}]]
    /\ label \in [Tickets -> Lanes]
    /\ card \in Index
    /\ field \in Field
    /\ index \in [Machines -> Index]
    /\ ctx \in [Machines -> Context \cup {None}]
    /\ pc \in [Machines -> {"off", "idle", "push", "context", "index", "card", "status"}]
    /\ todo \in [Machines -> SUBSET Tickets]
    /\ at \in [Machines -> Tickets \cup {None}]
    /\ item \in [Machines -> Nat \cup {None}]
    /\ new \in [Machines -> [Tickets -> Lanes \cup {None}]]
    /\ mine \in [Machines -> Index \cup {None}]
    /\ held \in [Machines -> Context \cup {None}]
    /\ knows \in [Tickets -> SUBSET Machines]
    /\ adrift \subseteq Tickets
    /\ used \in [Kinds -> Nat]

NoCards == [t \in Tickets |-> None]

\* Every machine has pulled every ticket.  The board is as the bootstrap left
\* it, empty, or as an earlier converged pass did.
Init ==
    /\ \E s \in Starts :
         /\ lane = [m \in Machines |-> s.home]
         /\ label = s.home
         /\ card = IF s.bare THEN NoCards
                   ELSE [t \in Tickets |-> [item |-> 0, status |-> s.home[t]]]
         /\ pc = [m \in Machines |-> IF m \in s.running THEN "idle" ELSE "off"]
         /\ used = s.used
    /\ known = lane
    /\ field = [id |-> 0, columns |-> Lanes]
    /\ index = [m \in Machines |-> card]
    /\ ctx = [m \in Machines |-> None]
    /\ todo = [m \in Machines |-> {}]
    /\ at = [m \in Machines |-> None]
    /\ item = [m \in Machines |-> None]
    /\ new = [m \in Machines |-> NoCards]
    /\ mine = [m \in Machines |-> None]
    /\ held = [m \in Machines |-> None]
    /\ knows = [t \in Tickets |-> Machines]
    /\ adrift = {}

Spend(k) == /\ used[k] < Limit[k]
            /\ used' = [used EXCEPT ![k] = @ + 1]

\* The process of m's pass is gone, and its caches with it.
Exit(m) ==
    /\ pc' = [pc EXCEPT ![m] = "idle"]
    /\ todo' = [todo EXCEPT ![m] = {}]
    /\ at' = [at EXCEPT ![m] = None]
    /\ item' = [item EXCEPT ![m] = None]
    /\ new' = [new EXCEPT ![m] = NoCards]
    /\ mine' = [mine EXCEPT ![m] = None]
    /\ held' = [held EXCEPT ![m] = None]

-----------------------------------------------------------------------------
(* Sessions, board administration and time. *)

Move(m, t, l) ==
    /\ pc[m] = "idle" /\ lane[m][t] # l
    /\ Spend("move")
    /\ lane' = [lane EXCEPT ![m][t] = l]
    /\ UNCHANGED <<board, saved, proc, seen>>

\* A human takes a card off the board; a card added later gets a new id.
RemoveCard(t) ==
    /\ card[t] # None
    /\ Spend("admin")
    /\ card' = [card EXCEPT ![t] = None]
    /\ knows' = [knows EXCEPT ![t] = {}]
    /\ UNCHANGED <<lane, label, field, saved, proc, adrift>>

\* The cards in the columns that are gone have none.
LoseColumns(gone) ==
    card' = [t \in Tickets |-> IF card[t] # None /\ card[t].status \in gone
                               THEN [card[t] EXCEPT !.status = None] ELSE card[t]]

\* The Status field is deleted and created anew, with some of the columns: ids that
\* were read before are wrong, and every card loses its column.
RecreateField(columns) ==
    /\ Spend("admin")
    /\ field' = [id |-> field.id + 1, columns |-> columns]
    /\ LoseColumns(Lanes)
    /\ UNCHANGED <<lane, label, saved, proc, seen>>

\* One column is deleted.
RemoveColumn(l) ==
    /\ l \in field.columns
    /\ Spend("admin")
    /\ field' = [field EXCEPT !.columns = @ \ {l}]
    /\ LoseColumns({l})
    /\ UNCHANGED <<lane, label, saved, proc, seen>>

\* PROJECT_CTX_TTL passes: the next process will not trust what is saved.
Expire(m) ==
    /\ ctx[m] # None
    /\ ctx' = [ctx EXCEPT ![m] = None]
    /\ UNCHANGED <<lane, board, known, index, proc, seen, used>>

\* The process is killed: the sidecar hears nothing of what it did to the board.
Crash(m) ==
    /\ pc[m] \notin {"off", "idle"}
    /\ Spend("crash")
    /\ Exit(m)
    /\ knows' = [t \in Tickets |-> IF mine[m] # None /\ mine[m][t] # index[m][t]
                                   THEN knows[t] \ {m} ELSE knows[t]]
    /\ adrift' = adrift \cup {t \in Tickets : t = at[m] \/ new[m][t] # known[m][t]}
    /\ UNCHANGED <<lane, board, saved>>

-----------------------------------------------------------------------------
(* The pass of machine m. *)

Start(m) ==
    /\ pc[m] = "idle"
    /\ todo' = [todo EXCEPT ![m] = {t \in Tickets : lane[m][t] # known[m][t]}]
    /\ new' = [new EXCEPT ![m] = known[m]]
    /\ pc' = [pc EXCEPT ![m] = "push"]
    /\ UNCHANGED <<lane, board, saved, at, item, mine, held, seen, used>>

\* reconcile_one writes the Issue, then calls ensure_on_board.
Push(m, t) ==
    /\ pc[m] = "push" /\ t \in todo[m]
    /\ label' = [label EXCEPT ![t] = lane[m][t]]
    /\ at' = [at EXCEPT ![m] = t]
    /\ pc' = [pc EXCEPT ![m] = "context"]
    /\ UNCHANGED <<lane, card, field, saved, todo, item, new, mine, held, seen, used>>

\* The pass leaves at[m] and goes on; hash is what it will save of it.
Leave(m, hash) ==
    /\ new' = [new EXCEPT ![m][at[m]] = hash]
    /\ todo' = [todo EXCEPT ![m] = @ \ {at[m]}]
    /\ at' = [at EXCEPT ![m] = None]
    /\ item' = [item EXCEPT ![m] = None]
    /\ pc' = [pc EXCEPT ![m] = "push"]

\* at[m] counts as pushed.  landed: its card is in its lane for all m can know.
Done(m, landed) ==
    LET t == at[m] IN
    /\ Leave(m, lane[m][t])
    /\ adrift' = IF landed /\ label[t] = lane[m][t] THEN adrift \ {t}
                                                    ELSE adrift \cup {t}

\* The columns for which the process has an option.
Columns(m) == held[m].columns

\* What the process or else the sidecar has; None: GitHub has to be asked.
Cached(m) == IF held[m] # None THEN held[m]
             ELSE IF ctx[m] # None /\ ctx[m].project THEN ctx[m] ELSE None

Indexed(m) == IF mine[m] # None THEN mine[m]
              ELSE IF index[m] # NoCards THEN index[m] ELSE None

Fetched == [project |-> TRUE, id |-> field.id, columns |-> field.columns]

\* The call for the project, or the one for its fields, answered nothing.
Blanks == {[project |-> FALSE, id |-> field.id, columns |-> field.columns],
           [project |-> TRUE, id |-> field.id, columns |-> {}]}

\* _project_ctx: the context of the process, else the sidecar's, else the board.
FindContext(m) ==
    /\ pc[m] = "context" /\ (held[m] # None => held[m].project)
    /\ \/ /\ held' = [held EXCEPT ![m] = IF Cached(m) # None THEN Cached(m) ELSE Fetched]
          /\ UNCHANGED used
       \/ /\ Cached(m) = None /\ Spend("blank")
          /\ \E c \in Blanks : held' = [held EXCEPT ![m] = c]
    /\ pc' = [pc EXCEPT ![m] = IF held'[m].project THEN "index" ELSE @]
    /\ UNCHANGED <<lane, board, saved, todo, at, item, new, mine, seen>>

\* ensure_on_board without a project: nothing is done, now and for the rest of the
\* process.
NoProject(m) ==
    /\ pc[m] = "context" /\ held[m] # None /\ ~held[m].project
    /\ Done(m, FALSE)
    /\ UNCHANGED <<lane, board, saved, mine, held, knows, used>>

\* _board_index: the index of the process, else the sidecar's, else a walk over the
\* board, which may come back with nothing.
FindIndex(m) ==
    /\ pc[m] = "index"
    /\ \/ /\ Indexed(m) # None
          /\ mine' = [mine EXCEPT ![m] = Indexed(m)]
          /\ UNCHANGED <<knows, used>>
       \/ /\ Indexed(m) = None
          /\ mine' = [mine EXCEPT ![m] = card]
          /\ knows' = [t \in Tickets |-> knows[t] \cup {m}]
          /\ UNCHANGED used
       \/ /\ Indexed(m) = None /\ Spend("blank")
          /\ mine' = [mine EXCEPT ![m] = NoCards]
          /\ UNCHANGED knows
    /\ pc' = [pc EXCEPT ![m] = "card"]
    /\ UNCHANGED <<lane, board, saved, todo, at, item, new, held, adrift>>

\* The card once it was added: adding one that is there returns it as it is.
Added(t) == IF card[t] = None THEN [item |-> used["admin"], status |-> None] ELSE card[t]

\* _board_write: an Issue without an index entry is added to the board.
AddCard(m) ==
    /\ pc[m] = "card" /\ mine[m][at[m]] = None
    /\ card' = [card EXCEPT ![at[m]] = Added(at[m])]
    /\ item' = [item EXCEPT ![m] = Added(at[m]).item]
    /\ pc' = [pc EXCEPT ![m] = "status"]
    /\ UNCHANGED <<lane, label, field, saved, todo, at, new, mine, held, seen, used>>

\* The answer has no id of a card, which may be there or not: the push is over.
AddUnheard(m) ==
    /\ pc[m] = "card" /\ mine[m][at[m]] = None
    /\ Spend("blank")
    /\ card' \in {card, [card EXCEPT ![at[m]] = Added(at[m])]}
    /\ Done(m, FALSE)
    /\ UNCHANGED <<lane, label, field, saved, mine, held, knows>>

\* The entry has another column ...
FindCard(m) ==
    /\ pc[m] = "card" /\ mine[m][at[m]] # None
    /\ mine[m][at[m]].status # lane[m][at[m]]
    /\ item' = [item EXCEPT ![m] = mine[m][at[m]].item]
    /\ pc' = [pc EXCEPT ![m] = "status"]
    /\ UNCHANGED <<lane, board, saved, todo, at, new, mine, held, seen, used>>

\* ... or has this one already: nothing is written.
SkipCard(m) ==
    /\ pc[m] = "card" /\ mine[m][at[m]] # None
    /\ mine[m][at[m]].status = lane[m][at[m]]
    /\ Done(m, m \in knows[at[m]])
    /\ UNCHANGED <<lane, board, saved, mine, held, knows, used>>

\* GitHub knows the card, the field and the column that the write names.
Accepted(m) ==
    /\ held[m].id = field.id /\ lane[m][at[m]] \in field.columns
    /\ card[at[m]] # None /\ card[at[m]].item = item[m]

\* What the pass takes the card for, once its column is set.
Placed(m) == [item |-> item[m], status |-> lane[m][at[m]]]

\* A bug: the column is written and the index entry keeps the old one.
SetStatusOnly(m) ==
    /\ pc[m] = "status" /\ lane[m][at[m]] \in Columns(m) /\ Accepted(m)
    /\ card' = [card EXCEPT ![at[m]] = Placed(m)]
    /\ mine' = [mine EXCEPT ![m][at[m]] = IF @ = None THEN Placed(m) ELSE @]
    /\ knows' = [knows EXCEPT ![at[m]] = {m}]
    /\ Done(m, TRUE)
    /\ UNCHANGED <<lane, label, field, saved, held, used>>

\* _set_status: the card's column is written and the entry follows.
SetStatus(m) ==
    /\ pc[m] = "status" /\ lane[m][at[m]] \in Columns(m) /\ Accepted(m)
    /\ card' = [card EXCEPT ![at[m]] = Placed(m)]
    /\ mine' = [mine EXCEPT ![m][at[m]] = Placed(m)]
    /\ knows' = [knows EXCEPT ![at[m]] = {m}]
    /\ Done(m, TRUE)
    /\ UNCHANGED <<lane, label, field, saved, held, used>>

\* The lane has no option: nothing is written and the entry follows all the same.
SetNothing(m) ==
    /\ pc[m] = "status" /\ lane[m][at[m]] \notin Columns(m)
    /\ mine' = [mine EXCEPT ![m][at[m]] = Placed(m)]
    /\ knows' = [knows EXCEPT ![at[m]] = @ \ {m}]
    /\ Done(m, FALSE)
    /\ UNCHANGED <<lane, board, saved, held, used>>

\* A bug: only the field ids are dropped.
InvalidateCtxOnly(m) ==
    /\ held' = [held EXCEPT ![m] = None]
    /\ ctx' = [ctx EXCEPT ![m] = None]
    /\ UNCHANGED <<mine, index>>

\* _invalidate_board_caches: both caches, in the process and in the sidecar,
\* but of the index only the entry of this Issue.
Invalidate(m) ==
    /\ held' = [held EXCEPT ![m] = None]
    /\ ctx' = [ctx EXCEPT ![m] = None]
    /\ mine' = [mine EXCEPT ![m][at[m]] = None]
    /\ index' = [index EXCEPT ![m][at[m]] = None]

\* Whether the next step asks for the board, or writes to it.
Reads(m) == \/ pc[m] = "context" /\ Cached(m) = None
            \/ pc[m] = "index" /\ Indexed(m) = None

Writes(m) == \/ pc[m] = "card" /\ mine[m][at[m]] = None
             \/ pc[m] = "status" /\ lane[m][at[m]] \in Columns(m)

\* The write fails, because of what it names or by accident: the ticket's hash
\* is forgotten and the pass goes on.
WriteFails(m) ==
    /\ Writes(m)
    /\ \/ pc[m] = "status" /\ ~Accepted(m) /\ UNCHANGED used
       \/ Spend("error")
    /\ Invalidate(m)
    /\ Leave(m, None)
    /\ UNCHANGED <<lane, board, known, seen>>

\* The board cannot be read: the hash is forgotten, the caches are kept.
ReadFails(m) ==
    /\ Reads(m)
    /\ Spend("error")
    /\ Leave(m, None)
    /\ UNCHANGED <<lane, board, saved, mine, held, seen>>

\* A bug: an index that the sidecar already has is kept, not replaced.
SaveKeepsIndex(m, hashes) ==
    /\ known' = [known EXCEPT ![m] = hashes]
    /\ index' = [index EXCEPT ![m] = IF mine[m] = None \/ @ # NoCards
                                     THEN @ ELSE mine[m]]
    /\ ctx' = [ctx EXCEPT ![m] = IF held[m] = None THEN @ ELSE held[m]]

\* _persist_state: a cache the process never filled leaves the sidecar's alone.
Save(m, hashes) ==
    /\ known' = [known EXCEPT ![m] = hashes]
    /\ index' = [index EXCEPT ![m] = IF mine[m] \in {None, NoCards}
                                     THEN @ ELSE mine[m]]
    /\ ctx' = [ctx EXCEPT ![m] = IF held[m] = None THEN @ ELSE held[m]]

\* The exhausted quota stops the pass; what it did is saved, nothing is dropped.
RateLimited(m) ==
    /\ Reads(m) \/ Writes(m)
    /\ Spend("quota")
    /\ Save(m, new[m])
    /\ Exit(m)
    /\ adrift' = adrift \cup {at[m]}
    /\ UNCHANGED <<lane, board, knows>>

\* The pull moves every file without local work to the lane its Issue names,
\* the sidecar is written and the process ends.  The board is not touched.
Finish(m) ==
    /\ pc[m] = "push" /\ todo[m] = {}
    /\ LET home == [t \in Tickets |-> IF new[m][t] = lane[m][t]
                                      THEN label[t] ELSE lane[m][t]]
       IN /\ lane' = [lane EXCEPT ![m] = home]
          /\ Save(m, [t \in Tickets |-> IF new[m][t] = lane[m][t]
                                        THEN home[t] ELSE new[m][t]])
    /\ Exit(m)
    /\ UNCHANGED <<board, seen, used>>

-----------------------------------------------------------------------------
Step(m) ==
    \/ Start(m) \/ FindContext(m) \/ NoProject(m) \/ FindIndex(m)
    \/ AddCard(m) \/ AddUnheard(m) \/ FindCard(m) \/ SkipCard(m)
    \/ SetStatus(m) \/ SetNothing(m) \/ WriteFails(m) \/ ReadFails(m) \/ Finish(m)
    \/ \E t \in Tickets : Push(m, t)

Admin == \/ \E columns \in SUBSET Lanes : RecreateField(columns)
         \/ \E l \in Lanes : RemoveColumn(l)
         \/ \E t \in Tickets : RemoveCard(t)

Next ==
    \/ Admin
    \/ \E m \in Machines :
         \/ Step(m) \/ Crash(m) \/ RateLimited(m) \/ Expire(m)
         \/ \E t \in Tickets, l \in Lanes : Move(m, t, l)

Spec == Init /\ [][Next]_vars

\* The timer runs a pass on every machine again and again.  That an hour ever
\* passes between two of them is not assumed.
FairSpec == Spec /\ \A m \in Machines : WF_vars(Step(m))

-----------------------------------------------------------------------------
\* What a machine wrote to a card last, or has read of it since, its caches hold: a
\* push that leaves such a card alone because its entry already has the lane finds it
\* there, or finds no column at all after that was deleted (_board_write).  The caches
\* of the others are worth nothing: of a machine that another one has overtaken, that
\* was killed before it saved, or that took a lane without a column for written.
KnownCardsAreRight ==
    [][\A m \in Machines :
         LET t == at[m]
         IN SkipCard(m) /\ m \in knows[t]
              => card[t] # None /\ card[t].status \in {None, lane[m][t]}]_vars

\* No ticket is stuck: whichever cached id went stale, the pass that fails over
\* it drops it, and a later one gets through (_invalidate_board_caches).
WritesLand == <>[](\A m \in Machines : known[m] = lane[m])

\* In the end no card is left in a column that is not its ticket's lane, unless the
\* last push of the ticket left it there silently, or crossed another machine's, or
\* was cut short after it set the label: the hash that is then still saved hides a
\* move back, which the next pull undoes without touching the card.
NoCardMisleads ==
    <>[](\A t \in Tickets \ adrift :
           card[t] # None => card[t].status \in {None, label[t]})
=============================================================================
