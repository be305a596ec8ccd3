----------------------------- MODULE TokenLedger -----------------------------
(* The token ledger of one machine.  Every session's turns end in a Stop, and  *)
(* defaults/hooks/adt-token-log.sh then bills what the session's transcript    *)
(* holds past its cursor, and sweeps the transcripts of sessions that died.    *)
(* adt-reattribute.sh rewrites the file meanwhile, and the board reads it.     *)
EXTENDS LedgerCost, SequencesExt

CONSTANTS
    Keeper,     \* a session that goes on having turns
    Carded,     \* tickets with a cache file
    Marked,     \* Marked[s]: the id session s was bound to, or None
    Building,   \* the only ticket in building/, or None
    Foreign,    \* registers of other machines a ticket may carry
    Top,        \* bound: messages in a transcript
    Budgets     \* bounds: how often events of each kind happen in one behaviour

Kinds == {"message", "kill", "crash", "late", "rewrite", "lose"}

ASSUME TokenLedgerAssumption ==
    /\ Keeper \in Sessions /\ Carded \subseteq Tickets /\ Top \in Nat
    /\ Marked \in [Sessions -> Id \cup {None}] /\ Building \in Tickets \cup {None}
    /\ \A regs \in Foreign : \A m \in DOMAIN regs :
          m \in Machines \ {Own} /\ regs[m] \in Register
    /\ Budgets \subseteq [Kinds -> Nat]

VARIABLES
    transcript, \* transcript[s]: the models of its assistant messages
    cursor,     \* cursor[s]: how many of them are billed
    newer,      \* newer[s]: the transcript was written after the cursor
    cold,       \* cold[s]: the transcript has not been written for a while
    recent,     \* recent[s]: the cursor has been
    alive,      \* alive[s]: the session's process runs
    ledger,     \* the rows of cost-ledger.log
    hook,       \* hook[s]: the hook process of s's Stop
    rewriting,  \* adt-reattribute.sh's copy of the ledger, None when idle
    regs,       \* regs[t]: register comments in t's cache file, per machine
    accidents,  \* history: hooks that died over a transcript or took up a held one
    used

vars == <<transcript, cursor, newer, cold, recent, alive, ledger, hook,
          rewriting, regs, accidents, used>>
session == <<transcript, cursor, newer, cold, recent, alive>>

Spend(k) == /\ used' = [used EXCEPT ![k] = @ + 1]
            /\ \E b \in Budgets : \A j \in Kinds : used'[j] <= b[j]

\* A hook works on a target; todo are the cold transcripts it has yet to look at.
Idle == [step |-> "idle", target |-> None, upto |-> 0, rows |-> <<>>, todo |-> {}]

Init ==
    /\ transcript = [s \in Sessions |-> <<>>]
    /\ cursor = [s \in Sessions |-> 0]
    /\ newer = [s \in Sessions |-> FALSE]
    /\ cold = [s \in Sessions |-> FALSE]
    /\ recent = [s \in Sessions |-> FALSE]
    /\ alive = [s \in Sessions |-> TRUE]
    /\ ledger = EmptyBag
    /\ hook = [s \in Sessions |-> Idle]
    /\ rewriting = None
    /\ regs \in [Carded -> Foreign]
    /\ accidents = [s \in Sessions |-> 0]
    /\ used = [k \in Kinds |-> 0]

-----------------------------------------------------------------------------
(* Sessions *)

Held(s) == \E h \in Sessions : hook[h].target = s

\* A turn waits for the session's own Stop hook.  Messages that land while a
\* sweep works on the transcript count as late ones.
Message(s) == \E m \in Models :
    /\ alive[s] /\ hook[s] = Idle /\ Len(transcript[s]) < Top
    /\ Spend(IF Held(s) THEN "late" ELSE "message")
    /\ transcript' = [transcript EXCEPT ![s] = Append(@, m)]
    /\ newer' = [newer EXCEPT ![s] = TRUE]
    /\ cold' = [cold EXCEPT ![s] = FALSE]
    /\ UNCHANGED <<cursor, recent, alive, ledger, hook, rewriting, regs, accidents>>

Kill(s) ==
    /\ alive[s] /\ s # Keeper /\ Spend("kill")
    /\ alive' = [alive EXCEPT ![s] = FALSE]
    /\ UNCHANGED <<transcript, cursor, newer, cold, recent, ledger, hook,
                   rewriting, regs, accidents>>

\* claude --resume: the same transcript goes on.
Resume(s) ==
    /\ ~alive[s] /\ Len(transcript[s]) < Top
    /\ alive' = [alive EXCEPT ![s] = TRUE]
    /\ UNCHANGED <<transcript, cursor, newer, cold, recent, ledger, hook,
                   rewriting, regs, accidents, used>>

\* ADT_SESSION_WINDOW_MIN minutes in which nothing happens.
HalfHour ==
    /\ \A h \in Sessions : hook[h] = Idle
    /\ cold' = [s \in Sessions |-> TRUE]
    /\ recent' = [s \in Sessions |-> FALSE]
    /\ UNCHANGED <<transcript, cursor, newer, alive, ledger, hook, rewriting,
                   regs, accidents, used>>

-----------------------------------------------------------------------------
(* adt-token-log.sh *)

Nobody == [tix |-> Unassigned, padded |-> FALSE]

\* The session's own marker; the shared lane only for the one active session.
TicketOf(s) ==
    IF Marked[s] # None THEN Marked[s]
    ELSE IF Building # None /\ \A o \in Sessions \ {s} : ~recent[o]
         THEN [tix |-> Building, padded |-> FALSE]
    ELSE Nobody

\* A swept transcript has its marker and nothing else.
TicketOfDead(s) == IF Marked[s] # None THEN Marked[s] ELSE Nobody

\* _sum_transcript: a row for every model past the cursor.
Unbilled(s) == {i \in DOMAIN transcript[s] : i > cursor[s]}

RowsFor(s, id) ==
    LET sum(m) == [id |-> id, sess |-> s, model |-> m,
                   n |-> Tokens[m] * Cardinality({i \in Unbilled(s) : transcript[s][i] = m})]
    IN  SetToSeq({sum(m) : m \in {transcript[s][i] : i \in Unbilled(s)}})

Takes(h, s, id, todo) ==
    /\ hook' = [hook EXCEPT ![h] = [step |-> "append", target |-> s, todo |-> todo,
                                    upto |-> Len(transcript[s]), rows |-> RowsFor(s, id)]]
    /\ accidents' = [accidents EXCEPT ![s] = IF Held(s) THEN @ + 1 ELSE @]

\* A turn ends: the ticket is resolved and the own transcript summed.  When it
\* holds nothing new the sweep follows at once.
Stop(s) ==
    /\ alive[s] /\ hook[s] = Idle
    /\ IF Unbilled(s) # {} THEN Takes(s, s, TicketOf(s), {})
       ELSE hook' = [hook EXCEPT ![s].step = "find"] /\ UNCHANGED accidents
    /\ UNCHANGED <<session, ledger, rewriting, regs, used>>

WithRow(bag, row) == bag (+) SetToBag({row})

\* _append_and_advance: the rows one by one ...
AppendRow(h) ==
    /\ hook[h].step = "append" /\ hook[h].rows # <<>>
    /\ ledger' = WithRow(ledger, Head(hook[h].rows))
    /\ hook' = [hook EXCEPT ![h].rows = Tail(@)]
    /\ UNCHANGED <<session, rewriting, regs, accidents, used>>

\* A bug: the cursor that advances is the one of the session whose Stop it is.
AdvanceOwn(h) ==
    /\ hook[h].step = "append" /\ hook[h].rows = <<>>
    /\ cursor' = [cursor EXCEPT ![h] = hook[h].upto]
    /\ newer' = [newer EXCEPT ![h] = FALSE]
    /\ recent' = [recent EXCEPT ![h] = TRUE]
    /\ hook' = [hook EXCEPT ![h] = [Idle EXCEPT
                  !.step = IF hook[h].target = h THEN "find" ELSE "sweep",
                  !.todo = hook[h].todo]]
    /\ UNCHANGED <<transcript, cold, alive, ledger, rewriting, regs, accidents, used>>

\* ... and then the cursor.  A transcript that was swept is done with.
Advance(h) ==
    LET s == hook[h].target
    IN  /\ hook[h].step = "append" /\ hook[h].rows = <<>>
        /\ cursor' = [cursor EXCEPT ![s] = hook[h].upto]
        /\ newer' = [newer EXCEPT ![s] = FALSE]
        /\ recent' = [recent EXCEPT ![s] = TRUE]
        /\ hook' = [hook EXCEPT ![h] = [Idle EXCEPT
                      !.step = IF s = h THEN "find" ELSE "sweep", !.todo = hook[h].todo]]
        /\ UNCHANGED <<transcript, cold, alive, ledger, rewriting, regs, accidents, used>>

\* A bug: a session without a cursor yet is not looked at.
FindKnown(h) ==
    /\ hook[h].step = "find"
    /\ hook' = [hook EXCEPT ![h].step = "sweep",
                    ![h].todo = {s \in Sessions \ {h} : cold[s] /\ cursor[s] > 0}]
    /\ UNCHANGED <<session, ledger, rewriting, regs, accidents, used>>

\* The sweep lists the transcripts that are cold ...
Find(h) ==
    /\ hook[h].step = "find"
    /\ hook' = [hook EXCEPT ![h].step = "sweep",
                            ![h].todo = {s \in Sessions \ {h} : cold[s]}]
    /\ UNCHANGED <<session, ledger, rewriting, regs, accidents, used>>

\* ... and bills each that was written after its cursor.
Sweep(h) == \E s \in hook[h].todo :
    LET rest == hook[h].todo \ {s}
    IN  /\ hook[h].step = "sweep"
        /\ IF newer[s] THEN Takes(h, s, TicketOfDead(s), rest)
           ELSE hook' = [hook EXCEPT ![h].todo = rest] /\ UNCHANGED accidents
        /\ UNCHANGED <<session, ledger, rewriting, regs, used>>

Finish(h) ==
    /\ hook[h].step = "sweep" /\ hook[h].todo = {}
    /\ hook' = [hook EXCEPT ![h] = Idle]
    /\ UNCHANGED <<session, ledger, rewriting, regs, accidents, used>>

Crash(h) ==
    /\ hook[h] # Idle /\ Spend("crash")
    /\ hook' = [hook EXCEPT ![h] = Idle]
    /\ accidents' = [s \in Sessions |-> IF s = hook[h].target THEN accidents[s] + 1
                                       ELSE accidents[s]]
    /\ UNCHANGED <<session, ledger, rewriting, regs>>

-----------------------------------------------------------------------------
(* adt-reattribute.sh, the register, an accident *)

Rekeyed(row, id) == IF row.id = Nobody THEN [row EXCEPT !.id = id] ELSE row

\* Rows that become alike are one row as often as they were.
Reattributed(bag, id) ==
    [new \in {Rekeyed(row, id) : row \in DOMAIN bag} |->
        SumFunction([row \in {old \in DOMAIN bag : Rekeyed(old, id) = new} |-> bag[row]])]

\* awk writes a copy of the ledger ...
Rewrite == \E id \in {i \in Id : i.tix \in Tickets} :
    /\ rewriting = None /\ Spend("rewrite")
    /\ \E row \in DOMAIN ledger : row.id = Nobody
    /\ rewriting' = Reattributed(ledger, id)
    /\ UNCHANGED <<session, ledger, hook, regs, accidents>>

\* ... and mv puts it in the place of whatever the ledger is by then.
Replace ==
    /\ rewriting # None
    /\ ledger' = rewriting /\ rewriting' = None
    /\ UNCHANGED <<session, hook, regs, accidents, used>>

\* checkpoint_tokens posts the machine's sum, when it has grown.
Checkpoint(t) ==
    LET rows == RowsOf(ledger, t)
        sum == PriceLedger(ledger, rows)
    IN  /\ rows # {}
        /\ Own \in DOMAIN regs[t] => regs[t][Own].tokens < sum.tokens
        /\ regs' = [regs EXCEPT ![t] = [m \in DOMAIN @ \cup {Own} |->
                                          IF m = Own THEN sum ELSE @[m]]]
        /\ UNCHANGED <<session, ledger, hook, rewriting, accidents, used>>

Lose ==
    /\ Spend("lose")
    /\ ledger' = EmptyBag
    /\ UNCHANGED <<session, hook, rewriting, regs, accidents>>

-----------------------------------------------------------------------------
HookStep(h) == AppendRow(h) \/ Advance(h) \/ Find(h) \/ Sweep(h) \/ Finish(h)

Next ==
    \/ HalfHour \/ Rewrite \/ Replace \/ Lose
    \/ \E t \in Carded : Checkpoint(t)
    \/ \E s \in Sessions : Message(s) \/ Kill(s) \/ Resume(s) \/ Stop(s)
                             \/ HookStep(s) \/ Crash(s)

Spec == Init /\ [][Next]_vars

\* A hook runs to its end, a live session's turn ends, and the keeper goes on
\* having turns after others have been silent for long.
FairSpec ==
    /\ Spec /\ WF_vars(Replace)
    /\ \A s \in Sessions : WF_vars(HookStep(s)) /\ WF_vars(Stop(s))
    /\ SF_vars(HalfHour)
    /\ SF_vars(Stop(Keeper) /\ \A s \in Sessions \ {Keeper} : cold[s])

-----------------------------------------------------------------------------
(* Properties *)

TypeOK ==
    /\ transcript \in [Sessions -> Seq(Models)]
    /\ cursor \in [Sessions -> 0..Top]
    /\ \A v \in {newer, cold, recent, alive} : v \in [Sessions -> BOOLEAN]
    /\ DOMAIN ledger \subseteq Row /\ IsABag(ledger)
    /\ \A h \in Sessions :
        /\ hook[h].step \in {"idle", "append", "find", "sweep"}
        /\ hook[h].target \in Sessions \cup {None}
        /\ hook[h].target # None <=> hook[h].step = "append"
    /\ \A t \in Carded : \A m \in DOMAIN regs[t] : m \in Machines /\ regs[t][m] \in Register
    /\ accidents \in [Sessions -> Nat] /\ used \in [Kinds -> Nat]

Used(s) == SumFunction([i \in DOMAIN transcript[s] |-> Tokens[transcript[s][i]]])
BilledBy(bag, s) == SumFunction([row \in {r \in DOMAIN bag : r.sess = s} |->
                                   row.n * bag[row]])
Billed(s) == BilledBy(ledger, s)

\* "Repeated or interrupted Stops therefore never bill a message twice", says
\* the hook's header.  They do when a hook dies between the rows and the cursor
\* or two hooks hold one transcript: each such accident bills a message once
\* more at most, and nothing else does.
DoubleBillingIsAccidental ==
    \A s \in Sessions : Billed(s) <= Used(s) * (1 + accidents[s])

\* What a session used is billed in the end, though it was killed without a
\* Stop and though hooks die: the sweep of a session that goes on sees to it.
\* It takes that nobody writes to a transcript while a hook works on it, and
\* that the ledger is neither rewritten nor lost.
EveryTurnBilled ==
    [](used["late"] + used["rewrite"] + used["lose"] = 0)
        => <>[](\A s \in Sessions : Billed(s) >= Used(s))

\* The reference: rows and registers one by one, in no module's terms.
Spent(t) == SumFunction([row \in {r \in DOMAIN ledger : r.id.tix = t} |->
                           row.n * ledger[row]])
Elsewhere(t) == SumFunction([m \in DOMAIN regs[t] \ {Own} |-> regs[t][m].tokens])
RegisterIsBehind(t) == Own \in DOMAIN regs[t] => regs[t][Own].tokens <= Spent(t)

\* A card shows this machine's rows, in either spelling, plus what the other
\* machines registered, each once; the rows no card shows are off the board;
\* and a cost is called measured only if each of its parts was.  A ledger that
\* lost rows is behind its register and out of this promise.
CardsCarryTheirRows ==
    /\ \A t \in Carded : RegisterIsBehind(t) =>
        LET card == Card(ledger, t, regs[t])
        IN  /\ OrZero(card.tokens) = Spent(t) + Elsewhere(t)
            /\ card.tier = "measured" =>
                /\ \A row \in DOMAIN ledger :
                        row.id.tix = t /\ row.n > 0 => row.model \in DOMAIN Rates
                /\ \A m \in DOMAIN regs[t] \ {Own} :
                        regs[t][m].micros # None => regs[t][m].tier = "measured"
    /\ OffBoard(ledger, Carded).tokens
         = SumFunction([t \in (Tickets \cup {Unassigned}) \ Carded |-> Spent(t)])
=============================================================================
