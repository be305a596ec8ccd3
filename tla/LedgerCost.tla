----------------------------- MODULE LedgerCost ------------------------------
(* How the board reads the token ledger, as operators: tools/adt_cost.py       *)
(* prices its rows, and Item and _offboard_spend of tools/build_kanban.py turn *)
(* rows and register comments into the numbers on the cards.  A ledger is a    *)
(* bag of rows: no reader looks at their order.                                *)
EXTENDS Integers, FiniteSets, Functions, Bags

CONSTANTS
    Tickets,
    Sessions,
    Unassigned, \* __unassigned__
    Models,     \* what a transcript's messages name as their model
    Rates,      \* micros for a token of each model the price table knows
    Tokens,     \* tokens of a message of each model: a marker's has none
    Ratio,      \* the estimator's micros for a token, None without estimator
    Machines, Own,
    None

ASSUME LedgerCostAssumption ==
    /\ Own \in Machines /\ Unassigned \notin Tickets
    /\ None \notin Models \cup Tickets \cup Sessions \cup Nat
    /\ IsFiniteSet(Tickets) /\ IsFiniteSet(Sessions) /\ IsFiniteSet(Machines)
    /\ DOMAIN Rates \subseteq Models /\ Rates \in [DOMAIN Rates -> Nat]
    /\ Ratio \in Nat \cup {None} /\ Tokens \in [Models -> Nat]

\* An id as it was written: ADT-58, or padded as ADT-058.
Id == [tix : Tickets \cup {Unassigned}, padded : BOOLEAN]

\* A row older than the model column has no model.
Row == [id : Id, sess : Sessions, n : Nat, model : Models \cup {None}]

\* A register comment: what its machine has spent on the ticket.
Register == [tokens : Nat, micros : Nat \cup {None},
             tier : {"measured", "estimated", "legacy"}]

\* A bug: ids are compared as they are spelled.
CanonExact(id) == id

\* canon_tix
Canon(id) == id.tix

RowsOf(ledger, t) ==
    {row \in DOMAIN ledger : Canon(row.id) = Canon([tix |-> t, padded |-> FALSE])}

-----------------------------------------------------------------------------
(* adt_cost.py *)

Rank == [measured |-> 0, estimated |-> 1, legacy |-> 2]

Worst(tiers) == CHOOSE t \in tiers : \A u \in tiers : Rank[u] <= Rank[t]

\* rates_for of a row that was measured
Priced(row) == row.model \in DOMAIN Rates

\* price_row: without a price and without an estimator it is worth None, not 0.
Micros(row) == IF Priced(row) THEN row.n * Rates[row.model]
               ELSE IF Ratio = None THEN None ELSE row.n * Ratio

Tier(row) == IF Priced(row) THEN "measured"
             ELSE IF row.model = None THEN "legacy" ELSE "estimated"

\* price_ledger; a row of no tokens has no say in the tier.
PriceLedger(ledger, rows) ==
    LET worth == {row \in rows : Micros(row) # None}
    IN  [tokens |-> SumFunction([row \in rows |-> row.n * ledger[row]]),
         micros |-> IF worth = {} THEN None
                    ELSE SumFunction([row \in worth |-> Micros(row) * ledger[row]]),
         tier |-> Worst({"measured"} \cup {Tier(row) : row \in {r \in rows : r.n > 0}})]

-----------------------------------------------------------------------------
(* build_kanban.py *)

OrZero(n) == IF n = None THEN 0 ELSE n
Larger(m, n) == IF m < n THEN n ELSE m

\* Item: this machine's register and the ledger are one spend, the others add.
Fold(field, local, regs) ==
    LET own == IF Own \in DOMAIN regs THEN OrZero(regs[Own][field]) ELSE 0
    IN  Larger(OrZero(local), own)
          + SumFunction([m \in DOMAIN regs \ {Own} |-> OrZero(regs[m][field])])

\* Item.tokens, Item.cost and Item.cost_tier of a ticket nobody stamped.
Card(ledger, t, regs) ==
    LET rows == RowsOf(ledger, t)
        local == IF rows = {} THEN [tokens |-> None, micros |-> None, tier |-> "measured"]
                 ELSE PriceLedger(ledger, rows)
        soft == {m \in DOMAIN regs \ {Own} : regs[m].micros # None /\ regs[m].tier # "measured"}
        cost == IF \A m \in DOMAIN regs : regs[m].micros = None THEN local.micros
                ELSE LET total == Fold("micros", local.micros, regs)
                     IN  IF total = 0 /\ local.micros = None THEN None ELSE total
    IN  [tokens |-> IF DOMAIN regs = {} THEN local.tokens
                    ELSE Fold("tokens", local.tokens, regs),
         cost |-> cost,
         tier |-> IF cost = None THEN "unattributed"
                  ELSE IF soft # {} THEN regs[CHOOSE m \in soft : TRUE].tier
                  ELSE local.tier]

\* _offboard_spend: the rows no card claims.
OffBoard(ledger, cards) ==
    PriceLedger(ledger, DOMAIN ledger \ UNION {RowsOf(ledger, t) : t \in cards})
=============================================================================
