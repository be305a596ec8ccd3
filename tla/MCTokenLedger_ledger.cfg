CONSTANTS
    s1 = s1
    s2 = s2
    t1 = t1
    t2 = t2
    None = None
    Unassigned = Unassigned
    Tickets = {t1, t2}
    Models = {"fable", "unknown"}
    Rates <- MCRates
    Tokens <- MCTokens
    Ratio = None
    Machines = {"own", "other"}
    Own = "own"
    Sessions = {s1, s2}
    Keeper = s1
    Carded = {t1}
    Marked <- MCMarked
    Building = t2
    Foreign <- MCForeign
    Top = 2
    Budgets <- MCBudgets
SPECIFICATION FairSpec
INVARIANT DoubleBillingIsAccidental CardsCarryTheirRows
PROPERTY EveryTurnBilled
