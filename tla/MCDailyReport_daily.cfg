CONSTANTS
    m1 = m1
    m2 = m2
    None = None
    Machines = {m1, m2}
    Versions = {1, 2}
    First = 1
    MaxAge = 1
    Budgets <- MCBudgets
SPECIFICATION FairSpec
INVARIANT DuplicatesAreAccidental IdsAreAccidental
PROPERTY EveryMachineListed
