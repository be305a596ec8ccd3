CONSTANTS
    m1 = m1
    m2 = m2
    t1 = t1
    t2 = t2
    building = building
    done = done
    Machines = {m1, m2}
    Tickets = {t1, t2}
    Lanes = {building, done}
    None = None
    Limit <- MCLimit
    Starts <- MCStarts
SPECIFICATION FairSpec
PROPERTY KnownCardsAreRight WritesLand NoCardMisleads
