CONSTANTS
    Tickets = {t1, t2}
    Grace = 3
    Base = 1
    Cap = 5
    MaxShift = 3
    MaxExp = 4
    QuietTop = 9
    AgeTop = 14
    Edits = 1
    Moves = 1
    Remotes = 1
    Obstacles = 1
    Kills = 1
    Limit <- MCLimit
SPECIFICATION FairSpec
INVARIANT NoChangeWaitsLong
PROPERTY EveryChangeLands BoardGoesQuiet
