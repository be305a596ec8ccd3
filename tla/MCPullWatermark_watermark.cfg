CONSTANTS
    MaxIssue = 2
    None = None
    PageSize = 1
    Grace = 2
    MaxAge = 3
    Interval = 2
    PassTime = 1
    Horizon = 4
    MaxEvents = 1
SPECIFICATION FairSpec
INVARIANT NothingSkipped OneFilePerFiling
PROPERTY Implements
