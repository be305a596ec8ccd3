CONSTANTS
    Typed <- MCTyped
    Longest = 4
SPECIFICATION FairSpec
PROPERTY EveryLineIsRendered
CHECK_DEADLOCK FALSE
