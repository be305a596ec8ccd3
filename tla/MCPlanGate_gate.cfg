CONSTANTS
    None = None
    c1 = c1
    c2 = c2
    a = a
    b = b
    f = f
    Cmds = {c1, c2}
    Ids = {a, b}
    Files = {f}
    Headings = {TRUE, FALSE}
    Edits = 2
    Reviews = 2
    Recordings = 3
    Rebuilds = 1
    Works = 1
    Limit <- MCLimit
    Specs <- MCSpecs
    Starts <- MCStarts
    Closings <- MCClosings
SPECIFICATION Spec
INVARIANT RestsAreCurrent CreditIsEarned ReadersAgree ApprovalSurvives FailureSurfaces ApprovedIsSatisfiable
CHECK_DEADLOCK FALSE
