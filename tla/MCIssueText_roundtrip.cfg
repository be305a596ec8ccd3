CONSTANTS
    Machines = {a, b}
    Conditions = {"c1", "c2"}
    Slugs = {"named", "issue-n"}
    Fallback = "issue-n"
    KnownTypes = {"bug", "task"}
    Gates = {"ui"}
    None = None
    Malformed = Malformed
    Filed <- MCFiled
    Losses = 1
    Revisions = 1
    Limit <- MCLimit
SPECIFICATION Spec
INVARIANT IssueCarriesTicket ProseSurvives
PROPERTY UneditedPushKeepsWords
SYMMETRY Symmetry
CHECK_DEADLOCK FALSE
