SPECIFICATION MCSpec
CONSTANTS
    r1 = r1
    r2 = r2
    e1 = e1
    e2 = e2
    e3 = e3
    NoBrain = NoBrain
    Events = {e1, e2, e3}
    Marketing = {e1, e2}
    Workers = {r1, r2}
    Brains <- MCBrains
    Providers = {"vonage", "resend"}
    Hours = 2
    MaxTime = 2
    MaxEdits = 2
    MaxSends = 2
    MaxReceipts = 1
    Requests = {r1, r2}
    Policies <- MCPolicies
    Ungoverned = Ungoverned
    Fields <- MCFields
    MaxAsked = 3
    MaxChanges = 1
    MaxEscalations = 2
SYMMETRY MCSymmetry
CONSTRAINT MCBound
CHECK_DEADLOCK FALSE
INVARIANTS BudgetHolds ToldIsKept HandedOverOnce StatusIsEarned CapHolds
PROPERTIES OptOutHonoured
