SPECIFICATION MCSpec
CONSTANTS
    j1 = j1
    j2 = j2
    j3 = j3
    w1 = w1
    w2 = w2
    a1 = a1
    a2 = a2
    m1 = m1
    m2 = m2
    p1 = p1
    p2 = p2
    p3 = p3
    d1 = d1
    f1 = f1
    f2 = f2
    l1 = l1
    l2 = l2
    v1 = v1
    v2 = v2
    goal = goal
    budget = budget
    NoAccount = NoAccount
    Jobs = {j1, j2, j3}
    Writers = {w1, w2}
    Adjustments = {"first", "second"}
    Clerks = {1, 2}
    Statuses = {"unpaid", "paid", "void"}
    Accounts = {a1, a2}
    Members = {m1, m2}
    States <- MCStates
    MaxChanges = 2
    People = {p1, p2, p3}
    Letters = {l1, l2}
    Desks = {d1}
    Roles = {"owner", "admin"}
    Forms = {f1, f2}
    Windows = {v1, v2}
    MaxTalks = 2
    MaxMessages = 3
    Allowed = {goal}
    Forbidden = {budget}
    Defaults = {goal}
SYMMETRY MCSymmetry
INVARIANTS RatingIsEarned LedgerFollows ChargesWereEnabled OwnerRemains OneConversation
 
CHECK_DEADLOCK FALSE
