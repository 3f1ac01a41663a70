SPECIFICATION AutomationSpec
CONSTANTS
    w1 = w1
    w2 = w2
    Workers <- MCWorkers
    MaxAttempts = 2
    UidUnique = TRUE
    MaxEvents = 2
    MaxFaults = 0
CHECK_DEADLOCK FALSE
INVARIANTS RetryFindsEvent
