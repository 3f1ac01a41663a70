SPECIFICATION AutomationSpec
CONSTANTS
    w1 = w1
    w2 = w2
    Workers <- MCWorkers
    MaxAttempts = 2
    UidUnique = FALSE
    MaxEvents = 2
    MaxFaults = 1
CHECK_DEADLOCK FALSE
INVARIANTS TriedBeforeExhausted NoStrayEvent
PROPERTIES FailuresEnd
