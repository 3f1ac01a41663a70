SPECIFICATION Spec
CONSTANTS
    Endings <- MCEndings
    MaxAttempts = 2
    MaxTurns = 1
    CanEscalate = TRUE
    MaxLegs = 2
    MaxFaults = 1
CHECK_DEADLOCK FALSE
INVARIANTS DialledOnce NoOrphanSession TakenIsApplied
PROPERTIES CallEnds
