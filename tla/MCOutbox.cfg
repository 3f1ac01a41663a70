SPECIFICATION FairSpec
CONSTANTS
    e1 = e1
    e2 = e2
    w1 = w1
    w2 = w2
    None = None
    Events <- MCEvents
    BookingEvents <- MCBooking
    Poison <- MCPoison
    Workers <- MCWorkers
    BatchSize = 1
    MaxAttempts = 2
    Lease = 1
    RetryDelay = 1
    MaxOverdue = 1
    MaxFaults = 1
    MaxSends = 2
INVARIANTS OneSender SendsAccounted
PROPERTIES DeliversAsPromised EventuallySettled
