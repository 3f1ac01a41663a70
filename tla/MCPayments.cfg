SPECIFICATION FairSpec
CONSTANTS
    p1 = p1
    p2 = p2
    r1 = r1
    r2 = r2
    None = None
    Payments <- TwoPayments
    Requests <- TwoRequests
    Total = 2
    Amounts = {1}
    ProviderSide = {}
    ManualStatuses = {"void"}
    MaxFaults = 1
INVARIANTS PaidIsCovered
PROPERTIES CaptureSettles
CHECK_DEADLOCK FALSE
