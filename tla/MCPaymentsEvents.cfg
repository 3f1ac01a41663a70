SPECIFICATION Spec
CONSTANTS
    p1 = p1
    p2 = p2
    r1 = r1
    r2 = r2
    None = None
    Payments <- OnePayment
    Requests <- TwoRequests
    Total = 2
    Amounts = {1, 2}
    ProviderSide = {"decline", "cancel", "refund", "update", "dispute"}
    ManualStatuses = {}
    MaxFaults = 1
SYMMETRY Symmetry
INVARIANTS CreditIsCaptured RefundIsBacked
CHECK_DEADLOCK FALSE
