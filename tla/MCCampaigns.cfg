SPECIFICATION CampaignSpec
CONSTANTS
    run1 = run1
    run2 = run2
    Runs <- MCRuns
    MaxRecipients = 2
    DailyCaps <- MCDailyCaps
    MaxFaults = 1
CHECK_DEADLOCK FALSE
INVARIANTS RungOnce StopsSoon
PROPERTIES RunsEnd
