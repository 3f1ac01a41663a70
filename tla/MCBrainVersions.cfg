SPECIFICATION Spec
CONSTANTS
    client = client
    area = area
    other = other
    rule = rule
    bad = bad
    Clients <- MCClients
    MaxVersions = 2
    ConfigChanges <- MCConfigChanges
    RuleChanges <- MCRuleChanges
    BadRules <- MCBadRules
    Proposals <- MCProposals
    MaxProposals = 1
    MaxDeleted = 1
    MaxStale = 1
CHECK_DEADLOCK FALSE
CONSTRAINT MCBound
INVARIANTS PointerFollows FrozenAfterReview OnceAndForGood
