SPECIFICATION QuotingSpec
CONSTANTS
    r1 = r1
    r2 = r2
    Nobody = Nobody
    Forever = Forever
    Whole = 100
    RuleLists <- MCRuleLists
    Offers <- MCOffers
    Editors <- MCEditors
    Forms <- MCForms
    FeeTerms <- MCFeeTerms
    MaxPolicies = 2
    MaxTime = 1
SYMMETRY Symmetry
CONSTRAINT MCBound
CHECK_DEADLOCK FALSE
INVARIANTS OneGoverns RulesOnlyRestrict AgreedIsCharged
PROPERTIES PriceReproducible
