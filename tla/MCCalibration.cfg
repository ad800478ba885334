SPECIFICATION FairSpec
CONSTANTS
    r1 = r1
    r2 = r2
    r3 = r3
    Torn = Torn
    Plan <- MCPlan
    MaxFailures = 2
    MaxCrashes = 1
INVARIANTS
    GoodIsLast
    SelectionIsGood
PROPERTY
    CompletesUnlessTorn
CHECK_DEADLOCK FALSE
