SPECIFICATION Spec
CONSTANTS
    r1 = r1
    r2 = r2
    r3 = r3
    Torn = Torn
    Plan <- MCPlan
    MaxFailures = 2
    MaxCrashes = 1
INVARIANT
    ReplayPreservesExact
CHECK_DEADLOCK FALSE
