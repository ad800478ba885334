\* clock ticks: the coarse budget ends at 1, the total budget at 2
SPECIFICATION FairSpec
CONSTANTS
    first = first
    second = second
    unsolved = unsolved
    Candidates <- MCCandidates
    Problems <- MCProblems
    Unsolved = unsolved
    MaxDegree = 3
    CoarseBudget = 1
    TotalBudget = 2
    Horizon = 3
INVARIANTS
    TypeOK
    ClearedIsAbove
    CacheIsHilbert
    AlarmMeansExact
    NoStrayAlarm
PROPERTY
    ScreenReturns
\* a screen that is done stays done
CHECK_DEADLOCK FALSE
