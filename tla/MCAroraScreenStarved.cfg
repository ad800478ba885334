\* clock ticks: the coarse budget ends at 1, the total budget at 2
SPECIFICATION Spec
CONSTANTS
    first = first
    second = second
    unsolved = unsolved
    Candidates <- MCCandidates
    Problems <- MCProblems
    Unsolved = unsolved
    MaxDegree = 3
    CoarseBudget = 1
    TotalBudget = 2
    Horizon = 3
INVARIANT
    StarvedFallsThrough
CHECK_DEADLOCK FALSE
