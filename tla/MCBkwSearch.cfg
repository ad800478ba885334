SPECIFICATION Spec
CONSTANTS
    Infinite = 41
    MaxAdditions = 4
    StaleLimit = 2
    Problems <- MCProblems
INVARIANTS
    NothingCheaperSeen
    AnswerCoversLastSearch
    LandsNextToMinimum
    EvaluatesFew
