\* a number above 500 stands for one no float can hold
SPECIFICATION Spec
CONSTANTS
    Bodies <- MCBodies
    Absent = Absent
    FloatMax = 500
INVARIANTS
    RightPath
    AnswersAccepted
    ExactSurvivesEstimator
    OutcomesFaithful
    RunsRequested
    ParametersLegal
    ThresholdsHonest
\* a request that was refused or a child that exited goes nowhere
CHECK_DEADLOCK FALSE
