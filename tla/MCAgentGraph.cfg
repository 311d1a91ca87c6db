CONSTANTS
    MaxIterations = 3
    Basis = 3
    LimitFloor = 35
    MaxPlanSteps = 2
    VerifyMaxCycles = 2
    OscillationRepeat = 2
    StableThreshold = 1
    CapBreakThreshold = 1
    MaxFolds = 1
    FoldInterval = 1
    CheckpointInterval = 1
    ErrorTexts <- Errors
    ReviewTexts <- Rejections
    ClarifyingGate = TRUE
    ResearchLoop = TRUE
    Lats = TRUE
    NoEvolution = FALSE
    ReexecuteTool = TRUE
    EngineMayFail = TRUE
CHECK_DEADLOCK FALSE
SPECIFICATION Spec
INVARIANTS TypeOK NoRecursionError OvershootBounded EndsOnVerdict
