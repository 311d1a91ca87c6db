CONSTANTS
    q01 = q01
    q02 = q02
    q03 = q03
    q04 = q04
    Specs <- Goals
    Order <- GoalOrder
    Deps <- Graph
    MaxAttempts = 2
    MaxCrashes = 1
CHECK_DEADLOCK FALSE
SPECIFICATION FairSpec
INVARIANTS UpstreamsEnded UpstreamQuiet
PROPERTY AllReleased
