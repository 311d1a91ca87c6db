CONSTANTS
    p1 = p1
    p2 = p2
    Callers = {c1, c2}
    Providers = {p1, p2}
    Chains <- TwoProviders
    Healthy = {p2}
    GateEnabled = FALSE
    MinSamples = 1
    MasterBudget = TRUE
    FailureThreshold = 2
    HalfOpenMaxCalls = 1
SPECIFICATION FairSpec
INVARIANT FallbackServes
PROPERTIES CallReturns SelfHealing
