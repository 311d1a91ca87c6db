CONSTANTS
    p1 = p1
    p2 = p2
    Callers = {c1, c2, c3}
    Providers = {p1}
    Chains <- OneProvider
    Healthy = {}
    GateEnabled = TRUE
    MinSamples = 2
    MasterBudget = TRUE
    FailureThreshold = 2
    HalfOpenMaxCalls = 2
SYMMETRY Symmetry
SPECIFICATION Spec
INVARIANTS TripsAtThreshold ProbeQuota
