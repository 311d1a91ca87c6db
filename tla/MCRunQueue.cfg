SPECIFICATION Spec
CONSTANTS
    Workers = {w1, w2}
    Clients = {c1}
    Runs = {r1}
    Tokens = {t1, t2, t3}
    None = None
    MaxEntries = 2
    MaxAttempts = 2
    MaxIter = 1
    MaxCancels = 1
    MaxCrashes = 0
    MaxStalls = 1
    WatchdogArmed = FALSE
SYMMETRY Symmetry
INVARIANTS
    TypeOK
    LeaseExclusive
    FailuresBounded
PROPERTIES
    LeaseLostByOwnerOnly
    ImplementsLifecycle
