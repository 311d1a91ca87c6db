SPECIFICATION FairSpec
CONSTANTS
    Workers = {w1, w2}
    Clients = {c1}
    Runs = {r1}
    Tokens = {t1, t2}
    None = None
    MaxEntries = 1
    MaxAttempts = 2
    MaxIter = 1
    MaxCancels = 0
    MaxCrashes = 1
    MaxStalls = 0
    WatchdogArmed = TRUE
INVARIANTS
    AtLeastOnce
PROPERTIES
    SettledRunNotStarted
    Drains
