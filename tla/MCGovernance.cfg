CONSTANTS
    t1 = t1
    t2 = t2
    t3 = t3
    g1 = g1
    Tools = {t1, t2, t3}
    Similar <- Chain
    SubAgents = {g1}
    InitScope <- Scopes
    Loaders = {"run"}
    Pruners = {"nightly"}
    Cap = 2
    MaxVersions = 2
CHECK_DEADLOCK FALSE
SPECIFICATION Spec
INVARIANTS TypeOK RedundancySound GroupSurvives
