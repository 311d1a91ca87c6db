CONSTANTS
    t1 = t1
    t2 = t2
    r1 = r1
    r2 = r2
    Tools = {t1, t2}
    Runs = {r1, r2}
    Operators = {"operator"}
    Cap = 1
    PersistTries = 2
    MaxVersions = 3
    Own = Own
    None = None
SYMMETRY Alike
CHECK_DEADLOCK FALSE
SPECIFICATION Spec
INVARIANTS RecallKept OnlyReviewedCode
PROPERTY ReviewSparesLive
