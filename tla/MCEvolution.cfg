CONSTANTS
    optimizer = optimizer
    scheduler = scheduler
    w1 = w1
    p = p
    b = b
    o = o
    plan = plan
    Nodes = {plan}
    Guides = {p, o}
    Target <- PlanOnly
    Hosts = {w1, optimizer}
    Gates = {scheduler}
    Goals = 1
    MaxHistory = 2
    Off = Off
    Bare = Bare
    None = None
    Workers = {w1}
    Mutations = {p, b}
    Prompts = {p}
    Code = {b}
    Bad = {b}
    Attempts = 2
CHECK_DEADLOCK FALSE
SPECIFICATION Spec
INVARIANTS ServedProven EntryWhole CondemnedNotPromoted RowsTellRepo
