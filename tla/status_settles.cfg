SPECIFICATION FairSpec
CONSTANTS
    c1 = c1
    k1 = k1
    k2 = k2
    o1 = o1
    w1 = w1
    NumStages = 3
    JoinStages = {2}
    TimerStages = {3}
    EventStages = {}
    DenyStages = {1}
    Expected = 1
    Rejected = {}
    Callers = {c1}
    Collectors = {k1, k2}
    Pollers = {o1}
    Workers = {w1}
    EventCallers = {}
    CrashAt = {}
    MaxCrashes = 0
    MaxCancels = 0
PROPERTIES
    StatusSettles
