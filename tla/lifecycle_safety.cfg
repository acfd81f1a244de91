SPECIFICATION Spec
CONSTANTS
    c1 = c1
    k1 = k1
    k2 = k2
    o1 = o1
    w1 = w1
    NumStages = 4
    JoinStages = {2}
    TimerStages = {4}
    EventStages = {3}
    DenyStages = {1}
    Expected = 2
    Rejected <- OneRejected
    Callers = {c1}
    Collectors = {k1, k2}
    Pollers = {o1}
    Workers = {w1}
    EventCallers = {"cli", "service"}
    CrashAt <- EverywhereAndWorkers
    MaxCrashes = 1
    MaxCancels = 1
INVARIANTS
    SingleOwner
    ResumeIsExact
    GateHonoured
    CancelStopsTheRun
PROPERTIES
    ImplementsContract
