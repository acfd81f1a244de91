SPECIFICATION Spec
CONSTANTS
    Cases <- Deployments
    MaxIterations = 3
    MaxSubagents = 2
    FanoutCap = 2
    CostCap = 3
    Projected = 2
    MaxSpend = 2
    MaxCrashes = 1
CHECK_DEADLOCK FALSE
INVARIANTS
    LoopInv
    SteadyReplay
    PinsHold
    AccessHolds
PROPERTIES
    LoopEnds
