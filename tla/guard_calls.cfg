SPECIFICATION FairSpec
CONSTANTS
    c1 = c1
    c2 = c2
    k1 = k1
    k2 = k2
    l1 = l1
    l2 = l2
    Keys = {k1, k2}
    Callers = {c1, c2}
    Locks = {l1, l2}
    Hash <- Distinct
    PoolSize = 3
    FnUsesPool = TRUE
    MaxCrashes = 2
    MaxPrunes = 1
INVARIANTS
    Accounting
    Agreement
PROPERTIES
    EveryCallReturns
