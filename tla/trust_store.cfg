SPECIFICATION Spec
CONSTANTS
    Agents <- MCAgents
    Versions <- MCVersions
    Kids <- MCKids
    Contents = {"rated", "poor"}
    NeedsCert = {"rated", "poor"}
    Passes = {"rated"}
    Described = {"rated"}
    Searches = TRUE
    Clients = {c1, c2}
    MaxClock = 3
    MaxOps = 4
    MaxTampers = 1
SYMMETRY ClientSymmetry
CHECK_DEADLOCK FALSE
INVARIANTS
    TrustInv
    RevokedIsDead
    ApprovedLoads
