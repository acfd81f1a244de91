SPECIFICATION FairSpec
CONSTANTS
    Roles = {"finance", "ops", "guest"}
    RolesOf <- ManyRoles
    Principals = {"frank", "fred", "omar", "gina", "hugo"}
    Remote = {"gina", "hugo"}
    TokenOf <- Tokens
    Requests <- AllRequests
    MaxCalls = 4
CHECK_DEADLOCK FALSE
INVARIANTS
    RowAgrees
PROPERTIES
    StageUnblocks
    ImplementsApprovalContract
