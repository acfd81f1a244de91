\* The workflow pipeline: contexts, policy hooks, approval and publish.
SPECIFICATION Spec
CONSTANTS
    Rulesets <- MCRulesets
    Cases <- MCCases
    TaskTypes <- MCTaskTypes
    Invalid <- MCInvalid
    MaxResumes = 1
    MaxPriority = 2
CHECK_DEADLOCK FALSE
INVARIANTS
    GovernedInv
    ApprovalHonoured
    OneDraft
    PromptIsRedacted
    PromptFits
    DecisionsFollowDigest
    AgentContextSound
