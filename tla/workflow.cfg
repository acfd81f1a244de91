SPECIFICATION FairWorkflowSpec
CONSTANTS
    v1 = v1
    v2 = v2
    ghost = ghost
    Passed = Passed
    None = None
    NumSteps = 6
    Deps <- Diamond
    Reads <- Templates
    QueueSteps = {1, 2, 4}
    InProcess = {5}
    Gates = {3, 6}
    NeedsApproval = {1, 5}
    Outputs = {v1, v2}
    MaxCrashes = 2
    Ids <- Steps
    Names <- StepsAndGhost
    Definitions <- Written
CHECK_DEADLOCK FALSE
INVARIANTS
    VerdictIsRight
    NeverStalls
    InputsAreDurable
    OneTaskPerStep
PROPERTIES
    RunsToItsEnd
    ImplementsWorkflowContract
