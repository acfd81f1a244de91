SPECIFICATION Spec
CONSTANTS
    Messages = {m1}
    Consumers = {c1, c2}
    RetrySteps = 2
    MaxFaults = 2
    Settings <- MCSettings
CHECK_DEADLOCK FALSE
INVARIANTS
    DeliveryInv
    Accounted
    CopiesBounded
PROPERTIES
    Settles
