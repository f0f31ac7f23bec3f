SPECIFICATION Spec
CONSTANTS
    LastUpdate = 3
    Foreign <- Second
    Contexts = {c1, c2}
    NoContext = NoContext
    Elaborating = TRUE
    Limit = 1
    MaxCrashes = 1
    MaxFaults = 1
CHECK_DEADLOCK FALSE
INVARIANTS
    TypeOK
    AcknowledgedIsRouted
    OutboundIsOnRecord
PROPERTIES
    EndedStaysEnded
