SPECIFICATION Spec
CONSTANTS
    c1 = c1
    c2 = c2
    Clients = {c1, c2}
    Boot = Boot
    NoOne = NoOne
    Events = {e1, e2, e3}
    NoEvent = NoEvent
    Overlapping = FALSE
    Role <- AllWork
    Accepting = FALSE
    BlockedChildren = FALSE
    MaxCrashes = 1
SYMMETRY Interchangeable
CHECK_DEADLOCK FALSE
INVARIANTS
    SteeringIsWhole
    EventIsOwned
    DecidedStaysDone
    OneActiveWork
