SPECIFICATION FairSpec
CONSTANTS
    c1 = c1
    c2 = c2
    Clients = {c1, c2}
    Boot = Boot
    NoOne = NoOne
    Events = {e1, e2}
    NoEvent = NoEvent
    Overlapping = FALSE
    Role <- OneStops
    Accepting = TRUE
    BlockedChildren = FALSE
    MaxCrashes = 1
CHECK_DEADLOCK FALSE
INVARIANTS
    TypeOK
    ReplyIsHonest
PROPERTIES
    StopIsHonoured
    SteeringEnds
