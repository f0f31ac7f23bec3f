SPECIFICATION FairSpec
CONSTANTS
    Events = {safe, unsafe}
    NoEvent = NoEvent
    safe = safe
    unsafe = unsafe
    ReplaySafe <- SmallReplaySafe
    Overtaking = FALSE
    MaxCrashes = 2
    MaxFaults = 1
INVARIANTS
    TypeOK
    TaskCountedOnce
    VerdictIsAccounted
    UnsafeRunsOnce
PROPERTY
    BegunIsObserved
CHECK_DEADLOCK FALSE
