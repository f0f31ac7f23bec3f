CONSTANTS
    e1 = e1
    e2 = e2
    Events = {e1, e2}
    Attempts = {a1, a2}
    NoEvent = NoEvent
    NoAttempt = NoAttempt
    Priority <- EqualPriority
    Contract <- TextThenProbe
    MaxCrashes = 1
    Faults = FALSE
    LostClaims = FALSE
    Interference = FALSE
SPECIFICATION FairSpec
CHECK_DEADLOCK FALSE
INVARIANTS
    TypeOK
    ClaimedWorkIsResumable
    StartedIsTracked
    HeldWorkIsResolvable
    SuccessIsEvidenced
PROPERTIES
    StopRequestWins
    KeepsPromise
    QuietAfterOutcome
    CancelEventuallyTerminal
