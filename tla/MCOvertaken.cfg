CONSTANTS
    e1 = e1
    e2 = e2
    Events = {e1, e2}
    Attempts = {a1, a2}
    NoEvent = NoEvent
    NoAttempt = NoAttempt
    Priority <- UrgentSecond
    Contract <- Plain
    MaxCrashes = 1
    Faults = FALSE
    LostClaims = FALSE
    Interference = FALSE
SPECIFICATION Spec
CHECK_DEADLOCK FALSE
INVARIANT SettledEffectNotRepeated
