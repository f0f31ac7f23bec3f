CONSTANTS
    e1 = e1
    e2 = e2
    Events = {e1}
    Attempts = {a1, a2, a3}
    NoEvent = NoEvent
    NoAttempt = NoAttempt
    Priority <- EqualPriority
    Contract <- Derived
    MaxCrashes = 1
    Faults = TRUE
    LostClaims = TRUE
    Interference = TRUE
SPECIFICATION Spec
SYMMETRY AttemptSymmetry
CHECK_DEADLOCK FALSE
INVARIANTS
    NoBlindReplay
    EffectAppliedOnce
    SettledEffectNotRepeated
