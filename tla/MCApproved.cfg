SPECIFICATION Spec
CONSTANTS
    x1 = x1
    x2 = x2
    u1 = u1
    u2 = u2
    v = v
    w = w
    Executors <- TwoExecutors
    Users <- OneUser
    Contents <- OneText
    Missing = Missing
    Calls <- Ruling
    MaxRequests = 2
    MaxCrashes = 1
SYMMETRY Symmetry
INVARIANTS
    TypeOK
    OnceIsOnce
    OnlyAllowedRuns
    AuditAgrees
PROPERTIES
    EndedIsFinal
