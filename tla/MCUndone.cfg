SPECIFICATION Spec
CONSTANTS
    x1 = x1
    x2 = x2
    u1 = u1
    u2 = u2
    v = v
    w = w
    Executors <- OneExecutor
    Users <- OneUser
    Contents <- TwoTexts
    Missing = Missing
    Calls <- Undoing
    MaxRequests = 1
    MaxCrashes = 1
SYMMETRY ContentSymmetry
PROPERTIES
    UndoDestroysNothing
