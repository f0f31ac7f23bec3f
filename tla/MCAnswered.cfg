SPECIFICATION FairSpec
CONSTANTS
    LastUpdate = 2
    Foreign <- None
    Contexts = {c1}
    NoContext = NoContext
    Elaborating = FALSE
    Limit = 1
    MaxCrashes = 1
    MaxFaults = 1
PROPERTIES
    EveryPerceptIsAnswered
