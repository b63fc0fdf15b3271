SPECIFICATION SessionsSpec
CONSTANTS
    d1 = d1
    d2 = d2
    Device <- MCDevice
    Author <- MCAuthor
    MaxEpochs = 2
    MaxMarks = 2
    MaxOpens = 1
    MaxBreaks = 0
    MaxSkips = 0
    MaxStrays = 0
    MaxTroubles = 0
INVARIANTS
    TypedReachesFile
CHECK_DEADLOCK FALSE
