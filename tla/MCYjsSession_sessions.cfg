SPECIFICATION SessionsSpec
CONSTANTS
    d1 = d1
    d2 = d2
    Device <- MCDevice
    Author <- MCAuthor
    MaxEpochs = 2
    MaxMarks = 2
    MaxOpens = 1
    MaxBreaks = 1
    MaxSkips = 1
    MaxStrays = 1
    MaxTroubles = 2
INVARIANTS
    ConfirmedIsServed
    
PROPERTIES
    SessionsConverge
    EveryoneLeaves
CHECK_DEADLOCK FALSE
