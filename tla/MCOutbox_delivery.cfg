SPECIFICATION FairSpec
CONSTANTS
    Verdicts = {"accept", "conflict"}
    Failing = {}
    Users <- Restarting
    MaxOps = 3
    MaxLinks = 2
INVARIANTS
    NeverAhead

    
CHECK_DEADLOCK FALSE
