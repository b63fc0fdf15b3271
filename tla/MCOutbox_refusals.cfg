SPECIFICATION Spec
CONSTANTS
    Verdicts = {"accept", "conflict", "refuse", "retry"}
    Failing = {3}
    Users <- EditingOrForcing
    MaxOps = 3
    MaxLinks = 2
INVARIANTS
    AcknowledgedIsAccepted
    NumbersContiguous
PROPERTIES
    DeliversInOrder
CHECK_DEADLOCK FALSE
