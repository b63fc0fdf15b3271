SPECIFICATION FairSpec
CONSTANTS
    d1 = d1
    d2 = d2
    Device <- MCDevice
    Writer <- MCWriter
    Collab = 1
    Editor = 2
    SnapshotEvery = 2
    Retained = 1
    MaxEpoch = 2
    MaxUpdates = 2
    MaxOps = 1
    MaxRestores = 1
    MaxFaults = 1
    MaxDisturbances = 1
INVARIANTS
    RoomSurvives
    TextNotDoubled
    RoomAgreesWithFile
PROPERTIES
    FlushCarriesAcknowledged
    EmptyRoomCloses
CHECK_DEADLOCK FALSE
