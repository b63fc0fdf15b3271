SPECIFICATION Spec
CONSTANTS
    Device = {1, 2}
    Collab = 0
    Writer = {0, 1, 2}
    FileId = {f1}
    Path = {1}
    IllegalPath = {}
    SuffixLimit = 1
    SuffixPath <- MCSuffixPath
    ClientKinds = {"create", "update", "delete", "restore"}
    Standing = {"writer", "viewer", "revoked"}
    RoomId = {f1}
    MaxOps = 3
    MaxPending = 2
    MaxLamport = 1
INVARIANTS
    TypeOK
    AcceptedOnceInOrder
    DeviceStreamContiguous
    AnswerTruthful
