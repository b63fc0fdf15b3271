SPECIFICATION Spec
CONSTANTS
    Device = {1}
    Collab = 0
    Writer = {0, 1}
    FileId = {f1, f2}
    Path = {1, 2}
    IllegalPath = {}
    SuffixLimit = 2
    SuffixPath <- MCSuffixPath
    ClientKinds = {"create", "update", "rename", "delete"}
    Standing = {"writer"}
    RoomId = {}
    MaxOps = 4
    MaxPending = 1
    MaxLamport = 1
INVARIANTS
    LivePathsUnique
