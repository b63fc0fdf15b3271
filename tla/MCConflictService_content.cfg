SPECIFICATION ConflictSpec
CONSTANTS
    Device = {1, 2}
    Collab = 0
    Writer = {0, 1, 2}
    FileId = {f1}
    Path = {1}
    IllegalPath = {}
    SuffixLimit = 1
    SuffixPath <- MCSuffixPath
    ClientKinds = {"create", "delete"}
    Standing = {"writer"}
    RoomId = {}
    MaxOps = 4
    MaxPending = 1
    MaxLamport = 1
INVARIANTS
    FrozenByItsConflict
    ConflictSidesConcurrent
PROPERTIES
    ContentVVMonotone
    ResolutionSupersedesBoth
    ConflictIsSettledOnce
