SPECIFICATION Spec
CONSTANTS
    k1 = k1
    k2 = k2
    u1 = u1
    u2 = u2
    o1 = o1
    o2 = o2
    A = A
    B = B
    None = None
    Gone = Gone
    NoTable = NoTable
    Keys <- MCKeys
    Users <- MCUsers
    Ids <- MCIds
    Size <- MCSize
    MaxCacheSize = 1
    ExpiryTime = 1
    MinDiskSpace = 1
    FreeSpace = {1, 3}
    Mounts <- MCMounts
    MaxTime = 2
    MaxTouches = 1
    Files <- MCFiles
    Known <- MCKnown
    MaxLoads = 2
SYMMETRY Symmetry
CONSTRAINT Bounded
CHECK_DEADLOCK FALSE
INVARIANTS
    MapIsLive
    ServedIsWhole
PROPERTIES
    SizeKept
    AllOrNothing
