SPECIFICATION Spec
CONSTANTS
    c1 = c1
    c2 = c2
    j1 = j1
    j2 = j2
    None = None
    Clients <- MCClients
    Jobs <- MCJobs
    N = 2
    PoolSize = 2
    Hls = FALSE
    Prebuffer = TRUE
    PrebufferSegments = 0
    MinSeek = 0
    DisableCache = FALSE
    Faults = TRUE
    MaxRefs = 4
    MaxEvents = 0
SYMMETRY Symmetry
CHECK_DEADLOCK FALSE
INVARIANTS
    FreedUnused
    RefsCoverUsers
    Custody
