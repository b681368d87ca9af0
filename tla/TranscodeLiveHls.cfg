SPECIFICATION FairSpec
CONSTANTS
    c1 = c1
    c2 = c2
    j1 = j1
    j2 = j2
    None = None
    Clients <- MCOneClient
    Jobs <- MCJobs
    N = 3
    PoolSize = 1
    Hls = TRUE
    Prebuffer = TRUE
    PrebufferSegments = 0
    MinSeek = 1
    DisableCache = FALSE
    Faults = FALSE
    MaxRefs = 4
    MaxEvents = 0
CHECK_DEADLOCK FALSE
INVARIANTS
    SuccessIsComplete
PROPERTIES
    WorkersEnd
    CallsReturn
