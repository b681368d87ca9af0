SPECIFICATION Spec
CONSTANTS
    c1 = c1
    c2 = c2
    j1 = j1
    j2 = j2
    None = None
    Clients <- MCOneClient
    Jobs <- MCJobs
    N = 2
    PoolSize = 1
    Hls = TRUE
    Prebuffer = TRUE
    PrebufferSegments = 0
    MinSeek = 0
    DisableCache = FALSE
    Faults = TRUE
    MaxRefs = 4
    MaxEvents = 1
SYMMETRY JobSymmetry
CHECK_DEADLOCK FALSE
INVARIANTS
    DecodingHasWorker
    DoneSignalled
