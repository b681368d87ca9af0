SPECIFICATION Spec
CONSTANTS
    c1 = c1
    c2 = c2
    j1 = j1
    j2 = j2
    None = None
    Clients <- MCOneClient
    Jobs <- MCOneJob
    N = 1
    PoolSize = 1
    Hls = FALSE
    Prebuffer = TRUE
    PrebufferSegments = 0
    MinSeek = 0
    DisableCache = FALSE
    Faults = FALSE
    MaxRefs = 3
    MaxEvents = 0
CHECK_DEADLOCK FALSE
INVARIANTS
    NoLostWakeup
