\* The thread pool, or one run over a file of three segments with two requests.
CONSTANTS
    t1 = t1
    t2 = t2
    t3 = t3
    j1 = j1
    j2 = j2
    j3 = j3
    NoJob = NoJob
    Threads <- MCThreads
    Jobs <- MCJobs
    Setups <- MCSetups
    SegDur = 16
    Segments = 3
    AudioFrame = 3
    MaxSeeks = 2
SPECIFICATION MCSpec
INVARIANTS NoLostJob SegmentWhole NothingEarly AllWritten
PROPERTIES ImplementsJobQueue TearDownEnds ImplementsFairJobQueue EachRunEnds
CHECK_DEADLOCK FALSE
