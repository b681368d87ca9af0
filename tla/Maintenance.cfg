SPECIFICATION FairSpec
CONSTANTS
    p1 = p1
    p2 = p2
    p3 = p3
    None = None
    Processes <- MCProcesses
    MaxFaults = 2
CHECK_DEADLOCK FALSE
INVARIANTS
    OneMaster
    LeavesNothing
PROPERTIES
    MasterReturns
