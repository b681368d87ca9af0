SPECIFICATION Spec
CONSTANTS
    r1 = r1
    r2 = r2
    f1 = f1
    f2 = f2
    f3 = f3
    Readers <- MCReaders
    Count = 2
    Page = 1
    Expected = 2
    Factor = 2
    WriteSizes = {1}
    MaxLen = 3
    MaxRuns = 2
    MaxFaults = 1
    Frames <- MCFrames
    Lengths <- MCLengths
    Bytes <- MCBytes
    Blank = 0
    Missing = Missing
    Predicted = 3
    PageSize = 2
    PreallocFactor = 2
    MaxSize = 6
    MaxWrites = 4
SYMMETRY Symmetry
CHECK_DEADLOCK FALSE
INVARIANTS
    NoPadding
    FramesApart
PROPERTIES
    AvailableStays
    ImplementsStore
