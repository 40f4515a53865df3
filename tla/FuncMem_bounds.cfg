SPECIFICATION Spec
CONSTANTS
    Grain = 1
    AddrSpace = 9
    f1 = f1
    f2 = f2
    Funcs <- MCFuncs
    Bases <- MCBases
    Lengths <- MCLengths
    HeapArea <- MCHeapArea
    FrameRequests <- MCFrameRequests
    OtherRequests <- MCOtherRequests
    Chunk = 1
    MaxHandles = 7
    MaxNodes = 2
    MaxUnderflow = 1
    MaxDepth = 2
INVARIANTS TypeOK HeapConfined
PROPERTIES UsableUntilReturn AbortsOnlyStranded ListKept CountKept
CHECK_DEADLOCK FALSE
