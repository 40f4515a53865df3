SPECIFICATION Spec
CONSTANTS
    Grain = 1
    AddrSpace = 9
    f1 = f1
    f2 = f2
    Funcs <- MCFuncs
    Bases <- MCBases
    Lengths <- OneLength
    HeapArea <- MCHeapArea
    FrameRequests <- MCFrameRequests
    OtherRequests <- NoRequests
    Chunk = 1
    MaxHandles = 3
    MaxNodes = 3
    MaxUnderflow = 1
    MaxDepth = 1
INVARIANT FoundAgain
CHECK_DEADLOCK FALSE
