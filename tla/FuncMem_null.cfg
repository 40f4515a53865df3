SPECIFICATION Spec
CONSTANTS
    Grain = 1
    AddrSpace = 9
    f1 = f1
    f2 = f2
    Funcs <- OneFunc
    Bases <- MCBases
    Lengths <- OneLength
    HeapArea <- MCHeapArea
    FrameRequests <- MCFrameRequests
    OtherRequests <- MCOtherRequests
    Chunk = 1
    MaxHandles = 5
    MaxNodes = 1
    MaxUnderflow = 1
    MaxDepth = 1
PROPERTY OnlyOwnRevoked
CHECK_DEADLOCK FALSE
