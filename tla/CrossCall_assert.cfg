SPECIFICATION Spec
CONSTANTS
    Grain = 1
    AddrSpace = 6
    NumSlots = 2
    NumJumps = 2
    FrameBytes = 4
    HandleBytes = 1
    CrossDepth = 2
    WordSpace = 1000
    MaxHandles = 9
    MaxDepth = 3
    main = main
    liba = liba
    libb = libb
    Libs <- MCLibs
    MainLibs <- MCMainLibs
    Start = main
    ReadRegion <- MCReadRegion
    WriteRegion <- MCWriteRegion
    StackRegions <- MCStackRegions
INVARIANT JumpFreeAsserted
CHECK_DEADLOCK FALSE
