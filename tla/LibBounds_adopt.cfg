SPECIFICATION LiveSpec
CONSTANTS
    Grain = 2
    AddrSpace = 6
    NumSlots = 3
    MaxHandles = 4
    Requests <- MCRequests
    HandleArgs <- MCHandleArgs
    OSEntries <- TwoOSEntries
INVARIANTS IInv InStep
PROPERTIES FreeAllClears FreeRevokes AccessAnswered Implements
CHECK_DEADLOCK FALSE
