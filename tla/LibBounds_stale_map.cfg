SPECIFICATION Spec
CONSTANTS
    Grain = 2
    AddrSpace = 6
    NumSlots = 3
    MaxHandles = 2
    Requests <- MCRequests
    HandleArgs <- MCHandleArgs
    OSEntries <- LastOSEntry
PROPERTY FreeClears
CHECK_DEADLOCK FALSE
