SPECIFICATION Spec
CONSTANTS
    Grain = 2
    AddrSpace = 6
    NumSlots = 2
    MaxHandles = 2
    Requests <- MCRequests
    HandleArgs <- MCHandleArgs
    OSEntries <- NoOSEntries
PROPERTY GetReportsMissing
CHECK_DEADLOCK FALSE
