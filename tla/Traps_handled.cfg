SPECIFICATION LiveSpec
CONSTANTS
    Code <- MCCode
    NumCalls = 2
INVARIANTS TypeOK SyscallOnce FewFaults
PROPERTIES CallsMade ResumesNext SkipsOnlyDenied Progress
CHECK_DEADLOCK FALSE
