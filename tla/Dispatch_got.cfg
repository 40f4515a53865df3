SPECIFICATION Spec
CONSTANTS
    Layouts <- NotRelinked
    LibcStart = 1
    Start = 105
    PltHeader = 2
INVARIANT PltFound
CHECK_DEADLOCK FALSE
