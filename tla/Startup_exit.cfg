SPECIFICATION Spec
CONSTANTS
    NumSlots = 2
    NumJumps = 2
    Targets <- MCTargets
INVARIANT LinkerExits
CHECK_DEADLOCK FALSE
