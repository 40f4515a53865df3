SPECIFICATION LiveSpec
CONSTANTS
    NumSlots = 2
    NumJumps = 2
    Targets <- MCTargets
INVARIANTS TypeOK ProgramConfined LinkerPrepared
PROPERTY ProgramStarts
CHECK_DEADLOCK FALSE
