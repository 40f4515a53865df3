SPECIFICATION Spec
CONSTANTS
    Layouts <- MCLayouts
    LibcStart = 1
    Start = 105
    PltHeader = 2
INVARIANTS TypeOK PairsAgree AreasMatchSegments LandsHome Mediated CallsArrive
CHECK_DEADLOCK FALSE
