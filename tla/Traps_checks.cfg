SPECIFICATION Spec
CONSTANTS
    Code <- MCCode
    NumCalls = 2
PROPERTY CheckDecides
CHECK_DEADLOCK FALSE
