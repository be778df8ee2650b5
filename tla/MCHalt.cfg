SPECIFICATION Spec
CONSTANTS
    Lines = {0}
    Faults = {}
    MaxDepth = 1
PROPERTY
    HaltIsFinal
CHECK_DEADLOCK FALSE
