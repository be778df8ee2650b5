SPECIFICATION FairSpec
CONSTANTS
    Lines = {0, 14}
    Faults = {0, 14}
    MaxDepth = 2
INVARIANTS
    TypeOK
    HandlersAtomic
    Dispatched
    ExceptionIsFinal
PROPERTY
    Served
CHECK_DEADLOCK FALSE
