SPECIFICATION Spec
CONSTANTS
    Mmap <- TwoRegions
    KernelEnd = 1
    Header = 2
    Request = {0,1,2,4,7}
INVARIANTS
    Backed
CHECK_DEADLOCK FALSE
