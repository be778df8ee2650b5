SPECIFICATION RegionsSpec
CONSTANTS
    Mmap <- OneRegion
    KernelEnd = 1
    Header = 2
    Request = {0, 1, 2, 4}
INVARIANTS
    TypeOK
    ChainIntact
    
    Backed
    FreedIsWhole
PROPERTY
    Allocates
CHECK_DEADLOCK FALSE
