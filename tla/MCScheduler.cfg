SPECIFICATION LiveSpec
CONSTANTS
    Procs = {p1, p2, p3}
    KERNEL = KERNEL
    NULL = NULL
    Sleeps = {0, 10, 25}
    Rate = 100
    Word = 1000000
    Steps = 3
INVARIANTS
    TypeOK
    Resumes
    NoDangling
    WorkConserving
PROPERTIES
    Punctual
    AllServed
