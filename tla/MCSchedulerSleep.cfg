SPECIFICATION Spec
CONSTANTS
    Procs = {p1}
    KERNEL = KERNEL
    NULL = NULL
    Sleeps = {10, 50}
    Rate = 100
    Word = 4000
    Steps = 2
PROPERTY
    Punctual
