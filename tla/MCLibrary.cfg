SPECIFICATION LibrarySpec
CONSTANTS
    Addr = {16, 32, 48, 64}
    Values = {1, 2}
    Ram <- SomeRam
    Contexts = {c1, c2, c3, c4}
    Junk <- SomeJunk
    Word = 4096
    HexDigits = 3
    Short <- AllShort
    Long <- SomeLong
    Tokens <- SomeTokens
    Tails <- SomeTails
    MaxTokens = 3
INVARIANTS
    LibraryTypeOK
    Locks
    Printed
PROPERTIES
    ListRight
    Terminates
CHECK_DEADLOCK FALSE
