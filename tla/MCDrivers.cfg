SPECIFICATION DriversSpec
CONSTANTS
    PCI_MAX_BUSES = 2
    PCI_MAX_DEVICES = 2
    PCI_MAX_FUNCTIONS = 3
    Shapes <- AllShapes
    Absent = {0, 255}
    \* A screen of two columns and three rows, with one letter printed and another
    \* typed, and a smaller one that echoes interrupt.
    Width = 2
    Text = {"a", "NEWLINE"}
    Silent = {"RELEASE"}
    CrtcByte = 2
    Height = 3
    Attributes = {"DEFAULT", "RED"}
    Printing = {"k"}
    NestedHeight = 2
    NestedAttributes = {"DEFAULT"}
    NestedPrinting = {"a"}
    Instants <- Seconds
    Modes <- AllModes
    \* Messages of three characters.
    Length = 3
    Messages = 4
    \* Sectors of two words, bytes of four values, and addresses that use all four
    \* of the registers an address is put in.
    Connected <- Drives
    Words = 2
    AtaByte = 4
    Lbas = {0, 3, 6, 27, 70, 1023}
    Counts <- UpTo4
    \* Of a configuration, bits 0 (interrupts), 2 (tested), 4 (keyboard disabled)
    \* and 6 (translation).
    Configurations = {69, 68, 84, 85}
    Mapped = {2, 48}
    Unmapped = {75}
    MaxKeys = 3
INVARIANTS
    DriversTypeOK
    Enumerates
    CursorTrue
    LogTrue
    KeysTrue
PROPERTIES
    DiskRead
    ShowsRows
    Answered
CHECK_DEADLOCK FALSE
