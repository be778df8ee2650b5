SPECIFICATION LoadersSpec
CONSTANTS
    Chain <- Single
    Entries <- Clusters
    Paths <- SomePaths
    Refused = {"long"}
    MaxCalls = 3
    \* Sectors of eight bytes, two of them a cluster, and two directory entries in
    \* a sector.
    BytesPerSector = 8
    SectorsPerCluster = 2
    ReservedSectors = 1
    SectorsPerFat = 3
    Root <- SomeRoot
    EntrySize = 4
    Fats <- Tables
    Geometries <- SomeDrives
    SectorField = 8
    CylinderByte = 4
    AfterBuffer = {0, 255}
    Segment = 64
    \* INIT.BIN has room for two clusters, which it needs.
    InitOffset = 8
    StackEnd = 40
    Clear16 = FALSE
    MemoryMaps <- SomeMaps
    Objects <- SomeObjects
    Base = 20
    Word = 64
    \* Entries of four characters, two of them the extension.
    FAT12_FILENAME_LENGTH = 4
    FAT12_EXTENSION_LENGTH = 2
    Files <- SomeFiles
    Directories <- SomeDirectories
    Components <- SomeComponents
    AfterName = {"A", "X"}
INVARIANTS
    LoadersTypeOK
    LoadedRight
    PathsLead
PROPERTIES
    Released
    LoadedInTheEnd
CHECK_DEADLOCK FALSE
