SPECIFICATION Spec
CONSTANTS
    BytesPerSector = 4
    SectorsPerCluster = 2
    LbaData = 5
    Fat <- Table
    Dir <- Volume
    Paths <- AllPaths
    Mounts = {"H"}
    DRIVERS_LENGTH = 1
    TooLong = {"longname.txt"}
    Lens <- UpToFile
    Seeks <- Offsets
    DirLens = {0}
    Junk = {0, 255}
    Word = 4096
PROPERTY
    ReadsFile
