SPECIFICATION Spec
CONSTANTS
    BytesPerSector = 4
    SectorsPerCluster = 2
    LbaData = 5
    Fat <- TableAcross
    Dir <- Volume
    Paths <- AllPaths
    Mounts = {"H"}
    DRIVERS_LENGTH = 1
    TooLong = {"longname.txt"}
    Lens <- UpToCluster
    Seeks <- Offsets
    DirLens = {0}
    Junk = {0, 16, 255}
    Word = 4096
PROPERTY
    ReadsFile
