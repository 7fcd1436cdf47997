\* The output file system is full after two units.
SPECIFICATION Spec
CONSTANTS
    Byte <- MCBytes
    Zero = 0
    FILE_BUF_SIZE = 2
    SockBuf = 3
    DiskRoom = 2
    Sizes = {3}
    SrcFiles <- MCWholeFiles
    OldFiles <- MCSmallOldFiles
    ClientExits = FALSE
    Faults = {}
INVARIANTS
    ResultIsHonest
CHECK_DEADLOCK FALSE
