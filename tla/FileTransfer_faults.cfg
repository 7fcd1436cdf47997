\* Everything that may go wrong, except a HEADER that is read in parts.
SPECIFICATION Spec
CONSTANTS
    Byte <- MCBytes
    Zero = 0
    FILE_BUF_SIZE = 2
    SockBuf = 3
    DiskRoom = 4
    Sizes = {0, 3, 4}
    SrcFiles <- MCChangingFiles
    OldFiles <- MCOld
    ClientExits = TRUE
    Faults <- MCAllFaults
INVARIANTS
    TypeOK
    OutputIsPrefix
    ResultIsHonest
PROPERTIES
    ImplementsFileCopy
CHECK_DEADLOCK FALSE
