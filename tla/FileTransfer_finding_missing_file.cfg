\* A request for a file that is not there.
SPECIFICATION Spec
CONSTANTS
    Byte <- MCBytes
    Zero = 0
    FILE_BUF_SIZE = 2
    SockBuf = 3
    DiskRoom = 4
    Sizes = {3}
    SrcFiles <- MCRefusedFiles
    OldFiles <- MCOld
    ClientExits = FALSE
    Faults = {}
INVARIANTS
    ContentDaemonSurvives
CHECK_DEADLOCK FALSE
