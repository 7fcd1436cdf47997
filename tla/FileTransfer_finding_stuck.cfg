\* A refused request of a daemon worker, larger than the socket buffers.
SPECIFICATION Spec
CONSTANTS
    Byte <- MCBytes
    Zero = 0
    FILE_BUF_SIZE = 2
    SockBuf = 3
    DiskRoom = 4
    Sizes = {4}
    SrcFiles <- MCEmptyFiles
    OldFiles <- MCOld
    ClientExits = FALSE
    Faults = {}
PROPERTIES
    WorkersReturn
CHECK_DEADLOCK FALSE
