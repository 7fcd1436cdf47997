\* A refusal of which the first read brings a part only.
SPECIFICATION Spec
CONSTANTS
    Byte <- MCBytes
    Zero = 0
    FILE_BUF_SIZE = 2
    SockBuf = 3
    DiskRoom = 4
    Sizes = {3}
    SrcFiles <- MCRefusedFiles
    OldFiles <- MCOld
    ClientExits = FALSE
    Faults = {"split_header"}
INVARIANTS
    RefusalEndsTheJob
CHECK_DEADLOCK FALSE
