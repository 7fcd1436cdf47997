\* Any read may return a part of a message, the network may reset, either side may give up.
SPECIFICATION Spec
CONSTANTS
    Byte <- MCBytes
    Zero = 0
    FILE_BUF_SIZE = 2
    SockBuf = 3
    DiskRoom = 4
    Sizes = {3}
    SrcFiles <- MCAnyFiles
    OldFiles <- MCSmallOldFiles
    ClientExits = TRUE
    Faults = {"split_header", "split_info", "timeout", "reset", "crash", "no_dir", "src_change"}
INVARIANTS
    RefusalRespected
PROPERTIES
    WorkersReturn
CHECK_DEADLOCK FALSE
