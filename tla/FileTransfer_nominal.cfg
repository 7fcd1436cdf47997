\* A transfer that nothing disturbs, for a worker of the daemon.
SPECIFICATION Spec
CONSTANTS
    Byte <- MCBytes
    Zero = 0
    FILE_BUF_SIZE = 2
    SockBuf = 3
    DiskRoom = 4
    Sizes = {0, 1, 2, 3, 4}
    SrcFiles <- MCPresentFiles
    OldFiles <- MCOldFiles
    ClientExits = FALSE
    Faults = {}
INVARIANTS
    NeverAborted
    EndSignalReceived
    SendsOnlyWhenReady
PROPERTIES
    TransferCompletes
CHECK_DEADLOCK FALSE
