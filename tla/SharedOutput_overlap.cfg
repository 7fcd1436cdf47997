\* Three jobs write to one path, in any overlap.
SPECIFICATION Spec
CONSTANTS
    j1 = j1
    j2 = j2
    j3 = j3
    a = a
    b = b
    c = c
    Job = {j1, j2, j3}
    NoJob = NoJob
    Source <- MCSource
    FILE_BUF_SIZE = 2
    Zero = Zero
    Byte <- MCBytes
INVARIANTS
    TypeOK
    LastOkMeansComplete
    NothingOlderSurvives
CHECK_DEADLOCK FALSE
