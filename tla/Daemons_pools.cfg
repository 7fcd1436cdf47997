\* Three jobs of any kind, two workers in each daemon.
SPECIFICATION Spec
CONSTANTS
    EncodeWorker = {e1, e2}
    ContentWorker = {k1, k2}
    Jobs = 3
    NoJob = NoJob
    Size = 2
    SockBuf = 1
INVARIANTS
    TypeOK
    SendersHaveReaders
    WaitsAreAnswered
PROPERTIES
    EncodeWorkersReturn
    LosesOneWorkerPerRefusal
    DeathFreesWorkers
CHECK_DEADLOCK FALSE
