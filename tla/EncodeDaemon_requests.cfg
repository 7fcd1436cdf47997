\* Three clients, two workers, all the descriptors that they may need.
SPECIFICATION Spec
CONSTANTS
    Worker = {w1, w2}
    Clients = 3
    NoClient = NoClient
    MaxFd = 8
    Kinds = {"good", "unreachable", "no_dir"}
INVARIANTS
    TypeOK
    DescriptorsAreOwn
    OnlyJobsLeak
    ConnectionsAreKept
    ProperRequestsAreSafe
PROPERTIES
    RequestsAreServed
CHECK_DEADLOCK FALSE
