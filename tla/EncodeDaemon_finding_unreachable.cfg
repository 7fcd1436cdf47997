\* Two requests, one of them for a content server that cannot be reached.
SPECIFICATION Spec
CONSTANTS
    Worker = {w1, w2}
    Clients = 2
    NoClient = NoClient
    MaxFd = 8
    Kinds = {"good", "unreachable"}
INVARIANT BadRequestsAreContained
CHECK_DEADLOCK FALSE
