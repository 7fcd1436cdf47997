\* Three connections, three workers.
SPECIFICATION Spec
CONSTANTS
    Worker = {w1, w2, w3}
    NoItem = NoItem
    Garbage = Garbage
    Connections = 3
INVARIANTS
    TypeOK
    MutualExclusion
    EnoughAwake
    OneOwner
PROPERTIES
    EveryItemIsServed
    ImplementsFifo
CHECK_DEADLOCK FALSE
