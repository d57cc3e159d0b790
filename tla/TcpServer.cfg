SPECIFICATION Spec
CONSTANTS
    Conns = {p1, p2}
    NULL = NULL
    Blocks = {b1, b2}
    QueueLen = 3
    MaxCmds = 3
    MaxAsync = 1
INVARIANTS
    HeapExact
    ClientIsLive
    BusyHasWitness
PROPERTIES
    CommandsInOrder
    FramesInOrder
    CommandsServed
    FramesLeave
CHECK_DEADLOCK TRUE
