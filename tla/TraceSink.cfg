SPECIFICATION FairSinkSpec
CONSTANTS
    Capacity = 4
    Sizes <- MCSizes
    Buffers <- MCBuffers
    MaxPushes = 3
    DrainCapacity = 2
    MaxUnregistered = 1
    MaxFailures = 1
INVARIANTS
    Intact
    Accounted
    Settled
PROPERTIES
    ImplementsQueue
    Served
CHECK_DEADLOCK FALSE
