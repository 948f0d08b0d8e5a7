SPECIFICATION Spec
CONSTANTS
    Threads = {t1, t2}
    BufferBytes = 3
    PacketCapacity = 2
    Sizes <- MCSizes
    CallbackCalls = {"process", "flush"}
    MaxPackets = 2
    MaxDepth = 2
    MaxOverrun = 2
    MaxFailures = 1
SYMMETRY Symmetry
INVARIANTS
    OwnedOnce
    UnheardIntact
    QueuedPlays
PROPERTIES
    
    QueuedAhead
CHECK_DEADLOCK FALSE
