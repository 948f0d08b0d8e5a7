SPECIFICATION FairSpec
CONSTANTS
    t1 = t1
    t2 = t2
    t3 = t3
    NoThread = NoThread
    Threads <- MCThreads
    First = t1
    Creations = {TRUE}
    MaxCount = 2
INVARIANTS
    SuspendedIsCounted
    StoppedOutside
PROPERTIES
    ResumeReturns
CHECK_DEADLOCK FALSE
