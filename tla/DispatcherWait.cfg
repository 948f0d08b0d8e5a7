SPECIFICATION FairSpec
CONSTANTS
    w1 = w1
    w2 = w2
    s1 = s1
    note = note
    sync = sync
    sema = sema
    Waiters <- MCWaiters
    Signallers <- MCSignallers
    Objects <- MCObjects
    Kind <- MCKind
    Limit <- MCLimit
    Adjustments <- MCAdjustments
    Requests <- MCRequests
INVARIANTS
    TookAsAnswered
PROPERTIES
    EventWakesWaiter
    
