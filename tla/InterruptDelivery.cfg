SPECIFICATION IntFairSpec
CONSTANTS
    t1 = t1
    audio = audio
    d1 = d1
    d2 = d2
    i1 = i1
    i2 = i2
    NoDpc = NoDpc
    NoInterrupt = NoInterrupt
    Threads <- MCThreads
    Configurers <- MCConfigurers
    Devices <- MCDevices
    Serves <- MCServes
    Dpcs <- MCDpcs
    Valid <- MCValid
    Interrupts <- MCInterrupts
    LevelOf <- MCLevelOf
    MaxCalls = 1
INVARIANTS
    NoNesting
    OneLateCall
PROPERTIES
    StartsBelowDispatch
    PendingTaken
    
CHECK_DEADLOCK FALSE
