SPECIFICATION FairSpec
CONSTANTS
    t1 = t1
    t2 = t2
    t3 = t3
    launcher = launcher
    guest = guest
    None = None
    Threads <- MCThreads
    Processes <- MCProcesses
    ProcessOf <- MCProcessOf
    MaxDepth = 2
INVARIANTS
    MutualExclusion
PROPERTIES
    SomeoneEnters
    Implements
