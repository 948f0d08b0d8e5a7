SPECIFICATION FairSpec
CONSTANTS
    p0 = p0
    p1 = p1
    main = main
    pads = pads
    NoPort = NoPort
    Ports <- MCPorts
    FallbackPort = p0
    Guests <- MCOneGuest
    Main = main
    MaxPlugs = 3
    MaxRestarts = 2
PROPERTIES
    HandleFollowsController
    ReportsComplete
    FallbackHides
    PluggedIsSeen
