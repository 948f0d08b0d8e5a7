SPECIFICATION FairSpec
CONSTANTS
    e1 = e1
    w1 = w1
    b1 = b1
    c1 = c1
    c2 = c2
    NoEngine = NoEngine
    NoBank = NoBank
    NoCue = NoCue
    Engines <- MCEngines
    WaveBanks <- MCWaveBanks
    SoundBanks <- MCSoundBanks
    Cues <- MCCues
    Indexes = {1}
    AnyIndex = 0
    Capacity = 2
    Descriptions <- MCDescriptions
    MaxRefs = 2
    MaxRegistrations = 2
INVARIANTS
    EngineOutlivesBanks
    
PROPERTIES
    AutoreleaseReaped
