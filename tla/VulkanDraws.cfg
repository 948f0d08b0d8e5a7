SPECIFICATION Spec
CONSTANTS
    None = None
    StageCount = 1
    TextureKeys = {}
    TargetKeys = {ta}
    DrawSizes = {1}
    ClearFlags = {{"color", "depth"}}
    TextureSizes = {1}
    TargetSizes = {1}
    Pixels = {}
    Vertices = {v1}
    Indices = {i1}
    Configs = {c1}
    ClearValues = {z1}
    Tokens = {b1}
    MaxTextures = 1
    MaxTargets = 1
    MaxDescriptorSets = 2
    CombinerSlotCount = 1
    MaxStateBlocks = 1
    InitialStaging = 2
    MaxStaging = 2
    MaxCommands = 6
INVARIANTS
    AsCalled
    WellRecorded
