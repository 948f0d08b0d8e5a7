SPECIFICATION Spec
CONSTANTS
    None = None
    StageCount = 1
    TextureKeys = {}
    TargetKeys = {ta, tb}
    DrawSizes = {1}
    ClearFlags = {{"color"}}
    TextureSizes = {1}
    TargetSizes = {1, 2}
    Pixels = {}
    Vertices = {v1}
    Indices = {}
    Configs = {}
    ClearValues = {z1}
    Tokens = {}
    MaxTextures = 1
    MaxTargets = 2
    MaxDescriptorSets = 2
    CombinerSlotCount = 1
    MaxStateBlocks = 1
    InitialStaging = 2
    MaxStaging = 2
    MaxCommands = 4
INVARIANTS
    AsCalled
    OneEntryPerKey
SYMMETRY TargetSymmetry
