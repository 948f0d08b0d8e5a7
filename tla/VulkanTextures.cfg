SPECIFICATION Spec
CONSTANTS
    None = None
    StageCount = 2
    TextureKeys = {ka, kb}
    TargetKeys = {tc}
    DrawSizes = {1}
    ClearFlags = {{"color"}}
    TextureSizes = {1, 2}
    TargetSizes = {1}
    Pixels = {p1}
    Vertices = {v1}
    Indices = {}
    Configs = {}
    ClearValues = {}
    Tokens = {b1}
    MaxTextures = 1
    MaxTargets = 0
    MaxDescriptorSets = 2
    CombinerSlotCount = 1
    MaxStateBlocks = 1
    InitialStaging = 1
    MaxStaging = 2
    MaxCommands = 4
INVARIANTS
    
    NothingDangles
SYMMETRY KeySymmetry
