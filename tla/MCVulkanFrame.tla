--------------------------- MODULE MCVulkanFrame ---------------------------
EXTENDS VulkanFrame, TLC

KeySymmetry == Permutations(TextureKeys)
TargetSymmetry == Permutations(TargetKeys)
=============================================================================
