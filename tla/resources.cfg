SPECIFICATION ResourcesSpec
CONSTANTS
  Kinds = {"buffer", "image"}
  Empty = Empty
  NoHandle = NoHandle
  MaxSlots = 2
  MaxCreated = 3
  MaxFailures = 2
  MaxSwapchains = 3
  ImageCount = 2
  RefreshInterval = 2
  Bindings = {0, 1}
  MaxLayouts = 1
  MaxSets = 1
  MaxSetCount = 2
  MaxDescriptors = 2
INVARIANTS
  WritesAsDeclared
  SlotsSuffice
  SwapchainWhole
PROPERTIES
  RefinesResourceStore
  ResizeKeepsResources
