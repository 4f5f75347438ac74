SPECIFICATION SwapchainSpec
CONSTANTS
  Kinds = {"image"}
  Empty = Empty
  NoHandle = NoHandle
  MaxSlots = 1
  MaxCreated = 1
  MaxFailures = 0
  MaxSwapchains = 1
  ImageCount = 2
  RefreshInterval = 3
INVARIANT
  OnePresentPerInterval
