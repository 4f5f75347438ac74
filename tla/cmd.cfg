SPECIFICATION FairSpec
CONSTANTS
  Types <- MCTypes
  Compute = "compute"
  QueueOf <- Separate
  Readers <- ComputeOnly
  frames_in_flight = 2
  MaxFrames = 3
  MaxSubmissions = 3
  MaxInfos = 2
  MaxFailures = 1
INVARIANTS
  FramesSerialized
  FrameWorkFirst
  FrameSlotReusable
  ProgressReachable
PROPERTIES
  HostWaitsEnd
