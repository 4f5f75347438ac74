SPECIFICATION Spec
CONSTANTS
  Types <- MCTypes
  Compute = "compute"
  QueueOf <- Separate
  Readers <- NoReaders
  frames_in_flight = 2
  MaxFrames = 3
  MaxSubmissions = 3
  MaxInfos = 1
  MaxFailures = 1
INVARIANTS
  HostWaitsReachable
CHECK_DEADLOCK FALSE
