SPECIFICATION EngineSpec
CONSTANTS
  Types <- ComputeOnly
  Compute = "compute"
  QueueOf <- Separate
  MaxSubmissions = 2
  Readers = {}
  MaxInfos = 1
  MaxFailures = 0
  Kinds <- BuffersOnly
  Names = {}
  NoName = ""
  frames_in_flight = 2
  initial_bindless_capacity = 1
  max_capacity <- OneSlot
  MaxFrames = 3
  MaxResources = 1
  MaxRegistrations = 1
  MaxSetFailures = 0
INVARIANTS
  FrameWorkTablesSound
