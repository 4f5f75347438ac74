SPECIFICATION EngineSpec
CONSTANTS
  Types <- ComputeOnly
  Compute = "compute"
  QueueOf <- Separate
  MaxSubmissions = 1
  Readers = {}
  MaxInfos = 1
  MaxFailures = 1
  Kinds <- BuffersOnly
  Names = {}
  NoName = ""
  frames_in_flight = 2
  initial_bindless_capacity = 1
  max_capacity <- TwoSlots
  MaxFrames = 4
  MaxResources = 1
  MaxRegistrations = 2
  MaxSetFailures = 1
INVARIANTS
  SubmissionsSound
  FrameTablesSound
  BegunFramesUsable
PROPERTIES
  TablesWrittenUnused
CHECK_DEADLOCK FALSE
