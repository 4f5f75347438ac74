SPECIFICATION Spec
CONSTANTS
  Kinds <- BuffersOnly
  Names = {"name"}
  NoName = ""
  frames_in_flight = 2
  initial_bindless_capacity = 1
  max_capacity <- BuffersGrow
  MaxFrames = 4
  MaxResources = 2
  MaxRegistrations = 3
  MaxSetFailures = 1
INVARIANTS
  SlotAccounting
  TablesTrackSlots
PROPERTIES
  HandlesSound
  ReleasedOnTime
CONSTRAINT
  FewerAfterFailure
