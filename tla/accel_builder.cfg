SPECIFICATION Spec
CONSTANTS
  frames_in_flight = 2
  Transforms = {t1}
  None = None
  MaxFrames = 4
  MaxBlases = 2
  MaxInstances = 2
  MaxCalls = 4
  MaxFailures = 1
INVARIANT HandlesResolve
INVARIANT DestroyedOnce
INVARIANT FramesUseLive
PROPERTY ChangesAreBuilt
