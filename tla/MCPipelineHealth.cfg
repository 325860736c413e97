\* Is every cached whisper model listed by /health?
SPECIFICATION Spec
CONSTANTS
  r1 = r1
  r2 = r2
  Requests = {r1, r2}
  Limit = 1
  Nobody = Nobody
  Models <- SomeModels
  Path <- SomePaths
  Type <- SomeTypes
  Preload <- SomePreload
  Inputs <- JobInputs
INVARIANT
  CachedIsListed
CHECK_DEADLOCK FALSE
