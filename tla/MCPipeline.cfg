\* Two requests of every kind, one place in the queue, one model preloaded.
SPECIFICATION FairSpec
CONSTANTS
  r1 = r1
  r2 = r2
  Requests = {r1, r2}
  Limit = 1
  Nobody = Nobody
  Models <- SomeModels
  Path <- SomePaths
  Type <- SomeTypes
  Preload <- SomePreload
  Inputs <- AllInputs
INVARIANTS
  CurrentRequestExact
  ListedIsCached
  LoadedOnce
  ReplyIsTrue
PROPERTIES
  UnloadFreesEverything
  EveryRequestAnswered
CHECK_DEADLOCK FALSE
