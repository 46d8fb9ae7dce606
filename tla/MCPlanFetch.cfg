SPECIFICATION Spec
CONSTANTS
  Hooks <- MCHooks
  Fetches <- MCFetches
  Backgrounds <- MCBackgrounds
  WorkerLimits = {1, 2}
INVARIANTS
  FetchIsAccounted
  PlanIsComplete
  QuietAfterReturn
PROPERTIES
  Terminates
CHECK_DEADLOCK FALSE
