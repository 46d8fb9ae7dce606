SPECIFICATION MCSpec
CONSTANTS
  r1 = r1
  r2 = r2
  r3 = r3
  b1 = b1
  b2 = b2
  Refs = {r1, r2, r3}
  Bodies = {b1, b2}
  NoRef = NoRef
  Phases = {p1}
  Undeclared = Undeclared
  Failed = Failed
  DeleteThreshold = 30
  UpdateThreshold = 30
  MinExisting = 3
  FileLists <- MCFileLists
  LiveLists <- MCLiveLists
  DriftLists <- MCNoLists
  Selections <- MCSelections
  Excludes <- MCExcludes
  Forces <- MCForces
  MaxRuns = 1
  MaxTroubles = 0
  FileStates <- MCFileStates
  LiveStates <- MCLiveStates
  MaxEdits = 2
INVARIANTS
  Converged
PROPERTIES
  WritesMatchPlan
  IgnoredUntouched
  ReplacesWholeLists
  AppliedAsReviewed
CHECK_DEADLOCK FALSE
