SPECIFICATION Spec
CONSTANTS
  r1 = r1
  r2 = r2
  b1 = b1
  b2 = b2
  p1 = p1
  p2 = p2
  Refs = {r1, r2}
  Bodies = {b1, b2}
  NoRef = NoRef
  Phases = {p1, p2}
  Undeclared = Undeclared
  Failed = Failed
  DeleteThreshold = 50
  UpdateThreshold = 50
  MinExisting = 2
  FileLists <- MCFileLists
  LiveLists <- MCLiveLists
  DriftLists <- MCNoLists
  Selections <- MCSelections
  Excludes <- MCExcludes
  Forces = {TRUE, FALSE}
  MaxRuns = 1
  MaxTroubles = 0
PROPERTY NoHiddenDeletion
CHECK_DEADLOCK FALSE
