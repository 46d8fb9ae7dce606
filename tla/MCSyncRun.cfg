SPECIFICATION Spec
CONSTANTS
  ZoneCount = 3
  DryRun <- MCDryRun
  WorkerLimits = {1, 2}
INVARIANTS
  GatedWrites
  ExitZeroMeansApplied
  FailuresAreIsolated
  AuditTruthful
PROPERTIES
  QuietAtExit
  Terminates
CHECK_DEADLOCK FALSE
