SPECIFICATION Spec
CONSTANTS
  N = 7
  Stages = 4
  StageOf <- MCStageOf
  Collected <- MCCollected
  WorkerLimits = {1, 2}
INVARIANTS
  TruthfulReport
  TruthfulVerdict
PROPERTIES
  CancelIsFinal
  Terminates
  KeepsContract
CHECK_DEADLOCK FALSE
