SPECIFICATION Spec
CONSTANTS
  MaxRetries = 2
  ArtifactCount = 2
  DecisionCount = 2
  MaxRuns = 1
INVARIANTS
  CleanupUnconditional
CHECK_DEADLOCK FALSE
