SPECIFICATION FairSpec
CONSTANTS
  MaxRetries = 2
  ArtifactCount = 2
  DecisionCount = 2
  MaxRuns = 2
INVARIANTS
  TypeOK
  TrailTruthful
  SuccessMeansPersisted
  RetriesExact
PROPERTIES
  RunEnds
CHECK_DEADLOCK FALSE
