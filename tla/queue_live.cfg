SPECIFICATION FairSpec
CONSTANTS
  Jobs = {j1, j2}
  Workers = {w1, w2}
  RetryLimit = 1
  Modes = {"json"}
  MaxCrashes = 1
  MaxDbFaults = 1
INVARIANTS
  LossBounded
PROPERTIES
  EveryJobSettles
