SPECIFICATION Spec
CONSTANTS
  Jobs = {j1, j2}
  Workers = {w1, w2}
  RetryLimit = 3
  Modes = {"json", "sql"}
  MaxCrashes = 1
  MaxDbFaults = 0
SYMMETRY Symmetry
INVARIANTS
  TypeOK
  SingleCopy
  DeadLettersExact
  AttemptsCounted
PROPERTIES
  KeepsPromise
