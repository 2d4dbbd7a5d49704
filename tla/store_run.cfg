SPECIFICATION Spec
CONSTANTS
  Writers = {w1, w2}
  Records = {r1, r2, r3, r4}
  Paths = {p1}
  Modes = {"sql", "json"}
  MaxFaults = 1
SYMMETRY Interchangeable
INVARIANTS
  TypeOK
  LossExplained
  VersionsUnique
CHECK_DEADLOCK FALSE
