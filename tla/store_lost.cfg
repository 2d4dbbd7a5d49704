SPECIFICATION Spec
CONSTANTS
  Writers = {w1, w2}
  Records = {r1, r2}
  Paths = {p1}
  Modes = {"json"}
  MaxFaults = 0
INVARIANTS
  NothingLost
CHECK_DEADLOCK FALSE
