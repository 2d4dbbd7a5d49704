SPECIFICATION FairSpec
CONSTANTS
  Jobs = {j1}
  Workers = {w1, w2}
  RetryLimit = 3
  Modes = {"sql"}
  MaxCrashes = 0
  MaxDbFaults = 0
PROPERTIES
  EveryJobSettles
