SPECIFICATION FairSpec
CONSTANTS
  Implementation = 2
  Validation = 3
  Repair = 4
  Learning = 5
  MaxLoops = 2
  MaxSandbox = 3
  MaxFaults = 1
  MaxCrashes = 1
  Databases = {TRUE, FALSE}
INVARIANTS
  TypeOK
  SpansTrue
  AccountsAgree
  LeaksBounded
  TraceTruthful
  StatusSynced
PROPERTIES
  TraceEnds
CHECK_DEADLOCK FALSE
