SPECIFICATION FairSpec
CONSTANTS
  MaxLoops = 3
  MaxAttempts = 2
  MaxFaults = 1
INVARIANTS
  TypeOK
  ReportsFresh
  ViewSound
  FailureShows
PROPERTIES
  KeepsWorkflow
  RerouteJustified
  AttemptEnds
CHECK_DEADLOCK FALSE
