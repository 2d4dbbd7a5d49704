CONSTANTS
  e1 = e1  s1 = s1  s2 = s2
  Endpoints = {e1}
  Entities = {}
  Services = {s1, s2}
  Fallback = {e1, s2}
  Covers <- MCCovers
  Listings <- MCListings
  MaxLoops = 3
  MaxOutside = 1
  MaxFaults = 1
SPECIFICATION Spec
INVARIANTS TypeOK DefinedOnce RepairsDelivered EvaluatorAgrees
PROPERTIES RepairsKeepDeclared
CHECK_DEADLOCK FALSE
