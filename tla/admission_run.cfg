SPECIFICATION Spec
CONSTANTS
  u1 = u1
  t1 = t1
  t2 = t2
  w1 = w1
  w2 = w2
  j1 = j1
  j2 = j2
  j3 = j3
  Users <- MCUsers
  Threads <- MCThreads
  Workers <- MCWorkers
  Jobs <- MCJobs
  Quota <- MCQuota
  RateLimit = 2
  QueueLimit = 1
  MaxFaults = 1
  MaxMinutes = 1
  MaxPeriods = 1
SYMMETRY Interchangeable
INVARIANTS
  TypeOK
  FloodBounded
  NotOvercharged
  CostFollowsJob
CHECK_DEADLOCK FALSE
