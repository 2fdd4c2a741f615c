SPECIFICATION FairSpec
CONSTANTS
  j1 = j1
  j2 = j2
  j3 = j3
  p1 = p1
  p2 = p2
  c1 = c1
  c2 = c2
  k1 = k1
  k2 = k2
  NoJob = NoJob
  Jobs <- TwoJobs
  Clients <- OneClient
  Pollers <- OnePoller
  Permits <- TwoPermits
  MaxAttempts = 2
INVARIANT OnePlace
INVARIANT OneHandler
INVARIANT AttemptsExact
INVARIANT LossNeedsRace
PROPERTY HandledOnce
PROPERTY JobsSettle
CHECK_DEADLOCK FALSE
