SPECIFICATION MCSpec
CONSTANTS
  j1 = j1
  j2 = j2
  p1 = p1
  c1 = c1
  k1 = k1
  NoJob = NoJob
  Jobs <- TwoJobs
  Clients <- OneClient
  Pollers <- OnePoller
  Permits <- OnePermit
  MaxAttempts = 2
  MaxCrashes = 2
INVARIANT SoundAfterRestart
 
PROPERTY RestartKeeps
CHECK_DEADLOCK FALSE
