SPECIFICATION Spec
CONSTANTS
  j1 = j1
  j2 = j2
  j3 = j3
  p1 = p1
  p2 = p2
  c1 = c1
  c2 = c2
  k1 = k1
  k2 = k2
  NoJob = NoJob
  Jobs <- TwoJobs
  Clients <- OneClient
  Pollers <- TwoPollers
  Permits <- OnePermit
  MaxAttempts = 2
INVARIANT ActiveExact
PROPERTY ImplementsLifecycle
SYMMETRY Symmetry
CHECK_DEADLOCK FALSE
