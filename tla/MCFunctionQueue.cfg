SPECIFICATION QuietSpec
CONSTANTS
  j1 = j1
  j2 = j2
  j3 = j3
  g1 = g1
  g2 = g2
  c1 = c1
  k1 = k1
  k2 = k2
  d1 = d1
  d2 = d2
  d3 = d3
  d4 = d4
  d5 = d5
  NoJob = NoJob
  NoDelivery = NoDelivery
  Deliveries <- FiveDeliveries
  Jobs <- TwoJobs
  Clients <- OneClient
  Pollers <- TwoGenerations
  Permits <- OnePermit
  MaxAttempts = 2
INVARIANT OneOwner
INVARIANT EntriesAnswered
INVARIANT DoubleRunNeedsRestart
INVARIANT AttemptsExact
 
CHECK_DEADLOCK FALSE
