SPECIFICATION MCSpec
CONSTANTS
  a1 = a1
  a2 = a2
  a3 = a3
  b1 = b1
  p1 = p1
  c1 = c1
  c2 = c2
  k1 = k1
  k2 = k2
  A = A
  B = B
  NoJob = NoJob
  Group <- GroupOf
  DefaultGroup = A
  Jobs <- TwoAndOne
  Clients <- TwoClients
  Pollers <- OnePoller
  Permits <- TwoPermits
  MaxAttempts = 2
PROPERTY ImplementsFifo
INVARIANT OneTaskPerGroup
INVARIANT OnePlace
INVARIANT AttemptsAgree
INVARIANT FifoOrder
PROPERTY JobsSettle
CHECK_DEADLOCK FALSE
