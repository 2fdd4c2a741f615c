SPECIFICATION MCSpec
CONSTANTS
  w1 = w1
  w2 = w2
  f1 = f1
  f2 = f2
  s1 = s1
  NoWorker = NoWorker
  NoFunction = NoFunction
  Workers <- TwoWorkers
  Functions <- TwoFunctions
  Services <- OneService
  ServiceOf <- SameService
INVARIANT OwnerServes
INVARIANT GoneOwnsNothing
INVARIANT GoneServesNothing
INVARIANT OwnedIsListed
SYMMETRY Symmetry
CHECK_DEADLOCK FALSE
