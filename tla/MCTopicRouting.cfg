SPECIFICATION Spec
CONSTANTS
  w1 = w1
  w2 = w2
  w3 = w3
  a = a
  b = b
  h1 = h1
  h2 = h2
  h3 = h3
  h4 = h4
  f = f
  t = t
  NoWorker = NoWorker
  NoId = NoId
  NoRoute = NoRoute
  NoHandle = NoHandle
  Workers <- TwoWorkers
  Ids <- TwoTriggers
  Routes <- OneRoute
  RouteOf <- OneFunction
  Topics <- OneTopic
  TopicOf <- TopicOfRoute
  Handles <- FourHandles
INVARIANT MissedNeedsOverlap
INVARIANT LoopsHeld
INVARIANT SettledAgree
SYMMETRY Symmetry
CHECK_DEADLOCK FALSE
