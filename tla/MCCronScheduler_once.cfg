SPECIFICATION Spec
CONSTANTS
  e1 = e1
  e2 = e2
  s1 = s1
  s2 = s2
  s3 = s3
  b1 = b1
  b2 = b2
  j1 = j1
  j2 = j2
  NoEngine = NoEngine
  NoScheduler = NoScheduler
  NoJob = NoJob
  Engines <- TwoEngines
  Schedulers <- TwoSchedulers
  Backends <- OneBackend
  Jobs <- OneJob
  First <- FirstOfTwo
  MaxTick = 2
INVARIANT OncePerRun
CHECK_DEADLOCK FALSE
