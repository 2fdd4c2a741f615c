SPECIFICATION MCFairSpec
CONSTANTS
  i1 = i1
  i2 = i2
  w1 = w1
  w2 = w2
  Engine = Engine
  Invocations <- TwoInvocations
  Workers <- TwoWorkers
INVARIANT RecordedWaits
INVARIANT StoppedMeansGone
INVARIANT HangNeedsRace
INVARIANT NotedInFlight
PROPERTY Answered
CHECK_DEADLOCK FALSE
