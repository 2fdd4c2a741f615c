SPECIFICATION MCFairSpec
CONSTANTS
  i1 = i1
  k1 = k1
  k2 = k2
  v1 = v1
  v2 = v2
  c1 = c1
  c2 = c2
  l1 = l1
  l2 = l2
  NoValue = NoValue
  NoMap = NoMap
  Torn = Torn
  NoIndex = NoIndex
  Indexes <- OneIndex
  Keys <- OneKey
  Values <- TwoValues
  Writers <- TwoWriters
  Loops <- TwoLoops
INVARIANT FileIsWhole
INVARIANT IdleIsSaved
PROPERTY SavedAtLast
CHECK_DEADLOCK FALSE
