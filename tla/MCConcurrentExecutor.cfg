SPECIFICATION FairSpec
CONSTANTS
  t1 = t1
  b1 = b1
  w1 = w1
  w2 = w2
  j1 = j1
  j2 = j2
  Null = Null
  Tasks = {t1}
  Batches = {b1}
  Workers = {w1, w2}
  Joiners = {j1, j2}
  Count = 3
  MaxClears = 1
INVARIANTS
  JoinedValueIsTheResult
  BatchSumIsComplete
  ValueIsTakenOnce
  ParkedJoinerIsWoken
PROPERTIES
  JoinReturns
CHECK_DEADLOCK FALSE
