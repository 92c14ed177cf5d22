SPECIFICATION FairSpec
CONSTANTS
  Workers = {w1, w2}
  Steps = 2
  MaxConns = 2
  Attempts = 2
  MaxBreaks = 0
  None = None
PROPERTIES
  LiveWorkerIsNotLost
CHECK_DEADLOCK FALSE
