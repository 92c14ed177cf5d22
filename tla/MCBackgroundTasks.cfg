CONSTANTS
  Jobs = {t1, t2, t3}
  Workers = {w1, w2}
  QueueBound = 1
  NoJob = NoJob
SPECIFICATION FairSpec
INVARIANTS
  RunningWorkHearsCancel
  RefusedLeavesNothing
PROPERTIES
  PendingIsSettled
