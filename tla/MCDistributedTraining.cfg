SPECIFICATION FairSpec
CONSTANTS
  Workers = {w1, w2}
  Steps = 3
  MaxConns = 3
  Attempts = 3
  MaxBreaks = 1
  None = None
INVARIANTS
  ReplicasAgree RoundIsUniform LockStep
PROPERTIES OnlyDivergenceIsRefused TrainingCompletes WorkersEnd
CHECK_DEADLOCK FALSE
