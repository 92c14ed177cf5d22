SPECIFICATION Spec
CONSTANTS
  Clients = {b1}
  Futures = {f1, f2}
  Conns = {c1, c2}
  MinSize = 0
  MaxSize = 1
  None = None
  Err = Err
INVARIANTS
  OnePlace
  TotalIsExact
  ShutdownIsNotHeld
  QueuedHoldsNoLease
  SleepsOnlyPastAMiss
  AnswerIsOwed
SYMMETRY Symmetry
