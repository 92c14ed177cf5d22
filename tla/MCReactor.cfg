CONSTANTS
  Pollers = {p1}
  Bounded = {}
  Sources = {s1}
  Timers = {k1, k2}
  MaxEvents = 2
  MaxResets = 1
  None = None
SPECIFICATION Spec
INVARIANTS
  QueuedTimersAreCurrent
  ParkedPollerIsWoken
CHECK_DEADLOCK FALSE
