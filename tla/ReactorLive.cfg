CONSTANTS
  Pollers = {p1, p2}
  Bounded = {p1, p2}
  Sources = {s1}
  Timers = {k1}
  MaxEvents = 2
  MaxResets = 0
  None = None
SPECIFICATION FairSpec
PROPERTIES
  RegistrationProceeds
  BoundedPollReturns
  TimerIsDelivered
CHECK_DEADLOCK FALSE
