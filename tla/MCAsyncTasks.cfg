CONSTANTS
  MaxTasks = 2
  MaxScopes = 2
  MaxTime = 1
  Delays = {0, 1}
  MaxFailures = 1
SPECIFICATION Spec
CONSTRAINT FewFailures
INVARIANTS
  ScopeMembership
  CancelledWrapperTakesInner
  JoinOrdersAreDense
PROPERTIES
  CancelReachesChildren
