SPECIFICATION Spec
CONSTANTS
  Capacity = 1
  MaxSends = 3
  MaxRecvs = 4
INVARIANTS
  AcceptedIsDelivered
  NobodyWaitsInVain
  FifoWithoutCancelledReceives
PROPERTIES
  ClosedMeansDrained
