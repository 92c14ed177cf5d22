SPECIFICATION FairSpec
CONSTANTS
  Tasks = {t1, t2}
  Failable = {t1}
  Threads = {a, b}
  None = None
  Dummy = Dummy
INVARIANTS
  PolledFrameIsOwned
  DroppedAtMostOnce
  SubscribersAreWoken
PROPERTIES
  CancelledFrameIsRetired
  WakesAreDelivered
