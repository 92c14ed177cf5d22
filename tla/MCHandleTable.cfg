CONSTANTS
  MaxGeneration = 2
  MaxInserts = 5
  SlotRadix = 8
SPECIFICATION Spec
INVARIANTS
  StaleHandleNeedsWrap
PROPERTIES
  ImplementsMap
