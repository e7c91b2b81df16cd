CONSTANTS
  NImages = 2
  MaxSwaps = 1
  MaxDevices = 1
  MaxBuilds = 1
  Faults = {"begin"}
SPECIFICATION Spec
INVARIANT PresentNeverHangs
CHECK_DEADLOCK FALSE
