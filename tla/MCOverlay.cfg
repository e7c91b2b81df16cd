CONSTANTS
  NImages = 2
  MaxSwaps = 3
  MaxDevices = 2
  MaxBuilds = 4
  Faults <- AllFaults
SPECIFICATION FairSpec
INVARIANTS
  TypeOK
  TargetsNewestSwapchain
  WaitsOnlyForDroppedFrames
  GameSemaphoresWaitedOnce
  OneInjectorPerSwapchain
PROPERTIES
  SubmitsOnlyIdleFrames
  DrawnImagesComeBack
CHECK_DEADLOCK FALSE
