CONSTANTS
  NRenderers = 2
  NImages = 2
  NGeometry = 1
  NTextures = 2
  PoolSize = 3
SPECIFICATION Spec
INVARIANTS
  TypeOK
  NothingOrphaned
  HandlesAreLive
  InFlightWorkIsLive
CHECK_DEADLOCK FALSE
