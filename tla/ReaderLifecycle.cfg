CONSTANTS
  MaxReaders = 2
  NFds = 4
  NConns = 2
  MaxFiles = 1
SPECIFICATION FairSpec
INVARIANTS
  TypeOK
  NothingLeaks
PROPERTIES
  ConfusionStartsInDestructors
  DestructorReturnsToTheDll
CHECK_DEADLOCK FALSE
