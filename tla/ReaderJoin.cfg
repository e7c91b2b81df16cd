CONSTANTS
  MaxReaders = 1
  NFds = 5
  NConns = 1
  MaxFiles = 0
SPECIFICATION FairSpec
PROPERTY DestructorReturns
CHECK_DEADLOCK FALSE
