SPECIFICATION FairSpec
CONSTANTS
  NAddr = 7
  NGuid = 3
  MaxChanges = 2
  MaxWalk = 3
  kMaxAuras = 2
  NMembers = 1
CHECK_DEADLOCK FALSE
INVARIANTS
  TypeOK
  UnitDataMatchesGuid
  NoFaultWhenQuiet
PROPERTIES
  FoundUnlessRemoved
  CallReturns
