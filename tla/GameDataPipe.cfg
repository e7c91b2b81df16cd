CONSTANTS
  MaxTicks = 3
  MaxRestarts = 2
  WireCap = 3
  kMaxCombatLogEvents = 2
  kMaxHistory = 3
SPECIFICATION FairSpec
INVARIANTS
  TypeOK
  PayloadFollowsLength
  EventsTravelOnce
  NoGapOnTheWire
  NewestEventLast
PROPERTIES
  ImplementsRegister
  ChangesAreShown
