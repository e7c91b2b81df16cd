CONSTANTS
  NAddr = 3
  MaxEvents = 4
  MaxDamage = 1
  kMaxCombatLogEvents = 2
SPECIFICATION FairSpec
INVARIANT TypeOK
PROPERTIES
  EventsInTurn
  RewindsOnlyAfterDamage
  ImplementsFeed
  KeptEventsAreReported
