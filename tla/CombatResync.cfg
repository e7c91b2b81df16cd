CONSTANTS
  NAddr = 2
  MaxEvents = 2
  MaxDamage = 0
  kMaxCombatLogEvents = 2
SPECIFICATION FairSpec
PROPERTY EveryEventReported
