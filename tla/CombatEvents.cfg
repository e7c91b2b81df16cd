CONSTANTS
  MaxTicks = 2
  MaxRestarts = 0
  WireCap = 2
  kMaxCombatLogEvents = 2
  kMaxHistory = 4
SPECIFICATION Spec
INVARIANT EventsListedOnce
