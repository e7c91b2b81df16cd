CONSTANTS
  Snapshots <- MCSnapshots
  kMaxAuras = 2
  kMaxCombatLogEvents = 2

SPECIFICATION Spec

INVARIANT TruncationRefused

CHECK_DEADLOCK FALSE
