CONSTANTS
  Snapshots <- MCSnapshots
  kMaxAuras = 2
  kMaxCombatLogEvents = 2
  MaxSnapshots = 3

SPECIFICATION DataSpec

INVARIANTS
  TypeOK
  RoundTrip
  WholeFieldsSurvive

PROPERTY FramesShowWhatWasSent

\* DeserializeGameData returns.
CHECK_DEADLOCK FALSE
