SPECIFICATION Spec
CONSTANTS
  Target = 1
  MaxId = 3
  MaxBlocked = 1
  HeartbeatMs = 1
  WedgedTimeoutMs = 2
  MaxEventLoopLagMs = 1
  LagRecycleBeats = 2
  LagSpikeMs = 2
  DegradedAfterMs = 2
INVARIANTS
  TypeOK
  SettledWithinTarget
  NothingKeptOfTheDead
  BlockedIsReplaced
  MissingCapacityIsFlagged
  AlarmIsAboutMissing
PROPERTIES
  WedgedWasBlocked
CHECK_DEADLOCK FALSE
