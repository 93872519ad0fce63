\* Workers, drains and a rolling restart against the counting specification.
SPECIFICATION Spec
CONSTANTS
  Target = 2
  CrashThreshold = 2
  BootFailQuarantine = 0
  BackoffMs = 1
  BackoffMultiplier = 1
  MaxBackoffMs = 1
  StabilityWindowMs = 0
  Worker = {w1, w2, w3}
  NoWorker = NoWorker
  Recycling = TRUE
  Ageing = FALSE
  Rolling = TRUE
  MaxPending = 2
  MaxQuarantined = 0
  MaxDoubled = 1
SYMMETRY Symmetry
INVARIANTS TypeOK DrainingIsReplacedAndMarked
PROPERTIES ImplementsFleetCounts
CHECK_DEADLOCK FALSE
