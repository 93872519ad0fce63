\* A rolling restart under which the breaker trips and the fleet dies.
SPECIFICATION Spec
CONSTANTS
  Target = 1
  CrashThreshold = 2
  BootFailQuarantine = 0
  BackoffMs = 1
  BackoffMultiplier = 1
  MaxBackoffMs = 1
  StabilityWindowMs = 0
  Worker = {w1, w2, w3}
  NoWorker = NoWorker
  Recycling = FALSE
  Ageing = FALSE
  Rolling = TRUE
  MaxPending = 2
  MaxQuarantined = 0
  MaxDoubled = 1
SYMMETRY Symmetry
INVARIANTS TrippedEmptyFleetTerminates
CHECK_DEADLOCK FALSE
