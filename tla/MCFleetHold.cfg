\* The last worker drains while the restart of its replacement is pending.
SPECIFICATION Spec
CONSTANTS
  Target = 1
  CrashThreshold = 2
  BootFailQuarantine = 0
  BackoffMs = 1
  BackoffMultiplier = 1
  MaxBackoffMs = 1
  StabilityWindowMs = 0
  Worker = {w1, w2, w3}
  NoWorker = NoWorker
  Recycling = TRUE
  Ageing = FALSE
  Rolling = FALSE
  MaxPending = 2
  MaxQuarantined = 0
  MaxDoubled = 1
SYMMETRY Symmetry
INVARIANTS HoldsWhileRestartsPend
CHECK_DEADLOCK FALSE
