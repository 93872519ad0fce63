\* Every feature at once, recycles and rolls overlapping included.
SPECIFICATION Spec
CONSTANTS
  Target = 2
  CrashThreshold = 2
  BootFailQuarantine = 2
  BackoffMs = 1
  BackoffMultiplier = 2
  MaxBackoffMs = 2
  StabilityWindowMs = 1
  Recycling = TRUE
  Rolling = TRUE
  MaxPending = 2
  MaxQuarantined = 1
  MaxMarked = 2
  MaxDoubled = 1
INVARIANTS TypeOK NoOvershoot
PROPERTIES NoRestartPastTrip NoForkInShutdown
CHECK_DEADLOCK FALSE
