\* A fleet without recycles and rolls: crashes, fork failures, the breaker,
\* the quarantine, operator resets and the shutdown.
SPECIFICATION FairSpec
CONSTANTS
  Target = 3
  CrashThreshold = 4
  BootFailQuarantine = 2
  BackoffMs = 1
  BackoffMultiplier = 2
  MaxBackoffMs = 3
  StabilityWindowMs = 1
  Recycling = FALSE
  Rolling = FALSE
  MaxPending = 4
  MaxQuarantined = 2
  MaxMarked = 0
  MaxDoubled = 0
INVARIANTS NoSilentLoss HeldWhileRestartsPend DrainsOnlyInFailure
PROPERTIES CapacityRestored
CHECK_DEADLOCK FALSE
