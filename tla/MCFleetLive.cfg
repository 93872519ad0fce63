\* Every recycle path at once, age recycling included, under fair timers.
SPECIFICATION FairSpec
CONSTANTS
  Target = 1
  CrashThreshold = 2
  BootFailQuarantine = 0
  BackoffMs = 1
  BackoffMultiplier = 1
  MaxBackoffMs = 1
  StabilityWindowMs = 0
  Worker = {w1, w2}
  NoWorker = NoWorker
  Recycling = TRUE
  Ageing = TRUE
  Rolling = TRUE
  MaxPending = 1
  MaxQuarantined = 0
  MaxDoubled = 0
INVARIANTS MarksAreOwned
PROPERTIES DrainingKeepsItsMark EveryMarkedWorkerLeaves RollEnds
CHECK_DEADLOCK FALSE
