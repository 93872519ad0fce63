\* Two workers to stop, one more already drained and disconnected.
SPECIFICATION FairSpec
CONSTANTS
  Worker = {w1, w2, d}
  Drained = {d}
  AckTimeout = 1
  Timeout = 3
  SigtermDelay = 1
  SigintDelay = 1
INVARIANTS TypeOK CallbacksRunLast ShutdownIsBounded
PROPERTIES AckedWorkersExitUnkilled EveryTargetEnds
CHECK_DEADLOCK FALSE
