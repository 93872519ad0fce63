\* A worker wedged in the middle of its drain when the shutdown begins.
SPECIFICATION FairSpec
CONSTANTS
  Worker = {w1, d}
  Drained = {d}
  AckTimeout = 1
  Timeout = 3
  SigtermDelay = 1
  SigintDelay = 1
PROPERTIES EveryWorkerEnds
CHECK_DEADLOCK FALSE
