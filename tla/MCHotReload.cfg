CONSTANTS
  EnvFile = {envA, envB}
  Process = process
  Code = code
  DebounceMs = 1
  DebounceMaxWaitMs = 3
  MinRestartIntervalMs = 4
  MaxWaited = 6
SPECIFICATION Spec
INVARIANTS
  TypeOK
  ArmedIffPending
  NothingIsLost
  ChangeWaitsBoundedly
  TornDownIsSilent
