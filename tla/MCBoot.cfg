\* Two workers, three forks, every order of plugins, events, scrapes and probes.
SPECIFICATION Spec
CONSTANTS
  None = None
  MaxAutoWorkers = 3
  V1Unlimited = 100000
  Hosts <- AllHosts
  Readings <- AllReadings
  Options <- AllOptions
  Callbacks = 1
  MaxForks = 3
  Process = {1, 2, 3}
  Caching = TRUE
  MaxCollections = 2
  MaxEvents = 4
INVARIANTS TypeOK KilledOnlyUnmanned PluginsBalanced CleanExitIsComplete 
  PlanIsBest BindFailsOnlyAfterDoubt FreshAfterQuietEvent
CHECK_DEADLOCK FALSE
