---------------------------------- MODULE Boot ----------------------------------
(***************************************************************************)
(* A primary, its plugins and its workers from the constructor to the end  *)
(* of the process: Startup, with the scrapes of the prometheus plugin that *)
(* it installs (Scrape) and the workers that find out how to listen        *)
(* (ReusePort).  The events of the first are what the others react to.     *)
(***************************************************************************)
EXTENDS Startup, Scrape, ReusePort

CONSTANTS
  MaxEvents,       \* bound on the events of the fleet
  Readings,        \* the limits, and the options of the sizing plugin, for
  Options          \* which its plan is looked at before a start

ASSUME BootAssumption == MaxEvents \in Nat /\ Process = 1..MaxForks

ASSUME PlanAssumption ==
  /\ \A limits \in Readings :
       /\ limits.cpu = None \/ (limits.cpu.quota \in Int /\ limits.cpu.period \in Nat \ {0})
       /\ limits.memory \in Nat \cup {None}
  /\ \A o \in Options : ValidSizingOptions(o)

vars == <<startupVars, scrapeVars, reusePortVars>>

TypeOK == StartupTypeOK /\ ScrapeTypeOK /\ ReusePortTypeOK

Init == StartupInit /\ ScrapeInit /\ ReusePortInit

Registered(p) == \E i \in 1..Len(plugins) : plugins[i] = p

\* Steps of the primary that no listener hears.
PrimaryStep ==
  /\ \/ \E p \in Plugin : Use(p)
     \/ \E n \in 1..MaxForks : OverrideWorkerCount(n)
     \/ PatchWorkerEnv
     \/ Run
     \/ InstallSizing
     \/ InstallUser
     \/ InstallFails
     \/ StartPrimary
     \/ ForkInitial
     \/ ForkInitialFails
     \/ Started
     \/ SignalKills
     \/ ShutdownPrimary
     \/ WorkersGone
     \/ CallbackSettles
     \/ Hangs
     \/ FailsafeFires
     \/ LoopDrains
  /\ UNCHANGED <<scrapeVars, reusePortVars>>

\* The prometheus plugin binds its listeners when it is installed and removes
\* them when it is uninstalled, in whichever loop.
PluginStep ==
  /\ \/ InstallPrometheus /\ Listens(TRUE)
     \/ /\ Rollback
        /\ IF rolledBack' > rolledBack /\ plugins[rolledBack'] = "prometheus"
           THEN Listens(FALSE) ELSE UNCHANGED scrapeVars
     \/ /\ UninstallNext
        /\ IF tornDown' > tornDown /\ plugins[tornDown'] = "prometheus"
           THEN Listens(FALSE) ELSE UNCHANGED scrapeVars
  /\ UNCHANGED reusePortVars

\* What the orchestrator emits an event for.
FleetStep ==
  /\ events < MaxEvents
  /\ FleetEvent
  /\ \/ (\E w \in Workers : WorkerOnline(w)) /\ UNCHANGED reusePortVars
     \/ \E w \in Workers : WorkerExit(w) /\ ProcessEnds(w)
     \/ ForkAnew /\ UNCHANGED reusePortVars

\* GET /metrics, or getMetrics().
ScrapeStep ==
  /\ Turn /\ Registered("prometheus")
  /\ \/ StartCollection
     \/ \E i \in 1..Len(collecting) : CollectionEnds(i)
     \/ CacheExpires
  /\ UNCHANGED <<startupVars, reusePortVars>>

\* A worker process, once it is online: startWorker() asks once, the
\* application whenever it likes.
WorkerStep ==
  /\ ended = "no" /\ host.listens
  /\ \E w \in Workers :
       /\ forks[w].state = "online"
       /\ \/ /\ reusePort[w] = "unset"
             /\ DetectReusePortSupport(w, "startWorker", host.platform)
          \/ DetectReusePortSupport(w, "application", host.platform)
          \/ \E outcome \in {"both listen", "one fails", "timeout"} :
               ProbeSettles(w, outcome, host.platform)
          \/ Listen(w, host.platform)
  /\ UNCHANGED <<startupVars, scrapeVars>>

Next == PrimaryStep \/ PluginStep \/ FleetStep \/ ScrapeStep \/ WorkerStep

Spec == Init /\ [][Next]_vars
-----------------------------------------------------------------------------
\* A signal kills the primary by default only while it has no worker to orphan,
\* or in a shutdown: the second SIGTERM.
KilledOnlyUnmanned == ended = "killed" => Alive = {} \/ shutdown # "no"

\* Each installed plugin is uninstalled once: after a failed installation by the
\* rollback, and then nothing was forked; else by the shutdown, which uninstalls
\* nothing that was not installed.  A shutdown called before the fleet was forked
\* is no such shutdown: it uninstalls whatever is registered.
PluginsBalanced ==
  ~early =>
    /\ rolledBack > 0 => forks = <<>> /\ tornDown = 0
    /\ tornDown > 0 => installed = Len(plugins)
    /\ stage = "failed" /\ ~hasForked => rolledBack = installed
    /\ shutdown = "complete" => tornDown = Len(plugins)

\* A primary that ends by itself after a shutdown ends when its workers are gone,
\* every callback has run and every plugin is uninstalled, unless one of them
\* waits on nothing that keeps the event loop alive.
CleanExitIsComplete ==
  ended = "drained" /\ shutdown # "no" /\ ~early /\ hung # "unheld"
    => Alive = {} /\ ran = Callbacks /\ tornDown = Len(plugins)

\* The fleet is the one that was configured: all workers, the later ones too,
\* have one environment; the count, once forked, is the target that the fleet is
\* held to from then on; and with the sizing plugin the heap of each is the
\* planned one, unless the command line of the workers names another.
FleetMatchesPlan ==
  hasForked =>
    /\ \A w \in Workers : forks[w].env = cfg.env
    /\ stage = "running" => ResolveWorkerCount <= Len(forks)
    /\ stage = "forking" => Len(forks) + toFork = ResolveWorkerCount
    /\ plan # None /\ host.sizing.injectNodeOptions /\ host.execHeap = None
         => \A w \in Workers :
              EffectiveHeap(host.execHeap, forks[w].env.nodeOptions) = plan.v8HeapMb

\* A worker fails to listen only if some probe on a kernel with SO_REUSEPORT did
\* not find it out: the fallback to the handle of the primary is safe as long as
\* the workers agree.
BindFailsOnlyAfterDoubt == (\E w \in Process : socket[w] = "failed") => doubted

\* A scrape is served no state older than the last event, whichever collections
\* overlap: the collection it joins began after that event, although an older one
\* may end first and clear the promise (plugin-prometheus/src/index.ts:262, 294);
\* and what it finds in the cache shows every event, unless a collection was
\* running at the last one, which stores its value all the same (:284).
FreshAfterQuietEvent ==
  listening =>
    /\ inflightMetrics => collecting[Len(collecting)] = events
    /\ mergedMetricsCache # NoValue /\ quiet => mergedMetricsCache = events

(***************************************************************************)
(* The plan against what it is for: a count within its bounds; heaps that  *)
(* fit the memory whenever fewer workers were allowed; no larger count     *)
(* would have fitted; and "constrained" tells the truth, but for a heap    *)
(* that the second rounding took below the floor.                          *)
(***************************************************************************)
PlanIsLargestThatFits(limits, o) ==
  LET p      == CalculateSizing(limits, host, o)
      memory == EffectiveMemory(limits, host.memory)
      Fits(n) == memory * o.memoryOverheadFactor * o.heapRatio >= n * MIN_VIABLE_HEAP_MB * 10000
  IN  /\ o.minWorkers <= p.workers /\ p.workers <= o.maxWorkers
      /\ p.v8HeapMb >= MIN_VIABLE_HEAP_MB
      /\ o.strategy = "balanced" /\ p.workers > o.minWorkers =>
           p.workers * p.v8HeapMb * 100 <= memory * o.memoryOverheadFactor
      /\ o.strategy = "balanced" =>
           ~\E n \in p.workers + 1 .. Lesser(o.maxWorkers, EffectiveCpu(limits, host.cpus)) :
              Fits(n)
      /\ p.constrained /\ Fits(p.workers) =>
           (p.memoryPerWorkerMb * o.heapRatio) \div 100 = MIN_VIABLE_HEAP_MB - 1

\* So is the plan of every reading and all options; looked at before a start.
PlanIsBest ==
  stage = "new" /\ plugins = <<>> /\ ~cfg.env.patched /\ cfg.options = Resolve(host.config)
    => \A limits \in Readings, o \in Options : PlanIsLargestThatFits(limits, o)
=============================================================================
