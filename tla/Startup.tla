--------------------------------- MODULE Startup ---------------------------------
(***************************************************************************)
(* The life of the primary: constructor, use(), run() with the             *)
(* installation of the plugins, the initial forks, and shutdownPrimary()   *)
(* down to the end of the process.                                         *)
(*                                                                         *)
(* Code between two awaits is one action, except startPrimary(): a signal  *)
(* without a handler kills at once, so its forks are actions.  Why workers *)
(* are replaced is in module Fleet and how they are stopped in module      *)
(* Shutdown; here a worker is forked, comes online, exits, is forked anew. *)
(***************************************************************************)
EXTENDS Configuration, Sizing, FiniteSets

CONSTANTS
  Hosts,        \* what surrounds one start: limits, environment, options, and
                \* what the program does: its plugins, does it listen?
  Callbacks,    \* number of registered shutdown callbacks
  MaxForks      \* bound on the forks of one behaviour

ASSUME StartupAssumption == Callbacks \in Nat /\ MaxForks \in Nat

\* Numbers are where the code parses or is given numbers.
ASSUME HostsAssumption ==
  \A h \in Hosts :
    /\ h.cpus \in Nat \ {0} /\ h.memory \in Nat
    /\ h.webConcurrency \in Int \cup {None}
    /\ \A o \in DOMAIN h.config : h.config[o] \in Int
    /\ \A raw \in {h.files.cpu.own, h.files.cpu.root} :
         raw.kind = "quota" => raw.quota \in Int /\ raw.period \in Nat
    /\ \A raw \in {h.files.memory.own, h.files.memory.root} :
         raw.kind = "bytes" => raw.mb \in Nat
    /\ h.nodeOptions \in Seq(Nat) /\ h.workerNodeOptions \in Seq(Nat) \cup {None}
    /\ h.sizing.extra \in Seq(Nat)

VARIABLES
  host,         \* the element of Hosts of this start
  cfg,          \* ResolvedConfig: the options, NODE_OPTIONS of workers.env (or
                \* None), and whether another variable was patched
  autoCount,    \* cachedAutoWorkerCount
  stage,        \* how far run() came
  plugins,      \* the sequence of registered plugins
  installed,    \* how many of them installPlugins() installed
  rolledBack,   \* how many of those rollbackInstalledPlugins() uninstalled
  tornDown,     \* how many plugins uninstallPlugins() uninstalled
  plan,         \* result of the container sizing plugin
  hasForked,
  handlers,     \* are the signal handlers registered?
  forks,        \* the workers forked so far: what became of each, its environment
  toFork,       \* what is left of the initial forks
  shutdown,     \* where shutdownPrimary() is
  early,        \* history: did it begin before the first fork?
  targets,      \* the workers it waits for
  ran,          \* how many callbacks settled
  hung,         \* a callback or uninstall() that never settles, by what it holds
  ended         \* how the primary ended

runVars      == <<stage, toFork>>
pluginVars   == <<plugins, installed, rolledBack, tornDown>>
shutdownVars == <<shutdown, early, targets, ran, hung>>
configVars   == <<cfg, autoCount, plan>>
startupVars  == <<host, configVars, runVars, pluginVars, hasForked, handlers, forks,
                  shutdownVars, ended>>

Plugin == {"sizing", "prometheus", "user"}

Environment == [nodeOptions : Seq(Nat) \cup {None}, patched : BOOLEAN]
Fork        == [state : {"booting", "online", "exited"}, env : Environment]

Workers == 1..Len(forks)
Alive   == {w \in Workers : forks[w].state # "exited"}

\* Type correctness; the options, also after the plugins changed the worker
\* count, satisfy what the other modules assume of theirs.
StartupTypeOK ==
  /\ stage \in {"rejected", "new", "installing", "rollback", "forking", "running", "failed"}
  /\ stage # "rejected" => cfg.options \in Supported
  /\ cfg.env \in Environment
  /\ autoCount \in Nat \cup {None}
  /\ plugins \in Seq(Plugin) /\ forks \in Seq(Fork)
  /\ installed \in 0..Len(plugins) /\ rolledBack \in 0..installed
  /\ tornDown \in 0..Len(plugins)
  /\ {hasForked, handlers, early} \subseteq BOOLEAN
  /\ toFork \in Nat
  /\ shutdown \in {"no", "workers", "callbacks", "uninstalling", "complete"}
  /\ targets \subseteq Workers
  /\ ran \in 0..Callbacks
  /\ hung \in {"no", "holding", "unheld"}
  /\ ended \in {"no", "killed", "forced", "drained"}

\* The constructor: validateConfig() throws, or resolves the options.
StartupInit ==
  /\ host \in Hosts
  /\ cfg = [options |-> IF Accepts(host.config) THEN Resolve(host.config) ELSE DEFAULTS,
            env     |-> [nodeOptions |-> host.workerNodeOptions, patched |-> FALSE]]
  /\ stage = IF Accepts(host.config) THEN "new" ELSE "rejected"
  /\ autoCount = None /\ plan = None
  /\ plugins = <<>> /\ installed = 0 /\ rolledBack = 0 /\ tornDown = 0
  /\ hasForked = FALSE /\ handlers = FALSE
  /\ forks = <<>> /\ toFork = 0
  /\ shutdown = "no" /\ early = FALSE /\ targets = {} /\ ran = 0 /\ hung = "no"
  /\ ended = "no"

\* A handler of the primary may run: the process lives, and is not inside the
\* synchronous startPrimary().
Turn == ended = "no" /\ stage \notin {"rejected", "forking"}

\* resolveWorkerCount(), and the count it leaves in the cache.
ResolveWorkerCount ==
  IF cfg.options.count # AutoCount THEN cfg.options.count
  ELSE IF autoCount # None THEN autoCount ELSE ComputeAutoWorkerCount(host)

CachedAuto == IF cfg.options.count = AutoCount THEN ResolveWorkerCount ELSE autoCount
-----------------------------------------------------------------------------
\* use(): refused once run() was called.
Use(p) ==
  /\ Turn /\ stage = "new"
  /\ p \in host.uses /\ \A i \in 1..Len(plugins) : plugins[i] # p
  /\ plugins' = Append(plugins, p)
  /\ UNCHANGED <<host, configVars, runVars, installed, rolledBack, tornDown, hasForked,
                 handlers, forks, shutdownVars, ended>>

\* Mutant of the next definition.
MayOverrideAnyTime(n, config) == n \in 1..MaxAutoWorkers /\ config.options.count = AutoCount

\* What overrideWorkerCount() demands.
MayOverride(n, config) ==
  n \in 1..MaxAutoWorkers /\ config.options.count = AutoCount /\ ~hasForked

WithCount(config, n) == [config EXCEPT !.options.count = n]

\* overrideWorkerCount(), from the application or a plugin of the user.
OverrideWorkerCount(n) ==
  /\ Turn /\ "user" \in host.uses /\ MayOverride(n, cfg)
  /\ cfg' = WithCount(cfg, n)
  /\ UNCHANGED <<host, autoCount, plan, runVars, pluginVars, hasForked, handlers, forks,
                 shutdownVars, ended>>

\* patchWorkerEnv() with a variable other than NODE_OPTIONS.
PatchWorkerEnv ==
  /\ Turn /\ "user" \in host.uses /\ ~hasForked
  /\ cfg' = [cfg EXCEPT !.env.patched = TRUE]
  /\ UNCHANGED <<host, autoCount, plan, runVars, pluginVars, hasForked, handlers, forks,
                 shutdownVars, ended>>

\* run(): a second call is refused.
Run ==
  /\ Turn /\ stage = "new"
  /\ stage' = "installing"
  /\ UNCHANGED <<host, configVars, toFork, pluginVars, hasForked, handlers, forks,
                 shutdownVars, ended>>

Installing(p) ==
  /\ Turn /\ stage = "installing" /\ installed < Len(plugins) /\ plugins[installed + 1] = p

\* The environment buildWorkerEnv() adds.
SizedEnv(config, heap) ==
  LET existing == IF config.env.nodeOptions # None THEN config.env.nodeOptions
                  ELSE host.nodeOptions
  IN  [config.env EXCEPT !.nodeOptions = MergeNodeOptions(heap, existing, host.sizing.extra)]

(***************************************************************************)
(* install() of the container sizing plugin, from the answer of            *)
(* readCgroupLimits() on: without limits and fallback it does nothing, a   *)
(* count that is configured (or was overridden) stays.                     *)
(***************************************************************************)
InstallSizing ==
  /\ Installing("sizing")
  /\ LET limits == ReadCgroupLimits(host.files)
         sizing == CalculateSizing(limits, host, host.sizing)
         sized  == IF host.sizing.overrideWorkerCount /\ MayOverride(sizing.workers, cfg)
                   THEN WithCount(cfg, sizing.workers) ELSE cfg
     IN  IF limits.cpu = None /\ limits.memory = None /\ ~host.sizing.fallback
         THEN UNCHANGED <<cfg, plan>>
         ELSE /\ ValidSizingOptions(host.sizing)
              /\ plan' = sizing
              /\ cfg' = IF host.sizing.injectNodeOptions
                        THEN [sized EXCEPT !.env = SizedEnv(sized, sizing.v8HeapMb)] ELSE sized
  /\ installed' = installed + 1
  /\ UNCHANGED <<host, autoCount, runVars, plugins, rolledBack, tornDown, hasForked,
                 handlers, forks, shutdownVars, ended>>

\* install() of the prometheus plugin: it asks for the worker count.
InstallPrometheus ==
  /\ Installing("prometheus")
  /\ autoCount' = CachedAuto
  /\ installed' = installed + 1
  /\ UNCHANGED <<host, cfg, plan, runVars, plugins, rolledBack, tornDown, hasForked,
                 handlers, forks, shutdownVars, ended>>

\* install() of a plugin of the user; what it calls are actions of their own.
InstallUser ==
  /\ Installing("user")
  /\ installed' = installed + 1
  /\ UNCHANGED <<host, configVars, runVars, plugins, rolledBack, tornDown, hasForked,
                 handlers, forks, shutdownVars, ended>>

\* An install() rejects: that of the user, or of the sizing plugin (its options).
InstallFails ==
  /\ \/ Installing("user")
     \/ Installing("sizing") /\ ~ValidSizingOptions(host.sizing)
  /\ stage' = "rollback"
  /\ UNCHANGED <<host, configVars, toFork, pluginVars, hasForked, handlers, forks,
                 shutdownVars, ended>>

\* Mutant of the next definition.
RollbackOfAllButOne(n) ==
  IF n + 1 < installed THEN rolledBack' = n + 1 /\ stage' = stage
                       ELSE rolledBack' = n /\ stage' = "failed"

\* rollbackInstalledPlugins(): one uninstall() after the other, errors are
\* logged; then run() rejects.
RollbackFrom(n) ==
  IF n < installed THEN rolledBack' = n + 1 /\ stage' = stage
                   ELSE rolledBack' = n /\ stage' = "failed"

Rollback ==
  /\ Turn /\ stage = "rollback"
  /\ RollbackFrom(rolledBack)
  /\ UNCHANGED <<host, configVars, toFork, plugins, installed, tornDown, hasForked, handlers,
                 forks, shutdownVars, ended>>
-----------------------------------------------------------------------------
\* Mutant of the next definition.
RegisterOnceForked == handlers' = hasForked

RegisterSignalHandlers == handlers' = TRUE

\* startPrimary(): the handlers, then hasForked, then the forks.
StartPrimary ==
  /\ Turn /\ stage = "installing" /\ installed = Len(plugins)
  /\ ResolveWorkerCount <= MaxForks
  /\ RegisterSignalHandlers
  /\ hasForked' = TRUE
  /\ toFork' = ResolveWorkerCount
  /\ autoCount' = CachedAuto
  /\ stage' = "forking"
  /\ UNCHANGED <<host, cfg, plan, pluginVars, forks, shutdownVars, ended>>

\* forkWorker() with the environment of the moment.
ForkWorker == forks' = Append(forks, [state |-> "booting", env |-> cfg.env])

ForkInitial ==
  /\ ended = "no" /\ stage = "forking" /\ toFork > 0
  /\ ForkWorker
  /\ toFork' = toFork - 1
  /\ UNCHANGED <<host, configVars, stage, pluginVars, hasForked, handlers, shutdownVars, ended>>

\* fork() throws: run() rejects, with the workers forked so far.
ForkInitialFails ==
  /\ ended = "no" /\ stage = "forking" /\ toFork > 0
  /\ stage' = "failed"
  /\ UNCHANGED <<host, configVars, toFork, pluginVars, hasForked, handlers, forks,
                 shutdownVars, ended>>

\* The timers of startPrimary() are armed; run() resolves.
Started ==
  /\ ended = "no" /\ stage = "forking" /\ toFork = 0
  /\ stage' = "running"
  /\ UNCHANGED <<host, configVars, toFork, pluginVars, hasForked, handlers, forks,
                 shutdownVars, ended>>

WorkerOnline(w) ==
  /\ Turn /\ forks[w].state = "booting"
  /\ forks' = [forks EXCEPT ![w].state = "online"]
  /\ UNCHANGED <<host, configVars, runVars, pluginVars, hasForked, handlers, shutdownVars, ended>>

WorkerExit(w) ==
  /\ Turn /\ w \in Alive
  /\ forks' = [forks EXCEPT ![w].state = "exited"]
  /\ UNCHANGED <<host, configVars, runVars, pluginVars, hasForked, handlers, shutdownVars, ended>>

\* A restart, a recycle or a roll: see module Fleet.
ForkAnew ==
  /\ Turn /\ hasForked /\ shutdown = "no" /\ Len(forks) < MaxForks
  /\ ForkWorker
  /\ UNCHANGED <<host, configVars, runVars, pluginVars, hasForked, handlers, shutdownVars, ended>>
-----------------------------------------------------------------------------
\* A signal finds no handler: the default of Node is to die.
SignalKills ==
  /\ ended = "no" /\ stage # "rejected" /\ ~handlers
  /\ ended' = "killed"
  /\ UNCHANGED <<host, configVars, runVars, pluginVars, hasForked, handlers, forks, shutdownVars>>

\* shutdownPrimary(), by a handled signal or a call, to its first await.
ShutdownPrimary ==
  /\ Turn /\ shutdown = "no"
  /\ shutdown' = "workers"
  /\ early' = ~hasForked
  /\ targets' = Alive
  /\ handlers' = FALSE
  /\ UNCHANGED <<host, configVars, runVars, pluginVars, hasForked, forks, ran, hung, ended>>

\* initiateShutdown() resolves when its workers are gone: see module Shutdown.
WorkersGone ==
  /\ Turn /\ shutdown = "workers" /\ targets \cap Alive = {}
  /\ shutdown' = "callbacks"
  /\ UNCHANGED <<host, configVars, runVars, pluginVars, hasForked, handlers, forks, early,
                 targets, ran, hung, ended>>

\* A callback resolves or rejects, which is logged; after the last one the
\* plugins are uninstalled.
CallbackSettles ==
  /\ Turn /\ shutdown = "callbacks" /\ hung = "no"
  /\ IF ran < Callbacks THEN ran' = ran + 1 /\ shutdown' = shutdown
                        ELSE ran' = ran /\ shutdown' = "uninstalling"
  /\ UNCHANGED <<host, configVars, runVars, pluginVars, hasForked, handlers, forks, early,
                 targets, hung, ended>>

\* Mutant of the next definition.
UninstallFirst(n) ==
  /\ tornDown' = IF n < Len(plugins) THEN n + 1 ELSE n
  /\ shutdown' = "complete"

\* uninstall() of the next plugin settles; after the last one, shutdown:complete.
UninstallFrom(n) ==
  IF n < Len(plugins) THEN tornDown' = n + 1 /\ shutdown' = shutdown
                      ELSE tornDown' = n /\ shutdown' = "complete"

UninstallNext ==
  /\ Turn /\ shutdown = "uninstalling" /\ hung = "no"
  /\ UninstallFrom(tornDown)
  /\ UNCHANGED <<host, configVars, runVars, plugins, installed, rolledBack, hasForked,
                 handlers, forks, early, targets, ran, hung, ended>>

\* A callback, or the uninstall() of a plugin of the user, never settles; it
\* waits on something that keeps the event loop alive, or not.
Hangs ==
  /\ Turn /\ hung = "no"
  /\ \/ shutdown = "callbacks" /\ ran < Callbacks
     \/ shutdown = "uninstalling" /\ tornDown < Len(plugins) /\ plugins[tornDown + 1] = "user"
  /\ hung' \in {"holding", "unheld"}
  /\ UNCHANGED <<host, configVars, runVars, pluginVars, hasForked, handlers, forks, shutdown,
                 early, targets, ran, ended>>

\* timeoutMs after the workers were gone: process.exit(1).
FailsafeFires ==
  /\ Turn /\ shutdown \in {"callbacks", "uninstalling"}
  /\ ended' = "forced"
  /\ UNCHANGED <<host, configVars, runVars, pluginVars, hasForked, handlers, forks, shutdownVars>>

\* Nothing keeps the event loop alive: no child, no installation under way, no
\* shutdown that makes progress.
LoopDrains ==
  /\ Turn /\ Alive = {}
  /\ stage \in {"running", "failed"} \/ (stage = "new" /\ shutdown = "complete")
  /\ shutdown \in {"no", "complete"} \/ hung = "unheld"
  /\ ended' = "drained"
  /\ UNCHANGED <<host, configVars, runVars, pluginVars, hasForked, handlers, forks, shutdownVars>>
=============================================================================
