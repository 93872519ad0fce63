# clusterkit in TLA+

Formal models of `@goopil/clusterkit`, a supervisor for Node.js clusters: a primary process forks a fixed number of
workers, restarts the ones that crash, replaces the ones that are too old, too fat or too slow, rolls the whole fleet on
demand, and shuts everything down. The models are checked with TLC on small instances; the central safety properties are
proved with TLAPS for every instance.

All paths below are relative to the repository; the code under study is `packages/worker-manager/src` and the plugins beside it.

## 1. The system

### 1.1 Parts

| Part | State it keeps | Operations |
| --- | --- | --- |
| `RestartCoordinator` | restart queue, "loop running" flag, backoff and its reset timer, fork-failure and boot-failure counters, quarantined slots, empty-fleet hold | `onWorkerCrash`, `onWorkerOnline`, `requestCapacityRefill`, `reset`, `resetQuarantine`, the queue loop with its backoff waits |
| `CrashTracker` | crash times in a sliding window | `record`, `isTripped`, `prune`, `reset` |
| `WorkerManager` | tracked workers (start times, `activeWorkers`), recycling marks, age timers | `forkWorker`, `recycleWorkerNow`, the recycle sweep, `markForRecycling`, `cleanupWorker`, `stopRecycling` |
| `DrainCoordinator` | per replacement: `drained`, `replacementOnline`, failsafe; per drain: two escalation timers; per roll target: an exit wait | `recycle`, `drainRecycledWorker`, `awaitBoundedWorkerExit` |
| `ShutdownCoordinator` | "shutting down" flag; per worker an ACK wait; an exit wait | `initiateShutdown` and its phases |
| `HealthMonitor` | last report of each worker, one-shot sets, lag beats | `onWorkerMessage`, the wedged watch, `onWorkerExit` |
| `Orchestrator` | registered plugins, signal handlers, `hasForked`, the cached worker count; readiness, exit code, workers that came online, roll guard, degradation hysteresis | wiring of all of the above; `use`, `run` (install or roll back the plugins, fork), `overrideWorkerCount`, `patchWorkerEnv`; `restartWorkers`, `resetCircuitBreaker`, `shutdownPrimary`, `handleShutdown` in a worker |
| Plugins | file watcher: debounce, max-wait and trailing timers with a pending payload; signal restart: a handler; prometheus: scrape cache, in-flight promise; otlp: provider and a shutdown latch; container sizing: its plan | call `restartWorkers`, `overrideWorkerCount`, `patchWorkerEnv`; listen to events |
| `validation` | none | `validateConfig` in the constructor |
| `sizing`, `cgroup`, `plugin-container-sizing/calculator` | none | what "auto" resolves to; the plan of the container sizing plugin |
| `platform`, `worker-context` | in each process: cached answer and pending probe of SO_REUSEPORT | `detectReusePortSupport`, `ctx.listen` in each worker |

### 1.2 How they interact

Everything in the primary runs on one event loop. A callback (cluster event, timer, signal, promise continuation) runs to
completion, so a handler with all the handlers it calls synchronously is one atomic step; what interleaves are the
suspended `async` functions (the restart loop in its backoff wait, a roll waiting for an exit or a stagger, the phases of
a shutdown), the timers and the events of the workers. The components share state through injected callbacks:
`activeWorkers` and the recycling marks are read by the restart engine, `isShuttingDown()` by everybody, `process.exitCode`
and `health.ready` are written from several places.

Almost all timers are unref'd, so that they never keep a finished primary alive. What keeps it alive are the handles of
its children, the engine's *empty-fleet hold*, and the timers of a roll; when none is left Node exits. That makes the
life of the primary itself part of the state.

### 1.3 What is hard

Restarts decided before a wait and carried out after it; two owners (recycle and roll) replacing the same worker; marks
that must neither leak nor be cleared early; an exit code and a readiness flag that must reflect the fleet; a hold that
must be armed exactly while it is needed; drains racing exits, boots, failsafes and shutdown; the timers of the primary
against those of its workers. `PROJECT.json` lists the hazards line by line.

### 1.4 What makes it correct

* Engine: the fleet neither settles above its target nor loses capacity silently; nothing is forked past a trip or a
  shutdown; an empty fleet waits for its restart, a lost one dies with exit code 1; capacity comes back.
* Fleet: drains only hit replaced workers; marks have an owner; marked workers leave; rolls end.
* Shutdown: the callbacks run last; acknowledged workers are not killed; everything ends, in bounded time.
* Health monitor: a blocked worker is replaced in time and once, a running one is never taken for wedged, no late report
  brings back a dead worker, a lasting shortfall is flagged.
* Restart triggers: changes merge, wait boundedly and are not lost; nothing fires after the teardown.
* Start and end: no signal orphans a fleet, each installed plugin is uninstalled once, a clean exit is a complete one, and
  the fleet that runs is the one that was configured.
* Sizing: the plan is the largest that fits, and never below the viable heap. Configuration: what is accepted is what
  the rest of the code can live with.
* Listening: workers only fail to share a port when they disagree about the kernel. Metrics: a cached scrape is not stale.

## 2. Modules

```
RestartCoordinator ------------------------- RestartCoordinatorProofs
   |   the engine: variables and one            |                |
   |   operator per method                      |                |
   |                                            |                |
   +-- FleetCounts  (fleet as numbers) -- FleetCountsProofs      |
   |                       ^                    :                |
   |                       : implements         : instantiated   |
   |                       :                    :                |
   +-- Fleet  (workers; + MCFleet) ------- FleetRefinement -- FleetProofs

Shutdown -- ShutdownProofs     Monitoring -- MonitoringProofs     HotReload -- HotReloadProofs

Configuration   Sizing
        \       /
         Startup      Scrape      ReusePort
               \        |        /
                      Boot         + MCBoot
                        |
                   BootProofs
```

* **RestartCoordinator** holds the variables of the engine (queue length, delay of the entry in its backoff wait, backoff,
  timers, counters, hold, crashes in the window, exit code, readiness, shutdown flag) and one action per method. An action
  fixes the engine's share of a handler; the modules that extend it conjoin the share of the workers. `waitingDelay = 0`
  stands for `restartLoopRunning = false`, since the loop is only ever suspended in the backoff wait.
* **FleetCounts** composes the engine with a fleet of which only three numbers are kept: workers booting, online, and
  marked for recycling. It is at once small enough for proofs and the abstract specification of the fleet.
* **Fleet** has the workers: state and drain of each, marks, pending replacement watches, age timers, the rolling restart
  with its targets, and the fair timers. `Counts == INSTANCE FleetCounts WITH ...` maps it to the numbers, and
  `ImplementsFleetCounts` is checked as a property.
* **Shutdown** is the coordinated shutdown with explicit time: the phases of the primary and, in each worker,
  `handleShutdown()` with its exit timer.
* **Monitoring** is the health of the workers with explicit time: their beats, `HealthMonitor` with its registry, one-shots
  and policies, the recycles these trigger, the degradation alarm of the Orchestrator, and the samples the two metrics
  exporters keep. The restart engine is reduced to "a missing worker is forked sooner or later".
* **HotReload** is what starts a roll from outside: the timers, the pending payload and the teardown of the file watcher,
  and the signal plugin, against the guard of `restartWorkers()`. Of a roll only its beginning and its end are kept.
* **Configuration** is `validateConfig()`: the ranges, defaults and cross-field checks of every numeric option, and
  `Supported`, what the other modules assume of theirs.
* **Sizing** has no state: the cgroup readers, the CPU count, `WEB_CONCURRENCY`, `calculateSizing()`, the merge of
  `NODE_OPTIONS`.
* **Startup** is the life of the primary from the constructor to the end of its process: plugins registered, installed,
  rolled back and uninstalled, overrides, signal handlers, forks, the shutdown with its callbacks and failsafe, and the
  three ways to end (killed by a signal, forced by the failsafe, its loop drained). Why workers are replaced and how they
  are stopped is in Fleet and Shutdown; here a worker is forked, comes online, exits and is forked anew.
* **Scrape** is `mergedMetrics()` of prometheus: cache, shared collection and the events that invalidate both.
* **ReusePort** is how each worker process finds out about SO_REUSEPORT and listens.
* **Boot** composes Startup, Scrape and ReusePort: the listeners of prometheus come and go with its installation, the
  events of the fleet clear its cache, and a worker asks and listens once it is online.
* **FleetCountsProofs**, **HotReloadProofs**, **ShutdownProofs**, **MonitoringProofs**, **BootProofs** have the theorems
  about FleetCounts, HotReload, Shutdown, Monitoring and Boot; **FleetProofs** those about Fleet by itself, and
  **FleetRefinement** that Fleet implements FleetCounts and what follows from that. **RestartCoordinatorProofs** has the
  lemmas about the engine that the proofs of both fleets need.
* **MCFleet** adds the symmetry set for TLC; **MCBoot** the hosts, the readings and the options.

### 2.1 Correspondence, where it is not one to one

| Model | Code |
| --- | --- |
| `pendingRestartQueue` is a number | entries differ only in what is logged |
| `crashes` saturates at the threshold and `CrashWindowSlides` removes any number | `CrashTracker.timestamps` pruned by time |
| `consecutiveForkFailures`, `consecutiveBootFailures` saturate | only compared with their limits |
| `marked`, `drain`, `watch`, `ageTimer` | `recyclingWorkerIds`, state of `drainRecycledWorker()`, closures of `recycle()`, `pendingRecycleTimers` |
| `Listed` excludes draining workers | node:cluster removes a worker from `cluster.workers` when it is disconnected |
| ids are reused after an exit | the exit handlers remove every trace of an id |
| one action per worker exit | `exit` listeners of the drain and the roll, then `cleanupWorker()`, then `handleWorkerExit()`, in that order |
| `doubled`, `replaced` | history only: no guard of the code reads them |
| `Monitoring!sinceBeat`, `silence`, `watchIn`, `degradedIn`; `HotReload!*Timer` | `lastBeat`, `lastReport` and the timers, as ages and times left |
| `Monitoring!inflight` | a report between `process.send` in the worker and `onWorkerMessage` |
| the rss of a report is chosen when it is read | `process.memoryUsage()` in the worker: any value |
| a payload is the set of sources whose last values it carries | `pendingEnv`: one object the sources are spread into |
| `declined`, `belowFor`, `owed`, `dropped`, `waited` | history only |
| `due` is one deadline per phase of the shutdown | timers armed in the same run of the loop with the same delay |
| `Startup!ForkInitial` is an action, although `startPrimary()` is synchronous | a signal without a handler kills at once, in the middle of a handler |
| `Startup!host` | everything outside the program: cgroup files, CPUs, memory, environment, platform, options, which plugins it uses, whether it listens; `HostsAssumption` says that counts and sizes are whole numbers |
| `Sizing!WithoutHeap` keeps as many other flags as there are | the flags of `NODE_OPTIONS` that do not set the heap are all the same to the model, so their number and place in front are their order |
| `Boot!Readings`, `Boot!Options` | any limits the cgroup readers return, any options `validateSizingOptions()` lets through (`PlanAssumption`) |
| a cgroup file is what reading it gives: missing, malformed, no limit, or its numbers, for the process's own cgroup and for the root | `buildCandidatePaths()`, `tryReadFirst()` |
| `Scrape!events`, and a collection shows those before it began | the state `registry.metrics()` exports |
| `Startup!early`, `hung`, `ended`; `Scrape!quiet`; `ReusePort!doubted` | history only, or what ended the process |

### 2.2 Left out

`backoffMs = 0` (no wait at all), fractional multipliers, the `filter` of `restartWorkers` and `staggerMs = 0`; the death
of the primary by a second signal in the modules other than Startup; environment overlays of a roll, event payloads, logs and metrics counters. In Monitoring every
policy is on; in HotReload `dryRun`, a reinstalled instance, an unreadable `.env` file (no effect) and an environment with
forbidden keys (`restartWorkers()` throws: the payload is lost as in a refusal) are left out. `setReady()` and
`setNotReady()`; the checks of strings and shapes in `validateConfig()`; `compileCache`; the lookup of a path in
`/proc/self/cgroup`; the installation of plugins in the workers; the HTTP server of `serve()`, and a registry whose own
`metrics()` rejects. The otlp plugin pushes the same samples and counters on its own schedule; only the samples of the
health reports are modelled. Loggers, types and the package entry have no state. In FleetCounts the
age sweep (which marks workers whose replacement is only scheduled) is absent: it is in Fleet, in the liveness run.

## 3. Runs

| Run | Module | Question | Result |
| --- | --- | --- | --- |
| `counts_crash` | FleetCounts | crashes, boot failures, fork failures, trips, resets, shutdown without recycles: `NoSilentLoss`, `HeldWhileRestartsPend`, `DrainsOnlyInFailure`, `CapacityRestored` | holds |
| `counts_all` | FleetCounts | the same with recycles and rolls: `TypeOK`, `NoOvershoot`, `NoRestartPastTrip`, `NoForkInShutdown` | holds |
| `fleet_counts` | MCFleet | workers, drains and rolls implement FleetCounts; `DrainingIsReplacedAndMarked` | holds |
| `fleet_live` | MCFleet | every recycle path, hanging boots, deaf workers: `MarksAreOwned`, `DrainingKeepsItsMark`, `EveryMarkedWorkerLeaves`, `RollEnds` | holds |
| `shutdown` | Shutdown | `CallbacksRunLast`, `AckedWorkersExitUnkilled`, `ShutdownIsBounded`, `EveryTargetEnds` | holds |
| `monitoring` | Monitoring | beats, late reports, policies, exits, refills and the alarm: `SettledWithinTarget`, `NothingKeptOfTheDead`, `BlockedIsReplaced`, `WedgedWasBlocked`, `MissingCapacityIsFlagged`, `AlarmIsAboutMissing` | holds |
| `hot_reload` | HotReload | changes, timers, signals, rolls, teardown: `ArmedIffPending`, `NothingIsLost`, `ChangeWaitsBoundedly`, `TornDownIsSilent` | holds |
| `boot` | MCBoot | fourteen hosts, plugins in every order, failing installs and forks, early, late and second signals, hanging callbacks, scrapes against events, probes against listens: `KilledOnlyUnmanned`, `PluginsBalanced`, `CleanExitIsComplete`, `FleetMatchesPlan`, `PlanIsBest`, `BindFailsOnlyAfterDoubt`, `FreshAfterQuietEvent` | holds |
| `fleet_target_violation` | MCFleet | `NeverAboveTarget` | violated: a roll replaces a worker a recycle already replaced |
| `fleet_hold_violation` | MCFleet | `HoldsWhileRestartsPend` | violated: the last worker leaves by a drain while a restart waits |
| `fleet_zombie_violation` | MCFleet | `TrippedEmptyFleetTerminates` | violated: refills dropped by the tripped breaker leave the hold armed |
| `shutdown_hang_violation` | Shutdown | `EveryWorkerEnds` | violated: a wedged worker in the middle of its drain is nobody's |

Each `_violation` run checks what a document or comment of the repository says, quoted at the property; `PROJECT.json`
explains the disagreement under `findings`.

### 3.1 Bounds

* `Target` 3 in `counts_crash` (some workers up, some down, some pending), 2 in the other passing safety runs, 1 in
  `fleet_live`: a recycle of the only worker is the delicate case, and a second id is its replacement.
* `CrashThreshold` 4 or 2, above and at the number of workers, so that a fleet empties both with and without a trip.
* `MaxPending` bounds the restarts owed. It is a guard on the steps that may add a restart (crash, reset, roll); it is at
  least the target except in `fleet_live`, so that every slot may be pending.
* `MaxQuarantined`, `MaxMarked`, `MaxDoubled` bound counters that the code leaves unbounded; each is above the first value
  that changes a property. `Worker` bounds the workers alive at once: a fork needs a free id.
* Delays 1..3 with multiplier 2: both the growth and the cap of the backoff occur.
* Shutdown: `AckTimeout` 1, `Timeout` 3, two delays of 1, the smallest values that satisfy the checks of `validation.ts`
  and keep every deadline apart; two workers to coordinate and one already drained.
* Monitoring: a fleet of one with two replacements to come (`MaxId` 3), one of which may be blocked at a time. The
  timeouts are the smallest the checks of `validation.ts` allow (the wedged timeout is twice the beat), a lag limit of 1 and
  a spike above 2 so that one late beat, two late beats and a spike are told apart; ages saturate above the last value any
  comparison distinguishes.
* HotReload: debounce 1, max wait 3, minimum interval 4, so that each of the three timers can be the one that flushes and a
  throttled flush meets a running max-wait timer; two `.env` files and `process.env`. `MaxWaited` 6 is above the bound that
  `ChangeWaitsBoundedly` states.
* Boot: three forks, so that a fleet of two has a replacement and a fleet of three does not; one callback; four events and
  two collections at once, so that a collection can be in flight at an event and another one be started after it.
  `MaxAutoWorkers` is 3 (256 in the code), which `WEB_CONCURRENCY` exceeds in one host. The hosts are chosen for what
  they decide: v2 with a fraction of a CPU over two and memory for one worker, v1 with half a CPU and unlimited memory and
  a heap on the command line, no container with and without `WEB_CONCURRENCY`, invalid sizing options, a configured
  count on a kernel with SO_REUSEPORT, a patched one and on macOS, and seven configurations that are rejected, one for
  each check that relates two options and for a value out of its range. `PlanIsBest` is evaluated before the start of
  each, for every combination of five CPU limits and twelve memory limits (around 128 MB times the counts, on both sides
  of each rounding) with the factors, bounds and strategies in `MCBoot`; that it holds of all others is proved.

Deadlock is not checked where the system really stops: an exited primary, a completed shutdown, a fleet that has used up
its ids. It is checked in `hot_reload`.

### 3.2 Where the guarantees end

Seen while modelling, and stated by the exceptions in the properties:

* A recycle whose replacement cannot be forked is not tried again: the one-shot is spent, and a wedged worker is out of
  the registry until it reports again (`declined` in `BlockedIsReplaced`, which excludes that worker until then, no
  other). A worker that never reported is never watched.
* `fleet:degraded` may be emitted for a fleet whose `activeWorkers` is back at its target, because a fork does not
  re-evaluate the alarm: it does so when the new worker is online (`AlarmIsAboutMissing`).
* `stop()` clears the list of exited workers, so a report read in a shutdown after the exit of its sender is exported
  again until the plugins are uninstalled (`NothingKeptOfTheDead` excludes shutdowns).
* A flush refused because a roll is in progress has already cleared its payload: the change is lost (`dropped` in
  `NothingIsLost`), while a throttled flush keeps it. The signal plugin sets `lastRestart` after a refused restart, too.
* When the fork of an age timer fails the worker is unmarked, although a roll may have marked it meanwhile and be draining
  it (`worker-manager.ts:224`; the exception of `DrainingKeepsItsMark`): until it exits it counts as capacity.
* `setReady()` does not look at the breaker: the application can make a tripped primary ready (`orchestrator.ts:384`).
* `shutdown.timeoutMs` bounds the wait between the ACKs and SIGTERM; SIGKILL is sent `ackTimeoutMs` + `timeoutMs` +
  `sigtermDelayMs` + `sigintDelayMs` after the signal (`Budget` in Shutdown adds the callbacks). Whoever sets it just
  below a platform's grace period, as the README of the repository suggests, is killed by the platform before that.
* The signal handlers are removed at the beginning of the shutdown: a second SIGTERM kills the primary, with whatever
  workers are left (`orchestrator.ts:823`; the exception of `KilledOnlyUnmanned`).
* The failsafe of the callbacks is unref'd: one that waits on nothing that holds the loop lets the primary exit with code 0
  before the other callbacks and the plugins had their turn (`hung = "unheld"` in `CleanExitIsComplete`).
* `shutdownPrimary()` called before the first fork uninstalls whatever is registered, installed or not, and `run()` may
  still fork a fleet afterwards, whose SIGTERM is swallowed by the shutdown already begun (`early`).
* `fork()` throwing in the middle of the initial forks leaves a fleet that is smaller than its target with `run()` rejected:
  neither the recycle sweep nor the wedged watch is started (`orchestrator.ts:628`). `FleetMatchesPlan` states the count
  for a primary that is forking or running.
* `prometheus` exports the worker count it finds when it is installed; a plugin that is registered after it may change it
  (`plugin-prometheus/src/index.ts:314`).
* A scrape in flight at an event stores a value from before it (`quiet` in `FreshAfterQuietEvent`), which is served until
  its time to live is over or the next event, and its end clears the promise of a newer scrape: later ones then collect
  anew. None of them joins a collection that is older than the last event.
* With recycles or rolls capacity may be missing with no restart pending and no exit code. `resetCircuitBreaker()` and the
  end of a roll refill by `activeWorkers`, which counts marked workers, the queue counts without them; a roll that ends
  beside a marked worker forgets the quarantine and refills too little, and an online event clears the exit code while
  marked workers count. `NoSilentLoss` and `CapacityRestored` are therefore stated without recycles and rolls. The next
  crash or reset notices the shortfall.
* The age sweep marks workers whose replacements are forked 30 s apart and later: a crash meanwhile is refilled as if they
  were replaced already, and the fleet is above its target when they are. The code sets no bound on it (`NeverAboveTarget`
  fails with ages alone), so no property of `fleet_live`, the run with ages, is about the number of workers.
* A reset of the backoff (breaker or stability window) while an entry waits is overwritten by the delay it waited for
  (`restart-coordinator.ts:394`), until the next stability window.
* "Skipped" in the README of the file watcher (lines 102 and 126) is true of the attempt: a throttled flush keeps its
  payload and tries again when the interval is over (`plugin-file-watcher/src/index.ts:163-171`), which
  `ChangeWaitsBoundedly` relies on.
* Each worker probes by itself. When a probe times out or fails in some of them only, the workers bind the port in two
  ways and those that come later fail (`doubted` in `BindFailsOnlyAfterDoubt`; `orchestrator.ts:931` calls the fallback
  safe).
* `calculateSizing()` rounds the heap once when it steps down and twice for its result: a plan whose heap is 128 MB by the
  first can be `constrained` at 127 (the last conjunct of `PlanIsLargestThatFits`). Its CPU count is not capped by the
  host's, unlike `getCPUCount()`. A heap size in `workers.execArgv` wins over the planned one (`FleetMatchesPlan`).
* `Sizing` computes in exact integers, factors in per cent; the code uses floating point. The defaults and the grid of
  `MCBoot` give the same plans, but a fraction that has no exact double may differ where a product hits an integer.
* A kernel with pages of 64 KB says "unlimited" in cgroup v1 by 2^63 - 65536, which is below the threshold at
  `cgroup.ts:182` and is taken for a limit; `V1Unlimited` stands for the threshold.

### 3.3 Fairness

* `FleetCounts!FairSpec`: the backoff timer fires, and Node exits when nothing keeps its loop. Crashes, boots and forks
  owe nothing: `CapacityRestored` assumes only that crashes stop, and forks may fail for ever (which is then flagged).
* `Fleet!Fairness`: the failsafe of a watch, the age timers, the escalation timers of a drain, the backoff and the timers
  of a roll fire, and a process that got SIGKILL exits. A boot may hang, and a worker may ignore its message, its
  disconnect and SIGTERM.
* `Shutdown!Fairness`: timers of both sides fire, a process dies when the operating system or its own exit timer ends it,
  and a worker whose loop is not blocked reads its messages. A boot may hang and a loop may be blocked for good.

Monitoring, HotReload and Boot assume no fairness; in the first two "in time" is a safety property of their explicit clocks, and `Tick` waits for
what is due, as timers that are on time do.

All are weak: each is a timer that stays armed until it fires or is cleared, or the operating system.

## 4. Proofs

`FleetCountsProofs` proves, from `ConfigAssumption` and `FleetAssumption` only, for every target, threshold, backoff
configuration and bound:

| Theorem | Says |
| --- | --- |
| `TypeCorrect` | `Spec => []TypeOK` |
| `NeverOvershoots` | `Spec => []NoOvershoot` |
| `RestartsStopAtTheTrip` | `Spec => NoRestartPastTrip` |
| `NothingForkedInShutdown` | `Spec => NoForkInShutdown` |
| `NothingLostInSilence`, `EmptyFleetIsHeld`, `DeathIsLegible` | `NoSilentLoss`, `HeldWhileRestartsPend`, `DrainsOnlyInFailure`, assuming `~Recycling` and `~Rolling` |

**Overshoot.** `NoOvershoot` is not inductive: the fork that ends a backoff wait does not look at the capacity again. The
invariant `SizeInv` adds that while an entry waits (and no shutdown is in progress) the fleet is strictly below its target plus the
doubled replacements, and that the marks never exceed the workers. An entry only starts to wait when
`MissingWorkers > 0`; during the wait recycles and rolls leave `Settled` unchanged or count as doubled, and exits only
lower it.

**Fail-stop.** `FailStopInv` ties the engine's hidden state together for a fleet without recycles and rolls: nothing is
queued unless an entry waits; what is missing is pending, quarantined or flagged; a tripped engine is not ready and holds
nothing; an empty fleet is flagged and held exactly while an untripped entry waits; the loop drained only in such a state
with nothing to hold. The hold cannot be proved without the queue (why a restart is pending) nor the queue without the
exit code (why it may be empty), so the conjuncts are proved together, one lemma per action.

The two assumptions of the last three theorems are needed: `fleet_hold_violation` and `fleet_zombie_violation` are their
counterexamples once recycles or rolls are allowed.

`FleetProofs` proves of the fleet of workers, from `ConfigAssumption` and `FleetAssumption`, for every finite set of
workers, every target, threshold and configuration, with ages, recycles and rolls unless the theorem says otherwise:

| Theorem | Says |
| --- | --- |
| `TypeCorrect`, `MarksHaveOwners` | `Spec => []TypeOK`, `[]MarksAreOwned` |
| `DrainedWereReplaced` | `Spec => []DrainingIsReplacedAndMarked`, assuming `~Ageing` |
| `DrainsKeepMarks` | `Spec => DrainingKeepsItsMark` |
| `NothingJoinsAShutdown` | once the shutdown began no worker is added by any path |
| `TrippedForksReplaceOnly` | while the breaker is tripped, a new worker is watched for a living one it is to replace |
| `TerminatesUnlessRolling` | `Spec => []TrippedEmptyFleetTerminates`, assuming `~Rolling` |

`MarksAreOwned` is not inductive: whether a mark survives a handler depends on the roll, which has its own variables.
`IInv` adds what the roll and the recycles know of each other. `RollInv`: the roll waits exactly while it has a target,
does not try that one again, and only kills what is draining. `ReplacedFirst`: a worker is drained, watched for or waited
for only after a fork for it, so an exit or a failsafe finds an owner for each mark it leaves behind. `MarksAreReplaced`:
without ages the mark and the fork are one step, which is what ages break. `RolledOnce`: without recycles only the roll
marks, and each worker once. `ShutdownInv`: `stopRecycling()` forgot every mark. That the trip releases the hold, and that
nothing but a refill during a trip arms it again, is `TripReleasesHold` of the engine: the zombie of the violation run
needs the refill at the end of a roll.

`FleetRefinement` proves, for every set of workers and every configuration without ages, that the fleet implements the
counting specification, and carries the theorems about the counts over to the workers:

| Theorem | Says |
| --- | --- |
| `FleetImplementsCounts` | `Spec => ImplementsFleetCounts`, assuming `~Ageing` |
| `OvershootIsDoubled` | `Spec => [](shuttingDown \/ Settled <= Target + doubled)`, assuming `~Ageing` |
| `ExactlyNUnlessBoth` | `Spec => []NeverAboveTarget`, assuming `~Ageing` and `~(Recycling /\ Rolling)` |
| `HeldUnlessReplacing` | `Spec => []HoldsWhileRestartsPend`, assuming none of the three |
| `NoWorkerLostInSilence` | a missing worker is pending, quarantined or flagged, assuming none of the three |

There is one lemma per action of Fleet, which names the step of FleetCounts it maps to; watches, drains, the clocks of the
drains and the choice of the target of a roll map to stutters. `Counted` relates the sets to their sizes once and for all.
The step that needs an invariant is the graceful exit: in the counts only a marked worker leaves that way, in the fleet
any drained one does, and `MarksAreReplaced` with `ReplacedFirst` make these the same. `Proved` instantiates
FleetCountsProofs under the same mapping; the theorems of the table are those of the counts, read of the workers.

Three of these theorems delimit a finding: they prove what a violation run refutes, of all fleets that lack what the
counterexample uses. TLC confirms that no assumption can be dropped: `NeverAboveTarget` fails with ages alone and with
recycles and rolls together, `HoldsWhileRestartsPend` with any one of ages, recycles and rolls,
`DrainingIsReplacedAndMarked` with ages. With ages the implementation fails, too: the sweep marks workers a while before their replacements are forked, which no step of the
counts does.

`HotReloadProofs` proves every property of HotReload, from `OptionsAssumption`, for every set of environment files and all
values of the options:

| Theorem | Says |
| --- | --- |
| `TypeCorrect`, `TimersFollowPending`, `ChangesAreKept`, `TeardownSilences` | `Spec => []TypeOK`, `[]ArmedIffPending`, `[]NothingIsLost`, `[]TornDownIsSilent` |
| `WaitIsBounded` | `Spec => []ChangeWaitsBoundedly` |

`TimerInv` and `PayloadInv` extend the properties to the time before the watchers start. The bound on the wait needs
`WaitInv`: without a trailing timer the max-wait timer has run since the oldest change; with one, which runs exactly to
the end of the interval, that change came after the last restart, so it cannot have waited longer than the interval.
Which of the two holds changes only at a throttled flush, where the second follows from the interval not being over.

`ShutdownProofs` proves the safety properties of Shutdown, from `ShutdownAssumption`, for every set of workers and all
delays that `validateConfig()` accepts:

| Theorem | Says |
| --- | --- |
| `TypeCorrect`, `CallbacksAreLast`, `ShutdownEndsInTime` | `Spec => []TypeOK`, `[]CallbacksRunLast`, `[]ShutdownIsBounded` |
| `AckedAreNotKilled` | `Spec => AckedWorkersExitUnkilled` |

`DeadlineInv` bounds the deadline of each phase by the sum of the delays up to it; it needs `AwaitInv`, that only the ACK
phase awaits ACKs. For the action property, `WindowInv` compares two clocks: the exit timer of a worker that acknowledged
was armed before its ACK was read, hence before the exit wait of the primary, with the same delay. It is therefore over
by SIGTERM, and because the clock cannot move while an exit timer is due, such a worker is gone before SIGINT: none is
left in the phase that sends SIGKILL.

`MonitoringProofs` proves every property of Monitoring, from `ConfigAssumption`, for every target, number of workers and
all options:

| Theorem | Says |
| --- | --- |
| `TypeCorrect`, `SettlesWithinTarget`, `DeadAreForgotten` | `Spec => []TypeOK`, `[]SettledWithinTarget`, `[]NothingKeptOfTheDead` |
| `BlockedAreReplaced`, `ShortfallIsFlagged`, `AlarmIsTrue` | `Spec => []BlockedIsReplaced`, `[]MissingCapacityIsFlagged`, `[]AlarmIsAboutMissing` |
| `WedgedWereBlocked` | `Spec => WedgedWasBlocked` |

`ClockInv` relates the clocks of the two sides: what the primary counts as the silence of a registered worker is the time
since its last beat, or, while a report is on its way, the time between the two last beats. `WatchInv` adds that the
silence and the time to the next run of the watch never exceed the timeout and one beat together, and that a worker that
reported and is not marked is still registered unless its own fork was declined. The first gives `WedgedWasBlocked`, both give
`BlockedIsReplaced`, and they also keep the saturating ages of the registry away from their cap. `AlarmInv` says that a
shortfall that is not flagged has an armed timer and that its age and the time left add up to at most
`degradedAfterMs`. What is kept of the dead needs `LifeInv`: who is not on the list of exited workers and has a report on
its way is alive.

`BootProofs` proves every property of Boot, from the assumptions on the constants, for all hosts, plugins and bounds:

| Theorem | Says |
| --- | --- |
| `NeverOrphaned`, `InstallsAreBalanced`, `CleanExits` | `Spec => []KilledOnlyUnmanned`, `[]PluginsBalanced`, `[]CleanExitIsComplete` |
| `CacheIsFresh` | `Spec => []FreshAfterQuietEvent` |
| `BindsAgree` | `Spec => []BindFailsOnlyAfterDoubt` |
| `TypeCorrect`, `FleetsMatchTheirPlan` | `Spec => []TypeOK`, `[]FleetMatchesPlan` |
| `PlansAreLargest` | `Spec => []PlanIsBest` |

`LifeInv` says, by how far `run()` came, which plugins are installed, and, by the phase of the shutdown, which are
uninstalled; that the handlers are registered from before the first fork to the shutdown; and that without a fork nobody
is alive. `FreshInv`: when no collection ran at the last event, each one that runs now shows every event, so whichever
ends, and in whatever order, stores a fresh value; and the promise to join, if there is one, is that of the last
collection to begin, which no event overtook. `AgreeInv`: as long as no probe of a kernel with SO_REUSEPORT said
anything but yes, every answer there is yes and every answer elsewhere is no, so all sockets are of one kind.

The types of Boot are where the configuration is proved: `AcceptedIsSupported` goes from the ranges and the cross-field
checks of `validateConfig()` to `Supported`, what the other modules assume of their options. `HeapPlanned` says that once
the sizing plugin is installed the environment of the workers to come resolves to the planned heap, whatever flags
`NODE_OPTIONS` had (`InjectedHeap`) and whoever patches the environment before or after. `FleetInv` says from the first fork
on that each worker has the environment of the configuration and that the forks made and to make add up to the resolved
count; it holds because nothing changes either after the first fork (`ConfigStays`).

`PlansAreLargest` is about a recursive function, and the library's induction theorems cannot be used. Its proof rests on
`Least`, every set of naturals has a least element, which follows from the well-foundedness of `<`: the least count at
which a claim fails gives the contradiction. In that way `DescentExists` shows that the recursion of `StepDown` defines a
function and `DescentStops` that it ends at the largest viable count. What is left, `PlanFits`, is the arithmetic of two
roundings: the heap of a count is at least 128 MB exactly if the memory the plan may use is (`HeapBounds`).

TLC checked every one of these properties before it was proved, and the strengthened invariants before the theorems.
Every invariant of a passing run is a theorem, `DrainingIsReplacedAndMarked` and `ImplementsFleetCounts` with the
assumption that the run makes, too. Only model-checked: `CapacityRestored`, `EveryMarkedWorkerLeaves`, `RollEnds`,
`EveryTargetEnds` and whatever else is liveness, which is out of the prover's reach together with ENABLED. The violation
runs are counterexamples of TLC.

## 5. Plan

1. Done: `RestartCoordinator`, `FleetCounts`, `Fleet`, `Shutdown`, `Monitoring`, `HotReload`, `Startup` with `Configuration`
   and `Sizing`, `Scrape`, `ReusePort`, `Boot`; the proofs about all of them, and that `Fleet` implements `FleetCounts`.
2. Proofs: a bound on the overshoot of a fleet with ages, for which the counts would have to know marks without a fork; the
   safety part of `EveryTargetEnds`, that each phase of the shutdown has a deadline or is over.
3. Extend: `CrashTracker` with its timestamps and size cap; `setReady()`/`setNotReady()`; the otlp provider with its shutdown
   latch.
