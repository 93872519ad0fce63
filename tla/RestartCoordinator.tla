-------------------------- MODULE RestartCoordinator --------------------------
(***************************************************************************)
(* The crash-restart engine of the primary (class RestartCoordinator),     *)
(* together with the two flags it shares with the Orchestrator: the exit   *)
(* code of the process and the readiness bit.                              *)
(*                                                                         *)
(* This module holds the engine's variables and one operator per method.   *)
(* Each operator is an action that fixes the next value of some of the     *)
(* engine's variables; the modules that EXTEND this one conjoin it with    *)
(* the part of the handler that changes the workers.  Node runs a callback *)
(* and its microtasks to completion, so one handler is one step.           *)
(*                                                                         *)
(* The parameters "active" and "recycling" are what the engine reads       *)
(* through its dependencies at that point: metrics.activeWorkers and       *)
(* WorkerManager.getRecyclingCount().                                      *)
(***************************************************************************)
EXTENDS Integers

CONSTANTS
  Target,              \* resolveWorkerCount(): the configured fleet size
  CrashThreshold,      \* restart.crashThreshold
  BootFailQuarantine,  \* restart.bootFailQuarantine, 0 when disabled
  BackoffMs,           \* restart.backoffMs
  BackoffMultiplier,   \* restart.backoffMultiplier
  MaxBackoffMs,        \* restart.maxBackoffMs
  StabilityWindowMs    \* restart.stabilityWindowMs, 0 for an immediate reset

\* The ranges validateConfig() enforces; backoffMs = 0 (no wait at all) and
\* fractional multipliers are left out.
ASSUME ConfigAssumption ==
  /\ Target \in Nat \ {0}
  /\ CrashThreshold \in Nat \ {0}
  /\ BootFailQuarantine \in Nat
  /\ BackoffMs \in Nat \ {0}
  /\ BackoffMultiplier \in Nat \ {0}
  /\ MaxBackoffMs \in Nat /\ BackoffMs <= MaxBackoffMs
  /\ StabilityWindowMs \in Nat

MAX_CONSECUTIVE_FORK_FAILURES == 3

VARIABLES
  pendingRestartQueue,      \* number of queued entries (crash or refill alike)
  waitingDelay,             \* delayMs of the entry in its backoff wait, 0 when
                            \* the loop is not running (restartLoopRunning)
  restartBackoffDelay,      \* current backoff, 0 before the first restart
  backoffResetTimer,        \* is the stability timer armed?
  consecutiveForkFailures,  \* saturates at MAX_CONSECUTIVE_FORK_FAILURES
  consecutiveBootFailures,  \* saturates at BootFailQuarantine
  quarantinedSlots,
  emptyFleetHold,           \* is the ref'd hold timer armed?
  crashes,                  \* crash records inside the window, saturates at
                            \* CrashThreshold (module CrashTracker keeps them)
  breakerWarningEmitted,
  exitCode,                 \* process.exitCode
  ready,                    \* health.ready
  shuttingDown              \* ShutdownCoordinator.isShutdownInProgress()

queueVars   == <<pendingRestartQueue, waitingDelay>>
breakerVars == <<crashes, breakerWarningEmitted>>
bootVars    == <<consecutiveBootFailures, quarantinedSlots>>
engineVars  == <<queueVars, restartBackoffDelay, backoffResetTimer,
                 consecutiveForkFailures, bootVars, emptyFleetHold,
                 breakerVars, exitCode, ready, shuttingDown>>

EngineTypeOK ==
  /\ pendingRestartQueue \in Nat
  /\ waitingDelay \in 0..MaxBackoffMs
  /\ restartBackoffDelay \in 0..MaxBackoffMs
  /\ backoffResetTimer \in BOOLEAN
  /\ consecutiveForkFailures \in 0..MAX_CONSECUTIVE_FORK_FAILURES
  /\ consecutiveBootFailures \in 0..BootFailQuarantine
  /\ quarantinedSlots \in Nat
  /\ emptyFleetHold \in BOOLEAN
  /\ crashes \in 0..CrashThreshold
  /\ breakerWarningEmitted \in BOOLEAN
  /\ exitCode \in {0, 1}
  /\ ready \in BOOLEAN
  /\ shuttingDown \in BOOLEAN

EngineInit ==
  /\ pendingRestartQueue = 0
  /\ waitingDelay = 0
  /\ restartBackoffDelay = 0
  /\ backoffResetTimer = FALSE
  /\ consecutiveForkFailures = 0
  /\ consecutiveBootFailures = 0
  /\ quarantinedSlots = 0
  /\ emptyFleetHold = FALSE
  /\ crashes = 0
  /\ breakerWarningEmitted = FALSE
  /\ exitCode = 0
  /\ ready = TRUE
  /\ shuttingDown = FALSE
-----------------------------------------------------------------------------
Lesser(a, b) == IF a <= b THEN a ELSE b

\* CrashTracker.isTripped() for a number of recorded crashes.
Tripped(count) == count >= CrashThreshold

\* max(0, n): capacities are never negative.
Positive(n) == IF n > 0 THEN n ELSE 0

\* A restart is in its backoff wait: the loop is suspended at its await.
Waiting == waitingDelay # 0

\* Entries the engine still owes an attempt.
PendingRestarts == pendingRestartQueue + (IF Waiting THEN 1 ELSE 0)

\* Mutants of the next definition.
MissingWorkersTooMany(active, recycling) == Positive(Target - (active - recycling) + 1)
MissingWorkersTooFew(active, recycling)  == Positive(Target - (active - recycling) - 1)

\* Workers the restart queue must add: a worker being recycled is alive but
\* already replaced, so it does not count as settled.
MissingWorkers(active, recycling) == Positive(Target - (active - recycling))

\* The delay an entry waits, fixed before the wait begins.
DelayFor(backoff) == IF backoff > 0 THEN backoff ELSE BackoffMs

\* Mutant of the next definition.
NextDelayUncapped(delay) == delay * BackoffMultiplier

\* The backoff after a fork, computed from the delay its entry waited.
NextDelay(delay) == Lesser(delay * BackoffMultiplier, MaxBackoffMs)

\* Mutant of the next definition.
HoldNeverArmed(active) == emptyFleetHold

\* armEmptyFleetHold() on an empty fleet.
HoldIfEmpty(active) == emptyFleetHold \/ (active = 0 /\ ~shuttingDown)

(***************************************************************************)
(* One run of the queue loop up to its next await, with "queued" entries:  *)
(* a second loop is never started; a shutdown or a tripped breaker drops   *)
(* the queue; entries are consumed for nothing while no worker is missing, *)
(* otherwise one entry starts its backoff wait.                            *)
(***************************************************************************)
ProcessRestartQueue(queued, loopRunning, tripped, backoff, missing) ==
  \/ /\ loopRunning
     /\ pendingRestartQueue' = queued
     /\ UNCHANGED waitingDelay
  \/ /\ ~loopRunning
     /\ queued = 0 \/ shuttingDown \/ tripped \/ missing = 0
     /\ pendingRestartQueue' = 0
     /\ waitingDelay' = 0
  \/ /\ ~loopRunning
     /\ queued > 0 /\ ~shuttingDown /\ ~tripped /\ missing > 0
     /\ pendingRestartQueue' = queued - 1
     /\ waitingDelay' = DelayFor(backoff)

\* Push "count" refills and kick the queue; refills must be able to fork.
RequestCapacityRefill(count, active, recycling, tripped, backoff) ==
  /\ emptyFleetHold' = HoldIfEmpty(active)
  /\ ProcessRestartQueue(pendingRestartQueue + count, Waiting, tripped, backoff,
                         MissingWorkers(active, recycling))
-----------------------------------------------------------------------------
\* A boot failure counts towards the quarantine only while a worker serves.
CountsAsBootFailure(bootFailed, hasOnlineWorkers) ==
  bootFailed /\ BootFailQuarantine > 0 /\ hasOnlineWorkers

\* The slot is given up: no crash record, no restart.
QuarantineSlot ==
  /\ consecutiveBootFailures + 1 >= BootFailQuarantine
  /\ consecutiveBootFailures' = BootFailQuarantine
  /\ quarantinedSlots' = quarantinedSlots + 1
  /\ UNCHANGED <<queueVars, emptyFleetHold, breakerVars, exitCode, ready>>

\* Mutant of the next definition.
TripKeepsTheHold ==
  /\ Tripped(crashes + 1)
  /\ crashes' = CrashThreshold
  /\ exitCode' = 1
  /\ breakerWarningEmitted' = TRUE
  /\ ready' = FALSE
  /\ UNCHANGED <<queueVars, emptyFleetHold>>

\* The crash is recorded and trips the breaker (or finds it tripped).
TripBreaker ==
  /\ Tripped(crashes + 1)
  /\ crashes' = CrashThreshold
  /\ exitCode' = 1
  /\ emptyFleetHold' = FALSE
  /\ breakerWarningEmitted' = TRUE
  /\ ready' = FALSE
  /\ UNCHANGED queueVars

\* The crash is recorded below the threshold and its restart is queued.
QueueRestart(active, recycling) ==
  /\ ~Tripped(crashes + 1)
  /\ crashes' = crashes + 1
  /\ exitCode' = IF active = 0 THEN 1 ELSE exitCode
  /\ breakerWarningEmitted' = FALSE
  /\ RequestCapacityRefill(1, active, recycling, FALSE, restartBackoffDelay)
  /\ UNCHANGED ready

(***************************************************************************)
(* The crash path of the Orchestrator's exit handler: the stability timer  *)
(* is cancelled, then the engine quarantines the slot, trips, or queues.   *)
(***************************************************************************)
OnWorkerCrash(active, recycling, bootFailed, hasOnlineWorkers) ==
  /\ ~shuttingDown
  /\ backoffResetTimer' = FALSE
  /\ \/ CountsAsBootFailure(bootFailed, hasOnlineWorkers) /\ QuarantineSlot
     \/ /\ CountsAsBootFailure(bootFailed, hasOnlineWorkers)
        /\ consecutiveBootFailures + 1 < BootFailQuarantine
        /\ consecutiveBootFailures' = consecutiveBootFailures + 1
        /\ UNCHANGED quarantinedSlots
        /\ TripBreaker \/ QueueRestart(active, recycling)
     \/ /\ ~CountsAsBootFailure(bootFailed, hasOnlineWorkers)
        /\ UNCHANGED bootVars
        /\ TripBreaker \/ QueueRestart(active, recycling)
  /\ UNCHANGED <<restartBackoffDelay, consecutiveForkFailures, shuttingDown>>

\* Mutant of the next definition.
ExitCodeClearedByAnyWorker(active) == 0

\* Capacity is back at the target: a flagged failure is resolved.
ExitCodeOnline(active) == IF active >= Target THEN 0 ELSE exitCode

(***************************************************************************)
(* The Orchestrator's online handler.  It is not gated on a shutdown.      *)
(***************************************************************************)
OnWorkerOnline(active) ==
  /\ consecutiveBootFailures' = 0
  /\ emptyFleetHold' = FALSE
  /\ backoffResetTimer' = (backoffResetTimer
                             \/ (restartBackoffDelay > 0 /\ StabilityWindowMs > 0))
  /\ restartBackoffDelay' = IF StabilityWindowMs = 0 THEN 0 ELSE restartBackoffDelay
  /\ exitCode' = ExitCodeOnline(active)
  /\ UNCHANGED <<queueVars, consecutiveForkFailures, quarantinedSlots,
                 breakerVars, ready, shuttingDown>>

\* The stability timer fires.
BackoffReset ==
  /\ backoffResetTimer
  /\ backoffResetTimer' = FALSE
  /\ restartBackoffDelay' = IF shuttingDown THEN restartBackoffDelay ELSE 0
  /\ UNCHANGED <<queueVars, consecutiveForkFailures, bootVars, emptyFleetHold,
                 breakerVars, exitCode, ready, shuttingDown>>
-----------------------------------------------------------------------------
(***************************************************************************)
(* The backoff wait of an entry ends.  The engine re-checks the shutdown   *)
(* and the breaker, forks, and runs the loop on to its next await.         *)
(***************************************************************************)
\* (The first two are mutants of the third.)
MayForkUnlessShuttingDown == Waiting /\ ~shuttingDown
MayForkUnlessTripped      == Waiting /\ ~Tripped(crashes)
MayForkAfterBackoff == Waiting /\ ~shuttingDown /\ ~Tripped(crashes)

\* The entry is abandoned, and the loop then drops the rest of the queue.
AbandonRestart ==
  /\ Waiting
  /\ shuttingDown \/ Tripped(crashes)
  /\ pendingRestartQueue' = 0
  /\ waitingDelay' = 0
  /\ UNCHANGED <<restartBackoffDelay, backoffResetTimer, consecutiveForkFailures,
                 bootVars, emptyFleetHold, breakerVars, exitCode, ready, shuttingDown>>

\* fork() throws: retry through the queue, or give up on the third failure.
ForkForRestartFails(active, recycling) ==
  /\ MayForkAfterBackoff
  /\ \/ /\ consecutiveForkFailures + 1 < MAX_CONSECUTIVE_FORK_FAILURES
        /\ consecutiveForkFailures' = consecutiveForkFailures + 1
        /\ ProcessRestartQueue(pendingRestartQueue + 1, FALSE, FALSE,
                               restartBackoffDelay, MissingWorkers(active, recycling))
        /\ UNCHANGED <<exitCode, emptyFleetHold>>
     \/ /\ consecutiveForkFailures + 1 >= MAX_CONSECUTIVE_FORK_FAILURES
        /\ consecutiveForkFailures' = MAX_CONSECUTIVE_FORK_FAILURES
        /\ exitCode' = 1
        /\ emptyFleetHold' = FALSE
        /\ pendingRestartQueue' = 0
        /\ waitingDelay' = 0
  /\ UNCHANGED <<restartBackoffDelay, backoffResetTimer, bootVars, breakerVars,
                 ready, shuttingDown>>

\* fork() succeeds: "active" already counts the new worker.  The next backoff
\* comes from the delay this entry waited, whatever the backoff has become.
ForkForRestart(active, recycling) ==
  /\ MayForkAfterBackoff
  /\ consecutiveForkFailures' = 0
  /\ restartBackoffDelay' = NextDelay(waitingDelay)
  /\ ProcessRestartQueue(pendingRestartQueue, FALSE, FALSE, NextDelay(waitingDelay),
                         MissingWorkers(active, recycling))
  /\ UNCHANGED <<backoffResetTimer, bootVars, emptyFleetHold, breakerVars,
                 exitCode, ready, shuttingDown>>
-----------------------------------------------------------------------------
\* Time passes and crash records leave the window (any number at once).
CrashWindowSlides ==
  /\ crashes > 0
  /\ crashes' \in 0..(crashes - 1)
  /\ UNCHANGED <<queueVars, restartBackoffDelay, backoffResetTimer,
                 consecutiveForkFailures, bootVars, emptyFleetHold,
                 breakerWarningEmitted, exitCode, ready, shuttingDown>>

\* Orchestrator.resetCircuitBreaker(): the operator re-arms the engine.  The
\* missing capacity it refills is counted from the active workers alone.
ResetCircuitBreaker(active, recycling) ==
  /\ crashes' = 0
  /\ restartBackoffDelay' = 0
  /\ consecutiveForkFailures' = 0
  /\ \/ /\ shuttingDown
        /\ UNCHANGED <<queueVars, emptyFleetHold, exitCode, ready>>
     \/ /\ ~shuttingDown
        /\ ready' = TRUE
        /\ exitCode' = 0
        /\ RequestCapacityRefill(Positive(Target - active), active, recycling,
                                 FALSE, 0)
  /\ UNCHANGED <<backoffResetTimer, bootVars, breakerWarningEmitted, shuttingDown>>

\* The synchronous prefix of shutdownPrimary(), up to shutdown in progress.
BeginShutdown ==
  /\ ~shuttingDown
  /\ shuttingDown' = TRUE
  /\ ready' = FALSE
  /\ emptyFleetHold' = FALSE
  /\ backoffResetTimer' = FALSE
  /\ UNCHANGED <<queueVars, restartBackoffDelay, consecutiveForkFailures, bootVars,
                 breakerVars, exitCode>>
-----------------------------------------------------------------------------
(***************************************************************************)
(* The engine's part of a rolling restart.  Between two awaits the roll    *)
(* tries its targets in turn: "failures" of them fail to fork (their old   *)
(* worker is left running) before one forks, the targets run out, or the   *)
(* failures add up to an unrecoverable environment.  ("begin": this is the *)
(* first run, which also clears the quarantine.)                           *)
(***************************************************************************)
\* Fork failures in a row that make the roll bail out.
FailuresToBailOut ==
  IF consecutiveForkFailures < MAX_CONSECUTIVE_FORK_FAILURES
  THEN MAX_CONSECUTIVE_FORK_FAILURES - consecutiveForkFailures
  ELSE 1

ResetQuarantine(begin) ==
  /\ consecutiveBootFailures' = IF begin THEN 0 ELSE consecutiveBootFailures
  /\ quarantinedSlots' = IF begin THEN 0 ELSE quarantinedSlots

RollForks(failures, begin) ==
  /\ ~shuttingDown
  /\ failures < FailuresToBailOut
  /\ consecutiveForkFailures' = 0
  /\ ResetQuarantine(begin)
  /\ UNCHANGED <<queueVars, restartBackoffDelay, backoffResetTimer, emptyFleetHold,
                 breakerVars, exitCode, ready, shuttingDown>>

RollBailsOut(failures, begin) ==
  /\ ~shuttingDown
  /\ failures = FailuresToBailOut
  /\ consecutiveForkFailures' = MAX_CONSECUTIVE_FORK_FAILURES
  /\ exitCode' = 1
  /\ ResetQuarantine(begin)
  /\ UNCHANGED <<queueVars, restartBackoffDelay, backoffResetTimer, emptyFleetHold,
                 breakerVars, ready, shuttingDown>>

\* restartWorkers() ends a complete roll by refilling what is still missing; a
\* shutdown that finds no target left does not stop it.
RollCompletes(failures, begin, active, recycling) ==
  /\ failures < FailuresToBailOut
  /\ consecutiveForkFailures' = consecutiveForkFailures + failures
  /\ ResetQuarantine(begin)
  /\ RequestCapacityRefill(Positive(Target - active), active, recycling,
                           Tripped(crashes), restartBackoffDelay)
  /\ UNCHANGED <<restartBackoffDelay, backoffResetTimer, breakerVars, exitCode,
                 ready, shuttingDown>>
=============================================================================
