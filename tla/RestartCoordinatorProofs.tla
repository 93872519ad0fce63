------------------------ MODULE RestartCoordinatorProofs ------------------------
(***************************************************************************)
(* Lemmas about the restart engine, whatever the fleet it serves is: what  *)
(* its operators return, and what each handler keeps.  The theorems about  *)
(* the counted fleet and about the fleet of workers both rest on them.     *)
(***************************************************************************)
EXTENDS RestartCoordinator, TLAPS

(***************************************************************************)
(* The operators of the engine.                                            *)
(***************************************************************************)
LEMMA DelayForType ==
  ASSUME NEW backoff \in 0..MaxBackoffMs
  PROVE  DelayFor(backoff) \in 1..MaxBackoffMs
BY ConfigAssumption DEF DelayFor

LEMMA NextDelayType ==
  ASSUME NEW delay \in Nat
  PROVE  NextDelay(delay) \in 0..MaxBackoffMs
<1>1. BackoffMultiplier \in Nat /\ MaxBackoffMs \in Nat
  BY ConfigAssumption
<1>2. delay * BackoffMultiplier \in Nat
  BY <1>1
<1> QED  BY <1>1, <1>2 DEF NextDelay, Lesser

LEMMA PositiveType ==
  ASSUME NEW n \in Int
  PROVE  Positive(n) \in Nat /\ Positive(n) >= n /\ (Positive(n) > 0 => Positive(n) = n)
BY DEF Positive

\* What one run of the queue loop leaves behind.
LEMMA QueueRun ==
  ASSUME EngineTypeOK,
         NEW queued \in Nat, NEW loopRunning \in BOOLEAN, NEW tripped \in BOOLEAN,
         NEW backoff \in 0..MaxBackoffMs, NEW missing \in Nat,
         ProcessRestartQueue(queued, loopRunning, tripped, backoff, missing)
  PROVE  /\ pendingRestartQueue' \in Nat
         /\ waitingDelay' \in 0..MaxBackoffMs
         /\ loopRunning => waitingDelay' = waitingDelay /\ pendingRestartQueue' = queued
         /\ ~loopRunning /\ waitingDelay' # 0 =>
              pendingRestartQueue' + 1 = queued /\ missing > 0 /\ ~tripped
         /\ ~loopRunning /\ waitingDelay' = 0 =>
              /\ pendingRestartQueue' = 0
              /\ queued = 0 \/ shuttingDown \/ tripped \/ missing = 0
<1>1. DelayFor(backoff) \in 1..MaxBackoffMs
  BY DelayForType
<1>2. MaxBackoffMs \in Nat
  BY ConfigAssumption
<1> QED  BY <1>1, <1>2 DEF ProcessRestartQueue, EngineTypeOK

LEMMA MissingWorkersType ==
  ASSUME NEW active \in Nat, NEW recycling \in Nat
  PROVE  /\ MissingWorkers(active, recycling) \in Nat
         /\ MissingWorkers(active, recycling) >= Target - (active - recycling)
         /\ MissingWorkers(active, recycling) > 0 => active - recycling < Target
<1>1. Target - (active - recycling) \in Int
  BY ConfigAssumption
<1> QED  BY <1>1, PositiveType, ConfigAssumption DEF MissingWorkers

\* What a capacity refill leaves behind.
LEMMA RefillRun ==
  ASSUME EngineTypeOK,
         NEW count \in Nat, NEW active \in Nat, NEW recycling \in Nat,
         NEW tripped \in BOOLEAN, NEW backoff \in 0..MaxBackoffMs,
         RequestCapacityRefill(count, active, recycling, tripped, backoff)
  PROVE  /\ pendingRestartQueue' \in Nat
         /\ waitingDelay' \in 0..MaxBackoffMs
         /\ emptyFleetHold' \in BOOLEAN
         /\ Waiting => /\ waitingDelay' = waitingDelay
                       /\ pendingRestartQueue' = pendingRestartQueue + count
         /\ ~Waiting /\ waitingDelay' # 0 =>
              /\ pendingRestartQueue' + 1 = pendingRestartQueue + count
              /\ active - recycling < Target
              /\ ~tripped
         /\ ~Waiting /\ waitingDelay' = 0 =>
              /\ pendingRestartQueue' = 0
              /\ \/ pendingRestartQueue + count = 0
                 \/ shuttingDown \/ tripped
                 \/ active - recycling >= Target
<1> DEFINE missing == MissingWorkers(active, recycling)
<1>1. /\ missing \in Nat
      /\ missing >= Target - (active - recycling)
      /\ missing > 0 => active - recycling < Target
  BY MissingWorkersType
<1>2. missing = 0 => active - recycling >= Target
  BY <1>1, ConfigAssumption
<1>3. pendingRestartQueue + count \in Nat
  BY DEF EngineTypeOK
<1>4. ProcessRestartQueue(pendingRestartQueue + count, Waiting, tripped, backoff, missing)
  BY DEF RequestCapacityRefill
<1>5. emptyFleetHold' \in BOOLEAN
  BY DEF RequestCapacityRefill, HoldIfEmpty, EngineTypeOK
<1>6. Waiting \in BOOLEAN
  BY DEF Waiting
<1> DEFINE queued == pendingRestartQueue + count
<1> HIDE DEF missing, queued
<1>7. /\ pendingRestartQueue' \in Nat
      /\ waitingDelay' \in 0..MaxBackoffMs
      /\ Waiting => waitingDelay' = waitingDelay /\ pendingRestartQueue' = queued
      /\ ~Waiting /\ waitingDelay' # 0 =>
           pendingRestartQueue' + 1 = queued /\ missing > 0 /\ ~tripped
      /\ ~Waiting /\ waitingDelay' = 0 =>
           /\ pendingRestartQueue' = 0
           /\ queued = 0 \/ shuttingDown \/ tripped \/ missing = 0
  <2>1. queued \in Nat /\ ProcessRestartQueue(queued, Waiting, tripped, backoff, missing)
    BY <1>3, <1>4 DEF queued
  <2> QED  BY <1>1, <1>6, <2>1, QueueRun
<1> QED  BY <1>1, <1>2, <1>5, <1>7 DEF queued
-----------------------------------------------------------------------------
(***************************************************************************)
(* The handlers: each keeps the engine well-typed, and lets a restart into *)
(* its backoff wait only when a worker is missing.                         *)
(***************************************************************************)
LEMMA CrashHandler ==
  ASSUME EngineTypeOK,
         NEW active \in Nat, NEW recycling \in Nat,
         NEW bootFailed, NEW hasOnlineWorkers,
         OnWorkerCrash(active, recycling, bootFailed, hasOnlineWorkers)
  PROVE  /\ EngineTypeOK'
         /\ ~shuttingDown /\ ~shuttingDown'
         /\ waitingDelay' # 0 => waitingDelay' = waitingDelay \/ active - recycling < Target
<1>0. restartBackoffDelay \in 0..MaxBackoffMs
  BY DEF EngineTypeOK
<1>1. /\ ~shuttingDown
      /\ UNCHANGED <<restartBackoffDelay, consecutiveForkFailures, shuttingDown>>
      /\ backoffResetTimer' = FALSE
  BY DEF OnWorkerCrash
<1>2. ASSUME QuarantineSlot
      PROVE  EngineTypeOK' /\ waitingDelay' = waitingDelay
  <2>1. UNCHANGED <<pendingRestartQueue, waitingDelay, emptyFleetHold, crashes,
                    breakerWarningEmitted, exitCode, ready>>
    BY <1>2 DEF QuarantineSlot, queueVars, breakerVars
  <2>2. consecutiveBootFailures' \in 0..BootFailQuarantine /\ quarantinedSlots' \in Nat
    BY <1>2, ConfigAssumption DEF QuarantineSlot, EngineTypeOK
  <2> QED  BY <1>1, <2>1, <2>2 DEF EngineTypeOK, MAX_CONSECUTIVE_FORK_FAILURES
<1>3. ASSUME consecutiveBootFailures' \in 0..BootFailQuarantine, UNCHANGED quarantinedSlots,
             TripBreaker
      PROVE  EngineTypeOK' /\ waitingDelay' = waitingDelay
  <2>1. UNCHANGED <<pendingRestartQueue, waitingDelay>>
    BY <1>3 DEF TripBreaker, queueVars
  <2>2. /\ crashes' \in 0..CrashThreshold /\ breakerWarningEmitted' \in BOOLEAN
        /\ exitCode' \in {0, 1} /\ emptyFleetHold' \in BOOLEAN /\ ready' \in BOOLEAN
    <3>1. crashes' = CrashThreshold /\ CrashThreshold \in 0..CrashThreshold
      BY <1>3, ConfigAssumption DEF TripBreaker
    <3> QED  BY <1>3, <3>1 DEF TripBreaker
  <2> QED  BY <1>1, <1>3, <2>1, <2>2 DEF EngineTypeOK, MAX_CONSECUTIVE_FORK_FAILURES
<1>4. ASSUME consecutiveBootFailures' \in 0..BootFailQuarantine, UNCHANGED quarantinedSlots,
             QueueRestart(active, recycling)
      PROVE  /\ EngineTypeOK'
             /\ waitingDelay' # 0 => waitingDelay' = waitingDelay \/ active - recycling < Target
  <2>1. RequestCapacityRefill(1, active, recycling, FALSE, restartBackoffDelay)
    BY <1>4 DEF QueueRestart
  <2>2. /\ pendingRestartQueue' \in Nat /\ waitingDelay' \in 0..MaxBackoffMs
        /\ emptyFleetHold' \in BOOLEAN
        /\ waitingDelay' # 0 => waitingDelay' = waitingDelay \/ active - recycling < Target
    BY <1>0, <2>1, RefillRun DEF Waiting
  <2>3. crashes' \in 0..CrashThreshold /\ exitCode' \in {0, 1}
    BY <1>4, ConfigAssumption DEF QueueRestart, Tripped, EngineTypeOK
  <2> QED  BY <1>1, <1>4, <2>2, <2>3
           DEF QueueRestart, EngineTypeOK, MAX_CONSECUTIVE_FORK_FAILURES
<1>5. consecutiveBootFailures + 1 < BootFailQuarantine =>
        consecutiveBootFailures + 1 \in 0..BootFailQuarantine
  BY ConfigAssumption DEF EngineTypeOK
<1>6. consecutiveBootFailures \in 0..BootFailQuarantine
  BY DEF EngineTypeOK
<1> QED  BY <1>1, <1>2, <1>3, <1>4, <1>5, <1>6 DEF OnWorkerCrash, bootVars

LEMMA OnlineHandler ==
  ASSUME EngineTypeOK, NEW active \in Nat, OnWorkerOnline(active)
  PROVE  EngineTypeOK' /\ UNCHANGED <<waitingDelay, shuttingDown>>
<1>1. UNCHANGED <<pendingRestartQueue, waitingDelay, consecutiveForkFailures,
                  quarantinedSlots, crashes, breakerWarningEmitted, ready, shuttingDown>>
  BY DEF OnWorkerOnline, queueVars, breakerVars
<1>2. consecutiveBootFailures' \in 0..BootFailQuarantine
  BY ConfigAssumption DEF OnWorkerOnline
<1>3. emptyFleetHold' \in BOOLEAN /\ backoffResetTimer' \in BOOLEAN
  BY DEF OnWorkerOnline, EngineTypeOK
<1>4. restartBackoffDelay' \in 0..MaxBackoffMs /\ exitCode' \in {0, 1}
  BY ConfigAssumption DEF OnWorkerOnline, ExitCodeOnline, EngineTypeOK
<1> QED  BY <1>1, <1>2, <1>3, <1>4 DEF EngineTypeOK, MAX_CONSECUTIVE_FORK_FAILURES

LEMMA BackoffWaitEnds ==
  ASSUME EngineTypeOK, NEW active \in Nat, NEW recycling \in Nat
  PROVE  /\ AbandonRestart => EngineTypeOK' /\ waitingDelay' = 0 /\ UNCHANGED shuttingDown
         /\ ForkForRestartFails(active, recycling) =>
              EngineTypeOK' /\ Waiting /\ UNCHANGED shuttingDown
         /\ ForkForRestart(active, recycling) =>
              /\ EngineTypeOK'
              /\ UNCHANGED shuttingDown
              /\ Waiting /\ ~shuttingDown /\ ~Tripped(crashes)
              /\ waitingDelay' # 0 => active - recycling < Target
<1> DEFINE missing == MissingWorkers(active, recycling)
<1>1. missing \in Nat /\ (missing > 0 => active - recycling < Target)
  BY MissingWorkersType
<1>2. restartBackoffDelay \in 0..MaxBackoffMs /\ pendingRestartQueue \in Nat /\ waitingDelay \in Nat
  BY ConfigAssumption DEF EngineTypeOK
<1>3. ASSUME AbandonRestart
      PROVE  EngineTypeOK' /\ waitingDelay' = 0 /\ UNCHANGED shuttingDown
  BY <1>3, ConfigAssumption
     DEF AbandonRestart, EngineTypeOK, bootVars, breakerVars, MAX_CONSECUTIVE_FORK_FAILURES
<1>4. ASSUME ForkForRestartFails(active, recycling)
      PROVE  EngineTypeOK' /\ Waiting /\ UNCHANGED shuttingDown
  <2>1. ASSUME ProcessRestartQueue(pendingRestartQueue + 1, FALSE, FALSE,
                                   restartBackoffDelay, missing)
        PROVE  pendingRestartQueue' \in Nat /\ waitingDelay' \in 0..MaxBackoffMs
    <3>1. pendingRestartQueue + 1 \in Nat
      BY <1>2
    <3> HIDE DEF missing
    <3> QED  BY <1>1, <1>2, <2>1, <3>1, QueueRun
  <2>2. ASSUME pendingRestartQueue' = 0, waitingDelay' = 0
        PROVE  pendingRestartQueue' \in Nat /\ waitingDelay' \in 0..MaxBackoffMs
    BY <2>2, ConfigAssumption
  <2>3. \/ ProcessRestartQueue(pendingRestartQueue + 1, FALSE, FALSE,
                               restartBackoffDelay, missing)
        \/ pendingRestartQueue' = 0 /\ waitingDelay' = 0
    BY <1>4, Zenon DEF ForkForRestartFails
  <2>4. pendingRestartQueue' \in Nat /\ waitingDelay' \in 0..MaxBackoffMs
    BY <2>1, <2>2, <2>3
  <2>5. UNCHANGED <<restartBackoffDelay, backoffResetTimer, consecutiveBootFailures,
                    quarantinedSlots, crashes, breakerWarningEmitted, ready, shuttingDown>>
    BY <1>4 DEF ForkForRestartFails, bootVars, breakerVars
  <2>6. \/ /\ consecutiveForkFailures + 1 < MAX_CONSECUTIVE_FORK_FAILURES
           /\ consecutiveForkFailures' = consecutiveForkFailures + 1
           /\ UNCHANGED <<exitCode, emptyFleetHold>>
        \/ /\ consecutiveForkFailures' = MAX_CONSECUTIVE_FORK_FAILURES
           /\ exitCode' = 1 /\ emptyFleetHold' = FALSE
    BY <1>4, Zenon DEF ForkForRestartFails
  <2>7. consecutiveForkFailures' \in 0..MAX_CONSECUTIVE_FORK_FAILURES
    BY <2>6 DEF EngineTypeOK, MAX_CONSECUTIVE_FORK_FAILURES
  <2>8. exitCode' \in {0, 1} /\ emptyFleetHold' \in BOOLEAN
    BY <2>6 DEF EngineTypeOK
  <2>9. EngineTypeOK'
    BY <2>4, <2>5, <2>7, <2>8 DEF EngineTypeOK, MAX_CONSECUTIVE_FORK_FAILURES
  <2>10. Waiting
    BY <1>4 DEF ForkForRestartFails, MayForkAfterBackoff
  <2> QED  BY <2>5, <2>9, <2>10
<1>5. ASSUME ForkForRestart(active, recycling)
      PROVE  /\ EngineTypeOK'
             /\ UNCHANGED shuttingDown
             /\ Waiting /\ ~shuttingDown /\ ~Tripped(crashes)
             /\ waitingDelay' # 0 => active - recycling < Target
  <2>1. NextDelay(waitingDelay) \in 0..MaxBackoffMs
    BY <1>2, NextDelayType
  <2>2. ProcessRestartQueue(pendingRestartQueue, FALSE, FALSE, NextDelay(waitingDelay), missing)
    BY <1>5 DEF ForkForRestart
  <2>3. /\ pendingRestartQueue' \in Nat /\ waitingDelay' \in 0..MaxBackoffMs
        /\ waitingDelay' # 0 => missing > 0
    <3> HIDE DEF missing
    <3> QED  BY <1>1, <1>2, <2>1, <2>2, QueueRun
  <2>4. UNCHANGED <<backoffResetTimer, consecutiveBootFailures, quarantinedSlots,
                    emptyFleetHold, crashes, breakerWarningEmitted, exitCode, ready, shuttingDown>>
    BY <1>5 DEF ForkForRestart, bootVars, breakerVars
  <2>5. /\ consecutiveForkFailures' = 0 /\ restartBackoffDelay' = NextDelay(waitingDelay)
        /\ Waiting /\ ~shuttingDown /\ ~Tripped(crashes)
    BY <1>5 DEF ForkForRestart, MayForkAfterBackoff
  <2>6. restartBackoffDelay' \in 0..MaxBackoffMs
    BY <2>1, <2>5
  <2>7. EngineTypeOK'
    BY <2>3, <2>4, <2>5, <2>6 DEF EngineTypeOK, MAX_CONSECUTIVE_FORK_FAILURES
  <2> QED  BY <1>1, <2>3, <2>4, <2>5, <2>7
<1> QED  BY <1>3, <1>4, <1>5

LEMMA TimersAndWindow ==
  ASSUME EngineTypeOK, BackoffReset \/ CrashWindowSlides
  PROVE  EngineTypeOK' /\ UNCHANGED <<waitingDelay, shuttingDown>>
<1>1. CASE BackoffReset
  <2>1. UNCHANGED <<pendingRestartQueue, waitingDelay, consecutiveForkFailures,
                    consecutiveBootFailures, quarantinedSlots, emptyFleetHold, crashes,
                    breakerWarningEmitted, exitCode, ready, shuttingDown>>
    BY <1>1 DEF BackoffReset, queueVars, bootVars, breakerVars
  <2>2. backoffResetTimer' = FALSE
    BY <1>1 DEF BackoffReset
  <2>3. restartBackoffDelay' \in 0..MaxBackoffMs
    BY <1>1, ConfigAssumption DEF BackoffReset, EngineTypeOK
  <2> QED  BY <2>1, <2>2, <2>3 DEF EngineTypeOK, MAX_CONSECUTIVE_FORK_FAILURES
<1>2. CASE CrashWindowSlides
  <2>1. UNCHANGED <<pendingRestartQueue, waitingDelay, restartBackoffDelay,
                    backoffResetTimer, consecutiveForkFailures, consecutiveBootFailures,
                    quarantinedSlots, emptyFleetHold, breakerWarningEmitted, exitCode,
                    ready, shuttingDown>>
    BY <1>2 DEF CrashWindowSlides, queueVars, bootVars
  <2>2. crashes' \in 0..CrashThreshold
    BY <1>2, ConfigAssumption DEF CrashWindowSlides, EngineTypeOK
  <2> QED  BY <2>1, <2>2 DEF EngineTypeOK, MAX_CONSECUTIVE_FORK_FAILURES
<1> QED  BY <1>1, <1>2

LEMMA ResetHandler ==
  ASSUME EngineTypeOK, NEW active \in Nat, NEW recycling \in Nat,
         ResetCircuitBreaker(active, recycling)
  PROVE  /\ EngineTypeOK'
         /\ UNCHANGED shuttingDown
         /\ ~shuttingDown /\ waitingDelay' # 0 =>
              waitingDelay' = waitingDelay \/ active - recycling < Target
<1>1. /\ crashes' = 0 /\ restartBackoffDelay' = 0 /\ consecutiveForkFailures' = 0
      /\ UNCHANGED <<backoffResetTimer, consecutiveBootFailures, quarantinedSlots,
                     breakerWarningEmitted, shuttingDown>>
  BY DEF ResetCircuitBreaker, bootVars
<1>2. 0 \in 0..MaxBackoffMs /\ 0 \in 0..CrashThreshold
  BY ConfigAssumption
<1>3. CASE shuttingDown
  <2>1. UNCHANGED <<pendingRestartQueue, waitingDelay, emptyFleetHold, exitCode, ready>>
    BY <1>3 DEF ResetCircuitBreaker, queueVars
  <2> QED  BY <1>1, <1>2, <1>3, <2>1 DEF EngineTypeOK, MAX_CONSECUTIVE_FORK_FAILURES
<1>4. CASE ~shuttingDown
  <2>1. /\ ready' = TRUE /\ exitCode' = 0
        /\ RequestCapacityRefill(Positive(Target - active), active, recycling, FALSE, 0)
    BY <1>4 DEF ResetCircuitBreaker
  <2>2. Positive(Target - active) \in Nat
    BY PositiveType, ConfigAssumption
  <2>3. /\ pendingRestartQueue' \in Nat /\ waitingDelay' \in 0..MaxBackoffMs
        /\ emptyFleetHold' \in BOOLEAN
        /\ waitingDelay' # 0 => waitingDelay' = waitingDelay \/ active - recycling < Target
    BY <1>2, <2>1, <2>2, RefillRun DEF Waiting
  <2>4. EngineTypeOK'
    BY <1>1, <1>2, <2>1, <2>3 DEF EngineTypeOK, MAX_CONSECUTIVE_FORK_FAILURES
  <2> QED  BY <1>1, <2>3, <2>4
<1> QED  BY <1>3, <1>4

LEMMA ShutdownHandler ==
  ASSUME EngineTypeOK, BeginShutdown
  PROVE  EngineTypeOK' /\ shuttingDown'
<1>1. /\ shuttingDown' = TRUE /\ ready' = FALSE
      /\ emptyFleetHold' = FALSE /\ backoffResetTimer' = FALSE
      /\ UNCHANGED <<pendingRestartQueue, waitingDelay, restartBackoffDelay,
                     consecutiveForkFailures, consecutiveBootFailures, quarantinedSlots,
                     crashes, breakerWarningEmitted, exitCode>>
  BY DEF BeginShutdown, queueVars, bootVars, breakerVars
<1> QED  BY <1>1 DEF EngineTypeOK, MAX_CONSECUTIVE_FORK_FAILURES

LEMMA RollHandlers ==
  ASSUME EngineTypeOK, NEW failures \in 0..MAX_CONSECUTIVE_FORK_FAILURES,
         NEW begin \in BOOLEAN, NEW active \in Nat, NEW recycling \in Nat
  PROVE  /\ RollForks(failures, begin) \/ RollBailsOut(failures, begin) =>
              EngineTypeOK' /\ ~shuttingDown /\ UNCHANGED <<waitingDelay, shuttingDown>>
         /\ RollCompletes(failures, begin, active, recycling) =>
              /\ EngineTypeOK'
              /\ UNCHANGED shuttingDown
              /\ waitingDelay' # 0 => waitingDelay' = waitingDelay \/ active - recycling < Target
<1>1. ASSUME ResetQuarantine(begin)
      PROVE  consecutiveBootFailures' \in 0..BootFailQuarantine /\ quarantinedSlots' \in Nat
  BY <1>1, ConfigAssumption DEF ResetQuarantine, EngineTypeOK
<1>2. ASSUME RollForks(failures, begin) \/ RollBailsOut(failures, begin)
      PROVE  EngineTypeOK' /\ ~shuttingDown /\ UNCHANGED <<waitingDelay, shuttingDown>>
  <2>1. UNCHANGED <<pendingRestartQueue, waitingDelay, restartBackoffDelay,
                    backoffResetTimer, emptyFleetHold, crashes, breakerWarningEmitted,
                    ready, shuttingDown>>
    BY <1>2 DEF RollForks, RollBailsOut, queueVars, breakerVars
  <2>2. ~shuttingDown /\ ResetQuarantine(begin)
    BY <1>2 DEF RollForks, RollBailsOut
  <2>3. /\ consecutiveForkFailures' \in 0..MAX_CONSECUTIVE_FORK_FAILURES
        /\ exitCode' \in {0, 1}
    BY <1>2 DEF RollForks, RollBailsOut, EngineTypeOK, MAX_CONSECUTIVE_FORK_FAILURES
  <2> QED  BY <1>1, <2>1, <2>2, <2>3 DEF EngineTypeOK, MAX_CONSECUTIVE_FORK_FAILURES
<1>3. ASSUME RollCompletes(failures, begin, active, recycling)
      PROVE  /\ EngineTypeOK'
             /\ UNCHANGED shuttingDown
             /\ waitingDelay' # 0 => waitingDelay' = waitingDelay \/ active - recycling < Target
  <2>1. /\ ResetQuarantine(begin)
        /\ UNCHANGED <<restartBackoffDelay, backoffResetTimer, crashes,
                       breakerWarningEmitted, exitCode, ready, shuttingDown>>
        /\ RequestCapacityRefill(Positive(Target - active), active, recycling,
                                 Tripped(crashes), restartBackoffDelay)
    BY <1>3 DEF RollCompletes, breakerVars
  <2>2. /\ Positive(Target - active) \in Nat /\ Tripped(crashes) \in BOOLEAN
        /\ restartBackoffDelay \in 0..MaxBackoffMs
    BY PositiveType, ConfigAssumption DEF Tripped, EngineTypeOK
  <2>3. /\ pendingRestartQueue' \in Nat /\ waitingDelay' \in 0..MaxBackoffMs
        /\ emptyFleetHold' \in BOOLEAN
        /\ waitingDelay' # 0 => waitingDelay' = waitingDelay \/ active - recycling < Target
    BY <2>1, <2>2, RefillRun DEF Waiting
  <2>4. consecutiveForkFailures' \in 0..MAX_CONSECUTIVE_FORK_FAILURES
    BY <1>3 DEF RollCompletes, FailuresToBailOut, EngineTypeOK, MAX_CONSECUTIVE_FORK_FAILURES
  <2>5. EngineTypeOK'
    BY <1>1, <2>1, <2>3, <2>4 DEF EngineTypeOK, MAX_CONSECUTIVE_FORK_FAILURES
  <2> QED  BY <2>1, <2>3, <2>5
<1> QED  BY <1>2, <1>3

\* The engine of a primary that starts.
LEMMA EngineStarts == ASSUME EngineInit PROVE EngineTypeOK
<1>1. /\ 0 \in 0..MaxBackoffMs /\ 0 \in 0..BootFailQuarantine /\ 0 \in 0..CrashThreshold
      /\ 0 \in 0..MAX_CONSECUTIVE_FORK_FAILURES
  BY ConfigAssumption DEF MAX_CONSECUTIVE_FORK_FAILURES
<1> QED  BY <1>1 DEF EngineInit, EngineTypeOK

\* A step that leaves the engine alone.
LEMMA EngineIdle ==
  ASSUME EngineTypeOK, UNCHANGED engineVars
  PROVE  EngineTypeOK' /\ UNCHANGED <<waitingDelay, shuttingDown>>
<1>1. UNCHANGED <<pendingRestartQueue, waitingDelay, restartBackoffDelay, backoffResetTimer,
                  consecutiveForkFailures, consecutiveBootFailures, quarantinedSlots,
                  emptyFleetHold, crashes, breakerWarningEmitted, exitCode, ready, shuttingDown>>
  BY DEF engineVars, queueVars, bootVars, breakerVars
<1> QED  BY <1>1 DEF EngineTypeOK, MAX_CONSECUTIVE_FORK_FAILURES

\* The trip of the breaker releases the hold, and no handler but the end of a roll
\* arms it again while the breaker is tripped.
LEMMA TripReleasesHold ==
  ASSUME EngineTypeOK, Tripped(crashes) => ~emptyFleetHold,
         NEW active, NEW recycling, NEW bootFailed, NEW hasOnlineWorkers,
         \/ OnWorkerCrash(active, recycling, bootFailed, hasOnlineWorkers)
         \/ OnWorkerOnline(active)
         \/ AbandonRestart \/ ForkForRestartFails(active, recycling)
         \/ ForkForRestart(active, recycling)
         \/ ResetCircuitBreaker(active, recycling)
         \/ BeginShutdown \/ CrashWindowSlides \/ BackoffReset
         \/ UNCHANGED engineVars
  PROVE  (Tripped(crashes) => ~emptyFleetHold)'
<1>1. ASSUME UNCHANGED <<crashes, emptyFleetHold>> PROVE (Tripped(crashes) => ~emptyFleetHold)'
  BY <1>1 DEF Tripped
<1>2. ASSUME emptyFleetHold' = FALSE PROVE (Tripped(crashes) => ~emptyFleetHold)'
  BY <1>2
<1>3. ASSUME ~Tripped(crashes') PROVE (Tripped(crashes) => ~emptyFleetHold)'
  BY <1>3 DEF Tripped
<1>4. CASE OnWorkerCrash(active, recycling, bootFailed, hasOnlineWorkers)
  <2>1. QuarantineSlot => UNCHANGED <<crashes, emptyFleetHold>>
    BY DEF QuarantineSlot, breakerVars
  <2>2. TripBreaker => emptyFleetHold' = FALSE
    BY DEF TripBreaker
  <2>3. QueueRestart(active, recycling) => ~Tripped(crashes')
    BY DEF QueueRestart
  <2>4. QuarantineSlot \/ TripBreaker \/ QueueRestart(active, recycling)
    BY <1>4, Zenon DEF OnWorkerCrash
  <2> QED  BY <1>1, <1>2, <1>3, <2>1, <2>2, <2>3, <2>4
<1>5. CASE OnWorkerOnline(active) \/ BeginShutdown
  BY <1>2, <1>5 DEF OnWorkerOnline, BeginShutdown
<1>6. CASE AbandonRestart \/ ForkForRestart(active, recycling) \/ BackoffReset
  BY <1>1, <1>6, Zenon DEF AbandonRestart, ForkForRestart, BackoffReset, breakerVars
<1>7. CASE ForkForRestartFails(active, recycling)
  <2>1. crashes' = crashes /\ (emptyFleetHold' = emptyFleetHold \/ emptyFleetHold' = FALSE)
    BY <1>7, Zenon DEF ForkForRestartFails, breakerVars
  <2> QED  BY <1>1, <1>2, <2>1
<1>8. CASE ResetCircuitBreaker(active, recycling) \/ CrashWindowSlides
  <2>1. crashes' \in 0..(crashes - 1) \/ crashes' = 0
    BY <1>8, Zenon DEF ResetCircuitBreaker, CrashWindowSlides
  <2>2. ~Tripped(crashes')
    BY <2>1, ConfigAssumption DEF Tripped, EngineTypeOK
  <2> QED  BY <1>3, <2>2
<1>9. CASE UNCHANGED engineVars
  BY <1>1, <1>9 DEF engineVars, breakerVars
<1> QED  BY <1>4, <1>5, <1>6, <1>7, <1>8, <1>9
=================================================================================
