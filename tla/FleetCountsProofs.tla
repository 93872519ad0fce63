--------------------------- MODULE FleetCountsProofs ---------------------------
(***************************************************************************)
(* What the counting specification guarantees for every fleet size,        *)
(* threshold, backoff and bound.                                           *)
(*                                                                         *)
(* The proofs rest on two inductive invariants: SizeInv, for every fleet,  *)
(* and FailStopInv, for a fleet without recycles and rolls.                *)
(***************************************************************************)
EXTENDS FleetCounts, RestartCoordinatorProofs, TLAPS

\* The sizes: marks belong to workers, and a restart in its backoff wait
\* has room for the worker it is going to fork.
MarksFit == marked <= Active
RoomForTheRestart == ~shuttingDown /\ Waiting => Settled < Target + doubled

SizeInv ==
  /\ TypeOK
  /\ MarksFit
  /\ NoOvershoot
  /\ RoomForTheRestart

\* Without recycles and rolls, what an empty, a tripped or an idle engine owes.
NothingIsReplaced == marked = 0 /\ ~rolling /\ doubled = 0
IdleQueueIsEmpty  == ~Waiting => pendingRestartQueue = 0
TrippedOwesQuarantineOnly ==
  Tripped(crashes) /\ exitCode = 0 /\ ~shuttingDown => Target - Settled <= quarantinedSlots
EmptyFleetIsFlagged ==
  Active = 0 /\ ~shuttingDown /\ ~(Waiting /\ ~Tripped(crashes)) => exitCode = 1

FailStopInv ==
  /\ SizeInv
  /\ NothingIsReplaced
  /\ IdleQueueIsEmpty
  /\ TrippedOwesQuarantineOnly
  /\ EmptyFleetIsFlagged
  /\ NoSilentLoss
  /\ HeldWhileRestartsPend
  /\ DrainsOnlyInFailure
-----------------------------------------------------------------------------
(***************************************************************************)
(* The fleet of every configuration: types and sizes.                      *)
(***************************************************************************)
\* startPrimary() forks exactly the target.
LEMMA SizeInit == Init => SizeInv
<1> SUFFICES ASSUME Init PROVE SizeInv
  OBVIOUS
<1>1. EngineTypeOK
  BY EngineStarts DEF Init
<1>2. /\ booting = Target /\ online = 0 /\ marked = 0 /\ doubled = 0
      /\ rolling = FALSE /\ loopDrained = FALSE /\ waitingDelay = 0
      /\ Target \in Nat
  BY ConfigAssumption DEF Init, EngineInit
<1>3. TypeOK
  BY <1>1, <1>2 DEF TypeOK
<1>4. Active = Target /\ Settled = Target /\ ~Waiting
  BY <1>2 DEF Active, Settled, Waiting
<1> QED  BY <1>2, <1>3, <1>4 DEF SizeInv, MarksFit, NoOvershoot, RoomForTheRestart

\* A worker that leaves takes its mark along: the settled fleet never grows.
LEMMA LeavesShrinks ==
  ASSUME SizeInv, NEW wasOnline \in BOOLEAN, NEW wasMarked \in BOOLEAN,
         Leaves(wasOnline, wasMarked)
  PROVE  /\ booting' \in Nat /\ online' \in Nat /\ marked' \in Nat
         /\ UNCHANGED <<rolling, doubled, loopDrained>>
         /\ MarksFit'
         /\ Active' = Active - 1 /\ Active' \in Nat
         /\ Settled' = Settled \/ Settled' = Settled - 1
<1>1. /\ booting \in Nat /\ online \in Nat /\ marked \in Nat
      /\ marked <= booting + online
  BY DEF SizeInv, TypeOK, MarksFit, Active
<1>2. UNCHANGED <<rolling, doubled, loopDrained>>
  BY DEF Leaves
<1>3. \/ online > 0 /\ online' = online - 1 /\ booting' = booting
      \/ booting > 0 /\ booting' = booting - 1 /\ online' = online
  BY DEF Leaves
<1>4. \/ marked > 0 /\ marked' = marked - 1
      \/ marked < booting + online /\ marked' = marked
  BY DEF Leaves, Active
<1> QED  BY <1>1, <1>2, <1>3, <1>4 DEF MarksFit, Settled, Active

\* Each action of Next keeps the sizes in bounds.
LEMMA SizeStep == SizeInv /\ [Next]_vars => SizeInv'
<1> SUFFICES ASSUME SizeInv, [Next]_vars
             PROVE  SizeInv'
  OBVIOUS
<1> USE DEF SizeInv
<1>0. /\ EngineTypeOK
      /\ booting \in Nat /\ online \in Nat /\ marked \in Nat /\ doubled \in Nat
      /\ rolling \in BOOLEAN /\ loopDrained \in BOOLEAN
      /\ Target \in Nat /\ Active \in Nat /\ shuttingDown \in BOOLEAN
      /\ waitingDelay \in Nat /\ Settled \in Int
  BY ConfigAssumption DEF TypeOK, EngineTypeOK, Active, Settled
\* An action that leaves the workers alone may let a restart into its wait
\* only when a worker is missing.
<1>1. ASSUME EngineTypeOK',
             UNCHANGED <<booting, online, marked, doubled, loopDrained>>, rolling' \in BOOLEAN,
             shuttingDown => shuttingDown',
             ~shuttingDown' /\ waitingDelay' # 0 =>
               waitingDelay' = waitingDelay \/ Active - marked < Target
      PROVE  SizeInv'
  <2>1. Active' = Active /\ Settled' = Settled
    BY <1>1 DEF Active, Settled
  <2>2. TypeOK' /\ MarksFit' /\ NoOvershoot'
    BY <1>0, <1>1, <2>1 DEF TypeOK, MarksFit, NoOvershoot
  <2>3. RoomForTheRestart'
    BY <1>0, <1>1, <2>1 DEF RoomForTheRestart, Waiting, Settled
  <2> QED  BY <2>2, <2>3
<1>2. CASE WorkerOnline
  <2>1. /\ OnWorkerOnline(Active)
        /\ booting > 0 /\ booting' = booting - 1 /\ online' = online + 1
        /\ UNCHANGED <<marked, rolling, doubled, loopDrained>>
    BY <1>2 DEF WorkerOnline
  <2>2. EngineTypeOK' /\ UNCHANGED <<waitingDelay, shuttingDown>>
    BY <1>0, <2>1, OnlineHandler
  <2>3. Active' = Active /\ Settled' = Settled
    BY <1>0, <2>1 DEF Active, Settled
  <2> QED  BY <1>0, <2>1, <2>2, <2>3
           DEF TypeOK, MarksFit, NoOvershoot, RoomForTheRestart, Waiting
<1>3. ASSUME NEW wasOnline \in BOOLEAN, NEW wasMarked \in BOOLEAN,
             WorkerCrash(wasOnline, wasMarked)
      PROVE  SizeInv'
  <2>1. Leaves(wasOnline, wasMarked)
    BY <1>3 DEF WorkerCrash
  <2>2. /\ booting' \in Nat /\ online' \in Nat /\ marked' \in Nat
        /\ UNCHANGED <<rolling, doubled, loopDrained>>
        /\ MarksFit' /\ Active' \in Nat
        /\ Settled' = Settled \/ Settled' = Settled - 1
    BY <2>1, LeavesShrinks
  <2>3. Settled' = Active' - marked'
    BY DEF Settled
  <2>4. PICK active \in Nat, recycling \in Nat : active = Active' /\ recycling = marked'
    BY <2>2, Zenon
  <2>5. \E bootFailed, hasOnlineWorkers :
          OnWorkerCrash(Active', marked', bootFailed, hasOnlineWorkers)
    BY <1>3, Zenon DEF WorkerCrash
  <2>6. PICK bootFailed, hasOnlineWorkers :
          OnWorkerCrash(active, recycling, bootFailed, hasOnlineWorkers)
    BY <2>4, <2>5, Zenon
  <2>7. /\ EngineTypeOK' /\ ~shuttingDown /\ ~shuttingDown'
        /\ waitingDelay' # 0 => waitingDelay' = waitingDelay \/ Settled' < Target
    BY <1>0, <2>3, <2>4, <2>6, CrashHandler
  <2>8. TypeOK'
    BY <1>0, <2>2, <2>7 DEF TypeOK
  <2>9. NoOvershoot'
    BY <1>0, <2>2, <2>7 DEF NoOvershoot
  <2>10. RoomForTheRestart'
    BY <1>0, <2>2, <2>7 DEF RoomForTheRestart, Waiting
  <2> QED  BY <2>2, <2>8, <2>9, <2>10
<1>4. ASSUME NEW wasOnline \in BOOLEAN, NEW wasMarked \in BOOLEAN,
             Leaves(wasOnline, wasMarked), UNCHANGED engineVars
      PROVE  SizeInv'
  <2>1. /\ booting' \in Nat /\ online' \in Nat /\ marked' \in Nat
        /\ UNCHANGED <<rolling, doubled, loopDrained>>
        /\ MarksFit'
        /\ Settled' = Settled \/ Settled' = Settled - 1
    BY <1>4, LeavesShrinks
  <2>2. EngineTypeOK' /\ UNCHANGED <<waitingDelay, shuttingDown>>
    BY <1>0, <1>4 DEF engineVars, queueVars, bootVars, breakerVars, EngineTypeOK,
                      MAX_CONSECUTIVE_FORK_FAILURES
  <2> QED  BY <1>0, <2>1, <2>2 DEF TypeOK, NoOvershoot, RoomForTheRestart, Waiting
<1>5. CASE BackoffElapsed
  <2>1. CASE AbandonRestart /\ UNCHANGED <<booting, online, marked, rolling, doubled, loopDrained>>
    BY <1>0, <1>1, <2>1, BackoffWaitEnds
  <2>2. CASE /\ ForkForRestartFails(Active, marked)
             /\ UNCHANGED <<booting, online, marked, rolling, doubled, loopDrained>>
    <3>1. EngineTypeOK' /\ Waiting /\ UNCHANGED shuttingDown
      BY <1>0, <2>2, BackoffWaitEnds
    <3>2. Active' = Active /\ Settled' = Settled
      BY <2>2 DEF Active, Settled
    <3> QED  BY <1>0, <2>2, <3>1, <3>2
             DEF TypeOK, MarksFit, NoOvershoot, RoomForTheRestart
  <2>3. CASE /\ ForkForRestart(Active + 1, marked)
             /\ booting' = booting + 1
             /\ UNCHANGED <<online, marked, rolling, doubled, loopDrained>>
    <3>1. Active + 1 \in Nat
      BY <1>0
    <3>2. /\ EngineTypeOK' /\ UNCHANGED shuttingDown
          /\ Waiting /\ ~shuttingDown
          /\ waitingDelay' # 0 => (Active + 1) - marked < Target
      BY <1>0, <2>3, <3>1, BackoffWaitEnds
    <3>3. Active' = Active + 1 /\ Settled' = Settled + 1
      BY <1>0, <2>3 DEF Active, Settled
    <3>4. TypeOK' /\ MarksFit' /\ NoOvershoot'
      BY <1>0, <2>3, <3>2, <3>3 DEF TypeOK, MarksFit, NoOvershoot, RoomForTheRestart
    <3>5. RoomForTheRestart'
      BY <1>0, <2>3, <3>2, <3>3 DEF RoomForTheRestart, Waiting, Settled
    <3> QED  BY <3>4, <3>5
  <2> QED  BY <1>5, <2>1, <2>2, <2>3 DEF BackoffElapsed
<1>6. CASE RecycleWorkerNow
  <2>1. /\ booting' = booting + 1 /\ marked' = marked + 1 /\ marked < Active
        /\ UNCHANGED <<engineVars, online, rolling, doubled, loopDrained>>
    BY <1>6 DEF RecycleWorkerNow
  <2>2. EngineTypeOK' /\ UNCHANGED <<waitingDelay, shuttingDown>>
    BY <1>0, <2>1 DEF engineVars, queueVars, bootVars, breakerVars, EngineTypeOK,
                      MAX_CONSECUTIVE_FORK_FAILURES
  <2>3. Active' = Active + 1 /\ Settled' = Settled
    BY <1>0, <2>1 DEF Active, Settled
  <2> QED  BY <1>0, <2>1, <2>2, <2>3
           DEF TypeOK, MarksFit, NoOvershoot, RoomForTheRestart, Waiting
<1>7. ASSUME NEW begin \in BOOLEAN, RollStep(begin)
      PROVE  SizeInv'
  <2>1. UNCHANGED <<online, loopDrained>>
    BY <1>7 DEF RollStep
  <2>2. PICK failures \in 0..MAX_CONSECUTIVE_FORK_FAILURES :
          \/ RollForks(failures, begin) /\ RollReplaces /\ rolling' = TRUE
          \/ /\ RollBailsOut(failures, begin)
             /\ rolling' = FALSE /\ UNCHANGED <<booting, marked, doubled>>
          \/ /\ RollCompletes(failures, begin, Active, marked)
             /\ rolling' = FALSE /\ UNCHANGED <<booting, marked, doubled>>
    BY <1>7 DEF RollStep
  <2>3. CASE RollForks(failures, begin) /\ RollReplaces /\ rolling' = TRUE
    <3>1. EngineTypeOK' /\ ~shuttingDown /\ UNCHANGED <<waitingDelay, shuttingDown>>
      BY <1>0, <2>3, RollHandlers
    <3>2. /\ booting' = booting + 1
          /\ \/ marked < Active /\ marked' = marked + 1 /\ doubled' = doubled
             \/ doubled' = doubled + 1 /\ marked' = marked
      BY <2>3 DEF RollReplaces
    <3>3. /\ Active' = Active + 1
          /\ \/ Settled' = Settled /\ doubled' = doubled
             \/ Settled' = Settled + 1 /\ doubled' = doubled + 1
          /\ marked' \in Nat /\ doubled' \in Nat
      BY <1>0, <2>1, <3>2 DEF Active, Settled
    <3>4. MarksFit'
      BY <1>0, <3>2, <3>3 DEF MarksFit
    <3>5. NoOvershoot'
      BY <1>0, <3>1, <3>3 DEF NoOvershoot
    <3>6. RoomForTheRestart'
      BY <1>0, <3>1, <3>3 DEF RoomForTheRestart, Waiting
    <3> QED  BY <1>0, <2>1, <2>3, <3>1, <3>2, <3>3, <3>4, <3>5, <3>6 DEF TypeOK
  <2>4. CASE /\ RollBailsOut(failures, begin)
             /\ rolling' = FALSE /\ UNCHANGED <<booting, marked, doubled>>
    <3>1. EngineTypeOK' /\ UNCHANGED <<waitingDelay, shuttingDown>>
      BY <1>0, <2>4, RollHandlers
    <3> QED  BY <1>0, <1>1, <2>1, <2>4, <3>1
  <2>5. CASE /\ RollCompletes(failures, begin, Active, marked)
             /\ rolling' = FALSE /\ UNCHANGED <<booting, marked, doubled>>
    <3>1. /\ EngineTypeOK' /\ UNCHANGED shuttingDown
          /\ waitingDelay' # 0 => waitingDelay' = waitingDelay \/ Active - marked < Target
      BY <1>0, <2>5, RollHandlers
    <3> QED  BY <1>0, <1>1, <2>1, <2>5, <3>1
  <2> QED  BY <2>2, <2>3, <2>4, <2>5
<1>8. CASE RollAbortsByShutdown
  <2>1. EngineTypeOK' /\ UNCHANGED <<waitingDelay, shuttingDown>>
    BY <1>0, <1>8 DEF RollAbortsByShutdown, engineVars, queueVars, bootVars, breakerVars,
                      EngineTypeOK, MAX_CONSECUTIVE_FORK_FAILURES
  <2> QED  BY <1>1, <1>8, <2>1 DEF RollAbortsByShutdown
<1>9. CASE Reset
  <2>1. /\ EngineTypeOK' /\ UNCHANGED shuttingDown
        /\ ~shuttingDown /\ waitingDelay' # 0 =>
             waitingDelay' = waitingDelay \/ Active - marked < Target
    BY <1>0, <1>9, ResetHandler DEF Reset
  <2> QED  BY <1>0, <1>1, <1>9, <2>1 DEF Reset
<1>10. CASE Shutdown
  <2>1. EngineTypeOK' /\ shuttingDown'
    BY <1>0, <1>10, ShutdownHandler DEF Shutdown
  <2>2. marked' = 0 /\ UNCHANGED <<booting, online, rolling, doubled, loopDrained>>
    BY <1>10 DEF Shutdown
  <2> QED  BY <1>0, <2>1, <2>2 DEF TypeOK, MarksFit, NoOvershoot, RoomForTheRestart, Active
<1>11. CASE CrashesLeaveTheWindow \/ StabilityWindowElapses
  <2>1. /\ BackoffReset \/ CrashWindowSlides
        /\ UNCHANGED <<booting, online, marked, rolling, doubled, loopDrained>>
    BY <1>11 DEF CrashesLeaveTheWindow, StabilityWindowElapses
  <2>2. EngineTypeOK' /\ UNCHANGED <<waitingDelay, shuttingDown>>
    BY <1>0, <2>1, TimersAndWindow
  <2> QED  BY <1>0, <1>1, <2>1, <2>2
<1>12. CASE LoopDrains \/ UNCHANGED vars
  <2>1. /\ UNCHANGED <<engineVars, booting, online, marked, rolling, doubled>>
        /\ loopDrained' \in BOOLEAN
    BY <1>0, <1>12 DEF LoopDrains, vars
  <2>2. EngineTypeOK' /\ UNCHANGED <<waitingDelay, shuttingDown>>
    BY <1>0, <2>1 DEF engineVars, queueVars, bootVars, breakerVars, EngineTypeOK,
                      MAX_CONSECUTIVE_FORK_FAILURES
  <2>3. Active' = Active /\ Settled' = Settled
    BY <2>1 DEF Active, Settled
  <2> QED  BY <1>0, <2>1, <2>2, <2>3
           DEF TypeOK, MarksFit, NoOvershoot, RoomForTheRestart, Waiting
<1>13. ASSUME NEW wasOnline \in BOOLEAN,
              WorkerExitsGracefully(wasOnline) \/ WorkerExitsInShutdown(wasOnline)
       PROVE  SizeInv'
  BY <1>4, <1>13 DEF WorkerExitsGracefully, WorkerExitsInShutdown
<1> QED  BY <1>2, <1>3, <1>5, <1>6, <1>7, <1>8, <1>9, <1>10, <1>11, <1>12, <1>13
         DEF Next, Crash

\* Every variable keeps its type, the saturating and the capped counters
\* (backoff, failures, crashes) their range.
THEOREM TypeCorrect == Spec => []TypeOK
<1>1. SizeInv => TypeOK
  BY DEF SizeInv
<1> QED  BY <1>1, SizeInit, SizeStep, PTL DEF Spec

\* However crashes, restarts, recycles, rolls and resets interleave, the fleet
\* settles above its target only by the replacements a roll doubled.
THEOREM NeverOvershoots == Spec => []NoOvershoot
<1>1. SizeInv => NoOvershoot
  BY DEF SizeInv
<1> QED  BY <1>1, SizeInit, SizeStep, PTL DEF Spec

\* Recycles alone replace unmarked workers only, and so do rolls alone: only both
\* at once fork a second replacement for a worker.
LEMMA NothingIsDoubled ==
  ASSUME ~(Recycling /\ Rolling)
  PROVE  Spec => [](doubled = 0)
<1>1. Init => doubled = 0
  BY DEF Init
<1>2. doubled = 0 /\ [Next]_vars => (doubled = 0)'
  BY DEF Next, WorkerOnline, Crash, WorkerCrash, Leaves, WorkerExitsGracefully,
         WorkerExitsInShutdown, BackoffElapsed, RecycleWorkerNow, RollStep, RollReplaces,
         RollAbortsByShutdown, Reset, Shutdown, CrashesLeaveTheWindow, StabilityWindowElapses,
         LoopDrains, vars
<1> QED  BY <1>1, <1>2, PTL DEF Spec
-----------------------------------------------------------------------------
(***************************************************************************)
(* Who may fork: the ways one step changes the number of workers.          *)
(***************************************************************************)
ComesOnline == booting' = booting - 1 /\ online' = online + 1
GoesAway    == \/ booting' = booting - 1 /\ online' = online
               \/ online' = online - 1 /\ booting' = booting
IsForked    == /\ booting' = booting + 1 /\ online' = online
               /\ ~shuttingDown
               /\ \/ ~Tripped(crashes)
                  \/ marked' = marked + 1
                  \/ doubled' = doubled + 1

LEMMA WorkersStep ==
  [Next]_vars => ComesOnline \/ GoesAway \/ IsForked \/ UNCHANGED <<booting, online>>
<1> SUFFICES ASSUME [Next]_vars
             PROVE  ComesOnline \/ GoesAway \/ IsForked \/ UNCHANGED <<booting, online>>
  OBVIOUS
<1>1. CASE WorkerOnline
  BY <1>1 DEF WorkerOnline, ComesOnline
<1>2. ASSUME NEW wasOnline \in BOOLEAN, NEW wasMarked \in BOOLEAN, Leaves(wasOnline, wasMarked)
      PROVE  GoesAway
  BY <1>2 DEF Leaves, GoesAway
<1>3. CASE Crash
  BY <1>2, <1>3, Zenon DEF Crash, WorkerCrash
<1>4. CASE \E wasOnline \in BOOLEAN :
             WorkerExitsGracefully(wasOnline) \/ WorkerExitsInShutdown(wasOnline)
  BY <1>2, <1>4 DEF WorkerExitsGracefully, WorkerExitsInShutdown
<1>5. CASE BackoffElapsed
  <2>1. CASE UNCHANGED <<booting, online>>
    BY <2>1
  <2>2. CASE ForkForRestart(Active + 1, marked) /\ booting' = booting + 1 /\ online' = online
    <3>1. ~shuttingDown /\ ~Tripped(crashes)
      BY <2>2 DEF ForkForRestart, MayForkAfterBackoff
    <3> QED  BY <2>2, <3>1 DEF IsForked
  <2>3. UNCHANGED <<booting, online>>
          \/ (ForkForRestart(Active + 1, marked) /\ booting' = booting + 1 /\ online' = online)
    BY <1>5, Zenon DEF BackoffElapsed
  <2> QED  BY <2>1, <2>2, <2>3
<1>6. CASE RecycleWorkerNow
  BY <1>6 DEF RecycleWorkerNow, IsForked
<1>7. ASSUME NEW begin \in BOOLEAN, RollStep(begin)
      PROVE  IsForked \/ UNCHANGED <<booting, online>>
  <2>1. \/ ~shuttingDown /\ RollReplaces /\ online' = online
        \/ UNCHANGED <<booting, online>>
    BY <1>7, Zenon DEF RollStep, RollForks
  <2> QED  BY <2>1 DEF RollReplaces, IsForked
<1>8. CASE RollAbortsByShutdown \/ Reset \/ Shutdown \/ CrashesLeaveTheWindow
             \/ StabilityWindowElapses \/ LoopDrains \/ UNCHANGED vars
  BY <1>8 DEF RollAbortsByShutdown, Reset, Shutdown, CrashesLeaveTheWindow,
              StabilityWindowElapses, LoopDrains, vars
<1> QED  BY <1>1, <1>3, <1>4, <1>5, <1>6, <1>7, <1>8 DEF Next

\* The trip of the breaker may come while a restart is in its backoff wait:
\* the engine still never forks past it, whatever the configuration.
THEOREM RestartsStopAtTheTrip == Spec => NoRestartPastTrip
<1>1. TypeOK => booting \in Nat /\ online \in Nat /\ marked \in Nat /\ doubled \in Nat
  BY DEF TypeOK
<1>2. TypeOK /\ [Next]_vars =>
        [Tripped(crashes) /\ crashes' = crashes /\ booting' > booting
           => marked' > marked \/ doubled' > doubled]_vars
  BY <1>1, WorkersStep DEF ComesOnline, GoesAway, IsForked
<1> QED  BY <1>2, TypeCorrect, PTL DEF Spec, NoRestartPastTrip

\* No path forks a worker once the shutdown began, so that the workers it
\* terminates are all there are.
THEOREM NothingForkedInShutdown == Spec => NoForkInShutdown
<1>1. TypeOK => booting \in Nat /\ online \in Nat
  BY DEF TypeOK
<1>2. TypeOK /\ [Next]_vars => [shuttingDown => Active' <= Active]_vars
  BY <1>1, WorkersStep DEF ComesOnline, GoesAway, IsForked, Active
<1> QED  BY <1>2, TypeCorrect, PTL DEF Spec, NoForkInShutdown
-----------------------------------------------------------------------------
(***************************************************************************)
(* A fleet without recycles and rolls never fails in silence.              *)
(***************************************************************************)
\* What FailStopInv adds to the sizes, in one formula over the engine.
OwesNothingInSilence ==
  /\ IdleQueueIsEmpty
  /\ TrippedOwesQuarantineOnly
  /\ EmptyFleetIsFlagged
  /\ NoSilentLoss
  /\ HeldWhileRestartsPend

LEMMA FailStopInit == Init => FailStopInv
<1> SUFFICES ASSUME Init PROVE FailStopInv
  OBVIOUS
<1>1. SizeInv
  BY SizeInit
<1>2. /\ booting = Target /\ online = 0 /\ marked = 0 /\ doubled = 0
      /\ rolling = FALSE /\ loopDrained = FALSE /\ waitingDelay = 0
      /\ pendingRestartQueue = 0 /\ quarantinedSlots = 0 /\ crashes = 0
      /\ Target \in Nat \ {0} /\ CrashThreshold \in Nat \ {0}
  BY ConfigAssumption DEF Init, EngineInit
<1>3. Active = Target /\ Settled = Target /\ ~Waiting /\ ~Tripped(crashes)
      /\ PendingRestarts = 0
  BY <1>2 DEF Active, Settled, Waiting, Tripped, PendingRestarts
<1> QED  BY <1>1, <1>2, <1>3
         DEF FailStopInv, NothingIsReplaced, IdleQueueIsEmpty, TrippedOwesQuarantineOnly,
             EmptyFleetIsFlagged, NoSilentLoss, HeldWhileRestartsPend, DrainsOnlyInFailure

\* The handlers that queue refills leave nothing owed in silence: the worker
\* to add is pending, or none is missing.
LEMMA RefillIsPending ==
  ASSUME EngineTypeOK, IdleQueueIsEmpty, ~shuttingDown,
         NEW count \in Nat, NEW active \in Nat, NEW backoff \in 0..MaxBackoffMs,
         RequestCapacityRefill(count, active, 0, FALSE, backoff)
  PROVE  /\ IdleQueueIsEmpty'
         /\ PendingRestarts' = PendingRestarts + count \/ active >= Target
         /\ active = 0 /\ (Waiting \/ count > 0) => emptyFleetHold' /\ Waiting'
<1>1. /\ pendingRestartQueue \in Nat /\ Target \in Nat \ {0}
      /\ ~Waiting => pendingRestartQueue = 0
  BY ConfigAssumption DEF EngineTypeOK, IdleQueueIsEmpty
<1>2. /\ Waiting => /\ waitingDelay' = waitingDelay
                    /\ pendingRestartQueue' = pendingRestartQueue + count
      /\ ~Waiting /\ waitingDelay' # 0 => pendingRestartQueue' + 1 = pendingRestartQueue + count
      /\ ~Waiting /\ waitingDelay' = 0 =>
           /\ pendingRestartQueue' = 0
           /\ pendingRestartQueue + count = 0 \/ active - 0 >= Target
      /\ pendingRestartQueue' \in Nat
  <2>1. 0 \in Nat /\ FALSE \in BOOLEAN
    OBVIOUS
  <2> QED  BY <2>1, RefillRun
<1>3. active = 0 => emptyFleetHold'
  BY DEF RequestCapacityRefill, HoldIfEmpty
<1>4. CASE Waiting
  <2>1. Waiting' /\ IdleQueueIsEmpty'
    BY <1>2, <1>4 DEF Waiting, IdleQueueIsEmpty
  <2>2. /\ PendingRestarts = pendingRestartQueue + 1
        /\ PendingRestarts' = (pendingRestartQueue + count) + 1
    BY <1>2, <1>4, <2>1 DEF PendingRestarts
  <2> QED  BY <1>1, <1>3, <2>1, <2>2
<1>5. CASE ~Waiting /\ waitingDelay' # 0
  <2>1. PICK queue \in Nat : queue = pendingRestartQueue'
    BY <1>2, Zenon
  <2>2. Waiting' /\ IdleQueueIsEmpty'
    BY <1>5 DEF Waiting, IdleQueueIsEmpty
  <2>3. queue + 1 = count
    <3>1. queue + 1 = pendingRestartQueue + count
      BY <1>2, <1>5, <2>1, Zenon
    <3>2. pendingRestartQueue = 0
      BY <1>1, <1>5
    <3> QED  BY <3>1, <3>2
  <2>4. PendingRestarts = 0
    BY <1>1, <1>5 DEF PendingRestarts
  <2>5. PendingRestarts' = queue + 1
    BY <2>1, <2>2 DEF PendingRestarts
  <2> QED  BY <1>3, <2>2, <2>3, <2>4, <2>5
<1>6. CASE ~Waiting /\ waitingDelay' = 0
  <2>1. PendingRestarts = 0 /\ PendingRestarts' = 0 /\ (count = 0 \/ active >= Target)
    BY <1>1, <1>2, <1>6 DEF Waiting, PendingRestarts
  <2> QED  BY <1>1, <1>2, <1>6, <2>1 DEF Waiting, IdleQueueIsEmpty
<1> QED  BY <1>4, <1>5, <1>6

\* A run of an idle loop over "queued" entries keeps every entry pending, or
\* no worker is missing.
LEMMA RunIsPending ==
  ASSUME EngineTypeOK, ~shuttingDown,
         NEW queued \in Nat, NEW active \in Nat, NEW backoff \in 0..MaxBackoffMs,
         ProcessRestartQueue(queued, FALSE, FALSE, backoff, MissingWorkers(active, 0))
  PROVE  /\ IdleQueueIsEmpty'
         /\ PendingRestarts' = queued \/ active >= Target
         /\ active = 0 /\ queued > 0 => Waiting'
<1> DEFINE missing == MissingWorkers(active, 0)
<1>1. missing \in Nat /\ missing >= Target - active /\ Target \in Nat \ {0}
  BY MissingWorkersType, ConfigAssumption
<1> HIDE DEF missing
<1>2. /\ waitingDelay' # 0 => pendingRestartQueue' + 1 = queued /\ missing > 0
      /\ waitingDelay' = 0 => pendingRestartQueue' = 0 /\ (queued = 0 \/ missing = 0)
      /\ pendingRestartQueue' \in Nat
  <2>1. ProcessRestartQueue(queued, FALSE, FALSE, backoff, missing)
    BY DEF missing
  <2> QED  BY <1>1, <2>1, QueueRun
<1>3. PICK queue \in Nat : queue = pendingRestartQueue'
  BY <1>2, Zenon
<1>4. CASE waitingDelay' # 0
  <2>1. PendingRestarts' = queue + 1 /\ queue + 1 = queued
    BY <1>2, <1>3, <1>4 DEF Waiting, PendingRestarts
  <2> QED  BY <1>4, <2>1 DEF Waiting, IdleQueueIsEmpty
<1>5. CASE waitingDelay' = 0
  <2>1. PendingRestarts' = 0 /\ (queued = 0 \/ active >= Target)
    BY <1>1, <1>2, <1>5 DEF Waiting, PendingRestarts
  <2> QED  BY <1>1, <1>2, <1>5, <2>1 DEF Waiting, IdleQueueIsEmpty
<1> QED  BY <1>4, <1>5

LEMMA FailStopStep ==
  ASSUME ~Recycling, ~Rolling
  PROVE  FailStopInv /\ [Next]_vars => FailStopInv'
<1> SUFFICES ASSUME FailStopInv, [Next]_vars
             PROVE  FailStopInv'
  OBVIOUS
<1>0. /\ SizeInv /\ NothingIsReplaced /\ DrainsOnlyInFailure /\ OwesNothingInSilence
  BY DEF FailStopInv, OwesNothingInSilence
<1>1. /\ EngineTypeOK /\ SizeInv'
      /\ booting \in Nat /\ online \in Nat /\ Active \in Nat
      /\ Settled = Active /\ marked = 0 /\ ~rolling /\ doubled = 0
      /\ Target \in Nat \ {0} /\ pendingRestartQueue \in Nat /\ quarantinedSlots \in Nat
      /\ shuttingDown \in BOOLEAN /\ exitCode \in {0, 1} /\ emptyFleetHold \in BOOLEAN
      /\ restartBackoffDelay \in 0..MaxBackoffMs /\ waitingDelay \in Nat
      /\ PendingRestarts \in Nat
  BY <1>0, SizeStep, ConfigAssumption
  DEF SizeInv, TypeOK, EngineTypeOK, NothingIsReplaced, Settled, Active, PendingRestarts
<1>a. PICK queue \in Nat, quarantined \in Nat :
        pendingRestartQueue' = queue /\ quarantinedSlots' = quarantined
  <2>1. pendingRestartQueue' \in Nat /\ quarantinedSlots' \in Nat
    BY <1>1 DEF SizeInv, TypeOK, EngineTypeOK
  <2> QED  BY <2>1, Zenon
<1>b. PICK pending \in Nat : PendingRestarts' = pending
  <2>1. PendingRestarts' = queue \/ PendingRestarts' = queue + 1
    BY <1>a DEF PendingRestarts
  <2>2. queue \in Nat /\ queue + 1 \in Nat
    OBVIOUS
  <2> QED  BY <2>1, <2>2, Zenon
\* An empty fleet that still runs is held for a restart that may fork.
<1>2. Running /\ Active = 0 /\ ~shuttingDown =>
        emptyFleetHold /\ Waiting /\ ~Tripped(crashes)
  BY <1>0, <1>1 DEF Running, LoopAlive, OwesNothingInSilence, HeldWhileRestartsPend
\* It remains to look at the steps of a fleet that does not shut down, one
\* formula per step over the size, the engine and the exit code.
<1>3. ASSUME NothingIsReplaced', OwesNothingInSilence', UNCHANGED loopDrained, ~loopDrained
      PROVE  FailStopInv'
  BY <1>1, <1>3 DEF FailStopInv, OwesNothingInSilence, DrainsOnlyInFailure
<1>4. ASSUME shuttingDown', IdleQueueIsEmpty'
      PROVE  OwesNothingInSilence'
  BY <1>4 DEF OwesNothingInSilence, TrippedOwesQuarantineOnly, EmptyFleetIsFlagged,
              NoSilentLoss, HeldWhileRestartsPend
<1>5. ASSUME UNCHANGED <<booting, online, marked, pendingRestartQueue, waitingDelay, crashes,
                         quarantinedSlots, emptyFleetHold, exitCode, shuttingDown>>
      PROVE  OwesNothingInSilence'
  <2>1. /\ UNCHANGED <<Active, Settled, Waiting, PendingRestarts>>
        /\ Tripped(crashes)' = Tripped(crashes)
    BY <1>5 DEF Active, Settled, Waiting, PendingRestarts, Tripped
  <2> QED  BY <1>0, <1>5, <2>1
           DEF OwesNothingInSilence, IdleQueueIsEmpty, TrippedOwesQuarantineOnly,
               EmptyFleetIsFlagged, NoSilentLoss, HeldWhileRestartsPend
\* A fleet that is not empty only has to account for its capacity.
<1>6. ASSUME Active' > 0, IdleQueueIsEmpty', TrippedOwesQuarantineOnly', NoSilentLoss'
      PROVE  OwesNothingInSilence'
  BY <1>6 DEF OwesNothingInSilence, EmptyFleetIsFlagged, HeldWhileRestartsPend
\* The capacity is accounted for when the failure is flagged.
<1>7. ASSUME exitCode' = 1
      PROVE  TrippedOwesQuarantineOnly' /\ NoSilentLoss' /\ EmptyFleetIsFlagged'
  BY <1>7 DEF TrippedOwesQuarantineOnly, NoSilentLoss, EmptyFleetIsFlagged
<1>8. CASE Running /\ WorkerOnline
  <2>1. /\ OnWorkerOnline(Active)
        /\ booting > 0 /\ booting' = booting - 1 /\ online' = online + 1
        /\ UNCHANGED <<marked, rolling, doubled, loopDrained>>
    BY <1>8 DEF WorkerOnline
  <2>2. UNCHANGED <<pendingRestartQueue, waitingDelay, crashes, quarantinedSlots, shuttingDown>>
        /\ exitCode' = ExitCodeOnline(Active)
    BY <2>1 DEF OnWorkerOnline, queueVars, breakerVars
  <2>3. Active' = Active /\ Settled' = Settled /\ Active > 0
    BY <1>1, <2>1 DEF Active, Settled
  <2>4. PendingRestarts' = PendingRestarts /\ Tripped(crashes)' = Tripped(crashes)
        /\ IdleQueueIsEmpty'
    BY <1>0, <2>2 DEF PendingRestarts, Waiting, Tripped, IdleQueueIsEmpty, OwesNothingInSilence
  <2>5. TrippedOwesQuarantineOnly' /\ NoSilentLoss'
    BY <1>0, <1>1, <2>2, <2>3, <2>4
    DEF OwesNothingInSilence, TrippedOwesQuarantineOnly, NoSilentLoss, ExitCodeOnline
  <2>6. OwesNothingInSilence'
    BY <1>6, <2>3, <2>4, <2>5
  <2>7. NothingIsReplaced'
    BY <1>1, <2>1 DEF NothingIsReplaced
  <2> QED  BY <1>3, <1>8, <2>1, <2>6, <2>7 DEF Running
<1>9. ASSUME Running, NEW wasOnline \in BOOLEAN, NEW wasMarked \in BOOLEAN,
             WorkerCrash(wasOnline, wasMarked)
      PROVE  FailStopInv'
  <2>1. Leaves(wasOnline, wasMarked) /\ UNCHANGED <<rolling, doubled, loopDrained>>
    BY <1>9 DEF WorkerCrash, Leaves
  <2>2. marked' = 0 /\ NothingIsReplaced'
    BY <1>1, <2>1 DEF Leaves, NothingIsReplaced
  <2>3. Active' = Active - 1 /\ Active' \in Nat /\ Active > 0 /\ Settled' = Active'
    <3>1. Active' = Active - 1 /\ Active' \in Nat
      BY <1>0, <2>1, LeavesShrinks
    <3> QED  BY <1>1, <2>2, <3>1 DEF Settled
  <2>4. PICK active \in Nat : active = Active'
    BY <2>3, Zenon
  <2>5. OnWorkerCrash(active, 0, ~wasOnline, online' > 0)
    BY <1>9, <2>2, <2>4, Zenon DEF WorkerCrash
  <2>6. /\ ~shuttingDown /\ ~shuttingDown'
        /\ \/ /\ UNCHANGED quarantinedSlots
              /\ TripBreaker \/ QueueRestart(active, 0)
           \/ online' > 0 /\ QuarantineSlot
    BY <2>5, Zenon DEF OnWorkerCrash, CountsAsBootFailure, bootVars
  <2>7. CASE online' > 0 /\ QuarantineSlot
    <3>1. UNCHANGED <<pendingRestartQueue, waitingDelay, crashes, exitCode>>
          /\ quarantinedSlots' = quarantinedSlots + 1
      BY <2>7 DEF QuarantineSlot, queueVars, breakerVars
    <3>2. Active' > 0
      <4>1. online' > 0 /\ online' \in Int /\ booting' \in Nat
        BY <1>0, <2>1, <2>7, LeavesShrinks
      <4>2. PICK on \in Int, boot \in Nat : on = online' /\ boot = booting'
        BY <4>1, Zenon
      <4>3. on > 0 /\ Active' = boot + on
        BY <4>1, <4>2, Zenon DEF Active
      <4> QED  BY <4>3
    <3>3. PendingRestarts' = PendingRestarts /\ Tripped(crashes)' = Tripped(crashes)
          /\ IdleQueueIsEmpty'
      BY <1>0, <3>1 DEF PendingRestarts, Waiting, Tripped, IdleQueueIsEmpty, OwesNothingInSilence
    <3>4. TrippedOwesQuarantineOnly' /\ NoSilentLoss'
      BY <1>0, <1>1, <2>3, <2>6, <3>1, <3>3
      DEF OwesNothingInSilence, TrippedOwesQuarantineOnly, NoSilentLoss
    <3> QED  BY <1>3, <1>6, <1>9, <2>1, <2>2, <3>2, <3>3, <3>4 DEF Running
  <2>8. CASE UNCHANGED quarantinedSlots /\ TripBreaker
    <3>1. /\ exitCode' = 1 /\ emptyFleetHold' = FALSE /\ Tripped(crashes)'
          /\ UNCHANGED <<pendingRestartQueue, waitingDelay>>
      BY <1>1, <2>8, ConfigAssumption DEF TripBreaker, Tripped, queueVars
    <3>2. IdleQueueIsEmpty' /\ HeldWhileRestartsPend'
      BY <1>0, <3>1 DEF OwesNothingInSilence, IdleQueueIsEmpty, HeldWhileRestartsPend, Waiting
    <3> QED  BY <1>3, <1>7, <1>9, <2>1, <2>2, <3>1, <3>2 DEF OwesNothingInSilence, Running
  <2>9. CASE UNCHANGED quarantinedSlots /\ QueueRestart(active, 0)
    <3>1. /\ RequestCapacityRefill(1, active, 0, FALSE, restartBackoffDelay)
          /\ ~Tripped(crashes)'
          /\ exitCode' = IF active = 0 THEN 1 ELSE exitCode
      BY <2>9 DEF QueueRestart, Tripped
    <3>2. /\ IdleQueueIsEmpty'
          /\ PendingRestarts' = PendingRestarts + 1 \/ active >= Target
          /\ active = 0 => emptyFleetHold' /\ Waiting'
      <4>1. IdleQueueIsEmpty /\ 1 \in Nat /\ 1 > 0
        BY <1>0 DEF OwesNothingInSilence
      <4> QED  BY <1>1, <2>6, <3>1, <4>1, RefillIsPending
    <3>3. NoSilentLoss'
      <4>1. active = Active - 1 /\ Settled' = Active - 1
        BY <2>3, <2>4
      <4>2. CASE active >= Target
        BY <1>1, <1>b, <2>9, <4>1, <4>2 DEF NoSilentLoss
      <4>3. CASE PendingRestarts' = PendingRestarts + 1 /\ exitCode' = exitCode
        BY <1>0, <1>1, <2>6, <2>9, <4>1, <4>3 DEF OwesNothingInSilence, NoSilentLoss
      <4> QED  BY <1>7, <3>1, <3>2, <4>2, <4>3
    <3>4. TrippedOwesQuarantineOnly' /\ EmptyFleetIsFlagged' /\ HeldWhileRestartsPend'
      BY <2>4, <3>1, <3>2 DEF TrippedOwesQuarantineOnly, EmptyFleetIsFlagged, HeldWhileRestartsPend
    <3> QED  BY <1>3, <1>9, <2>1, <2>2, <3>2, <3>3, <3>4 DEF OwesNothingInSilence, Running
  <2> QED  BY <2>6, <2>7, <2>8, <2>9
<1>10. ASSUME Running, UNCHANGED <<booting, online, marked, rolling, doubled, loopDrained>>,
              OwesNothingInSilence'
       PROVE  FailStopInv'
  <2>1. NothingIsReplaced'
    BY <1>1, <1>10 DEF NothingIsReplaced
  <2> QED  BY <1>3, <1>10, <2>1 DEF Running
<1>11. CASE Running /\ BackoffElapsed
  <2>1. CASE AbandonRestart /\ UNCHANGED <<booting, online, marked, rolling, doubled, loopDrained>>
    <3>1. /\ pendingRestartQueue' = 0 /\ waitingDelay' = 0
          /\ shuttingDown \/ Tripped(crashes)
          /\ UNCHANGED <<quarantinedSlots, crashes, exitCode, shuttingDown>>
      BY <2>1 DEF AbandonRestart, bootVars, breakerVars
    <3>2. /\ Active' = Active /\ Settled' = Settled /\ IdleQueueIsEmpty'
          /\ Tripped(crashes)' = Tripped(crashes) /\ PendingRestarts' = 0
      BY <2>1, <3>1 DEF Active, Settled, Waiting, PendingRestarts, IdleQueueIsEmpty, Tripped
    <3>3. CASE shuttingDown
      BY <1>4, <1>10, <1>11, <2>1, <3>1, <3>2, <3>3
    <3>4. CASE ~shuttingDown /\ Tripped(crashes)
      <4>1. Active' > 0
        BY <1>1, <1>2, <1>11, <3>2, <3>4
      <4>2. TrippedOwesQuarantineOnly' /\ NoSilentLoss'
        BY <1>0, <1>1, <3>1, <3>2, <3>4
        DEF OwesNothingInSilence, TrippedOwesQuarantineOnly, NoSilentLoss
      <4> QED  BY <1>6, <1>10, <1>11, <2>1, <3>2, <4>1, <4>2
    <3> QED  BY <3>1, <3>3, <3>4
  <2>2. CASE /\ ForkForRestartFails(Active, marked)
             /\ UNCHANGED <<booting, online, marked, rolling, doubled, loopDrained>>
    <3>1. Waiting /\ ~shuttingDown /\ ~Tripped(crashes)
      BY <2>2 DEF ForkForRestartFails, MayForkAfterBackoff
    <3>2. UNCHANGED <<quarantinedSlots, crashes, shuttingDown>>
      BY <2>2 DEF ForkForRestartFails, bootVars, breakerVars
    <3>3. /\ Active' = Active /\ Settled' = Settled /\ ~Tripped(crashes)'
      BY <2>2, <3>1, <3>2 DEF Active, Settled, Tripped
    <3>4. \/ /\ ProcessRestartQueue(pendingRestartQueue + 1, FALSE, FALSE,
                                    restartBackoffDelay, MissingWorkers(Active, 0))
             /\ UNCHANGED <<exitCode, emptyFleetHold>>
          \/ /\ exitCode' = 1 /\ emptyFleetHold' = FALSE
             /\ pendingRestartQueue' = 0 /\ waitingDelay' = 0
      BY <1>1, <2>2, Zenon DEF ForkForRestartFails
    <3>5. CASE /\ ProcessRestartQueue(pendingRestartQueue + 1, FALSE, FALSE,
                                      restartBackoffDelay, MissingWorkers(Active, 0))
               /\ UNCHANGED <<exitCode, emptyFleetHold>>
      <4>1. pendingRestartQueue + 1 \in Nat /\ pendingRestartQueue + 1 > 0
        BY <1>1
      <4>2. /\ IdleQueueIsEmpty'
            /\ PendingRestarts' = pendingRestartQueue + 1 \/ Active >= Target
            /\ Active = 0 => Waiting'
        BY <1>1, <3>1, <3>5, <4>1, RunIsPending
      <4>3. PendingRestarts = pendingRestartQueue + 1
        BY <3>1 DEF PendingRestarts
      <4>4. NoSilentLoss'
        <5>1. CASE Active >= Target
          BY <1>1, <1>b, <3>2, <3>3, <5>1 DEF NoSilentLoss
        <5>2. CASE PendingRestarts' = PendingRestarts
          BY <1>0, <1>1, <3>1, <3>2, <3>3, <3>5, <5>2 DEF OwesNothingInSilence, NoSilentLoss
        <5> QED  BY <4>2, <4>3, <5>1, <5>2
      <4>5. TrippedOwesQuarantineOnly'
        BY <3>3 DEF TrippedOwesQuarantineOnly
      <4>6. EmptyFleetIsFlagged' /\ HeldWhileRestartsPend'
        BY <1>2, <1>11, <3>1, <3>3, <3>5, <4>2 DEF EmptyFleetIsFlagged, HeldWhileRestartsPend
      <4> QED  BY <1>10, <1>11, <2>2, <4>2, <4>4, <4>5, <4>6 DEF OwesNothingInSilence
    <3>6. CASE /\ exitCode' = 1 /\ emptyFleetHold' = FALSE
               /\ pendingRestartQueue' = 0 /\ waitingDelay' = 0
      <4>1. IdleQueueIsEmpty' /\ HeldWhileRestartsPend'
        BY <3>6 DEF IdleQueueIsEmpty, HeldWhileRestartsPend, Waiting
      <4> QED  BY <1>7, <1>10, <1>11, <2>2, <3>6, <4>1 DEF OwesNothingInSilence
    <3> QED  BY <3>4, <3>5, <3>6
  <2>3. CASE /\ ForkForRestart(Active + 1, marked)
             /\ booting' = booting + 1
             /\ UNCHANGED <<online, marked, rolling, doubled, loopDrained>>
    <3>1. Waiting /\ ~shuttingDown /\ ~Tripped(crashes)
      BY <2>3 DEF ForkForRestart, MayForkAfterBackoff
    <3>2. UNCHANGED <<quarantinedSlots, crashes, exitCode, shuttingDown>>
      BY <2>3 DEF ForkForRestart, bootVars, breakerVars
    <3>3. /\ Active' = Active + 1 /\ Settled' = Active + 1 /\ ~Tripped(crashes)'
          /\ Active + 1 \in Nat /\ Active + 1 > 0
      BY <1>1, <2>3, <3>1, <3>2 DEF Active, Settled, Tripped
    <3>4. /\ IdleQueueIsEmpty'
          /\ PendingRestarts' = pendingRestartQueue \/ Active + 1 >= Target
      <4>1. ProcessRestartQueue(pendingRestartQueue, FALSE, FALSE, NextDelay(waitingDelay),
                                MissingWorkers(Active + 1, 0))
        BY <1>1, <2>3, Zenon DEF ForkForRestart
      <4>2. NextDelay(waitingDelay) \in 0..MaxBackoffMs
        BY <1>1, NextDelayType
      <4> QED  BY <1>1, <3>1, <3>3, <4>1, <4>2, RunIsPending
    <3>5. PendingRestarts = pendingRestartQueue + 1
      BY <3>1 DEF PendingRestarts
    <3>6. NoSilentLoss'
      <4>1. CASE Active + 1 >= Target
        BY <1>1, <1>b, <3>2, <3>3, <4>1 DEF NoSilentLoss
      <4>2. CASE PendingRestarts' = pendingRestartQueue
        BY <1>0, <1>1, <3>1, <3>2, <3>3, <3>5, <4>2 DEF OwesNothingInSilence, NoSilentLoss
      <4> QED  BY <3>4, <4>1, <4>2
    <3>7. TrippedOwesQuarantineOnly'
      BY <3>3 DEF TrippedOwesQuarantineOnly
    <3>8. NothingIsReplaced'
      BY <1>1, <2>3 DEF NothingIsReplaced
    <3>9. Active' > 0
      BY <3>3
    <3> QED  BY <1>3, <1>6, <1>11, <2>3, <3>4, <3>6, <3>7, <3>8, <3>9 DEF Running
  <2> QED  BY <1>11, <2>1, <2>2, <2>3, Zenon DEF BackoffElapsed
<1>12. CASE Running /\ Reset
  <2>1. /\ ResetCircuitBreaker(Active, 0)
        /\ UNCHANGED <<booting, online, marked, rolling, doubled, loopDrained>>
    BY <1>1, <1>12 DEF Reset
  <2>2. /\ crashes' = 0 /\ UNCHANGED <<quarantinedSlots, shuttingDown>>
        /\ Active' = Active /\ Settled' = Settled
    BY <2>1 DEF ResetCircuitBreaker, bootVars, Active, Settled
  <2>3. ~Tripped(crashes)' /\ TrippedOwesQuarantineOnly'
    BY <2>2, ConfigAssumption DEF Tripped, TrippedOwesQuarantineOnly
  <2>4. CASE shuttingDown
    <3>1. UNCHANGED <<pendingRestartQueue, waitingDelay>>
      BY <2>1, <2>4 DEF ResetCircuitBreaker, queueVars
    <3>2. IdleQueueIsEmpty'
      BY <1>0, <3>1 DEF OwesNothingInSilence, IdleQueueIsEmpty, Waiting
    <3> QED  BY <1>4, <1>10, <1>12, <2>1, <2>2, <2>4, <3>2
  <2>5. CASE ~shuttingDown
    <3>1. RequestCapacityRefill(Positive(Target - Active), Active, 0, FALSE, 0)
      BY <2>1, <2>5 DEF ResetCircuitBreaker
    <3>2. PICK count \in Nat : count = Positive(Target - Active) /\ count >= Target - Active
      <4>1. Target - Active \in Int
        BY <1>1
      <4> QED  BY <4>1, PositiveType
    <3>3. /\ IdleQueueIsEmpty'
          /\ PendingRestarts' = PendingRestarts + count \/ Active >= Target
          /\ Active = 0 => emptyFleetHold' /\ Waiting'
      <4>1. IdleQueueIsEmpty /\ 0 \in 0..MaxBackoffMs
        BY <1>0, ConfigAssumption DEF OwesNothingInSilence
      <4>2. RequestCapacityRefill(count, Active, 0, FALSE, 0)
        BY <3>1, <3>2, Zenon
      <4> QED  BY <1>1, <1>2, <1>12, <2>5, <4>1, <4>2, RefillIsPending
    <3>4. NoSilentLoss'
      <4>1. CASE Active >= Target
        BY <1>1, <1>b, <2>2, <4>1 DEF NoSilentLoss
      <4>2. CASE PendingRestarts' = PendingRestarts + count
        BY <1>1, <2>2, <3>2, <4>2 DEF NoSilentLoss
      <4> QED  BY <3>3, <4>1, <4>2
    <3>5. EmptyFleetIsFlagged' /\ HeldWhileRestartsPend'
      BY <2>2, <2>3, <3>3 DEF EmptyFleetIsFlagged, HeldWhileRestartsPend
    <3> QED  BY <1>10, <1>12, <2>1, <2>3, <3>3, <3>4, <3>5 DEF OwesNothingInSilence
  <2> QED  BY <2>4, <2>5
<1>13. CASE Running /\ Shutdown
  <2>1. /\ shuttingDown' = TRUE /\ marked' = 0
        /\ UNCHANGED <<pendingRestartQueue, waitingDelay, rolling, doubled, loopDrained>>
    BY <1>13 DEF Shutdown, BeginShutdown, queueVars
  <2>2. IdleQueueIsEmpty' /\ NothingIsReplaced'
    BY <1>0, <1>1, <2>1 DEF OwesNothingInSilence, IdleQueueIsEmpty, Waiting, NothingIsReplaced
  <2> QED  BY <1>3, <1>4, <1>13, <2>1, <2>2 DEF Running
<1>14. ASSUME Running, NEW wasOnline \in BOOLEAN, WorkerExitsInShutdown(wasOnline)
       PROVE  FailStopInv'
  <2>1. /\ shuttingDown /\ UNCHANGED <<pendingRestartQueue, waitingDelay, shuttingDown>>
        /\ marked' = marked /\ UNCHANGED <<rolling, doubled, loopDrained>>
    BY <1>14 DEF WorkerExitsInShutdown, Leaves, engineVars, queueVars
  <2>2. IdleQueueIsEmpty' /\ NothingIsReplaced'
    BY <1>0, <1>1, <2>1 DEF OwesNothingInSilence, IdleQueueIsEmpty, Waiting, NothingIsReplaced
  <2> QED  BY <1>3, <1>4, <1>14, <2>1, <2>2 DEF Running
<1>15. CASE Running /\ CrashesLeaveTheWindow
  <2>1. /\ UNCHANGED <<pendingRestartQueue, waitingDelay, quarantinedSlots, emptyFleetHold,
                       exitCode, shuttingDown>>
        /\ UNCHANGED <<booting, online, marked, rolling, doubled, loopDrained>>
    BY <1>15 DEF CrashesLeaveTheWindow, CrashWindowSlides, queueVars, bootVars
  <2>2. Tripped(crashes)' => Tripped(crashes)
    <3>1. PICK count \in 0..(crashes - 1) : crashes' = count
      BY <1>15 DEF CrashesLeaveTheWindow, CrashWindowSlides
    <3>2. crashes \in Int /\ CrashThreshold \in Int
      BY <1>1, ConfigAssumption DEF EngineTypeOK
    <3> QED  BY <3>1, <3>2 DEF Tripped
  <2>3. UNCHANGED <<Active, Settled, Waiting, PendingRestarts>>
    BY <2>1 DEF Active, Settled, Waiting, PendingRestarts
  <2>4. IdleQueueIsEmpty' /\ TrippedOwesQuarantineOnly' /\ NoSilentLoss'
    BY <1>0, <2>1, <2>2, <2>3
    DEF OwesNothingInSilence, IdleQueueIsEmpty, TrippedOwesQuarantineOnly, NoSilentLoss
  <2>5. EmptyFleetIsFlagged' /\ HeldWhileRestartsPend'
    BY <1>2, <1>15, <2>1, <2>2, <2>3 DEF EmptyFleetIsFlagged, HeldWhileRestartsPend
  <2> QED  BY <1>10, <1>15, <2>1, <2>4, <2>5 DEF OwesNothingInSilence
<1>16. CASE Running /\ StabilityWindowElapses
  <2>1. /\ UNCHANGED <<pendingRestartQueue, waitingDelay, crashes, quarantinedSlots,
                       emptyFleetHold, exitCode, shuttingDown>>
        /\ UNCHANGED <<booting, online, marked, rolling, doubled, loopDrained>>
    BY <1>16 DEF StabilityWindowElapses, BackoffReset, queueVars, bootVars, breakerVars
  <2> QED  BY <1>5, <1>10, <1>16, <2>1
\* A drained worker, a recycle and a roll do not occur.
<1>17. ~RecycleWorkerNow /\ ~RollAbortsByShutdown
  BY <1>1 DEF RecycleWorkerNow, RollAbortsByShutdown
<1>18. \A begin \in BOOLEAN : ~RollStep(begin)
  BY DEF RollStep
<1>19. \A wasOnline \in BOOLEAN : ~WorkerExitsGracefully(wasOnline)
  BY <1>1 DEF WorkerExitsGracefully, Leaves
\* Node exits: with its loop empty, the failure is flagged.
<1>20. CASE LoopDrains \/ UNCHANGED vars
  <2>1. /\ UNCHANGED <<pendingRestartQueue, waitingDelay, crashes, quarantinedSlots,
                       emptyFleetHold, exitCode, shuttingDown>>
        /\ UNCHANGED <<booting, online, marked, rolling, doubled>>
    BY <1>20 DEF LoopDrains, vars, engineVars, queueVars, bootVars, breakerVars
  <2>2. OwesNothingInSilence' /\ NothingIsReplaced'
    BY <1>1, <1>5, <2>1 DEF NothingIsReplaced
  <2>3. UNCHANGED Waiting /\ Tripped(crashes)' = Tripped(crashes)
    BY <2>1 DEF Waiting, Tripped
  <2>4. CASE LoopDrains
    <3>1. Active = 0 /\ ~emptyFleetHold /\ ~shuttingDown
      BY <1>1, <2>4 DEF LoopDrains, LoopAlive
    <3>2. exitCode = 1 /\ (Waiting => Tripped(crashes))
      BY <1>0, <3>1 DEF OwesNothingInSilence, EmptyFleetIsFlagged, HeldWhileRestartsPend
    <3> QED  BY <1>1, <2>1, <2>2, <2>3, <3>2
             DEF FailStopInv, OwesNothingInSilence, DrainsOnlyInFailure
  <2>5. CASE UNCHANGED vars
    <3>1. UNCHANGED loopDrained
      BY <2>5 DEF vars
    <3> QED  BY <1>0, <1>1, <2>1, <2>2, <2>3, <3>1
             DEF FailStopInv, OwesNothingInSilence, DrainsOnlyInFailure
  <2> QED  BY <1>20, <2>4, <2>5
<1>21. CASE Running /\ Crash
  BY <1>9, <1>21 DEF Crash
<1> QED  BY <1>8, <1>11, <1>12, <1>13, <1>14, <1>15, <1>16, <1>17, <1>18, <1>19, <1>20, <1>21
         DEF Next

LEMMA FailStopInvariant ==
  ASSUME ~Recycling, ~Rolling
  PROVE  Spec => []FailStopInv
<1>1. FailStopInv /\ [Next]_vars => FailStopInv'
  BY FailStopStep
<1> QED  BY <1>1, FailStopInit, PTL DEF Spec

\* Without recycles and rolls, a fleet short of workers always has as many
\* restarts pending or slots quarantined, or has flagged the failure exit code.
THEOREM NothingLostInSilence ==
  ASSUME ~Recycling, ~Rolling
  PROVE  Spec => []NoSilentLoss
<1>1. FailStopInv => NoSilentLoss
  BY DEF FailStopInv
<1> QED  BY <1>1, FailStopInvariant, PTL

\* Without recycles and rolls, the loop of an empty fleet is held exactly while
\* a restart that may still fork is in its backoff wait.
THEOREM EmptyFleetIsHeld ==
  ASSUME ~Recycling, ~Rolling
  PROVE  Spec => []HeldWhileRestartsPend
<1>1. FailStopInv => HeldWhileRestartsPend
  BY DEF FailStopInv
<1> QED  BY <1>1, FailStopInvariant, PTL

\* Without recycles and rolls, the primary drains by itself only with the
\* failure exit code and with no restart that may still fork.
THEOREM DeathIsLegible ==
  ASSUME ~Recycling, ~Rolling
  PROVE  Spec => []DrainsOnlyInFailure
<1>1. FailStopInv => DrainsOnlyInFailure
  BY DEF FailStopInv
<1> QED  BY <1>1, FailStopInvariant, PTL
=============================================================================
