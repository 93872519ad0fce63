------------------------------ MODULE FleetCounts ------------------------------
(***************************************************************************)
(* The restart engine in a fleet of which only the size is kept: how many  *)
(* workers are booting, online, and marked for recycling.  It is the       *)
(* abstract specification that the theorems are about and that module      *)
(* Fleet, with its workers, drains and timers, is shown to implement.      *)
(*                                                                         *)
(* Which worker exits is not fixed here: any worker may, at any time, be   *)
(* it marked or not, and only a marked one (drained after its replacement  *)
(* was forked) exits gracefully.                                           *)
(***************************************************************************)
EXTENDS RestartCoordinator

CONSTANTS
  Recycling,       \* are rss/lag/wedged recycles configured?
  Rolling,         \* may the operator call restartWorkers()?
  MaxPending,      \* bound on the restarts owed at once
  MaxQuarantined,  \* bound on the slots reported as quarantined
  MaxMarked,       \* bound on the workers marked for recycling at once
  MaxDoubled       \* bound on the workers replaced twice

ASSUME FleetAssumption ==
  /\ Recycling \in BOOLEAN
  /\ Rolling \in BOOLEAN
  /\ MaxPending \in Nat
  /\ MaxQuarantined \in Nat
  /\ MaxMarked \in Nat
  /\ MaxDoubled \in Nat

VARIABLES
  booting,   \* workers forked and not online yet
  online,    \* workers that reported online
  marked,    \* those of them marked for recycling
  rolling,   \* restartInProgress
  doubled,   \* history: replacements forked for a worker already replaced
  loopDrained  \* the event loop of the primary drained: the process exited

vars == <<engineVars, booting, online, marked, rolling, doubled, loopDrained>>

\* metrics.activeWorkers: a worker counts from its fork to its exit.
Active == booting + online

\* Workers that are not on their way out.
Settled == Active - marked

\* What keeps the event loop of the primary alive: child handles, the hold,
\* and a roll (which waits for a worker or on a ref'd stagger timer).
LoopAlive == Active > 0 \/ emptyFleetHold \/ rolling

Running == LoopAlive /\ ~loopDrained

\* The bounds of a finite check, put on the steps that could exceed them.
Bounded == PendingRestarts <= MaxPending /\ quarantinedSlots <= MaxQuarantined

TypeOK ==
  /\ EngineTypeOK
  /\ booting \in Nat
  /\ online \in Nat
  /\ marked \in Nat
  /\ rolling \in BOOLEAN
  /\ doubled \in Nat
  /\ loopDrained \in BOOLEAN

\* startPrimary() forks the fleet before any event is handled.
Init ==
  /\ EngineInit
  /\ booting = Target
  /\ online = 0
  /\ marked = 0
  /\ rolling = FALSE
  /\ doubled = 0
  /\ loopDrained = FALSE
-----------------------------------------------------------------------------
WorkerOnline ==
  /\ booting > 0
  /\ booting' = booting - 1
  /\ online' = online + 1
  /\ OnWorkerOnline(Active)
  /\ UNCHANGED <<marked, rolling, doubled, loopDrained>>

\* The 'exit' event of one worker: cleanupWorker() forgets it and its mark.
Leaves(wasOnline, wasMarked) ==
  /\ IF wasOnline THEN online > 0 /\ online' = online - 1 /\ UNCHANGED booting
                  ELSE booting > 0 /\ booting' = booting - 1 /\ UNCHANGED online
  /\ IF wasMarked THEN marked > 0 /\ marked' = marked - 1
                  ELSE marked < Active /\ UNCHANGED marked
  /\ UNCHANGED <<rolling, doubled, loopDrained>>

WorkerCrash(wasOnline, wasMarked) ==
  /\ Leaves(wasOnline, wasMarked)
  /\ OnWorkerCrash(Active', marked', ~wasOnline, online' > 0)
  /\ Bounded'

\* A drained worker exits as asked; nothing is restarted.
WorkerExitsGracefully(wasOnline) ==
  /\ ~shuttingDown
  /\ Leaves(wasOnline, TRUE)
  /\ UNCHANGED engineVars

WorkerExitsInShutdown(wasOnline) ==
  /\ shuttingDown
  /\ Leaves(wasOnline, FALSE)
  /\ UNCHANGED engineVars

BackoffElapsed ==
  \/ /\ AbandonRestart
     /\ UNCHANGED <<booting, online, marked, rolling, doubled, loopDrained>>
  \/ /\ ForkForRestartFails(Active, marked)
     /\ UNCHANGED <<booting, online, marked, rolling, doubled, loopDrained>>
  \/ /\ ForkForRestart(Active + 1, marked)
     /\ booting' = booting + 1
     /\ UNCHANGED <<online, marked, rolling, doubled, loopDrained>>

\* recycleWorkerNow(): mark an unmarked worker that reports and fork its
\* replacement (a failed fork unmarks it again: no change).
RecycleWorkerNow ==
  /\ Recycling /\ ~shuttingDown
  /\ online > 0 /\ marked < Active /\ marked < MaxMarked
  /\ marked' = marked + 1
  /\ booting' = booting + 1
  /\ UNCHANGED <<engineVars, online, rolling, doubled, loopDrained>>

\* rollWorkers() forks a replacement for its next target and marks the target.
\* It does not look at the marks: with recycling on, the target may already
\* have a replacement.
RollReplaces ==
  /\ booting' = booting + 1
  /\ \/ /\ marked < Active /\ marked < MaxMarked
        /\ marked' = marked + 1
        /\ UNCHANGED doubled
     \/ /\ Recycling /\ marked > 0 /\ doubled < MaxDoubled
        /\ doubled' = doubled + 1
        /\ UNCHANGED marked

\* restartWorkers(), from its call ("begin") or from the end of a stagger to
\* its next await or its end.
RollStep(begin) ==
  /\ Rolling
  /\ IF begin THEN ~rolling /\ ~shuttingDown ELSE rolling
  /\ \E failures \in 0..MAX_CONSECUTIVE_FORK_FAILURES :
       \/ /\ RollForks(failures, begin)
          /\ RollReplaces
          /\ rolling' = TRUE
       \/ /\ RollBailsOut(failures, begin)
          /\ rolling' = FALSE
          /\ UNCHANGED <<booting, marked, doubled>>
       \/ /\ RollCompletes(failures, begin, Active, marked)
          /\ rolling' = FALSE
          /\ UNCHANGED <<booting, marked, doubled>>
  /\ UNCHANGED <<online, loopDrained>>
  /\ begin => Bounded'

RollAbortsByShutdown ==
  /\ rolling /\ shuttingDown
  /\ rolling' = FALSE
  /\ UNCHANGED <<engineVars, booting, online, marked, doubled, loopDrained>>

Reset ==
  /\ ResetCircuitBreaker(Active, marked)
  /\ UNCHANGED <<booting, online, marked, rolling, doubled, loopDrained>>
  /\ Bounded'

\* shutdownPrimary() also forgets every mark (stopRecycling).
Shutdown ==
  /\ BeginShutdown
  /\ marked' = 0
  /\ UNCHANGED <<booting, online, rolling, doubled, loopDrained>>

CrashesLeaveTheWindow ==
  /\ CrashWindowSlides
  /\ UNCHANGED <<booting, online, marked, rolling, doubled, loopDrained>>

StabilityWindowElapses ==
  /\ BackoffReset
  /\ UNCHANGED <<booting, online, marked, rolling, doubled, loopDrained>>

\* Every other timer is unref'd: with nothing to wait for, Node exits.
LoopDrains ==
  /\ ~LoopAlive /\ ~loopDrained /\ ~shuttingDown
  /\ loopDrained' = TRUE
  /\ UNCHANGED <<engineVars, booting, online, marked, rolling, doubled>>

Crash == \E wasOnline, wasMarked \in BOOLEAN : WorkerCrash(wasOnline, wasMarked)

Next ==
  \/ /\ Running
     /\ \/ WorkerOnline
        \/ Crash
        \/ \E wasOnline \in BOOLEAN : WorkerExitsGracefully(wasOnline)
        \/ \E wasOnline \in BOOLEAN : WorkerExitsInShutdown(wasOnline)
        \/ BackoffElapsed
        \/ RecycleWorkerNow
        \/ \E begin \in BOOLEAN : RollStep(begin)
        \/ RollAbortsByShutdown
        \/ Reset
        \/ Shutdown
        \/ CrashesLeaveTheWindow
        \/ StabilityWindowElapses
  \/ LoopDrains

Spec == Init /\ [][Next]_vars

\* The timers of the engine fire, and Node exits when its loop is drained.
FairSpec == Spec /\ WF_vars(Running /\ BackoffElapsed) /\ WF_vars(LoopDrains)
-----------------------------------------------------------------------------
\* restart-coordinator.ts excludes the recycling workers from its capacity
\* maths, and reads it before the backoff wait, not after it.  However crashes,
\* recycles, rolls and resets interleave, the fleet never settles above its
\* target, except by the replacements a roll forks for workers that already
\* had one.
NoOvershoot == shuttingDown \/ Settled <= Target + doubled

\* The restart queue never forks past a tripped breaker, although the trip may
\* come during the backoff wait: while tripped, a worker is only ever forked
\* to replace another one.
NoRestartPastTrip ==
  [][Tripped(crashes) /\ crashes' = crashes /\ booting' > booting
       => marked' > marked \/ doubled' > doubled]_vars

\* Once the shutdown began no path forks a worker, be it a restart in its
\* backoff wait, a queued entry, a roll or a reset.
NoForkInShutdown == [][shuttingDown => Active' <= Active]_vars

\* In a fleet without recycles and rolls, no capacity is lost in silence: a
\* missing worker has a restart pending, is a quarantined slot, or the failure
\* exit code is flagged.
NoSilentLoss ==
  shuttingDown \/ exitCode = 1 \/ Target - Settled <= PendingRestarts + quarantinedSlots

\* An empty fleet is held alive exactly while a restart that may still fork is
\* in its backoff wait (all backoff timers are unref'd).
HeldWhileRestartsPend ==
  Active = 0 /\ ~shuttingDown => (emptyFleetHold <=> Waiting /\ ~Tripped(crashes))

\* The primary never drains by itself with a clean exit code, nor while a
\* restart that may still fork is pending.
DrainsOnlyInFailure == loopDrained => exitCode = 1 /\ (Waiting => Tripped(crashes))

\* Once crashes stop, a fleet below its target gets back to it, unless the
\* failure is visible: exit code flagged, slot quarantined, or shutdown.
CapacityRestored ==
  <>[][~Crash]_vars =>
    [](Settled < Target =>
         <>(Settled >= Target \/ exitCode = 1 \/ quarantinedSlots > 0 \/ shuttingDown))
=============================================================================
