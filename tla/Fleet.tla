--------------------------------- MODULE Fleet ---------------------------------
(***************************************************************************)
(* The primary with its workers: WorkerManager (the tracked workers, the   *)
(* recycling marks, the age timers), DrainCoordinator (the replacement     *)
(* watches and the escalating drain), the worker handlers and the rolling  *)
(* restart of the Orchestrator, and the engine of RestartCoordinator.      *)
(* The worker processes and node:cluster are the environment.              *)
(*                                                                         *)
(* An id is used again once its worker has exited: the exit handlers       *)
(* remove every trace of it, so nothing distinguishes the two.             *)
(***************************************************************************)
EXTENDS RestartCoordinator, FiniteSets

CONSTANTS
  Worker,          \* worker ids; their number bounds the workers alive at once
  NoWorker,        \* no roll target
  Recycling,       \* are rss/lag/wedged recycles configured?
  Ageing,          \* is workers.maxAgeMs set?
  Rolling,         \* may the operator call restartWorkers()?
  MaxPending,      \* bound on the restarts owed at once
  MaxQuarantined,  \* bound on the slots reported as quarantined
  MaxDoubled       \* bound on the workers replaced twice

ASSUME FleetAssumption ==
  /\ IsFiniteSet(Worker) /\ Cardinality(Worker) >= Target
  /\ NoWorker \notin Worker
  /\ Recycling \in BOOLEAN /\ Ageing \in BOOLEAN /\ Rolling \in BOOLEAN
  /\ MaxPending \in Nat /\ MaxQuarantined \in Nat /\ MaxDoubled \in Nat

VARIABLES
  state,       \* of each worker: free (no process), booting or online
  drain,       \* how far its drain went: no, asked (shutdown message sent and
               \* disconnected), termed (SIGTERM) or killed (SIGKILL)
  marked,      \* recyclingWorkerIds
  watch,       \* <<old, new>>: recycle() still waits for news of new
  ageTimer,    \* pendingRecycleTimers: marked, its replacement only scheduled
  roll,        \* the rolling restart: its phase, targets left, current target
  replaced,    \* history: workers a replacement was forked for
  doubled,     \* history: replacements forked for a worker in replaced
  loopDrained  \* the event loop of the primary drained: the process exited

workerVars == <<state, drain, marked, watch, ageTimer, replaced, doubled>>
vars == <<engineVars, workerVars, roll, loopDrained>>

Alive  == {w \in Worker : state[w] # "free"}
Free   == Worker \ Alive
Active == Cardinality(Alive)

\* getActiveWorkers(): node:cluster unlists a worker once it is disconnected.
Listed == {w \in Alive : drain[w] = "no"}

Settled == Active - Cardinality(marked)

Olds(new) == {old \in Worker : <<old, new>> \in watch}

LoopAlive == Alive # {} \/ emptyFleetHold \/ roll.phase # "idle"
Running   == LoopAlive /\ ~loopDrained

\* The bounds of a finite check, put on the steps that could exceed them.
Bounded == PendingRestarts <= MaxPending /\ quarantinedSlots <= MaxQuarantined

TypeOK ==
  /\ EngineTypeOK
  /\ state \in [Worker -> {"free", "booting", "online"}]
  /\ drain \in [Worker -> {"no", "asked", "termed", "killed"}]
  /\ marked \subseteq Alive
  /\ watch \subseteq Alive \X Alive
  /\ ageTimer \subseteq marked
  /\ roll \in [phase : {"idle", "exit", "grace", "stagger"},
               todo  : SUBSET Alive, target : Alive \cup {NoWorker}]
  /\ replaced \subseteq Alive
  /\ doubled \in Nat
  /\ loopDrained \in BOOLEAN

NoRoll == [phase |-> "idle", todo |-> {}, target |-> NoWorker]

\* startPrimary() forks the whole fleet before any event is handled.
Init ==
  /\ EngineInit
  /\ \E first \in SUBSET Worker :
       /\ Cardinality(first) = Target
       /\ state = [w \in Worker |-> IF w \in first THEN "booting" ELSE "free"]
  /\ drain = [w \in Worker |-> "no"]
  /\ marked = {} /\ watch = {} /\ ageTimer = {}
  /\ roll = NoRoll
  /\ replaced = {} /\ doubled = 0
  /\ loopDrained = FALSE
-----------------------------------------------------------------------------
\* drainRecycledWorker() for a set of workers: asked to shut down and
\* disconnected; a drain already under way is not set back.
DrainOf(olds) ==
  [w \in Worker |-> IF w \in olds /\ drain[w] = "no" THEN "asked" ELSE drain[w]]

\* A worker came online: first the drain of the worker it replaces, then the
\* handler of the Orchestrator.
WorkerOnline(w) ==
  /\ state[w] = "booting"
  /\ state' = [state EXCEPT ![w] = "online"]
  /\ drain' = IF shuttingDown THEN drain ELSE DrainOf(Olds(w))
  /\ watch' = {p \in watch : p[2] # w}
  /\ OnWorkerOnline(Active)
  /\ UNCHANGED <<marked, ageTimer, roll, replaced, doubled, loopDrained>>

\* Mutant of the next definition.
MarkKept(w) == marked

\* cleanupWorker() forgets the mark.
Unmarked(w) == marked \ {w}

\* The 'exit' event of a worker, up to the engine: the listeners of the drain
\* and of the roll run first, then cleanupWorker() forgets the worker.
Leaves(w) ==
  /\ state[w] # "free"
  /\ state' = [state EXCEPT ![w] = "free"]
  /\ drain' = [(IF shuttingDown THEN drain ELSE DrainOf(Olds(w))) EXCEPT ![w] = "no"]
  /\ watch' = {p \in watch : p[1] # w /\ p[2] # w}
  /\ marked' = Unmarked(w)
  /\ ageTimer' = ageTimer \ {w}
  /\ replaced' = replaced \ {w}
  /\ roll' = IF roll.target = w THEN [roll EXCEPT !.phase = "stagger", !.target = NoWorker]
                                ELSE [roll EXCEPT !.todo = @ \ {w}]
  /\ UNCHANGED <<doubled, loopDrained>>

\* An exit the primary did not ask for.
WorkerCrash(w) ==
  /\ drain[w] = "no"
  /\ Leaves(w)
  /\ OnWorkerCrash(Cardinality(Alive \ {w}), Cardinality(Unmarked(w)),
                   state[w] = "booting", \E v \in Worker \ {w} : state[v] = "online")
  /\ Bounded'

\* The exit of a disconnected worker (exitedAfterDisconnect), for whatever
\* reason: nothing is restarted.
WorkerExitsGracefully(w) ==
  /\ drain[w] # "no" /\ ~shuttingDown
  /\ Leaves(w)
  /\ UNCHANGED engineVars

WorkerExitsInShutdown(w) ==
  /\ shuttingDown
  /\ Leaves(w)
  /\ UNCHANGED engineVars
-----------------------------------------------------------------------------
\* The restart queue forks "new", or not.
BackoffElapsed ==
  \/ AbandonRestart /\ UNCHANGED <<workerVars, roll, loopDrained>>
  \/ ForkForRestartFails(Active, Cardinality(marked)) /\ UNCHANGED <<workerVars, roll, loopDrained>>
  \/ \E new \in Free :
       /\ ForkForRestart(Active + 1, Cardinality(marked))
       /\ state' = [state EXCEPT ![new] = "booting"]
       /\ UNCHANGED <<drain, marked, watch, ageTimer, roll, replaced, doubled, loopDrained>>

\* Mutant of the next definition.
ReplaceUnmarked(old, new) ==
  /\ old \in replaced => doubled < MaxDoubled
  /\ state' = [state EXCEPT ![new] = "booting"]
  /\ watch' = watch \cup {<<old, new>>}
  /\ replaced' = replaced \cup {old}
  /\ doubled' = IF old \in replaced THEN doubled + 1 ELSE doubled
  /\ UNCHANGED <<drain, marked>>

\* fork() and handleWorkerRecycle(): new is to take over from old.
Replace(old, new) ==
  /\ old \in replaced => doubled < MaxDoubled
  /\ state' = [state EXCEPT ![new] = "booting"]
  /\ marked' = marked \cup {old}
  /\ watch' = watch \cup {<<old, new>>}
  /\ replaced' = replaced \cup {old}
  /\ doubled' = IF old \in replaced THEN doubled + 1 ELSE doubled
  /\ UNCHANGED drain

\* Mutant of the next definition.
RecycleWorkerAgain(w) ==
  /\ Recycling /\ ~shuttingDown
  /\ state[w] = "online" /\ w \in Listed
  /\ \E new \in Free : Replace(w, new)
  /\ UNCHANGED <<engineVars, ageTimer, roll, loopDrained>>

\* recycleWorkerNow() of a worker that reports (a failed fork unmarks it again).
RecycleWorkerNow(w) ==
  /\ Recycling /\ ~shuttingDown
  /\ state[w] = "online" /\ w \in Listed \ marked
  /\ \E new \in Free : Replace(w, new)
  /\ UNCHANGED <<engineVars, ageTimer, roll, loopDrained>>

\* The recycle sweep marks every worker found too old and schedules the
\* replacements 30 s apart.
AgeSweep ==
  /\ Ageing /\ ~shuttingDown
  /\ \E aged \in SUBSET (Listed \ marked) :
       /\ aged # {}
       /\ marked' = marked \cup aged
       /\ ageTimer' = ageTimer \cup aged
  /\ UNCHANGED <<engineVars, state, drain, watch, replaced, doubled, roll, loopDrained>>

\* Mutant of the next definition.
AgeTimerLeaksMark(w) ==
  /\ w \in ageTimer
  /\ ageTimer' = ageTimer \ {w}
  /\ \/ \E new \in Free : Replace(w, new)
     \/ UNCHANGED <<state, drain, marked, watch, replaced, doubled>>
  /\ UNCHANGED <<engineVars, roll, loopDrained>>

\* The stagger timer of an aged worker: fork its replacement, or unmark it.
AgeTimerFires(w) ==
  /\ w \in ageTimer
  /\ ageTimer' = ageTimer \ {w}
  /\ \/ \E new \in Free : Replace(w, new)
     \/ marked' = marked \ {w} /\ UNCHANGED <<state, drain, watch, replaced, doubled>>
  /\ UNCHANGED <<engineVars, roll, loopDrained>>

\* Mutant of the next definition.
NoDrainFailsafe(old, new) == FALSE

\* The replacement stayed silent for the whole drain budget.
DrainFailsafe(old, new) ==
  /\ <<old, new>> \in watch /\ ~shuttingDown
  /\ watch' = watch \ {<<old, new>>}
  /\ drain' = DrainOf({old})
  /\ UNCHANGED <<engineVars, state, marked, ageTimer, replaced, doubled, roll, loopDrained>>

\* Mutant of the next definition.
EscalateUnmarks(w) ==
  /\ ~shuttingDown /\ drain[w] \in {"asked", "termed"}
  /\ drain' = [drain EXCEPT ![w] = IF drain[w] = "asked" THEN "termed" ELSE "killed"]
  /\ marked' = marked \ {w}
  /\ UNCHANGED <<engineVars, state, watch, ageTimer, replaced, doubled, roll, loopDrained>>

\* The drain timers escalate; both are gated on the shutdown.
Escalate(w) ==
  /\ ~shuttingDown
  /\ \/ drain[w] = "asked" /\ drain' = [drain EXCEPT ![w] = "termed"]
     \/ drain[w] = "termed" /\ drain' = [drain EXCEPT ![w] = "killed"]
  /\ UNCHANGED <<engineVars, state, marked, watch, ageTimer, replaced, doubled, roll, loopDrained>>
-----------------------------------------------------------------------------
\* restartWorkers() and rollWorkers(), from the call or from the end of a
\* stagger to the next await or the end, trying the targets in "todo".
RollStep(todo, begin) ==
  \E failed \in SUBSET todo :
    \/ /\ RollForks(Cardinality(failed), begin)
       /\ \E old \in todo \ failed, new \in Free :
            /\ Replace(old, new)
            /\ roll' = [phase |-> "exit", todo |-> todo \ (failed \cup {old}), target |-> old]
       /\ UNCHANGED <<ageTimer, loopDrained>>
    \/ /\ RollBailsOut(Cardinality(failed), begin)
       /\ roll' = NoRoll
       /\ UNCHANGED <<workerVars, loopDrained>>
    \/ /\ failed = todo
       /\ RollCompletes(Cardinality(failed), begin, Active, Cardinality(marked))
       /\ roll' = NoRoll
       /\ UNCHANGED <<workerVars, loopDrained>>

RestartWorkers ==
  /\ Rolling /\ ~shuttingDown /\ roll = NoRoll
  /\ RollStep(Listed, TRUE)
  /\ Bounded'

RollStaggerElapsed ==
  /\ roll.phase = "stagger"
  /\ shuttingDown => roll.todo = {}
  /\ RollStep(roll.todo, FALSE)

RollAbortsByShutdown ==
  /\ roll.phase = "stagger" /\ shuttingDown /\ roll.todo # {}
  /\ roll' = NoRoll
  /\ UNCHANGED <<engineVars, workerVars, loopDrained>>

\* Mutant of the next definition.
RollWaitsForEver == FALSE

\* awaitBoundedWorkerExit(): the target outlived the drain budget and is
\* killed.  The failsafe of its replacement, armed first with the same
\* budget, has fired by then.
RollWaitExpires ==
  /\ roll.phase = "exit"
  /\ shuttingDown \/ \A new \in Worker : <<roll.target, new>> \notin watch
  /\ drain' = [drain EXCEPT ![roll.target] = "killed"]
  /\ roll' = [roll EXCEPT !.phase = "grace"]
  /\ UNCHANGED <<engineVars, state, marked, watch, ageTimer, replaced, doubled, loopDrained>>

\* The killed target did not exit within the grace period: the roll moves on.
RollGraceExpires ==
  /\ roll.phase = "grace"
  /\ roll' = [roll EXCEPT !.phase = "stagger", !.target = NoWorker]
  /\ UNCHANGED <<engineVars, workerVars, loopDrained>>

\* At most one timer of the roll is armed at a time.
RollTimer ==
  \/ RollStaggerElapsed
  \/ RollAbortsByShutdown
  \/ RollWaitExpires
  \/ RollGraceExpires
-----------------------------------------------------------------------------
Reset ==
  /\ ResetCircuitBreaker(Active, Cardinality(marked))
  /\ UNCHANGED <<workerVars, roll, loopDrained>>
  /\ Bounded'

\* shutdownPrimary() up to its first await: stopRecycling() forgets the marks
\* and the age timers.
Shutdown ==
  /\ BeginShutdown
  /\ marked' = {}
  /\ ageTimer' = {}
  /\ UNCHANGED <<state, drain, watch, replaced, doubled, roll, loopDrained>>

CrashesLeaveTheWindow == CrashWindowSlides /\ UNCHANGED <<workerVars, roll, loopDrained>>

StabilityWindowElapses == BackoffReset /\ UNCHANGED <<workerVars, roll, loopDrained>>

\* Every other timer is unref'd: with nothing to wait for, Node exits.
LoopDrains ==
  /\ ~LoopAlive /\ ~loopDrained /\ ~shuttingDown
  /\ loopDrained' = TRUE
  /\ UNCHANGED <<engineVars, workerVars, roll>>

Next ==
  \/ /\ Running
     /\ \/ \E w \in Worker : \/ WorkerOnline(w)
                             \/ WorkerCrash(w)
                             \/ WorkerExitsGracefully(w)
                             \/ WorkerExitsInShutdown(w)
                             \/ RecycleWorkerNow(w)
                             \/ AgeTimerFires(w)
                             \/ Escalate(w)
        \/ \E old, new \in Worker : DrainFailsafe(old, new)
        \/ BackoffElapsed
        \/ AgeSweep
        \/ RestartWorkers
        \/ RollTimer
        \/ Reset
        \/ Shutdown
        \/ CrashesLeaveTheWindow
        \/ StabilityWindowElapses
  \/ LoopDrains

Spec == Init /\ [][Next]_vars

(***************************************************************************)
(* Timers fire, and a process that got SIGKILL exits.  Nothing else is     *)
(* owed: a worker may boot for ever, ignore its shutdown message, its      *)
(* disconnect and SIGTERM, and every fork may fail.                        *)
(***************************************************************************)
KilledExits(w) == drain[w] = "killed" /\ WorkerExitsGracefully(w)

Fairness ==
  /\ \A w \in Worker : /\ WF_vars(Running /\ \E new \in Worker : DrainFailsafe(w, new))
                       /\ WF_vars(Running /\ AgeTimerFires(w))
                       /\ WF_vars(Running /\ (Escalate(w) \/ KilledExits(w)))
  /\ WF_vars(Running /\ BackoffElapsed)
  /\ WF_vars(Running /\ RollTimer)

FairSpec == Spec /\ Fairness
-----------------------------------------------------------------------------
\* The fleet counted: what the engine sees of it.
Counts == INSTANCE FleetCounts WITH
  booting   <- Cardinality({w \in Worker : state[w] = "booting"}),
  online    <- Cardinality({w \in Worker : state[w] = "online"}),
  marked    <- Cardinality(marked),
  rolling   <- roll.phase # "idle",
  MaxMarked <- Cardinality(Worker)

\* With workers, drains, failsafes and the roll in place (age recycling aside),
\* every step is a step of the counting specification or leaves it unchanged,
\* so what is proved of FleetCounts holds here.  It also says that a worker
\* exits gracefully only while it is marked, and that a roll never targets a
\* marked worker unless recycling is on.
ImplementsFleetCounts == Counts!Spec

\* "Exactly N workers" (worker-manager/README.md:59): with recycles and rolls at
\* once, the fleet does not settle above its target.
NeverAboveTarget == shuttingDown \/ Settled <= Target

\* "While the fleet is empty with restarts pending, the primary holds its event
\* loop alive so the restart queue can re-fork" (worker-manager/README.md:291):
\* the primary does not drain while a restart that may still fork is pending.
HoldsWhileRestartsPend == loopDrained => ~Waiting \/ Tripped(crashes)

\* "A tripped breaker self-terminates the primary once the fleet drains"
\* (restart-coordinator.ts:137): nothing holds the loop of an empty fleet whose
\* breaker is tripped.
TrippedEmptyFleetTerminates ==
  Tripped(crashes) /\ Alive = {} /\ roll = NoRoll /\ ~shuttingDown => ~emptyFleetHold

\* No recycling mark leaks: a marked worker has its replacement scheduled, or a
\* replacement whose fate is awaited, or is draining.  (A leaked mark would
\* skew the capacity maths for as long as the worker lives.)
MarksAreOwned ==
  \A w \in marked : \/ w \in ageTimer
                    \/ \E new \in Worker : <<w, new>> \in watch
                    \/ drain[w] # "no"

\* A worker is only drained once a replacement was forked for it, and while it
\* drains it is not counted as capacity.
DrainingIsReplacedAndMarked ==
  shuttingDown \/ \A w \in Alive : drain[w] # "no" => w \in replaced /\ w \in marked

\* The mark of a draining worker, which no longer counts as capacity, is only taken
\* by its exit, by a shutdown, or by its own age timer: when the fork of that timer
\* fails, the mark that a roll set meanwhile goes too (worker-manager.ts:224).
DrainingKeepsItsMark ==
  [][\A w \in marked \ marked' :
       drain[w] # "no" => state'[w] = "free" \/ shuttingDown' \/ w \in ageTimer]_vars

\* However many workers hang at boot or ignore their drain, each one marked for
\* recycling is gone (or unmarked) in the end.
EveryMarkedWorkerLeaves == \A w \in Worker : w \in marked ~> w \notin marked

\* A rolling restart ends, whatever its targets and their replacements do: the
\* restartInProgress guard cannot be held for ever.
RollEnds == roll.phase # "idle" ~> roll.phase = "idle"
=============================================================================
