------------------------------- MODULE FleetProofs -------------------------------
(***************************************************************************)
(* Theorems about the fleet of workers, for every set of workers, target   *)
(* and configuration: whatever recycles, ages, drains, rolls, crashes and  *)
(* is shut down, in any order.                                             *)
(***************************************************************************)
EXTENDS Fleet, RestartCoordinatorProofs, FiniteSetTheorems, TLAPS

\* The rolling restart: it waits for a target that it does not try again, and
\* one that it killed is draining.
RollInv ==
  /\ roll.phase \in {"exit", "grace"} <=> roll.target # NoWorker
  /\ roll.target \notin roll.todo
  /\ roll.phase = "grace" => drain[roll.target] # "no"
  /\ ~Rolling => roll.phase = "idle"

\* stopRecycling() forgot every mark.
ShutdownInv ==
  /\ shuttingDown => marked = {}
  /\ ~Ageing => ageTimer = {}

\* A worker is drained, watched for, or waited for by the roll, only once a
\* replacement was forked for it.
ReplacedFirst ==
  \A w \in Worker :
    drain[w] # "no" \/ w = roll.target \/ (\E new \in Worker : <<w, new>> \in watch)
      => w \in replaced

\* Without ages, marking a worker and forking its replacement are one step.
MarksAreReplaced == ~Ageing /\ ~shuttingDown => marked = replaced

\* Without recycles, the roll alone marks workers, each at most once: one that is
\* marked is its target, or drains and is no target of a later roll.
RolledOnce ==
  ~Recycling /\ ~Ageing =>
    \A w \in marked : w \notin roll.todo /\ (drain[w] # "no" \/ w = roll.target)

IInv ==
  /\ TypeOK
  /\ RollInv
  /\ ShutdownInv
  /\ ReplacedFirst
  /\ MarksAreReplaced
  /\ RolledOnce
  /\ MarksAreOwned
-----------------------------------------------------------------------------
\* The sets of workers are finite.
LEMMA Finite ==
  /\ IsFiniteSet(Worker) /\ Cardinality(Worker) \in Nat
  /\ \A S \in SUBSET Worker : IsFiniteSet(S) /\ Cardinality(S) \in Nat
<1>1. IsFiniteSet(Worker)
  BY FleetAssumption
<1> QED  BY <1>1, FS_Subset, FS_CardinalityType

\* What TypeOK says of the roll.
LEMMA RollType ==
  ASSUME TypeOK
  PROVE  /\ roll.phase \in {"idle", "exit", "grace", "stagger"}
         /\ roll.todo \in SUBSET Alive
         /\ roll.target \in Alive \cup {NoWorker}
         /\ roll = [phase |-> roll.phase, todo |-> roll.todo, target |-> roll.target]
BY DEF TypeOK

\* The drain of a set of workers.
LEMMA Drains ==
  ASSUME TypeOK, NEW olds
  PROVE  /\ DrainOf(olds) \in [Worker -> {"no", "asked", "termed", "killed"}]
         /\ \A w \in Worker : DrainOf(olds)[w] = IF w \in olds /\ drain[w] = "no"
                                                 THEN "asked" ELSE drain[w]
BY DEF DrainOf, TypeOK

LEMMA InvInit == Init => IInv
<1> SUFFICES ASSUME Init PROVE IInv
  OBVIOUS
<1>1. EngineTypeOK /\ shuttingDown = FALSE
  BY EngineStarts DEF Init, EngineInit
<1>2. /\ state \in [Worker -> {"free", "booting", "online"}]
      /\ \A w \in Worker : drain[w] = "no"
      /\ drain \in [Worker -> {"no", "asked", "termed", "killed"}]
  BY DEF Init
<1>3. roll = NoRoll /\ roll.phase = "idle" /\ roll.todo = {} /\ roll.target = NoWorker
  BY DEF Init, NoRoll
<1>4. TypeOK
  BY <1>1, <1>2, <1>3 DEF Init, TypeOK, NoRoll
<1>5. NoWorker \notin Worker
  BY FleetAssumption
<1> QED  BY <1>1, <1>2, <1>3, <1>4, <1>5
         DEF Init, IInv, RollInv, ShutdownInv, ReplacedFirst, MarksAreReplaced, RolledOnce,
             MarksAreOwned
-----------------------------------------------------------------------------
(***************************************************************************)
(* Steps that leave the workers alone.                                     *)
(***************************************************************************)
LEMMA Frame ==
  ASSUME IInv, EngineTypeOK', loopDrained' \in BOOLEAN,
         UNCHANGED <<state, drain, marked, watch, ageTimer, replaced, doubled, shuttingDown>>,
         \/ roll' = roll
         \/ roll' = NoRoll /\ roll.phase = "stagger"
         \/ roll' = NoRoll /\ roll = NoRoll
         \/ roll' = [roll EXCEPT !.phase = "stagger", !.target = NoWorker] /\ roll.phase = "grace"
  PROVE  IInv'
<1>1. /\ TypeOK /\ RollInv /\ ShutdownInv /\ ReplacedFirst /\ MarksAreReplaced
      /\ RolledOnce /\ MarksAreOwned
  BY DEF IInv
<1>2. Alive' = Alive
  BY DEF Alive
<1>3. /\ roll.phase \in {"idle", "exit", "grace", "stagger"} /\ roll.todo \in SUBSET Alive
      /\ roll.target \in Alive \cup {NoWorker}
  BY <1>1, RollType
<1>4. /\ roll' \in [phase : {"idle", "exit", "grace", "stagger"}, todo : SUBSET Alive,
                    target : Alive \cup {NoWorker}]
      /\ roll'.todo \subseteq roll.todo
      /\ roll'.target = roll.target \/ (roll'.target = NoWorker /\ roll'.phase \in {"idle", "stagger"})
      /\ roll'.target = roll.target => roll'.phase = roll.phase \/
           (roll.target = NoWorker /\ roll'.phase \in {"idle", "stagger"})
      /\ ~Rolling => roll'.phase = "idle"
      /\ roll.target # NoWorker /\ roll'.target = NoWorker => drain[roll.target] # "no"
  <2>1. CASE roll' = roll
    BY <1>1, <2>1 DEF TypeOK, RollInv
  <2>2. CASE roll' = NoRoll
    BY <1>1, <1>3, <2>2 DEF NoRoll, RollInv
  <2>3. CASE roll' = [roll EXCEPT !.phase = "stagger", !.target = NoWorker]
             /\ roll.phase = "grace"
    <3>1. /\ roll' = [phase |-> "stagger", todo |-> roll.todo, target |-> NoWorker]
          /\ roll.phase = "grace"
      BY <1>1, <2>3, RollType
    <3> QED  BY <1>1, <1>3, <3>1 DEF RollInv
  <2> QED  BY <2>1, <2>2, <2>3
<1>5. TypeOK'
  BY <1>1, <1>2, <1>4 DEF TypeOK
<1>6. RollInv'
  <2>1. NoWorker \notin Worker /\ Alive \subseteq Worker
    BY FleetAssumption DEF Alive
  <2> QED  BY <1>1, <1>3, <1>4, <2>1 DEF RollInv
<1>7. ReplacedFirst'
  <2>1. \A w \in Worker : w = roll'.target => w = roll.target
    BY <1>4, FleetAssumption
  <2> QED  BY <1>1, <2>1 DEF ReplacedFirst
<1>8. RolledOnce'
  BY <1>1, <1>4 DEF RolledOnce
<1>9. ShutdownInv' /\ MarksAreReplaced' /\ MarksAreOwned'
  BY <1>1 DEF ShutdownInv, MarksAreReplaced, MarksAreOwned
<1> QED  BY <1>5, <1>6, <1>7, <1>8, <1>9 DEF IInv

\* The sizes that the handlers of the engine read are numbers.
LEMMA Sizes ==
  ASSUME TypeOK
  PROVE  /\ Alive \in SUBSET Worker /\ marked \in SUBSET Worker
         /\ Active \in Nat /\ Cardinality(marked) \in Nat
         /\ \A w \in Worker : /\ Cardinality(Alive \ {w}) \in Nat
                              /\ Cardinality(Unmarked(w)) \in Nat
<1>1. Alive \in SUBSET Worker /\ marked \in SUBSET Worker
  BY DEF Alive, TypeOK
<1>2. \A w \in Worker : Alive \ {w} \in SUBSET Worker /\ Unmarked(w) \in SUBSET Worker
  BY <1>1 DEF Unmarked
<1> QED  BY <1>1, <1>2, Finite DEF Active

\* The engine alone.
LEMMA EngineSteps ==
  ASSUME IInv,
         \/ AbandonRestart \/ ForkForRestartFails(Active, Cardinality(marked))
         \/ ResetCircuitBreaker(Active, Cardinality(marked))
         \/ CrashWindowSlides \/ BackoffReset,
         UNCHANGED <<workerVars, roll, loopDrained>>
  PROVE  IInv'
<1>1. TypeOK /\ EngineTypeOK /\ loopDrained \in BOOLEAN
  BY DEF IInv, TypeOK
<1>2. Active \in Nat /\ Cardinality(marked) \in Nat
  BY <1>1, Sizes
<1>3. EngineTypeOK' /\ shuttingDown' = shuttingDown
  BY <1>1, <1>2, BackoffWaitEnds, ResetHandler, TimersAndWindow
<1> QED  BY <1>1, <1>3, Frame DEF workerVars

\* The roll between its awaits, when it forks nothing, and the end of the loop.
LEMMA RollMovesOn ==
  ASSUME IInv, RollGraceExpires \/ RollAbortsByShutdown \/ LoopDrains
  PROVE  IInv'
<1>1. TypeOK /\ EngineTypeOK /\ loopDrained' \in BOOLEAN
  BY DEF IInv, TypeOK, RollGraceExpires, RollAbortsByShutdown, LoopDrains
<1>2. EngineTypeOK' /\ shuttingDown' = shuttingDown
  BY <1>1, EngineIdle DEF RollGraceExpires, RollAbortsByShutdown, LoopDrains
<1> QED  BY <1>1, <1>2, Frame DEF RollGraceExpires, RollAbortsByShutdown, LoopDrains, workerVars

\* The failures that the roll counts before a fork or its end.
LEMMA RollFailures ==
  ASSUME EngineTypeOK, NEW failed \in SUBSET Worker, NEW begin \in BOOLEAN,
         NEW active, NEW recycling,
         \/ RollForks(Cardinality(failed), begin) \/ RollBailsOut(Cardinality(failed), begin)
         \/ RollCompletes(Cardinality(failed), begin, active, recycling)
  PROVE  Cardinality(failed) \in 0..MAX_CONSECUTIVE_FORK_FAILURES
<1>1. Cardinality(failed) \in Nat
  BY Finite
<1>2. FailuresToBailOut \in 0..MAX_CONSECUTIVE_FORK_FAILURES
  BY DEF FailuresToBailOut, EngineTypeOK, MAX_CONSECUTIVE_FORK_FAILURES
<1>3. Cardinality(failed) <= FailuresToBailOut
  BY <1>1, <1>2
     DEF RollForks, RollBailsOut, RollCompletes, MAX_CONSECUTIVE_FORK_FAILURES
<1> QED  BY <1>1, <1>2, <1>3 DEF MAX_CONSECUTIVE_FORK_FAILURES

\* The end of a roll.
LEMMA RollEndsStep ==
  ASSUME IInv, NEW failed \in SUBSET Worker, NEW begin \in BOOLEAN,
         \/ RollBailsOut(Cardinality(failed), begin)
         \/ RollCompletes(Cardinality(failed), begin, Active, Cardinality(marked)),
         IF begin THEN roll = NoRoll ELSE roll.phase = "stagger",
         roll' = NoRoll, UNCHANGED <<workerVars, loopDrained>>
  PROVE  IInv'
<1>1. TypeOK /\ EngineTypeOK /\ loopDrained \in BOOLEAN
  BY DEF IInv, TypeOK
<1>2. Active \in Nat /\ Cardinality(marked) \in Nat
  BY <1>1, Sizes
<1>3. Cardinality(failed) \in 0..MAX_CONSECUTIVE_FORK_FAILURES
  BY <1>1, RollFailures
<1>4. EngineTypeOK' /\ shuttingDown' = shuttingDown
  BY <1>1, <1>2, <1>3, RollHandlers
<1> QED  BY <1>1, <1>4, Frame DEF workerVars
-----------------------------------------------------------------------------
(***************************************************************************)
(* Forks.                                                                  *)
(***************************************************************************)
\* The restart queue forks.
LEMMA RestartStep ==
  ASSUME IInv, NEW new \in Free, ForkForRestart(Active + 1, Cardinality(marked)),
         state' = [state EXCEPT ![new] = "booting"],
         UNCHANGED <<drain, marked, watch, ageTimer, roll, replaced, doubled, loopDrained>>
  PROVE  IInv'
<1>1. /\ TypeOK /\ EngineTypeOK /\ RollInv /\ ShutdownInv /\ ReplacedFirst /\ MarksAreReplaced
      /\ RolledOnce /\ MarksAreOwned
  BY DEF IInv, TypeOK
<1>2. Active + 1 \in Nat /\ Cardinality(marked) \in Nat
  BY <1>1, Sizes
<1>3. EngineTypeOK' /\ shuttingDown' = shuttingDown
  BY <1>1, <1>2, BackoffWaitEnds
<1>4. Alive' = Alive \cup {new} /\ state' \in [Worker -> {"free", "booting", "online"}]
  BY <1>1 DEF Alive, Free, TypeOK
<1>5. TypeOK'
  BY <1>1, <1>3, <1>4 DEF TypeOK
<1> QED  BY <1>1, <1>3, <1>5
         DEF IInv, RollInv, ShutdownInv, ReplacedFirst, MarksAreReplaced, RolledOnce, MarksAreOwned

\* A replacement is forked: what it does to the workers, the roll aside.
LEMMA ReplaceKeeps ==
  ASSUME IInv, NEW old \in Alive, NEW new \in Free, Replace(old, new), ~shuttingDown,
         EngineTypeOK', UNCHANGED <<shuttingDown, loopDrained>>,
         ageTimer' \in SUBSET ageTimer, ageTimer \ {old} \subseteq ageTimer'
  PROVE  /\ Alive' = Alive \cup {new}
         /\ EngineTypeOK' /\ state' \in [Worker -> {"free", "booting", "online"}]
         /\ drain' = drain /\ drain \in [Worker -> {"no", "asked", "termed", "killed"}]
         /\ marked' = marked \cup {old} /\ marked' \subseteq Alive'
         /\ watch' = watch \cup {<<old, new>>} /\ watch' \subseteq Alive' \X Alive'
         /\ ageTimer' \subseteq marked'
         /\ replaced' = replaced \cup {old} /\ replaced' \subseteq Alive'
         /\ doubled' \in Nat /\ loopDrained' \in BOOLEAN
         /\ ShutdownInv' /\ MarksAreReplaced' /\ MarksAreOwned'
<1>1. TypeOK /\ ShutdownInv /\ MarksAreReplaced /\ MarksAreOwned
  BY DEF IInv
<1>2. /\ drain' = drain /\ marked' = marked \cup {old} /\ watch' = watch \cup {<<old, new>>}
      /\ replaced' = replaced \cup {old}
      /\ doubled' = doubled \/ doubled' = doubled + 1
  BY DEF Replace
<1>3. Alive' = Alive \cup {new} /\ state' \in [Worker -> {"free", "booting", "online"}]
  BY <1>1 DEF Alive, Free, TypeOK, Replace
<1>4. old \in Worker /\ new \in Worker
  BY DEF Alive, Free
<1>5. MarksAreOwned'
  BY <1>1, <1>2, <1>4 DEF MarksAreOwned
<1>6. ShutdownInv' /\ MarksAreReplaced'
  BY <1>1, <1>2 DEF ShutdownInv, MarksAreReplaced
<1> QED  BY <1>1, <1>2, <1>3, <1>5, <1>6 DEF TypeOK

\* A recycle, or the age timer, forks a replacement.
LEMMA RecycleStep ==
  ASSUME IInv, NEW old \in Alive, NEW new \in Free, Replace(old, new),
         Recycling \/ Ageing, ~shuttingDown,
         UNCHANGED <<engineVars, roll, loopDrained>>,
         ageTimer' \in SUBSET ageTimer, ageTimer \ {old} \subseteq ageTimer'
  PROVE  IInv'
<1>1. TypeOK /\ EngineTypeOK /\ RollInv /\ ReplacedFirst /\ RolledOnce
  BY DEF IInv, TypeOK
<1>2. EngineTypeOK' /\ shuttingDown' = shuttingDown
  BY <1>1, EngineIdle
<1>3. /\ Alive' = Alive \cup {new}
      /\ state' \in [Worker -> {"free", "booting", "online"}]
      /\ drain' = drain /\ drain \in [Worker -> {"no", "asked", "termed", "killed"}]
      /\ marked' = marked \cup {old} /\ marked' \subseteq Alive'
      /\ watch' = watch \cup {<<old, new>>} /\ watch' \subseteq Alive' \X Alive'
      /\ ageTimer' \subseteq marked'
      /\ replaced' = replaced \cup {old} /\ replaced' \subseteq Alive'
      /\ doubled' \in Nat /\ loopDrained' \in BOOLEAN
      /\ ShutdownInv' /\ MarksAreReplaced' /\ MarksAreOwned'
  BY <1>2, ReplaceKeeps
<1>4. TypeOK'
  BY <1>1, <1>2, <1>3 DEF TypeOK
<1>5. RollInv' /\ RolledOnce'
  BY <1>1, <1>3 DEF RollInv, RolledOnce
<1>6. ReplacedFirst'
  BY <1>1, <1>3 DEF ReplacedFirst
<1> QED  BY <1>3, <1>4, <1>5, <1>6 DEF IInv

\* The roll forks the replacement of its next target.
LEMMA RollForksStep ==
  ASSUME IInv, NEW todo \in SUBSET Alive, NEW failed \in SUBSET todo, NEW begin \in BOOLEAN,
         Rolling, IF begin THEN roll = NoRoll /\ todo = Listed
                           ELSE roll.phase = "stagger" /\ todo = roll.todo,
         RollForks(Cardinality(failed), begin),
         NEW old \in todo \ failed, NEW new \in Free, Replace(old, new),
         roll' = [phase |-> "exit", todo |-> todo \ (failed \cup {old}), target |-> old],
         UNCHANGED <<ageTimer, loopDrained>>
  PROVE  IInv'
<1>1. TypeOK /\ EngineTypeOK /\ RollInv /\ ReplacedFirst /\ RolledOnce
  BY DEF IInv, TypeOK
<1>2. failed \in SUBSET Worker /\ old \in Worker /\ NoWorker \notin Worker /\ old # NoWorker
  BY FleetAssumption DEF Alive
<1>3. Cardinality(failed) \in 0..MAX_CONSECUTIVE_FORK_FAILURES
  BY <1>1, <1>2, RollFailures
<1>4. EngineTypeOK' /\ ~shuttingDown /\ shuttingDown' = shuttingDown
  BY <1>1, <1>3, RollHandlers, Sizes
<1>5. /\ Alive' = Alive \cup {new}
      /\ state' \in [Worker -> {"free", "booting", "online"}]
      /\ drain' = drain /\ drain \in [Worker -> {"no", "asked", "termed", "killed"}]
      /\ marked' = marked \cup {old} /\ marked' \subseteq Alive'
      /\ watch' = watch \cup {<<old, new>>} /\ watch' \subseteq Alive' \X Alive'
      /\ ageTimer' \subseteq marked'
      /\ replaced' = replaced \cup {old} /\ replaced' \subseteq Alive'
      /\ doubled' \in Nat /\ loopDrained' \in BOOLEAN
      /\ ShutdownInv' /\ MarksAreReplaced' /\ MarksAreOwned'
  BY <1>4, ReplaceKeeps
<1>6. /\ roll'.phase = "exit" /\ roll'.todo = todo \ (failed \cup {old}) /\ roll'.target = old
      /\ roll' \in [phase : {"idle", "exit", "grace", "stagger"}, todo : SUBSET Alive',
                    target : Alive' \cup {NoWorker}]
  BY <1>5
<1>7. TypeOK'
  BY <1>1, <1>4, <1>5, <1>6 DEF TypeOK
<1>8. RollInv'
  BY <1>2, <1>6 DEF RollInv
<1>9. ReplacedFirst'
  BY <1>1, <1>5, <1>6 DEF ReplacedFirst
<1>10. RolledOnce'
  <2> SUFFICES ASSUME ~Recycling, ~Ageing, NEW w \in marked', w # old
               PROVE  w \notin roll'.todo /\ drain[w] # "no"
    BY <1>5, <1>6 DEF RolledOnce
  <2>1. w \in marked /\ w \notin roll.todo /\ (drain[w] # "no" \/ w = roll.target)
    BY <1>1, <1>5 DEF RolledOnce
  <2>2. roll.target = NoWorker /\ w # NoWorker
    BY <1>1, <1>2, <2>1 DEF RollInv, NoRoll, TypeOK, Alive
  <2>3. w \notin todo
    BY <2>1, <2>2 DEF Listed
  <2> QED  BY <1>6, <2>1, <2>2, <2>3
<1> QED  BY <1>5, <1>7, <1>8, <1>9, <1>10 DEF IInv
-----------------------------------------------------------------------------
(***************************************************************************)
(* Drains and exits.                                                       *)
(***************************************************************************)
\* A step that drains workers which were replaced, and stops watching for the
\* replacements of workers that drain.
LEMMA DrainStep ==
  ASSUME IInv, EngineTypeOK', shuttingDown' = shuttingDown,
         state' \in [Worker -> {"free", "booting", "online"}], Alive' = Alive,
         drain' \in [Worker -> {"no", "asked", "termed", "killed"}],
         \A w \in Worker : drain[w] # "no" => drain'[w] # "no",
         \A w \in Worker : drain'[w] # "no" => drain[w] # "no" \/ w \in replaced,
         watch' \subseteq watch,
         \A old, new \in Worker :
           <<old, new>> \in watch \ watch' => drain'[old] # "no" \/ shuttingDown,
         \/ roll' = roll
         \/ /\ roll.phase = "exit" /\ drain'[roll.target] # "no"
            /\ roll' = [roll EXCEPT !.phase = "grace"],
         UNCHANGED <<marked, ageTimer, replaced, doubled, loopDrained>>
  PROVE  IInv'
<1>1. /\ TypeOK /\ RollInv /\ ShutdownInv /\ ReplacedFirst /\ MarksAreReplaced
      /\ RolledOnce /\ MarksAreOwned
  BY DEF IInv
<1>2. NoWorker \notin Worker /\ Alive \subseteq Worker /\ marked \subseteq Worker
  BY <1>1, FleetAssumption, Sizes
<1>3. /\ roll'.phase \in {"idle", "exit", "grace", "stagger"}
      /\ roll' \in [phase : {"idle", "exit", "grace", "stagger"}, todo : SUBSET Alive,
                    target : Alive \cup {NoWorker}]
      /\ roll'.todo = roll.todo /\ roll'.target = roll.target
      /\ roll'.phase = roll.phase
           \/ (roll.phase = "exit" /\ roll'.phase = "grace" /\ drain'[roll.target] # "no")
  <2>1. CASE roll' = roll
    BY <1>1, <2>1 DEF TypeOK
  <2>2. CASE roll.phase = "exit" /\ drain'[roll.target] # "no"
             /\ roll' = [roll EXCEPT !.phase = "grace"]
    <3>1. roll' = [phase |-> "grace", todo |-> roll.todo, target |-> roll.target]
      BY <1>1, <2>2, RollType
    <3> QED  BY <1>1, <2>2, <3>1, RollType
  <2> QED  BY <2>1, <2>2
<1>4. TypeOK'
  BY <1>1, <1>3 DEF TypeOK
<1>5. RollInv'
  <2>1. roll.phase = "grace" => drain'[roll.target] # "no"
    BY <1>1, <1>2, RollType DEF RollInv
  <2> QED  BY <1>1, <1>3, <2>1 DEF RollInv
<1>6. ReplacedFirst'
  BY <1>1, <1>3 DEF ReplacedFirst
<1>7. RolledOnce'
  BY <1>1, <1>2, <1>3 DEF RolledOnce
<1>8. MarksAreOwned'
  BY <1>1, <1>2 DEF MarksAreOwned, ShutdownInv
<1>9. ShutdownInv' /\ MarksAreReplaced'
  BY <1>1 DEF ShutdownInv, MarksAreReplaced
<1> QED  BY <1>4, <1>5, <1>6, <1>7, <1>8, <1>9 DEF IInv

\* The worker that a new one replaces starts to drain.
LEMMA OnlineStep ==
  ASSUME IInv, NEW w \in Worker, WorkerOnline(w)
  PROVE  IInv'
<1>1. TypeOK /\ EngineTypeOK /\ ReplacedFirst
  BY DEF IInv, TypeOK
<1>2. EngineTypeOK' /\ shuttingDown' = shuttingDown
  BY <1>1, Sizes, OnlineHandler DEF WorkerOnline
<1>3. state' \in [Worker -> {"free", "booting", "online"}] /\ Alive' = Alive
  BY <1>1 DEF WorkerOnline, TypeOK, Alive
<1>4. /\ drain' \in [Worker -> {"no", "asked", "termed", "killed"}]
      /\ \A v \in Worker : drain[v] # "no" => drain'[v] # "no"
      /\ \A v \in Worker : drain'[v] # "no" => drain[v] # "no" \/ v \in Olds(w)
      /\ \A v \in Olds(w) : drain'[v] # "no" \/ shuttingDown
  <2>1. CASE shuttingDown
    BY <1>1, <2>1 DEF WorkerOnline, TypeOK
  <2>2. CASE ~shuttingDown
    <3>1. drain' = DrainOf(Olds(w)) /\ Olds(w) \subseteq Worker
      BY <2>2 DEF WorkerOnline, Olds
    <3> QED  BY <1>1, <3>1, Drains
  <2> QED  BY <2>1, <2>2
<1>5. \A v \in Olds(w) : v \in replaced
  BY <1>1 DEF Olds, ReplacedFirst
<1>6. /\ watch' \subseteq watch
      /\ \A old, new \in Worker : <<old, new>> \in watch \ watch' => old \in Olds(w)
  BY DEF WorkerOnline, Olds
<1> QED  BY <1>2, <1>3, <1>4, <1>5, <1>6, DrainStep DEF WorkerOnline

\* The timers of the drains, and of the roll that waits for its target.
LEMMA DrainTimers ==
  ASSUME IInv,
         \/ \E old, new \in Worker : DrainFailsafe(old, new)
         \/ \E w \in Worker : Escalate(w)
         \/ RollWaitExpires
  PROVE  IInv'
<1>1. TypeOK /\ EngineTypeOK /\ RollInv /\ ReplacedFirst
  BY DEF IInv, TypeOK
<1>2. EngineTypeOK' /\ shuttingDown' = shuttingDown
  BY <1>1, EngineIdle DEF DrainFailsafe, Escalate, RollWaitExpires
<1>3. /\ state' = state /\ Alive' = Alive
      /\ state' \in [Worker -> {"free", "booting", "online"}]
      /\ UNCHANGED <<marked, ageTimer, replaced, doubled, loopDrained>>
  BY <1>1 DEF DrainFailsafe, Escalate, RollWaitExpires, TypeOK, Alive
<1>4. ASSUME NEW old \in Worker, NEW new \in Worker, DrainFailsafe(old, new)
      PROVE  IInv'
  <2>1. drain' = DrainOf({old}) /\ watch' = watch \ {<<old, new>>} /\ roll' = roll
    BY <1>4 DEF DrainFailsafe
  <2>2. old \in replaced
    BY <1>1, <1>4 DEF DrainFailsafe, ReplacedFirst
  <2>3. /\ drain' \in [Worker -> {"no", "asked", "termed", "killed"}]
        /\ \A v \in Worker : drain[v] # "no" => drain'[v] # "no"
        /\ \A v \in Worker : drain'[v] # "no" => drain[v] # "no" \/ v = old
        /\ drain'[old] # "no"
    BY <1>1, <2>1, Drains
  <2> QED  BY <1>2, <1>3, <2>1, <2>2, <2>3, DrainStep
<1>5. ASSUME NEW w \in Worker, Escalate(w)
      PROVE  IInv'
  <2>1. /\ drain' \in [Worker -> {"no", "asked", "termed", "killed"}]
        /\ \A v \in Worker : drain[v] # "no" <=> drain'[v] # "no"
    BY <1>1, <1>5 DEF Escalate, TypeOK
  <2>2. UNCHANGED <<watch, roll>>
    BY <1>5 DEF Escalate
  <2> QED  BY <1>2, <1>3, <2>1, <2>2, DrainStep
<1>6. ASSUME RollWaitExpires
      PROVE  IInv'
  <2>1. roll.phase = "exit" /\ roll.target \in Worker
    BY <1>1, <1>6, RollType DEF RollWaitExpires, RollInv, Alive
  <2>2. roll.target \in replaced
    BY <1>1, <2>1 DEF ReplacedFirst
  <2>3. /\ drain' \in [Worker -> {"no", "asked", "termed", "killed"}]
        /\ \A v \in Worker : drain[v] # "no" => drain'[v] # "no"
        /\ \A v \in Worker : drain'[v] # "no" => drain[v] # "no" \/ v = roll.target
        /\ drain'[roll.target] # "no"
    BY <1>1, <1>6, <2>1 DEF RollWaitExpires, TypeOK
  <2>4. watch' = watch /\ roll' = [roll EXCEPT !.phase = "grace"]
    BY <1>6 DEF RollWaitExpires
  <2> QED  BY <1>2, <1>3, <2>1, <2>2, <2>3, <2>4, DrainStep
<1> QED  BY <1>4, <1>5, <1>6

\* What the exit of a worker does to the workers, the watches and the roll.
LEMMA LeavesStep ==
  ASSUME IInv, NEW w \in Worker, Leaves(w), EngineTypeOK', shuttingDown' = shuttingDown
  PROVE  IInv'
<1>1. /\ TypeOK /\ RollInv /\ ShutdownInv /\ ReplacedFirst /\ MarksAreReplaced
      /\ RolledOnce /\ MarksAreOwned
  BY DEF IInv
<1>2. NoWorker \notin Worker /\ Alive \subseteq Worker /\ marked \subseteq Worker /\ w \in Alive
  BY <1>1, FleetAssumption, Sizes DEF Leaves, Alive
<1>3. /\ state' \in [Worker -> {"free", "booting", "online"}]
      /\ Alive' = Alive \ {w}
  BY <1>1 DEF Leaves, TypeOK, Alive
<1>4. /\ drain' \in [Worker -> {"no", "asked", "termed", "killed"}]
      /\ drain'[w] = "no"
      /\ \A v \in Worker \ {w} : drain[v] # "no" => drain'[v] # "no"
      /\ \A v \in Worker : drain'[v] # "no" => v # w /\ (drain[v] # "no" \/ v \in Olds(w))
      /\ \A v \in Olds(w) \ {w} : drain'[v] # "no" \/ shuttingDown
  <2> DEFINE asked == IF shuttingDown THEN drain ELSE DrainOf(Olds(w))
  <2>1. /\ asked \in [Worker -> {"no", "asked", "termed", "killed"}]
        /\ \A v \in Worker : drain[v] # "no" => asked[v] # "no"
        /\ \A v \in Worker : asked[v] # "no" => drain[v] # "no" \/ v \in Olds(w)
        /\ \A v \in Olds(w) : asked[v] # "no" \/ shuttingDown
    <3>1. CASE shuttingDown
      BY <1>1, <3>1 DEF TypeOK
    <3>2. CASE ~shuttingDown
      <4>1. asked = DrainOf(Olds(w)) /\ Olds(w) \subseteq Worker
        BY <3>2 DEF Olds
      <4> HIDE DEF asked
      <4> QED  BY <1>1, <4>1, Drains
    <3> QED  BY <3>1, <3>2
  <2>2. drain' = [asked EXCEPT ![w] = "no"] /\ Olds(w) \subseteq Worker
    BY DEF Leaves, Olds
  <2> HIDE DEF asked
  <2> QED  BY <2>1, <2>2
<1>5. \A v \in Olds(w) : v \in replaced
  BY <1>1 DEF Olds, ReplacedFirst
<1>6. /\ watch' = {p \in watch : p[1] # w /\ p[2] # w} /\ watch' \subseteq watch
      /\ watch' \subseteq Alive' \X Alive'
      /\ \A old, new \in Worker : <<old, new>> \in watch \ watch' => old = w \/ old \in Olds(w)
      /\ \A new \in Worker : <<w, new>> \notin watch'
  BY <1>1, <1>3 DEF Leaves, Olds, TypeOK
<1>7. /\ marked' = marked \ {w} /\ ageTimer' = ageTimer \ {w} /\ replaced' = replaced \ {w}
      /\ doubled' = doubled /\ loopDrained' = loopDrained
  BY DEF Leaves, Unmarked
<1>8. /\ roll' \in [phase : {"idle", "exit", "grace", "stagger"}, todo : SUBSET Alive',
                    target : Alive' \cup {NoWorker}]
      /\ roll'.todo \subseteq roll.todo
      /\ \/ /\ roll.target = w /\ roll'.phase = "stagger" /\ roll'.target = NoWorker
            /\ roll.phase # "idle"
         \/ roll.target # w /\ roll'.phase = roll.phase /\ roll'.target = roll.target
  <2>1. CASE roll.target = w
    <3>1. roll' = [phase |-> "stagger", todo |-> roll.todo, target |-> NoWorker]
      BY <1>1, <2>1, RollType DEF Leaves
    <3>2. roll.todo \subseteq Alive \ {w} /\ roll.phase # "idle"
      BY <1>1, <1>2, <2>1, RollType DEF RollInv
    <3> QED  BY <1>3, <2>1, <3>1, <3>2
  <2>2. CASE roll.target # w
    <3>1. roll' = [phase |-> roll.phase, todo |-> roll.todo \ {w}, target |-> roll.target]
      BY <1>1, <2>2, RollType DEF Leaves
    <3> QED  BY <1>1, <1>3, <2>2, <3>1, RollType
  <2> QED  BY <2>1, <2>2
<1>9. TypeOK'
  BY <1>1, <1>3, <1>4, <1>6, <1>7, <1>8 DEF TypeOK
<1>10. RollInv'
  <2>1. roll.phase = "grace" /\ roll.target # w => drain'[roll.target] # "no"
    BY <1>1, <1>2, <1>4, RollType DEF RollInv
  <2>2. NoWorker \notin roll.todo
    BY <1>1, <1>2, RollType
  <2> QED  BY <1>1, <1>2, <1>8, <2>1, <2>2 DEF RollInv
<1>11. ReplacedFirst'
  BY <1>1, <1>2, <1>4, <1>5, <1>6, <1>7, <1>8 DEF ReplacedFirst
<1>12. RolledOnce'
  BY <1>1, <1>2, <1>4, <1>7, <1>8 DEF RolledOnce
<1>13. MarksAreOwned'
  <2> SUFFICES ASSUME NEW v \in marked, v # w
               PROVE  \/ v \in ageTimer' \/ drain'[v] # "no"
                      \/ \E new \in Worker : <<v, new>> \in watch'
    BY <1>7 DEF MarksAreOwned
  <2>1. ~shuttingDown
    BY <1>1 DEF ShutdownInv
  <2>2. v \in ageTimer \/ drain[v] # "no" \/ \E new \in Worker : <<v, new>> \in watch
    BY <1>1 DEF MarksAreOwned
  <2> QED  BY <1>2, <1>4, <1>6, <1>7, <2>1, <2>2
<1>14. ShutdownInv' /\ MarksAreReplaced'
  BY <1>1, <1>7 DEF ShutdownInv, MarksAreReplaced
<1> QED  BY <1>9, <1>10, <1>11, <1>12, <1>13, <1>14 DEF IInv

\* A worker exits, for whatever reason.
LEMMA ExitStep ==
  ASSUME IInv, NEW w \in Worker,
         WorkerCrash(w) \/ WorkerExitsGracefully(w) \/ WorkerExitsInShutdown(w)
  PROVE  IInv'
<1>1. TypeOK /\ EngineTypeOK
  BY DEF IInv, TypeOK
<1>2. EngineTypeOK' /\ shuttingDown' = shuttingDown
  <2>1. CASE WorkerCrash(w)
    <3>1. Cardinality(Alive \ {w}) \in Nat /\ Cardinality(Unmarked(w)) \in Nat
      BY <1>1, Sizes
    <3>2. OnWorkerCrash(Cardinality(Alive \ {w}), Cardinality(Unmarked(w)),
                        state[w] = "booting", \E v \in Worker \ {w} : state[v] = "online")
      BY <2>1 DEF WorkerCrash
    <3>3. EngineTypeOK' /\ ~shuttingDown /\ ~shuttingDown'
      BY <1>1, <3>1, <3>2, CrashHandler
    <3> QED  BY <1>1, <3>3 DEF EngineTypeOK
  <2>2. CASE WorkerExitsGracefully(w) \/ WorkerExitsInShutdown(w)
    BY <1>1, <2>2, EngineIdle DEF WorkerExitsGracefully, WorkerExitsInShutdown
  <2> QED  BY <2>1, <2>2
<1>3. Leaves(w)
  BY DEF WorkerCrash, WorkerExitsGracefully, WorkerExitsInShutdown
<1> QED  BY <1>2, <1>3, LeavesStep
-----------------------------------------------------------------------------
(***************************************************************************)
(* Recycling, ages, the roll and the shutdown.                             *)
(***************************************************************************)
\* A recycle of a worker that reports.
LEMMA RecycleNowStep ==
  ASSUME IInv, NEW w \in Worker, RecycleWorkerNow(w)
  PROVE  IInv'
<1>1. PICK new \in Free : Replace(w, new)
  BY DEF RecycleWorkerNow
<1>2. /\ w \in Alive /\ Recycling /\ ~shuttingDown
      /\ UNCHANGED <<engineVars, roll, loopDrained>> /\ ageTimer' = ageTimer
  BY DEF RecycleWorkerNow, Alive
<1> QED  BY <1>1, <1>2, RecycleStep

\* The sweep marks aged workers; each is owned by its timer.
LEMMA SweepStep == ASSUME IInv, AgeSweep PROVE IInv'
<1>1. /\ TypeOK /\ EngineTypeOK /\ RollInv /\ ReplacedFirst /\ MarksAreOwned
  BY DEF IInv, TypeOK
<1>2. EngineTypeOK' /\ shuttingDown' = shuttingDown
  BY <1>1, EngineIdle DEF AgeSweep
<1>3. PICK aged \in SUBSET (Listed \ marked) :
        marked' = marked \cup aged /\ ageTimer' = ageTimer \cup aged
  BY DEF AgeSweep
<1>4. /\ UNCHANGED <<state, drain, watch, replaced, doubled, roll, loopDrained>>
      /\ Ageing /\ ~shuttingDown /\ Alive' = Alive /\ aged \subseteq Alive
  BY <1>3 DEF AgeSweep, Alive, Listed
<1>5. TypeOK'
  BY <1>1, <1>2, <1>3, <1>4 DEF TypeOK
<1>6. MarksAreOwned'
  BY <1>1, <1>3, <1>4 DEF MarksAreOwned
<1> QED  BY <1>1, <1>2, <1>4, <1>5, <1>6
         DEF IInv, RollInv, ShutdownInv, ReplacedFirst, MarksAreReplaced, RolledOnce

\* The timer of an aged worker: a fork, or no mark any more.
LEMMA AgeTimerStep == ASSUME IInv, NEW w \in Worker, AgeTimerFires(w) PROVE IInv'
<1>1. /\ TypeOK /\ EngineTypeOK /\ RollInv /\ ShutdownInv /\ ReplacedFirst /\ MarksAreOwned
  BY DEF IInv, TypeOK
<1>2. /\ w \in ageTimer /\ ageTimer' = ageTimer \ {w} /\ UNCHANGED <<engineVars, roll, loopDrained>>
      /\ \/ \E new \in Free : Replace(w, new)
         \/ marked' = marked \ {w} /\ UNCHANGED <<state, drain, watch, replaced, doubled>>
  BY DEF AgeTimerFires
<1>3. w \in Alive /\ Ageing /\ ~shuttingDown
  BY <1>1, <1>2 DEF TypeOK, ShutdownInv
<1>4. ASSUME NEW new \in Free, Replace(w, new)
      PROVE  IInv'
  BY <1>2, <1>3, <1>4, RecycleStep
<1>5. ASSUME marked' = marked \ {w}, UNCHANGED <<state, drain, watch, replaced, doubled>>
      PROVE  IInv'
  <2>1. EngineTypeOK' /\ shuttingDown' = shuttingDown
    BY <1>1, <1>2, EngineIdle
  <2>2. TypeOK'
    BY <1>1, <1>2, <1>5, <2>1 DEF TypeOK, Alive
  <2>3. MarksAreOwned'
    BY <1>1, <1>2, <1>5 DEF MarksAreOwned
  <2> QED  BY <1>1, <1>2, <1>3, <1>5, <2>1, <2>2, <2>3
           DEF IInv, RollInv, ShutdownInv, ReplacedFirst, MarksAreReplaced, RolledOnce
<1> QED  BY <1>2, <1>4, <1>5

\* One run of the roll, from its call or from the end of a stagger.
LEMMA RollStepKeeps ==
  ASSUME IInv, NEW todo \in SUBSET Alive, NEW begin \in BOOLEAN, Rolling,
         IF begin THEN roll = NoRoll /\ todo = Listed
                  ELSE roll.phase = "stagger" /\ todo = roll.todo,
         RollStep(todo, begin)
  PROVE  IInv'
<1>1. Alive \subseteq Worker /\ IF begin THEN roll = NoRoll ELSE roll.phase = "stagger"
  BY DEF Alive
<1>2. PICK failed \in SUBSET todo :
        \/ /\ RollForks(Cardinality(failed), begin)
           /\ \E old \in todo \ failed, new \in Free :
                /\ Replace(old, new)
                /\ roll' = [phase |-> "exit", todo |-> todo \ (failed \cup {old}), target |-> old]
           /\ UNCHANGED <<ageTimer, loopDrained>>
        \/ /\ RollBailsOut(Cardinality(failed), begin)
           /\ roll' = NoRoll
           /\ UNCHANGED <<workerVars, loopDrained>>
        \/ /\ failed = todo
           /\ RollCompletes(Cardinality(failed), begin, Active, Cardinality(marked))
           /\ roll' = NoRoll
           /\ UNCHANGED <<workerVars, loopDrained>>
  BY DEF RollStep
<1>3. failed \in SUBSET Worker
  BY <1>1
<1>4. CASE /\ RollForks(Cardinality(failed), begin)
           /\ \E old \in todo \ failed, new \in Free :
                /\ Replace(old, new)
                /\ roll' = [phase |-> "exit", todo |-> todo \ (failed \cup {old}), target |-> old]
           /\ UNCHANGED <<ageTimer, loopDrained>>
  BY <1>4, RollForksStep
<1>5. CASE /\ \/ RollBailsOut(Cardinality(failed), begin)
              \/ RollCompletes(Cardinality(failed), begin, Active, Cardinality(marked))
           /\ roll' = NoRoll
           /\ UNCHANGED <<workerVars, loopDrained>>
  BY <1>1, <1>3, <1>5, RollEndsStep
<1> QED  BY <1>2, <1>4, <1>5

LEMMA RollSteps ==
  ASSUME IInv, RestartWorkers \/ RollTimer
  PROVE  IInv'
<1>1. TypeOK /\ RollInv
  BY DEF IInv
<1>2. CASE RestartWorkers
  <2>1. Listed \in SUBSET Alive /\ Rolling /\ roll = NoRoll /\ RollStep(Listed, TRUE)
    BY <1>2 DEF RestartWorkers, Listed
  <2> QED  BY <2>1, RollStepKeeps
<1>3. CASE RollStaggerElapsed
  <2>1. /\ roll.todo \in SUBSET Alive /\ Rolling /\ roll.phase = "stagger"
        /\ RollStep(roll.todo, FALSE)
    BY <1>1, <1>3, RollType DEF RollStaggerElapsed, RollInv
  <2> QED  BY <2>1, RollStepKeeps
<1>4. CASE RollAbortsByShutdown \/ RollGraceExpires
  BY <1>4, RollMovesOn
<1>5. CASE RollWaitExpires
  BY <1>5, DrainTimers
<1> QED  BY <1>2, <1>3, <1>4, <1>5 DEF RollTimer

\* stopRecycling() forgets the marks and the timers that own them.
LEMMA ShutdownStep == ASSUME IInv, Shutdown PROVE IInv'
<1>1. TypeOK /\ EngineTypeOK /\ RollInv /\ ReplacedFirst
  BY DEF IInv, TypeOK
<1>2. EngineTypeOK' /\ shuttingDown'
  BY <1>1, ShutdownHandler DEF Shutdown
<1>3. /\ marked' = {} /\ ageTimer' = {} /\ Alive' = Alive
      /\ UNCHANGED <<state, drain, watch, replaced, doubled, roll, loopDrained>>
  BY DEF Shutdown, Alive
<1>4. TypeOK'
  BY <1>1, <1>2, <1>3 DEF TypeOK
<1> QED  BY <1>1, <1>2, <1>3, <1>4
         DEF IInv, RollInv, ShutdownInv, ReplacedFirst, MarksAreReplaced, RolledOnce, MarksAreOwned

LEMMA InvNext == IInv /\ [Next]_vars => IInv'
<1> SUFFICES ASSUME IInv, [Next]_vars PROVE IInv'
  OBVIOUS
<1>1. TypeOK /\ EngineTypeOK /\ loopDrained \in BOOLEAN
  BY DEF IInv, TypeOK
<1>2. CASE UNCHANGED vars
  <2>1. EngineTypeOK' /\ shuttingDown' = shuttingDown /\ loopDrained' \in BOOLEAN
        /\ UNCHANGED <<workerVars, roll>>
    BY <1>1, <1>2, EngineIdle DEF vars
  <2> QED  BY <2>1, Frame DEF workerVars
<1>3. CASE \E w \in Worker : WorkerOnline(w)
  BY <1>3, OnlineStep
<1>4. CASE \E w \in Worker :
             WorkerCrash(w) \/ WorkerExitsGracefully(w) \/ WorkerExitsInShutdown(w)
  BY <1>4, ExitStep
<1>5. CASE \E w \in Worker : RecycleWorkerNow(w)
  BY <1>5, RecycleNowStep
<1>6. CASE \E w \in Worker : AgeTimerFires(w)
  BY <1>6, AgeTimerStep
<1>7. CASE (\E w \in Worker : Escalate(w)) \/ (\E old, new \in Worker : DrainFailsafe(old, new))
  BY <1>7, DrainTimers
<1>8. CASE BackoffElapsed
  BY <1>8, EngineSteps, RestartStep DEF BackoffElapsed
<1>9. CASE AgeSweep
  BY <1>9, SweepStep
<1>10. CASE RestartWorkers \/ RollTimer
  BY <1>10, RollSteps
<1>11. CASE Reset \/ CrashesLeaveTheWindow \/ StabilityWindowElapses
  BY <1>11, EngineSteps DEF Reset, CrashesLeaveTheWindow, StabilityWindowElapses
<1>12. CASE Shutdown
  BY <1>12, ShutdownStep
<1>13. CASE LoopDrains
  BY <1>13, RollMovesOn
<1> QED  BY <1>2, <1>3, <1>4, <1>5, <1>6, <1>7, <1>8, <1>9, <1>10, <1>11, <1>12, <1>13
         DEF Next

LEMMA Invariance == Spec => []IInv
BY InvInit, InvNext, PTL DEF Spec
-----------------------------------------------------------------------------
(***************************************************************************)
(* The theorems.                                                           *)
(***************************************************************************)
\* Every handler keeps the trackers of the primary (marks, watches, age timers,
\* roll) within the workers that are alive: none of them outlives its worker.
THEOREM TypeCorrect == Spec => []TypeOK
<1>1. IInv => TypeOK
  BY DEF IInv
<1> QED  BY <1>1, Invariance, PTL

\* No recycling mark leaks, however recycles, age timers, rolls, drains and exits
\* interleave (WorkerManager.recyclingWorkerIds).
THEOREM MarksHaveOwners == Spec => []MarksAreOwned
<1>1. IInv => MarksAreOwned
  BY DEF IInv
<1> QED  BY <1>1, Invariance, PTL

\* Without workers.maxAgeMs, a worker is only drained once its replacement was
\* forked, and then it is not counted as capacity (DrainCoordinator).
THEOREM DrainedWereReplaced ==
  ASSUME ~Ageing
  PROVE  Spec => []DrainingIsReplacedAndMarked
<1>1. IInv => DrainingIsReplacedAndMarked
  BY DEF IInv, TypeOK, ReplacedFirst, MarksAreReplaced, DrainingIsReplacedAndMarked, Alive
<1> QED  BY <1>1, Invariance, PTL

\* A draining worker is counted as capacity again only when it has exited, in a
\* shutdown, or when its own age timer fails to fork (worker-manager.ts:224).
THEOREM DrainsKeepMarks == Spec => DrainingKeepsItsMark
<1>1. IInv /\ [Next]_vars =>
        [\A w \in marked \ marked' :
           drain[w] # "no" => state'[w] = "free" \/ shuttingDown' \/ w \in ageTimer]_vars
  <2> SUFFICES ASSUME IInv, Next, NEW w \in marked, w \notin marked'
               PROVE  state'[w] = "free" \/ shuttingDown' \/ w \in ageTimer
    OBVIOUS
  <2>1. /\ w \in Worker /\ state \in [Worker -> {"free", "booting", "online"}]
    BY Sizes DEF IInv, TypeOK
  <2>2. \/ \E v \in Worker : Leaves(v)
        \/ \E v \in Worker : AgeTimerFires(v)
        \/ Shutdown
    BY DEF Next, WorkerOnline, WorkerCrash, WorkerExitsGracefully, WorkerExitsInShutdown,
           RecycleWorkerNow, Replace, Escalate, DrainFailsafe, BackoffElapsed, AgeSweep,
           RestartWorkers, RollTimer, RollStaggerElapsed, RollStep, RollAbortsByShutdown,
           RollWaitExpires, RollGraceExpires, Reset, CrashesLeaveTheWindow,
           StabilityWindowElapses, LoopDrains, workerVars
  <2>3. ASSUME NEW v \in Worker, Leaves(v)
        PROVE  state'[w] = "free"
    BY <2>1, <2>3 DEF Leaves, Unmarked
  <2>4. ASSUME NEW v \in Worker, AgeTimerFires(v)
        PROVE  w \in ageTimer
    BY <2>4 DEF AgeTimerFires, Replace
  <2>5. Shutdown => shuttingDown'
    BY DEF Shutdown, BeginShutdown
  <2> QED  BY <2>2, <2>3, <2>4, <2>5
<1> QED  BY <1>1, Invariance, PTL DEF Spec, DrainingKeepsItsMark

\* How one step forks workers: the restart queue forks one, before a shutdown and a
\* trip, or a replacement is forked and watched.
LEMMA ForksStep ==
  ASSUME IInv, [Next]_vars
  PROVE  \/ Alive' \subseteq Alive
         \/ ~shuttingDown /\ ~Tripped(crashes)
         \/ /\ ~shuttingDown
            /\ \E old \in Alive, new \in Free :
                 Alive' \subseteq Alive \cup {new} /\ <<old, new>> \in watch'
<1>1. TypeOK /\ ShutdownInv
  BY DEF IInv
<1>2. ASSUME NEW old \in Alive, NEW new \in Free, Replace(old, new)
      PROVE  Alive' \subseteq Alive \cup {new} /\ <<old, new>> \in watch'
  BY <1>1, <1>2 DEF Replace, Alive, TypeOK
<1>3. CASE state' = state
  BY <1>3 DEF Alive
<1>4. CASE \E w \in Worker : WorkerOnline(w) \/ Leaves(w)
  BY <1>1, <1>4 DEF WorkerOnline, Leaves, Alive, TypeOK
<1>5. CASE BackoffElapsed
  <2>1. ForkForRestart(Active + 1, Cardinality(marked)) => ~shuttingDown /\ ~Tripped(crashes)
    BY DEF ForkForRestart, MayForkAfterBackoff
  <2> QED  BY <1>3, <1>5, <2>1 DEF BackoffElapsed, workerVars
<1>6. CASE \E w \in Worker : RecycleWorkerNow(w)
  BY <1>2, <1>6 DEF RecycleWorkerNow, Listed
<1>7. CASE \E w \in Worker : AgeTimerFires(w)
  <2>1. PICK w \in ageTimer : (\E new \in Free : Replace(w, new)) \/ state' = state
    BY <1>7 DEF AgeTimerFires
  <2>2. ~shuttingDown /\ w \in Alive
    BY <1>1, <2>1 DEF TypeOK, ShutdownInv
  <2> QED  BY <1>2, <1>3, <2>1, <2>2
<1>8. ASSUME NEW todo \in SUBSET Alive, NEW begin \in BOOLEAN, RollStep(todo, begin)
      PROVE  \/ state' = state
             \/ /\ ~shuttingDown
                /\ \E old \in Alive, new \in Free :
                     Alive' \subseteq Alive \cup {new} /\ <<old, new>> \in watch'
  BY <1>2, <1>8 DEF RollStep, RollForks, workerVars
<1>9. CASE RestartWorkers \/ RollStaggerElapsed
  <2>1. Listed \in SUBSET Alive /\ roll.todo \in SUBSET Alive
    BY <1>1, RollType DEF Listed
  <2> QED  BY <1>3, <1>8, <1>9, <2>1 DEF RestartWorkers, RollStaggerElapsed
<1> QED  BY <1>3, <1>4, <1>5, <1>6, <1>7, <1>9
         DEF Next, WorkerCrash, WorkerExitsGracefully, WorkerExitsInShutdown, Escalate,
             DrainFailsafe, AgeSweep, RollTimer, RollAbortsByShutdown, RollWaitExpires,
             RollGraceExpires, Reset, Shutdown, CrashesLeaveTheWindow, StabilityWindowElapses,
             LoopDrains, workerVars, vars

\* Once the shutdown began no path forks a worker, in any configuration: not the
\* restart in its backoff wait, not an age timer, not a roll, not a reset.
THEOREM NothingJoinsAShutdown == Spec => [][shuttingDown => Alive' \subseteq Alive]_vars
<1>1. IInv /\ [Next]_vars => [shuttingDown => Alive' \subseteq Alive]_vars
  BY ForksStep
<1> QED  BY <1>1, Invariance, PTL DEF Spec

\* While the breaker is tripped a worker is only forked to take over from another
\* that is alive, and is watched for it, in any configuration: the trip may come
\* during the backoff wait of a restart, which is then abandoned.
THEOREM TrippedForksReplaceOnly ==
  Spec => [][Tripped(crashes) =>
               \A new \in Alive' \ Alive : \E old \in Alive : <<old, new>> \in watch']_vars
<1>1. IInv /\ [Next]_vars =>
        [Tripped(crashes) =>
           \A new \in Alive' \ Alive : \E old \in Alive : <<old, new>> \in watch']_vars
  BY ForksStep
<1> QED  BY <1>1, Invariance, PTL DEF Spec

\* What an engine without a roll does in a step of the fleet.
LEMMA EngineWithoutRoll ==
  ASSUME IInv, ~Rolling, [Next]_vars
  PROVE  \E active, recycling, bootFailed, hasOnlineWorkers :
           \/ OnWorkerCrash(active, recycling, bootFailed, hasOnlineWorkers)
           \/ OnWorkerOnline(active)
           \/ AbandonRestart \/ ForkForRestartFails(active, recycling)
           \/ ForkForRestart(active, recycling)
           \/ ResetCircuitBreaker(active, recycling)
           \/ BeginShutdown \/ CrashWindowSlides \/ BackoffReset
           \/ UNCHANGED engineVars
<1>1. ~RestartWorkers /\ ~RollStaggerElapsed
  BY DEF IInv, RollInv, RestartWorkers, RollStaggerElapsed
<1>2. CASE \E w \in Worker : WorkerCrash(w) \/ WorkerOnline(w)
  BY <1>2, Zenon DEF WorkerCrash, WorkerOnline
<1>3. CASE BackoffElapsed \/ Reset
  BY <1>3, Zenon DEF BackoffElapsed, Reset
<1>4. CASE Shutdown \/ CrashesLeaveTheWindow \/ StabilityWindowElapses
  BY <1>4 DEF Shutdown, CrashesLeaveTheWindow, StabilityWindowElapses
<1>5. CASE UNCHANGED engineVars
  BY <1>5
<1> QED  BY <1>1, <1>2, <1>3, <1>4, <1>5, Zenon
         DEF Next, WorkerExitsGracefully, WorkerExitsInShutdown, RecycleWorkerNow, AgeTimerFires,
             Escalate, DrainFailsafe, AgeSweep, RollTimer, RollAbortsByShutdown, RollWaitExpires,
             RollGraceExpires, LoopDrains, vars

\* Unless the operator rolls, a tripped breaker never holds an empty fleet alive
\* (restart-coordinator.ts:137), in any configuration: run fleet_zombie_violation
\* shows how the refill at the end of a roll breaks this.
THEOREM TerminatesUnlessRolling ==
  ASSUME ~Rolling
  PROVE  Spec => []TrippedEmptyFleetTerminates
<1> DEFINE Released == Tripped(crashes) => ~emptyFleetHold
<1>1. Init => Released
  BY DEF Init, EngineInit
<1>2. IInv /\ Released /\ [Next]_vars => Released'
  BY EngineWithoutRoll, TripReleasesHold DEF IInv, TypeOK
<1>3. Released => TrippedEmptyFleetTerminates
  BY DEF TrippedEmptyFleetTerminates
<1> HIDE DEF Released
<1> QED  BY <1>1, <1>2, <1>3, Invariance, PTL DEF Spec
=============================================================================
