----------------------------- MODULE FleetRefinement -----------------------------
(***************************************************************************)
(* The fleet of workers implements the counting specification, whatever    *)
(* the set of workers, the target and the configuration, as long as        *)
(* workers do not age; so what is proved of the counts holds of the fleet. *)
(*                                                                         *)
(* With ages it does not: the sweep marks workers a while before their     *)
(* replacements are forked, which no step of the counts does.              *)
(***************************************************************************)
EXTENDS FleetProofs

BootingOnes == {w \in Worker : state[w] = "booting"}
OnlineOnes  == {w \in Worker : state[w] = "online"}

\* The sizes that the counting specification keeps.
LEMMA Counted ==
  ASSUME TypeOK
  PROVE  /\ Cardinality(BootingOnes) \in Nat /\ Cardinality(OnlineOnes) \in Nat
         /\ Active = Cardinality(BootingOnes) + Cardinality(OnlineOnes)
         /\ Active \in Nat
         /\ Alive = {} <=> Active = 0
         /\ \A w \in Worker : Cardinality(Alive \ {w}) = IF w \in Alive THEN Active - 1 ELSE Active
         /\ \A S \in SUBSET Worker : \A w \in Worker :
              /\ Cardinality(S \cup {w}) = IF w \in S THEN Cardinality(S) ELSE Cardinality(S) + 1
              /\ Cardinality(S \ {w}) = IF w \in S THEN Cardinality(S) - 1 ELSE Cardinality(S)
              /\ Cardinality(S) \in Nat
              /\ w \in S => Cardinality(S) > 0
         /\ \A w \in Alive \ marked :
              Cardinality(marked) < Active /\ Cardinality(marked) < Cardinality(Worker)
<1>1. /\ BootingOnes \in SUBSET Worker /\ OnlineOnes \in SUBSET Worker
      /\ Alive \in SUBSET Worker /\ marked \in SUBSET Alive /\ marked \in SUBSET Worker
      /\ Alive = BootingOnes \cup OnlineOnes /\ BootingOnes \cap OnlineOnes = {}
  BY DEF BootingOnes, OnlineOnes, Alive, TypeOK
<1>2. \A S \in SUBSET Worker : IsFiniteSet(S) /\ Cardinality(S) \in Nat
  BY Finite
<1>3. Active = Cardinality(BootingOnes) + Cardinality(OnlineOnes)
  <2>1. Cardinality(BootingOnes \cup OnlineOnes)
          = Cardinality(BootingOnes) + Cardinality(OnlineOnes) - Cardinality({})
    BY <1>1, <1>2, FS_Union
  <2> QED  BY <1>1, <1>2, <2>1, FS_EmptySet DEF Active
<1>4. ASSUME NEW S \in SUBSET Worker, NEW w \in Worker
      PROVE  /\ Cardinality(S \cup {w}) = IF w \in S THEN Cardinality(S) ELSE Cardinality(S) + 1
             /\ Cardinality(S \ {w}) = IF w \in S THEN Cardinality(S) - 1 ELSE Cardinality(S)
             /\ w \in S => Cardinality(S) > 0
  <2>1. IsFiniteSet(S) /\ Cardinality(S) \in Nat
    BY <1>2
  <2>2. w \in S => Cardinality(S) # 0
    BY <2>1, FS_EmptySet
  <2>3. Cardinality(S \cup {w}) = IF w \in S THEN Cardinality(S) ELSE Cardinality(S) + 1
    BY <2>1, FS_AddElement
  <2>4. Cardinality(S \ {w}) = IF w \in S THEN Cardinality(S) - 1 ELSE Cardinality(S)
    BY <2>1, FS_RemoveElement
  <2>5. w \in S => Cardinality(S) > 0
    BY <2>1, <2>2
  <2> QED  BY <2>3, <2>4, <2>5
<1>5. ASSUME NEW w \in Alive \ marked
      PROVE  Cardinality(marked) < Active /\ Cardinality(marked) < Cardinality(Worker)
  <2>1. Cardinality(marked) <= Cardinality(Alive) /\ Cardinality(marked) # Cardinality(Alive)
    BY <1>1, <1>2, <1>5, FS_Subset
  <2>2. Cardinality(marked) <= Cardinality(Worker) /\ Cardinality(marked) # Cardinality(Worker)
    BY <1>1, <1>2, <1>5, Finite, FS_Subset
  <2> QED  BY <1>1, <1>2, <2>1, <2>2, Finite DEF Active
<1>6. Alive = {} <=> Active = 0
  BY <1>1, <1>2, FS_EmptySet DEF Active
<1>7. \A w \in Worker : Cardinality(Alive \ {w}) = IF w \in Alive THEN Active - 1 ELSE Active
  BY <1>1, <1>4 DEF Active
<1> QED  BY <1>1, <1>2, <1>3, <1>4, <1>5, <1>6, <1>7 DEF Active

\* A number of workers is positive exactly when there is one.
LEMMA SomeOnline ==
  ASSUME TypeOK
  PROVE  Cardinality(OnlineOnes) > 0 <=> \E v \in Worker : state[v] = "online"
<1>1. IsFiniteSet(OnlineOnes) /\ Cardinality(OnlineOnes) \in Nat
  BY Finite DEF OnlineOnes
<1>2. Cardinality(OnlineOnes) = 0 <=> OnlineOnes = {}
  BY <1>1, FS_EmptySet
<1> QED  BY <1>1, <1>2 DEF OnlineOnes

LEMMA CountsInit == Init => Counts!Init
<1> SUFFICES ASSUME Init PROVE Counts!Init
  OBVIOUS
<1>1. EngineInit <=> Counts!EngineInit
  BY DEF EngineInit, Counts!EngineInit
<1>2. PICK first \in SUBSET Worker :
        /\ Cardinality(first) = Target
        /\ state = [w \in Worker |-> IF w \in first THEN "booting" ELSE "free"]
  BY DEF Init
<1>3. BootingOnes = first /\ OnlineOnes = {}
  BY <1>2 DEF BootingOnes, OnlineOnes
<1>4. Cardinality(BootingOnes) = Target /\ Cardinality(OnlineOnes) = 0
  BY <1>2, <1>3, FS_EmptySet
<1>5. Cardinality(marked) = 0 /\ ~(roll.phase # "idle") /\ doubled = 0 /\ loopDrained = FALSE
  BY FS_EmptySet DEF Init, NoRoll
<1> QED  BY <1>1, <1>4, <1>5 DEF Init, Counts!Init, BootingOnes, OnlineOnes

LEMMA SameOnline ==
  ASSUME NEW active
  PROVE  OnWorkerOnline(active) <=> Counts!OnWorkerOnline(active)
BY DEF OnWorkerOnline, Counts!OnWorkerOnline, ExitCodeOnline, Counts!ExitCodeOnline,
       queueVars, Counts!queueVars, breakerVars, Counts!breakerVars

LEMMA CountsOnline ==
  ASSUME TypeOK, NEW w \in Worker, WorkerOnline(w)
  PROVE  Counts!WorkerOnline
<1>1. /\ w \in BootingOnes /\ w \notin OnlineOnes
      /\ BootingOnes' = BootingOnes \ {w} /\ OnlineOnes' = OnlineOnes \cup {w}
  BY DEF WorkerOnline, BootingOnes, OnlineOnes, TypeOK
<1>2. BootingOnes \in SUBSET Worker /\ OnlineOnes \in SUBSET Worker
  BY DEF BootingOnes, OnlineOnes
<1>3. /\ Cardinality(BootingOnes) > 0
      /\ Cardinality(BootingOnes') = Cardinality(BootingOnes) - 1
      /\ Cardinality(OnlineOnes') = Cardinality(OnlineOnes) + 1
      /\ Active = Cardinality(BootingOnes) + Cardinality(OnlineOnes)
  BY <1>1, <1>2, Counted
<1>4. Counts!OnWorkerOnline(Active)
  BY SameOnline DEF WorkerOnline
<1>5. UNCHANGED <<marked, roll, doubled, loopDrained>>
  BY DEF WorkerOnline
<1> QED  BY <1>3, <1>4, <1>5
         DEF Counts!WorkerOnline, Counts!Active, BootingOnes, OnlineOnes
-----------------------------------------------------------------------------
(***************************************************************************)
(* Exits.                                                                  *)
(***************************************************************************)
\* The engine of the counts is the engine of the fleet.
LEMMA SameQueue ==
  ASSUME NEW queued, NEW loopRunning, NEW tripped, NEW backoff, NEW missing
  PROVE  ProcessRestartQueue(queued, loopRunning, tripped, backoff, missing)
           <=> Counts!ProcessRestartQueue(queued, loopRunning, tripped, backoff, missing)
BY Zenon DEF ProcessRestartQueue, Counts!ProcessRestartQueue, DelayFor, Counts!DelayFor

LEMMA SameRefill ==
  ASSUME NEW count, NEW active, NEW recycling, NEW tripped, NEW backoff
  PROVE  RequestCapacityRefill(count, active, recycling, tripped, backoff)
           <=> Counts!RequestCapacityRefill(count, active, recycling, tripped, backoff)
<1>1. Waiting <=> Counts!Waiting
  BY DEF Waiting, Counts!Waiting
<1>2. HoldIfEmpty(active) <=> Counts!HoldIfEmpty(active)
  BY DEF HoldIfEmpty, Counts!HoldIfEmpty
<1>3. MissingWorkers(active, recycling) = Counts!MissingWorkers(active, recycling)
  BY DEF MissingWorkers, Counts!MissingWorkers, Positive, Counts!Positive
<1> QED  BY <1>1, <1>2, <1>3, SameQueue, Zenon
         DEF RequestCapacityRefill, Counts!RequestCapacityRefill, HoldIfEmpty, Counts!HoldIfEmpty,
             Waiting, Counts!Waiting

LEMMA SameCrash ==
  ASSUME NEW active, NEW recycling, NEW boots, NEW counted, NEW online, NEW others,
         boots <=> counted, online <=> others,
         OnWorkerCrash(active, recycling, boots, online)
  PROVE  Counts!OnWorkerCrash(active, recycling, counted, others)
<1>1. CountsAsBootFailure(boots, online) <=> Counts!CountsAsBootFailure(counted, others)
  BY DEF CountsAsBootFailure, Counts!CountsAsBootFailure
<1>2. QuarantineSlot <=> Counts!QuarantineSlot
  BY DEF QuarantineSlot, Counts!QuarantineSlot, queueVars, Counts!queueVars,
         breakerVars, Counts!breakerVars
<1>3. TripBreaker <=> Counts!TripBreaker
  BY DEF TripBreaker, Counts!TripBreaker, queueVars, Counts!queueVars, Tripped, Counts!Tripped
<1>4. QueueRestart(active, recycling) <=> Counts!QueueRestart(active, recycling)
  BY SameRefill, Zenon
     DEF QueueRestart, Counts!QueueRestart, Tripped, Counts!Tripped
<1> QED  BY <1>1, <1>2, <1>3, <1>4, Zenon
         DEF OnWorkerCrash, Counts!OnWorkerCrash, bootVars, Counts!bootVars

\* The exit of a worker, counted: whether it was online, and whether marked.
LEMMA CountsLeaves ==
  ASSUME IInv, NEW w \in Worker, Leaves(w)
  PROVE  /\ Counts!Leaves(state[w] = "online", w \in marked)
         /\ Active' = Cardinality(Alive \ {w})
         /\ Cardinality(OnlineOnes') > 0 <=> \E v \in Worker \ {w} : state[v] = "online"
         /\ Active' = Cardinality(BootingOnes') + Cardinality(OnlineOnes')
<1>1. TypeOK /\ RollInv /\ w \in Alive /\ Alive \subseteq Worker /\ marked \subseteq Alive
  BY DEF IInv, TypeOK, Leaves, Alive
<1>2. /\ BootingOnes' = BootingOnes \ {w} /\ OnlineOnes' = OnlineOnes \ {w}
      /\ Alive' = Alive \ {w} /\ marked' = marked \ {w}
      /\ BootingOnes \in SUBSET Worker /\ OnlineOnes \in SUBSET Worker
      /\ state[w] = "online" => w \in OnlineOnes /\ w \notin BootingOnes
      /\ state[w] # "online" => w \in BootingOnes /\ w \notin OnlineOnes
  BY <1>1 DEF Leaves, Unmarked, BootingOnes, OnlineOnes, Alive, TypeOK
<1>3. /\ state[w] = "online" =>
           /\ Cardinality(OnlineOnes) > 0
           /\ Cardinality(OnlineOnes') = Cardinality(OnlineOnes) - 1
           /\ Cardinality(BootingOnes') = Cardinality(BootingOnes)
      /\ state[w] # "online" =>
           /\ Cardinality(BootingOnes) > 0
           /\ Cardinality(BootingOnes') = Cardinality(BootingOnes) - 1
           /\ Cardinality(OnlineOnes') = Cardinality(OnlineOnes)
  BY <1>1, <1>2, Counted
<1>4. /\ w \in marked => Cardinality(marked) > 0 /\ Cardinality(marked') = Cardinality(marked) - 1
      /\ w \notin marked => /\ Cardinality(marked') = Cardinality(marked)
                            /\ Cardinality(marked) < Active
  BY <1>1, <1>2, Counted
<1>5. /\ Active = Cardinality(BootingOnes) + Cardinality(OnlineOnes)
      /\ Active' = Cardinality(Alive \ {w}) /\ Cardinality(Alive \ {w}) = Active - 1
      /\ Cardinality(BootingOnes) \in Nat /\ Cardinality(OnlineOnes) \in Nat
  BY <1>1, <1>2, Counted DEF Active
<1>6. Active' = Cardinality(BootingOnes') + Cardinality(OnlineOnes')
  BY <1>3, <1>5
<1>7. (roll'.phase # "idle") <=> (roll.phase # "idle")
  <2>1. CASE roll.target = w
    <3>1. roll' = [phase |-> "stagger", todo |-> roll.todo, target |-> NoWorker]
      BY <1>1, <2>1, RollType DEF Leaves
    <3> QED  BY <1>1, <2>1, <3>1, FleetAssumption DEF RollInv
  <2>2. CASE roll.target # w
    <3>1. roll' = [phase |-> roll.phase, todo |-> roll.todo \ {w}, target |-> roll.target]
      BY <1>1, <2>2, RollType DEF Leaves
    <3> QED  BY <3>1
  <2> QED  BY <2>1, <2>2
<1>8. UNCHANGED <<doubled, loopDrained>>
  BY DEF Leaves
<1>9. Cardinality(OnlineOnes') > 0 <=> \E v \in Worker \ {w} : state[v] = "online"
  <2>1. IsFiniteSet(OnlineOnes \ {w}) /\ Cardinality(OnlineOnes \ {w}) \in Nat
    BY <1>2, Finite
  <2>2. Cardinality(OnlineOnes \ {w}) = 0 <=> OnlineOnes \ {w} = {}
    BY <2>1, FS_EmptySet
  <2> QED  BY <1>2, <2>1, <2>2 DEF OnlineOnes
<1>10. Counts!Leaves(state[w] = "online", w \in marked)
  BY <1>3, <1>4, <1>5, <1>7, <1>8 DEF Counts!Leaves, Counts!Active, BootingOnes, OnlineOnes
<1> QED  BY <1>5, <1>6, <1>9, <1>10

\* A crash, counted.
LEMMA CountsCrash ==
  ASSUME IInv, NEW w \in Worker, WorkerCrash(w)
  PROVE  Counts!Crash
<1>1. /\ Leaves(w) /\ Bounded'
      /\ OnWorkerCrash(Cardinality(Alive \ {w}), Cardinality(Unmarked(w)),
                       state[w] = "booting", \E v \in Worker \ {w} : state[v] = "online")
  BY DEF WorkerCrash
<1>2. /\ Counts!Leaves(state[w] = "online", w \in marked)
      /\ Active' = Cardinality(Alive \ {w})
      /\ Cardinality(OnlineOnes') > 0 <=> \E v \in Worker \ {w} : state[v] = "online"
      /\ Active' = Cardinality(BootingOnes') + Cardinality(OnlineOnes')
  BY <1>1, CountsLeaves
<1>3. (state[w] = "booting") <=> ~(state[w] = "online")
  BY <1>1 DEF IInv, TypeOK, Leaves
<1>4. /\ Cardinality(Alive \ {w}) = Cardinality(BootingOnes') + Cardinality(OnlineOnes')
      /\ Unmarked(w) = marked'
  BY <1>1, <1>2 DEF Leaves
<1>5. Counts!OnWorkerCrash(Cardinality(BootingOnes') + Cardinality(OnlineOnes'),
                           Cardinality(marked'), ~(state[w] = "online"),
                           Cardinality(OnlineOnes') > 0)
  BY <1>1, <1>2, <1>3, <1>4, SameCrash
<1>6. Counts!Bounded'
  BY <1>1 DEF Bounded, Counts!Bounded, PendingRestarts, Counts!PendingRestarts,
              Waiting, Counts!Waiting
<1>7. Counts!WorkerCrash(state[w] = "online", w \in marked)
  BY <1>2, <1>5, <1>6, Zenon DEF Counts!WorkerCrash, Counts!Active, BootingOnes, OnlineOnes
<1>8. (state[w] = "online") \in BOOLEAN /\ (w \in marked) \in BOOLEAN
  OBVIOUS
<1> QED  BY <1>7, <1>8 DEF Counts!Crash

\* Without ages, only a marked worker drains, so only one exits gracefully.
LEMMA CountsGraceful ==
  ASSUME IInv, ~Ageing, NEW w \in Worker, WorkerExitsGracefully(w)
  PROVE  \E wasOnline \in BOOLEAN : Counts!WorkerExitsGracefully(wasOnline)
<1>1. w \in marked
  BY DEF IInv, ReplacedFirst, MarksAreReplaced, WorkerExitsGracefully
<1>2. Counts!Leaves(state[w] = "online", w \in marked)
  BY CountsLeaves DEF WorkerExitsGracefully
<1>3. Counts!Leaves(state[w] = "online", TRUE)
  BY <1>1, <1>2 DEF Counts!Leaves
<1>4. ~shuttingDown /\ UNCHANGED engineVars
  BY DEF WorkerExitsGracefully
<1>5. Counts!WorkerExitsGracefully(state[w] = "online")
  BY <1>3, <1>4 DEF Counts!WorkerExitsGracefully, engineVars, Counts!engineVars, queueVars, Counts!queueVars,
         bootVars, Counts!bootVars, breakerVars, Counts!breakerVars
<1> QED  BY <1>5

\* A shutdown forgot the marks.
LEMMA CountsInShutdown ==
  ASSUME IInv, NEW w \in Worker, WorkerExitsInShutdown(w)
  PROVE  \E wasOnline \in BOOLEAN : Counts!WorkerExitsInShutdown(wasOnline)
<1>1. w \notin marked
  BY DEF IInv, ShutdownInv, WorkerExitsInShutdown
<1>2. Counts!Leaves(state[w] = "online", w \in marked)
  BY CountsLeaves DEF WorkerExitsInShutdown
<1>3. Counts!Leaves(state[w] = "online", FALSE)
  BY <1>1, <1>2 DEF Counts!Leaves
<1>4. shuttingDown /\ UNCHANGED engineVars
  BY DEF WorkerExitsInShutdown
<1>5. Counts!WorkerExitsInShutdown(state[w] = "online")
  BY <1>3, <1>4 DEF Counts!WorkerExitsInShutdown, engineVars, Counts!engineVars, queueVars, Counts!queueVars,
         bootVars, Counts!bootVars, breakerVars, Counts!breakerVars
<1> QED  BY <1>5
-----------------------------------------------------------------------------
(***************************************************************************)
(* Forks.                                                                  *)
(***************************************************************************)
\* A fork adds a booting worker.
LEMMA Forked ==
  ASSUME TypeOK, NEW new \in Free, state' = [state EXCEPT ![new] = "booting"]
  PROVE  /\ Cardinality(BootingOnes') = Cardinality(BootingOnes) + 1
         /\ Cardinality(OnlineOnes') = Cardinality(OnlineOnes)
<1>1. /\ BootingOnes' = BootingOnes \cup {new} /\ OnlineOnes' = OnlineOnes
      /\ new \in Worker /\ new \notin BootingOnes
      /\ BootingOnes \in SUBSET Worker
  BY DEF BootingOnes, OnlineOnes, TypeOK, Free, Alive
<1> QED  BY <1>1, Counted

LEMMA SameBackoff ==
  ASSUME NEW active, NEW recycling
  PROVE  /\ AbandonRestart <=> Counts!AbandonRestart
         /\ ForkForRestartFails(active, recycling) <=> Counts!ForkForRestartFails(active, recycling)
         /\ ForkForRestart(active, recycling) <=> Counts!ForkForRestart(active, recycling)
<1>1. MissingWorkers(active, recycling) = Counts!MissingWorkers(active, recycling)
  BY DEF MissingWorkers, Counts!MissingWorkers, Positive, Counts!Positive
<1>2. MayForkAfterBackoff <=> Counts!MayForkAfterBackoff
  BY DEF MayForkAfterBackoff, Counts!MayForkAfterBackoff, Waiting, Counts!Waiting,
         Tripped, Counts!Tripped
<1>3. AbandonRestart <=> Counts!AbandonRestart
  BY DEF AbandonRestart, Counts!AbandonRestart, Waiting, Counts!Waiting, Tripped, Counts!Tripped,
         bootVars, Counts!bootVars, breakerVars, Counts!breakerVars
<1>4. ForkForRestartFails(active, recycling) <=> Counts!ForkForRestartFails(active, recycling)
  BY <1>1, <1>2, SameQueue, Zenon
     DEF ForkForRestartFails, Counts!ForkForRestartFails, bootVars, Counts!bootVars,
         breakerVars, Counts!breakerVars, MAX_CONSECUTIVE_FORK_FAILURES,
         Counts!MAX_CONSECUTIVE_FORK_FAILURES
<1>5. \A delay : NextDelay(delay) = Counts!NextDelay(delay)
  BY DEF NextDelay, Counts!NextDelay, Lesser, Counts!Lesser
<1>6. ForkForRestart(active, recycling) <=> Counts!ForkForRestart(active, recycling)
  BY <1>1, <1>2, <1>5, SameQueue, Zenon
     DEF ForkForRestart, Counts!ForkForRestart, bootVars, Counts!bootVars,
         breakerVars, Counts!breakerVars
<1> QED  BY <1>3, <1>4, <1>6

LEMMA CountsBackoff == ASSUME TypeOK, BackoffElapsed PROVE Counts!BackoffElapsed
<1>1. Active = Cardinality(BootingOnes) + Cardinality(OnlineOnes)
  BY Counted
<1>2. CASE \/ AbandonRestart /\ UNCHANGED <<workerVars, roll, loopDrained>>
           \/ /\ ForkForRestartFails(Active, Cardinality(marked))
              /\ UNCHANGED <<workerVars, roll, loopDrained>>
  <2>1. \/ Counts!AbandonRestart
        \/ Counts!ForkForRestartFails(Active, Cardinality(marked))
    BY <1>2, SameBackoff
  <2>2. UNCHANGED <<state, marked, roll, doubled, loopDrained>>
    BY <1>2 DEF workerVars
  <2> QED  BY <1>1, <2>1, <2>2 DEF Counts!BackoffElapsed, Counts!Active, BootingOnes, OnlineOnes
<1>3. ASSUME NEW new \in Free, ForkForRestart(Active + 1, Cardinality(marked)),
             state' = [state EXCEPT ![new] = "booting"],
             UNCHANGED <<marked, roll, doubled, loopDrained>>
      PROVE  Counts!BackoffElapsed
  <2>1. Counts!ForkForRestart(Active + 1, Cardinality(marked))
    BY <1>3, SameBackoff
  <2>2. /\ Cardinality(BootingOnes') = Cardinality(BootingOnes) + 1
        /\ Cardinality(OnlineOnes') = Cardinality(OnlineOnes)
    BY <1>3, Forked
  <2> QED  BY <1>1, <1>3, <2>1, <2>2
           DEF Counts!BackoffElapsed, Counts!Active, BootingOnes, OnlineOnes
<1> QED  BY <1>2, <1>3 DEF BackoffElapsed

\* A replacement is forked for a worker that has none: one more mark.
LEMMA FirstReplacement ==
  ASSUME TypeOK, NEW old \in Alive \ marked, old \notin replaced, NEW new \in Free,
         Replace(old, new)
  PROVE  /\ Cardinality(marked) < Active /\ Cardinality(marked) < Cardinality(Worker)
         /\ Cardinality(marked') = Cardinality(marked) + 1
         /\ Cardinality(BootingOnes') = Cardinality(BootingOnes) + 1
         /\ Cardinality(OnlineOnes') = Cardinality(OnlineOnes)
         /\ doubled' = doubled
<1>1. /\ marked' = marked \cup {old} /\ state' = [state EXCEPT ![new] = "booting"]
      /\ doubled' = doubled
  BY DEF Replace
<1>2. marked \in SUBSET Worker /\ old \in Worker
  BY Sizes DEF Alive
<1>3. Cardinality(marked') = Cardinality(marked) + 1
  BY <1>1, <1>2, Counted
<1>4. Cardinality(marked) < Active /\ Cardinality(marked) < Cardinality(Worker)
  BY Counted
<1> QED  BY <1>1, <1>3, <1>4, Forked

LEMMA CountsRecycle ==
  ASSUME IInv, ~Ageing, NEW w \in Worker, RecycleWorkerNow(w)
  PROVE  Counts!RecycleWorkerNow
<1>1. TypeOK /\ Recycling /\ ~shuttingDown /\ w \in OnlineOnes /\ w \in Alive \ marked
  BY DEF IInv, RecycleWorkerNow, OnlineOnes, Listed
<1>2. PICK new \in Free : Replace(w, new)
  BY DEF RecycleWorkerNow
<1>3. w \notin replaced
  BY <1>1 DEF IInv, MarksAreReplaced
<1>4. /\ Cardinality(marked) < Active /\ Cardinality(marked) < Cardinality(Worker)
      /\ Cardinality(marked') = Cardinality(marked) + 1
      /\ Cardinality(BootingOnes') = Cardinality(BootingOnes) + 1
      /\ Cardinality(OnlineOnes') = Cardinality(OnlineOnes)
      /\ doubled' = doubled
  BY <1>1, <1>2, <1>3, FirstReplacement
<1>5. /\ Cardinality(OnlineOnes) > 0
      /\ Active = Cardinality(BootingOnes) + Cardinality(OnlineOnes)
  BY <1>1, Counted DEF OnlineOnes
<1>6. UNCHANGED <<engineVars, roll, loopDrained>>
  BY DEF RecycleWorkerNow
<1> QED  BY <1>1, <1>4, <1>5, <1>6
         DEF Counts!RecycleWorkerNow, Counts!Active, BootingOnes, OnlineOnes,
             engineVars, Counts!engineVars, queueVars, Counts!queueVars,
             bootVars, Counts!bootVars, breakerVars, Counts!breakerVars
-----------------------------------------------------------------------------
(***************************************************************************)
(* The rolling restart.                                                    *)
(***************************************************************************)
LEMMA SameRoll ==
  ASSUME NEW failures, NEW begin, NEW active, NEW recycling
  PROVE  /\ RollForks(failures, begin) <=> Counts!RollForks(failures, begin)
         /\ RollBailsOut(failures, begin) <=> Counts!RollBailsOut(failures, begin)
         /\ RollCompletes(failures, begin, active, recycling)
              <=> Counts!RollCompletes(failures, begin, active, recycling)
<1>1. FailuresToBailOut = Counts!FailuresToBailOut
  BY DEF FailuresToBailOut, Counts!FailuresToBailOut, MAX_CONSECUTIVE_FORK_FAILURES,
         Counts!MAX_CONSECUTIVE_FORK_FAILURES
<1>2. ResetQuarantine(begin) <=> Counts!ResetQuarantine(begin)
  BY DEF ResetQuarantine, Counts!ResetQuarantine
<1>3. RollForks(failures, begin) <=> Counts!RollForks(failures, begin)
  BY <1>1, <1>2, Zenon
     DEF RollForks, Counts!RollForks, queueVars, Counts!queueVars, breakerVars, Counts!breakerVars
<1>4. RollBailsOut(failures, begin) <=> Counts!RollBailsOut(failures, begin)
  BY <1>1, <1>2, Zenon
     DEF RollBailsOut, Counts!RollBailsOut, queueVars, Counts!queueVars, breakerVars,
         Counts!breakerVars, MAX_CONSECUTIVE_FORK_FAILURES, Counts!MAX_CONSECUTIVE_FORK_FAILURES
<1>5. Positive(Target - active) = Counts!Positive(Target - active)
  BY DEF Positive, Counts!Positive
<1>6. RollCompletes(failures, begin, active, recycling)
        <=> Counts!RollCompletes(failures, begin, active, recycling)
  BY <1>1, <1>2, <1>5, SameRefill, Zenon
     DEF RollCompletes, Counts!RollCompletes, breakerVars, Counts!breakerVars,
         Tripped, Counts!Tripped
<1> QED  BY <1>3, <1>4, <1>6

\* The roll forks for a worker: for one that is not marked, or, with recycles on,
\* for one that has a replacement.
LEMMA CountsReplaces ==
  ASSUME IInv, ~Ageing, ~shuttingDown, NEW todo \in SUBSET Alive,
         \/ roll = NoRoll /\ todo = Listed
         \/ roll.phase = "stagger" /\ todo = roll.todo,
         NEW old \in todo, NEW new \in Free, Replace(old, new)
  PROVE  Counts!RollReplaces /\ Cardinality(OnlineOnes') = Cardinality(OnlineOnes)
<1>1. /\ TypeOK /\ RollInv /\ RolledOnce /\ marked = replaced /\ old \in Alive /\ old \in Worker
      /\ state' = [state EXCEPT ![new] = "booting"]
  BY DEF IInv, MarksAreReplaced, Alive, Replace
<1>2. Active = Cardinality(BootingOnes) + Cardinality(OnlineOnes)
  BY <1>1, Counted
<1>3. CASE old \notin marked
  <2>1. /\ Cardinality(marked) < Active /\ Cardinality(marked) < Cardinality(Worker)
        /\ Cardinality(marked') = Cardinality(marked) + 1
        /\ Cardinality(BootingOnes') = Cardinality(BootingOnes) + 1
        /\ Cardinality(OnlineOnes') = Cardinality(OnlineOnes)
        /\ doubled' = doubled
    BY <1>1, <1>3, FirstReplacement
  <2> QED  BY <1>2, <2>1 DEF Counts!RollReplaces, Counts!Active, BootingOnes, OnlineOnes
<1>4. CASE old \in marked
  <2>1. Recycling
    <3> SUFFICES ASSUME ~Recycling PROVE FALSE
      OBVIOUS
    <3>1. old \notin roll.todo /\ (drain[old] # "no" \/ old = roll.target)
      BY <1>1, <1>4 DEF RolledOnce
    <3>2. roll = NoRoll /\ old \in Listed /\ old # NoWorker
      BY <1>1, <3>1, FleetAssumption
    <3> QED  BY <3>1, <3>2 DEF NoRoll, Listed
  <2>2. /\ marked' = marked /\ doubled < MaxDoubled /\ doubled' = doubled + 1
    BY <1>1, <1>4 DEF Replace
  <2>3. Cardinality(marked) > 0
    BY <1>1, <1>4, Counted, Sizes
  <2>4. /\ Cardinality(BootingOnes') = Cardinality(BootingOnes) + 1
        /\ Cardinality(OnlineOnes') = Cardinality(OnlineOnes)
    BY <1>1, Forked
  <2> QED  BY <2>1, <2>2, <2>3, <2>4 DEF Counts!RollReplaces, BootingOnes, OnlineOnes
<1> QED  BY <1>3, <1>4

LEMMA CountsRoll ==
  ASSUME IInv, ~Ageing, Rolling, NEW begin \in BOOLEAN, NEW todo \in SUBSET Alive,
         IF begin THEN roll = NoRoll /\ ~shuttingDown /\ todo = Listed
                  ELSE roll.phase = "stagger" /\ todo = roll.todo,
         RollStep(todo, begin), begin => Bounded'
  PROVE  Counts!RollStep(begin)
<1>1. /\ TypeOK /\ EngineTypeOK /\ Alive \subseteq Worker
      /\ Active = Cardinality(BootingOnes) + Cardinality(OnlineOnes)
  BY Counted DEF IInv, TypeOK, Alive
<1>2. IF begin THEN ~(roll.phase # "idle") /\ ~shuttingDown ELSE roll.phase # "idle"
  BY DEF NoRoll
<1>3. begin => Counts!Bounded'
  BY DEF Bounded, Counts!Bounded, PendingRestarts, Counts!PendingRestarts, Waiting, Counts!Waiting
<1>4. PICK failed \in SUBSET todo :
        \/ /\ RollForks(Cardinality(failed), begin)
           /\ \E old \in todo \ failed, new \in Free :
                /\ Replace(old, new)
                /\ roll' = [phase |-> "exit", todo |-> todo \ (failed \cup {old}), target |-> old]
           /\ UNCHANGED <<ageTimer, loopDrained>>
        \/ /\ RollBailsOut(Cardinality(failed), begin)
           /\ roll' = NoRoll
           /\ UNCHANGED <<workerVars, loopDrained>>
        \/ /\ failed = todo
           /\ RollCompletes(Cardinality(failed), begin, Active, Cardinality(marked))
           /\ roll' = NoRoll
           /\ UNCHANGED <<workerVars, loopDrained>>
  BY DEF RollStep
<1>5. Cardinality(failed) \in 0..Counts!MAX_CONSECUTIVE_FORK_FAILURES
  BY <1>1, <1>4, RollFailures DEF MAX_CONSECUTIVE_FORK_FAILURES, Counts!MAX_CONSECUTIVE_FORK_FAILURES
<1>6. CASE /\ RollForks(Cardinality(failed), begin)
           /\ \E old \in todo \ failed, new \in Free :
                /\ Replace(old, new)
                /\ roll' = [phase |-> "exit", todo |-> todo \ (failed \cup {old}), target |-> old]
           /\ UNCHANGED <<ageTimer, loopDrained>>
  <2>1. PICK old \in todo \ failed, new \in Free :
          /\ Replace(old, new)
          /\ roll' = [phase |-> "exit", todo |-> todo \ (failed \cup {old}), target |-> old]
    BY <1>6
  <2>2. ~shuttingDown /\ Counts!RollForks(Cardinality(failed), begin)
    BY <1>6, SameRoll DEF RollForks
  <2>3. Counts!RollReplaces /\ Cardinality(OnlineOnes') = Cardinality(OnlineOnes)
    BY <2>1, <2>2, CountsReplaces
  <2>4. roll'.phase # "idle" /\ loopDrained' = loopDrained
    BY <1>6, <2>1
  <2> QED  BY <1>2, <1>3, <1>5, <2>2, <2>3, <2>4 DEF Counts!RollStep, OnlineOnes
<1>7. CASE /\ \/ RollBailsOut(Cardinality(failed), begin)
              \/ RollCompletes(Cardinality(failed), begin, Active, Cardinality(marked))
           /\ roll' = NoRoll
           /\ UNCHANGED <<workerVars, loopDrained>>
  <2>1. \/ Counts!RollBailsOut(Cardinality(failed), begin)
        \/ Counts!RollCompletes(Cardinality(failed), begin, Active, Cardinality(marked))
    BY <1>7, SameRoll
  <2>2. ~(roll'.phase # "idle") /\ UNCHANGED <<state, marked, doubled, loopDrained>>
    BY <1>7 DEF NoRoll, workerVars
  <2> QED  BY <1>1, <1>2, <1>3, <1>5, <2>1, <2>2
           DEF Counts!RollStep, Counts!Active, BootingOnes, OnlineOnes
<1> QED  BY <1>4, <1>6, <1>7
-----------------------------------------------------------------------------
(***************************************************************************)
(* The other steps.                                                        *)
(***************************************************************************)
LEMMA SameEngine ==
  ASSUME NEW active, NEW recycling
  PROVE  /\ ResetCircuitBreaker(active, recycling) <=> Counts!ResetCircuitBreaker(active, recycling)
         /\ BeginShutdown <=> Counts!BeginShutdown
         /\ CrashWindowSlides <=> Counts!CrashWindowSlides
         /\ BackoffReset <=> Counts!BackoffReset
         /\ engineVars = Counts!engineVars
<1>1. Positive(Target - active) = Counts!Positive(Target - active)
  BY DEF Positive, Counts!Positive
<1>2. ResetCircuitBreaker(active, recycling) <=> Counts!ResetCircuitBreaker(active, recycling)
  BY <1>1, SameRefill, Zenon
     DEF ResetCircuitBreaker, Counts!ResetCircuitBreaker, queueVars, Counts!queueVars,
         bootVars, Counts!bootVars
<1> QED  BY <1>2, Zenon
         DEF BeginShutdown, Counts!BeginShutdown, CrashWindowSlides, Counts!CrashWindowSlides,
             BackoffReset, Counts!BackoffReset, engineVars, Counts!engineVars,
             queueVars, Counts!queueVars, bootVars, Counts!bootVars, breakerVars, Counts!breakerVars

LEMMA SameLoop ==
  ASSUME TypeOK
  PROVE  (LoopAlive <=> Counts!LoopAlive) /\ (Running <=> Counts!Running)
<1>1. /\ Active = Cardinality(BootingOnes) + Cardinality(OnlineOnes)
      /\ Alive # {} <=> Active > 0
  BY Counted
<1>2. LoopAlive <=> Counts!LoopAlive
  BY <1>1, Zenon DEF LoopAlive, Counts!LoopAlive, Counts!Active, BootingOnes, OnlineOnes
<1> QED  BY <1>2 DEF Running, Counts!Running

\* A step that leaves the counts, and the engine, alone.
LEMMA CountsStutter ==
  ASSUME UNCHANGED <<engineVars, state, marked, doubled, loopDrained>>,
         (roll'.phase # "idle") <=> (roll.phase # "idle")
  PROVE  UNCHANGED Counts!vars
BY DEF Counts!vars, engineVars, Counts!engineVars, queueVars, Counts!queueVars,
       bootVars, Counts!bootVars, breakerVars, Counts!breakerVars

\* The timers of the drains, and of a roll that waits.
LEMMA CountsTimers ==
  ASSUME IInv,
         \/ \E old, new \in Worker : DrainFailsafe(old, new)
         \/ \E w \in Worker : Escalate(w)
         \/ RollWaitExpires \/ RollGraceExpires
  PROVE  UNCHANGED Counts!vars
<1>1. UNCHANGED <<engineVars, state, marked, doubled, loopDrained>>
  BY DEF DrainFailsafe, Escalate, RollWaitExpires, RollGraceExpires, workerVars
<1>2. (roll'.phase # "idle") <=> (roll.phase # "idle")
  <2>1. CASE roll' = roll
    BY <2>1
  <2>2. CASE RollWaitExpires
    <3>1. roll' = [phase |-> "grace", todo |-> roll.todo, target |-> roll.target]
      BY <2>2, RollType DEF RollWaitExpires, IInv
    <3> QED  BY <2>2, <3>1 DEF RollWaitExpires
  <2>3. CASE RollGraceExpires
    <3>1. roll' = [phase |-> "stagger", todo |-> roll.todo, target |-> NoWorker]
      BY <2>3, RollType DEF RollGraceExpires, IInv
    <3> QED  BY <2>3, <3>1 DEF RollGraceExpires
  <2> QED  BY <2>1, <2>2, <2>3 DEF DrainFailsafe, Escalate
<1> QED  BY <1>1, <1>2, CountsStutter

LEMMA CountsEngine ==
  ASSUME TypeOK, Reset \/ Shutdown \/ CrashesLeaveTheWindow \/ StabilityWindowElapses
  PROVE  \/ Counts!Reset \/ Counts!Shutdown
         \/ Counts!CrashesLeaveTheWindow \/ Counts!StabilityWindowElapses
<1>1. Active = Cardinality(BootingOnes) + Cardinality(OnlineOnes)
  BY Counted
<1>2. CASE Reset
  <2>1. Counts!ResetCircuitBreaker(Active, Cardinality(marked))
    BY <1>2, SameEngine DEF Reset
  <2>2. Counts!Bounded'
    BY <1>2 DEF Reset, Bounded, Counts!Bounded, PendingRestarts, Counts!PendingRestarts,
                Waiting, Counts!Waiting
  <2>3. UNCHANGED <<state, marked, roll, doubled, loopDrained>>
    BY <1>2 DEF Reset, workerVars
  <2> QED  BY <1>1, <2>1, <2>2, <2>3 DEF Counts!Reset, Counts!Active, BootingOnes, OnlineOnes
<1>3. CASE Shutdown
  <2>1. Counts!BeginShutdown
    BY <1>3, SameEngine DEF Shutdown
  <2>2. Cardinality(marked') = 0 /\ UNCHANGED <<state, roll, doubled, loopDrained>>
    BY <1>3, FS_EmptySet DEF Shutdown
  <2> QED  BY <2>1, <2>2 DEF Counts!Shutdown
<1>4. CASE CrashesLeaveTheWindow \/ StabilityWindowElapses
  <2>1. Counts!CrashWindowSlides \/ Counts!BackoffReset
    BY <1>4, SameEngine DEF CrashesLeaveTheWindow, StabilityWindowElapses
  <2>2. UNCHANGED <<state, marked, roll, doubled, loopDrained>>
    BY <1>4 DEF CrashesLeaveTheWindow, StabilityWindowElapses, workerVars
  <2> QED  BY <2>1, <2>2 DEF Counts!CrashesLeaveTheWindow, Counts!StabilityWindowElapses
<1> QED  BY <1>2, <1>3, <1>4

LEMMA CountsLoop ==
  ASSUME TypeOK, LoopDrains
  PROVE  Counts!LoopDrains
<1>1. ~Counts!LoopAlive /\ ~loopDrained /\ ~shuttingDown /\ loopDrained' = TRUE
  BY SameLoop DEF LoopDrains
<1>2. UNCHANGED <<state, marked, roll, doubled>> /\ UNCHANGED Counts!engineVars
  BY DEF LoopDrains, workerVars, engineVars, Counts!engineVars, queueVars, Counts!queueVars,
         bootVars, Counts!bootVars, breakerVars, Counts!breakerVars
<1> QED  BY <1>1, <1>2 DEF Counts!LoopDrains

LEMMA CountsRollTimers ==
  ASSUME IInv, ~Ageing, RestartWorkers \/ RollStaggerElapsed \/ RollAbortsByShutdown
  PROVE  (\E begin \in BOOLEAN : Counts!RollStep(begin)) \/ Counts!RollAbortsByShutdown
<1>1. TypeOK /\ RollInv
  BY DEF IInv
<1>2. CASE RestartWorkers
  <2>1. /\ Listed \in SUBSET Alive /\ Rolling /\ roll = NoRoll /\ ~shuttingDown
        /\ RollStep(Listed, TRUE) /\ Bounded'
    BY <1>2 DEF RestartWorkers, Listed
  <2>2. Counts!RollStep(TRUE)
    BY <2>1, CountsRoll
  <2> QED  BY <2>2
<1>3. CASE RollStaggerElapsed
  <2>1. /\ roll.todo \in SUBSET Alive /\ Rolling /\ roll.phase = "stagger"
        /\ RollStep(roll.todo, FALSE)
    BY <1>1, <1>3, RollType DEF RollStaggerElapsed, RollInv
  <2>2. Counts!RollStep(FALSE)
    BY <2>1, CountsRoll
  <2> QED  BY <2>2
<1>4. CASE RollAbortsByShutdown
  <2>1. /\ roll.phase # "idle" /\ shuttingDown /\ ~(roll'.phase # "idle")
        /\ UNCHANGED <<engineVars, state, marked, doubled, loopDrained>>
    BY <1>4 DEF RollAbortsByShutdown, NoRoll, workerVars
  <2>2. UNCHANGED Counts!engineVars
    BY <2>1 DEF engineVars, Counts!engineVars, queueVars, Counts!queueVars,
                bootVars, Counts!bootVars, breakerVars, Counts!breakerVars
  <2> QED  BY <2>1, <2>2 DEF Counts!RollAbortsByShutdown
<1> QED  BY <1>2, <1>3, <1>4

\* Every step of the fleet is a step of the counts, or leaves them unchanged.
LEMMA CountsStep ==
  ASSUME IInv, ~Ageing, [Next]_vars
  PROVE  [Counts!Next]_(Counts!vars)
<1>1. TypeOK /\ ageTimer = {} /\ (Running <=> Counts!Running)
  BY SameLoop DEF IInv, ShutdownInv
<1>2. CASE UNCHANGED vars
  BY <1>2, CountsStutter DEF vars, workerVars
<1>3. CASE LoopDrains
  BY <1>1, <1>3, CountsLoop DEF Counts!Next
<1>4. CASE Next /\ ~LoopDrains
  <2>1. Counts!Running
    BY <1>1, <1>4 DEF Next
  <2>2. CASE \E w \in Worker : WorkerOnline(w)
    BY <1>1, <2>1, <2>2, CountsOnline DEF Counts!Next
  <2>3. CASE \E w \in Worker : WorkerCrash(w)
    BY <2>1, <2>3, CountsCrash DEF Counts!Next
  <2>4. CASE \E w \in Worker : WorkerExitsGracefully(w)
    BY <2>1, <2>4, CountsGraceful DEF Counts!Next
  <2>5. CASE \E w \in Worker : WorkerExitsInShutdown(w)
    BY <2>1, <2>5, CountsInShutdown DEF Counts!Next
  <2>6. CASE \E w \in Worker : RecycleWorkerNow(w)
    BY <2>1, <2>6, CountsRecycle DEF Counts!Next
  <2>7. CASE BackoffElapsed
    BY <1>1, <2>1, <2>7, CountsBackoff DEF Counts!Next
  <2>8. CASE RestartWorkers \/ RollStaggerElapsed \/ RollAbortsByShutdown
    BY <2>1, <2>8, CountsRollTimers DEF Counts!Next
  <2>9. CASE Reset \/ Shutdown \/ CrashesLeaveTheWindow \/ StabilityWindowElapses
    BY <1>1, <2>1, <2>9, CountsEngine DEF Counts!Next
  <2>10. CASE \/ \E old, new \in Worker : DrainFailsafe(old, new)
              \/ \E w \in Worker : Escalate(w)
              \/ RollWaitExpires \/ RollGraceExpires
    BY <2>10, CountsTimers
  <2>11. ~AgeSweep /\ \A w \in Worker : ~AgeTimerFires(w)
    BY <1>1 DEF AgeSweep, AgeTimerFires
  <2> QED  BY <1>4, <2>2, <2>3, <2>4, <2>5, <2>6, <2>7, <2>8, <2>9, <2>10, <2>11
           DEF Next, RollTimer
<1> QED  BY <1>2, <1>3, <1>4
-----------------------------------------------------------------------------
(***************************************************************************)
(* The theorems.                                                           *)
(***************************************************************************)
\* Workers, drains, failsafes, recycles and rolling restarts do to the engine only
\* what the counts allow: in particular a worker exits gracefully only while it is
\* marked, and a roll targets a marked worker only if recycling is on.
THEOREM FleetImplementsCounts ==
  ASSUME ~Ageing
  PROVE  Spec => ImplementsFleetCounts
<1>1. IInv /\ [Next]_vars => [Counts!Next]_(Counts!vars)
  BY CountsStep
<1> QED  BY <1>1, CountsInit, Invariance, PTL DEF Spec, ImplementsFleetCounts, Counts!Spec
-----------------------------------------------------------------------------
(***************************************************************************)
(* What is proved of the counts, of the fleet.                             *)
(***************************************************************************)
Proved == INSTANCE FleetCountsProofs WITH
  booting   <- Cardinality({w \in Worker : state[w] = "booting"}),
  online    <- Cardinality({w \in Worker : state[w] = "online"}),
  marked    <- Cardinality(marked),
  rolling   <- roll.phase # "idle",
  MaxMarked <- Cardinality(Worker)

LEMMA FleetIsCounted ==
  ASSUME ~Ageing
  PROVE  Spec => Proved!Spec
<1>1. Counts!Init <=> Proved!Init
  BY DEF Counts!Init, Proved!Init, Counts!EngineInit, Proved!EngineInit
<1>2. Counts!Next <=> Proved!Next
  BY Zenon
     DEF Counts!Next, Proved!Next, Counts!WorkerOnline, Proved!WorkerOnline, Counts!Crash,
         Proved!Crash, Counts!WorkerCrash, Proved!WorkerCrash, Counts!Leaves,
         Proved!Leaves, Counts!WorkerExitsGracefully, Proved!WorkerExitsGracefully,
         Counts!WorkerExitsInShutdown, Proved!WorkerExitsInShutdown, Counts!BackoffElapsed,
         Proved!BackoffElapsed, Counts!RecycleWorkerNow, Proved!RecycleWorkerNow,
         Counts!RollStep, Proved!RollStep, Counts!RollReplaces, Proved!RollReplaces,
         Counts!RollAbortsByShutdown, Proved!RollAbortsByShutdown, Counts!Reset,
         Proved!Reset, Counts!Shutdown, Proved!Shutdown, Counts!CrashesLeaveTheWindow,
         Proved!CrashesLeaveTheWindow, Counts!StabilityWindowElapses,
         Proved!StabilityWindowElapses, Counts!LoopDrains, Proved!LoopDrains,
         Counts!Running, Proved!Running, Counts!LoopAlive, Proved!LoopAlive, Counts!Active,
         Proved!Active, Counts!Bounded, Proved!Bounded, Counts!PendingRestarts,
         Proved!PendingRestarts, Counts!OnWorkerOnline, Proved!OnWorkerOnline,
         Counts!ExitCodeOnline, Proved!ExitCodeOnline, Counts!OnWorkerCrash,
         Proved!OnWorkerCrash, Counts!CountsAsBootFailure, Proved!CountsAsBootFailure,
         Counts!QuarantineSlot, Proved!QuarantineSlot, Counts!TripBreaker,
         Proved!TripBreaker, Counts!QueueRestart, Proved!QueueRestart,
         Counts!RequestCapacityRefill, Proved!RequestCapacityRefill,
         Counts!ProcessRestartQueue, Proved!ProcessRestartQueue, Counts!MissingWorkers,
         Proved!MissingWorkers, Counts!Positive, Proved!Positive, Counts!HoldIfEmpty,
         Proved!HoldIfEmpty, Counts!DelayFor, Proved!DelayFor, Counts!Waiting,
         Proved!Waiting, Counts!Tripped, Proved!Tripped, Counts!AbandonRestart,
         Proved!AbandonRestart, Counts!ForkForRestartFails, Proved!ForkForRestartFails,
         Counts!ForkForRestart, Proved!ForkForRestart, Counts!MayForkAfterBackoff,
         Proved!MayForkAfterBackoff, Counts!NextDelay, Proved!NextDelay, Counts!Lesser,
         Proved!Lesser, Counts!RollForks, Proved!RollForks, Counts!RollBailsOut,
         Proved!RollBailsOut, Counts!RollCompletes, Proved!RollCompletes,
         Counts!ResetQuarantine, Proved!ResetQuarantine, Counts!FailuresToBailOut,
         Proved!FailuresToBailOut, Counts!BeginShutdown, Proved!BeginShutdown,
         Counts!ResetCircuitBreaker, Proved!ResetCircuitBreaker, Counts!CrashWindowSlides,
         Proved!CrashWindowSlides, Counts!BackoffReset, Proved!BackoffReset,
         Counts!MAX_CONSECUTIVE_FORK_FAILURES, Proved!MAX_CONSECUTIVE_FORK_FAILURES,
         Counts!engineVars, Proved!engineVars, Counts!queueVars, Proved!queueVars,
         Counts!bootVars, Proved!bootVars, Counts!breakerVars, Proved!breakerVars
<1>3. IInv /\ [Next]_vars => [Proved!Next]_(Proved!vars)
  <2>1. IInv /\ [Next]_vars => [Counts!Next]_(Counts!vars)
    BY CountsStep
  <2>2. UNCHANGED Counts!vars <=> UNCHANGED Proved!vars
    BY DEF Counts!vars, Proved!vars, Counts!engineVars, Proved!engineVars, Counts!queueVars,
           Proved!queueVars, Counts!bootVars, Proved!bootVars, Counts!breakerVars,
           Proved!breakerVars
  <2> QED  BY <1>2, <2>1, <2>2
<1>4. Init => Proved!Init
  BY <1>1, CountsInit
<1> QED  BY <1>3, <1>4, Invariance, PTL DEF Spec, Proved!Spec

\* The constants of the counts are in their ranges.
LEMMA CountsConstants ==
  /\ Recycling \in BOOLEAN /\ Rolling \in BOOLEAN /\ MaxPending \in Nat
  /\ MaxQuarantined \in Nat /\ Cardinality(Worker) \in Nat /\ MaxDoubled \in Nat
BY FleetAssumption, Finite

\* Without ages, whatever crashes, recycles and rolls: the workers that are not
\* marked exceed the target only by the replacements forked for workers that a
\* recycle and a roll both replaced (getMissingWorkers(), rollWorkers()).
THEOREM OvershootIsDoubled ==
  ASSUME ~Ageing
  PROVE  Spec => [](shuttingDown \/ Settled <= Target + doubled)
<1>1. Proved!Spec => []Proved!NoOvershoot
  BY ConfigAssumption, CountsConstants, Proved!NeverOvershoots
<1>2. IInv /\ Proved!NoOvershoot => shuttingDown \/ Settled <= Target + doubled
  <2> SUFFICES ASSUME IInv, Proved!NoOvershoot, ~shuttingDown PROVE Settled <= Target + doubled
    OBVIOUS
  <2> DEFINE count == Cardinality(BootingOnes) + Cardinality(OnlineOnes)
  <2>1. /\ Active = count /\ count \in Nat /\ Cardinality(marked) \in Nat
        /\ doubled \in Nat /\ Target \in Nat /\ shuttingDown \in BOOLEAN
    BY ConfigAssumption, Counted, Sizes DEF IInv, TypeOK, EngineTypeOK
  <2>2. count - Cardinality(marked) <= Target + doubled
    BY <2>1 DEF Proved!NoOvershoot, Proved!Settled, Proved!Active, BootingOnes, OnlineOnes
  <2> HIDE DEF count
  <2> QED  BY <2>1, <2>2 DEF Settled
<1> QED  BY <1>1, <1>2, FleetIsCounted, Invariance, PTL

\* "Exactly N workers" (worker-manager/README.md:59) does hold of a fleet that
\* recycles or rolls, but not both: run fleet_target_violation shows that both
\* together are what breaks it.
THEOREM ExactlyNUnlessBoth ==
  ASSUME ~Ageing, ~(Recycling /\ Rolling)
  PROVE  Spec => []NeverAboveTarget
<1>1. Proved!Spec => [](doubled = 0)
  BY ConfigAssumption, CountsConstants, Proved!NothingIsDoubled
<1>2. Target + 0 = Target
  BY ConfigAssumption
<1>3. doubled = 0 /\ (shuttingDown \/ Settled <= Target + doubled) => NeverAboveTarget
  BY <1>2 DEF NeverAboveTarget
<1> QED  BY <1>1, <1>3, FleetIsCounted, OvershootIsDoubled, PTL

\* A fleet that only crashes is held while a restart that may still fork is pending,
\* as worker-manager/README.md:291 says (armEmptyFleetHold()): it takes a recycle,
\* as in run fleet_hold_violation, an age or a roll to break this.
THEOREM HeldUnlessReplacing ==
  ASSUME ~Ageing, ~Recycling, ~Rolling
  PROVE  Spec => []HoldsWhileRestartsPend
<1>1. Proved!Spec => []Proved!DrainsOnlyInFailure
  BY ConfigAssumption, CountsConstants, Proved!DeathIsLegible
<1>2. Proved!DrainsOnlyInFailure => HoldsWhileRestartsPend
  BY DEF Proved!DrainsOnlyInFailure, HoldsWhileRestartsPend, Proved!Waiting, Waiting,
         Proved!Tripped, Tripped
<1> QED  BY <1>1, <1>2, FleetIsCounted, PTL

\* A fleet that only crashes loses no worker in silence: one that is missing has a
\* restart pending, or is a slot reported as quarantined, or the exit code is 1.
THEOREM NoWorkerLostInSilence ==
  ASSUME ~Ageing, ~Recycling, ~Rolling
  PROVE  Spec => [](\/ shuttingDown \/ exitCode = 1
                    \/ Target - Settled <= PendingRestarts + quarantinedSlots)
<1>1. Proved!Spec => []Proved!NoSilentLoss
  BY ConfigAssumption, CountsConstants, Proved!NothingLostInSilence
<1>2. IInv /\ Proved!NoSilentLoss =>
        \/ shuttingDown \/ exitCode = 1
        \/ Target - Settled <= PendingRestarts + quarantinedSlots
  <2> SUFFICES ASSUME IInv, Proved!NoSilentLoss, ~shuttingDown, exitCode # 1
               PROVE  Target - Settled <= PendingRestarts + quarantinedSlots
    OBVIOUS
  <2> DEFINE count == Cardinality(BootingOnes) + Cardinality(OnlineOnes)
  <2>1. /\ Active = count /\ count \in Nat /\ Cardinality(marked) \in Nat
        /\ Target \in Nat /\ shuttingDown \in BOOLEAN
        /\ pendingRestartQueue \in Nat /\ quarantinedSlots \in Nat
    BY ConfigAssumption, Counted, Sizes DEF IInv, TypeOK, EngineTypeOK
  <2>2. Target - (count - Cardinality(marked)) <= PendingRestarts + quarantinedSlots
    BY <2>1 DEF Proved!NoSilentLoss, Proved!Settled, Proved!Active, Proved!PendingRestarts,
                PendingRestarts, Proved!Waiting, Waiting, BootingOnes, OnlineOnes
  <2> HIDE DEF count
  <2> QED  BY <2>1, <2>2 DEF Settled
<1> QED  BY <1>1, <1>2, FleetIsCounted, Invariance, PTL
=============================================================================
