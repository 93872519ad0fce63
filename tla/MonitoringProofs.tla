---------------------------- MODULE MonitoringProofs ----------------------------
(***************************************************************************)
(* Theorems about the health of the workers, for every target, number of   *)
(* workers and all options that validateConfig() accepts.                  *)
(***************************************************************************)
EXTENDS Monitoring, FiniteSetTheorems, TLAPS

\* Ids are given out in order; only a worker that came to report has a report on
\* its way, only a worker that is being replaced has stopped its beats, and it is
\* known which workers exited.
LifeInv ==
  /\ \A w \in Worker : proc[w] = "unborn" <=> w >= nextId
  /\ \A w \in Worker : inflight[w] # Nothing => proc[w] \in {"reporting", "closing", "dead"}
  /\ \A w \in exitedWorkerIds : proc[w] = "dead"
  /\ ~shuttingDown => \A w \in Worker :
       /\ proc[w] = "dead" => w \in exitedWorkerIds
       /\ proc[w] = "closing" => w \in marked

\* The registry is as old as the last beat it knows of: what the primary takes
\* for the silence of a worker is the time since its last beat, but for a beat
\* whose report is on its way.  (The clock waits for that report.)
ClockInv ==
  ~shuttingDown =>
    /\ \A w \in Alive : inflight[w] # Nothing => sinceBeat[w] = 0
    /\ \A w \in Registered \ marked :
         /\ proc[w] = "reporting"
         /\ inflight[w] = Nothing => silence[w] = sinceBeat[w]
         /\ inflight[w] # Nothing => silence[w] = inflight[w] + HeartbeatMs

\* The watch looks at every entry of the registry once in a beat, and one that
\* it dropped is marked, or was declined a replacement.
WatchInv ==
  ~shuttingDown =>
    /\ watchIn <= HeartbeatMs
    /\ \A w \in Registered : silence[w] + watchIn <= WedgedTimeoutMs + HeartbeatMs
    /\ exported \ (marked \cup declined) \subseteq Registered

\* The alarm is armed, or on, while a worker is missing, and was armed before
\* the shortfall grew as old as it is.
AlarmInv ==
  /\ shuttingDown => degradedIn = Off /\ ~fleetDegraded
  /\ ~shuttingDown /\ Active >= Target => belowFor = 0
  /\ ~shuttingDown /\ Active < Target /\ ~fleetDegraded =>
       degradedIn # Off /\ belowFor + degradedIn <= DegradedAfterMs

IInv ==
  /\ TypeOK
  /\ LifeInv
  /\ ClockInv
  /\ WatchInv
  /\ AlarmInv
  /\ SettledWithinTarget
  /\ NothingKeptOfTheDead
  /\ AlarmIsAboutMissing
-----------------------------------------------------------------------------
State == {"unborn", "booting", "online", "reporting", "closing", "dead"}

LEMMA Numbers ==
  /\ Target \in Nat \ {0} /\ MaxId \in Nat /\ Target <= MaxId
  /\ HeartbeatMs \in Nat \ {0} /\ WedgedTimeoutMs \in Nat
  /\ WedgedTimeoutMs >= 2 * HeartbeatMs
  /\ LongAgo \in Nat /\ LongAgo = WedgedTimeoutMs + 2 * HeartbeatMs
  /\ LagRecycleBeats \in Nat \ {0} /\ DegradedAfterMs \in Nat \ {0}
BY ConfigAssumption DEF LongAgo

\* The sets of workers are finite.
LEMMA Finite ==
  /\ IsFiniteSet(Worker)
  /\ \A S \in SUBSET Worker : IsFiniteSet(S) /\ Cardinality(S) \in Nat
  /\ \A S \in SUBSET Worker : \A T \in SUBSET S : Cardinality(T) <= Cardinality(S)
<1>1. IsFiniteSet(Worker)
  BY Numbers, FS_Interval DEF Worker
<1>2. \A S \in SUBSET Worker : IsFiniteSet(S) /\ Cardinality(S) \in Nat
  BY <1>1, FS_Subset, FS_CardinalityType
<1>3. \A S \in SUBSET Worker : \A T \in SUBSET S : Cardinality(T) <= Cardinality(S)
  BY <1>2, FS_Subset
<1> QED  BY <1>1, <1>2, <1>3

\* The ids of the next n forks.
NewIds(n) == nextId .. nextId + n - 1

\* What forks change: the new workers boot, the others stay as they are.
LEMMA Forks ==
  ASSUME TypeOK, LifeInv, NEW n \in Nat, nextId + n <= MaxId + 1, proc' = AfterForks(n),
         nextId' = nextId + n
  PROVE  /\ proc' \in [Worker -> State] /\ nextId' \in 1..(MaxId + 1)
         /\ NewIds(n) \subseteq Worker /\ NewIds(n) \cap Alive = {}
         /\ Cardinality(NewIds(n)) = n
         /\ Alive' = Alive \cup NewIds(n)
         /\ Active' = Active + n
         /\ \A w \in Worker : proc'[w] = IF w \in NewIds(n) THEN "booting" ELSE proc[w]
         /\ \A w \in NewIds(n) : proc[w] = "unborn"
         /\ \A w \in Worker : proc'[w] = "unborn" <=> w >= nextId'
         /\ n > 0 => \E w \in Worker : proc'[w] = "booting"
<1>1. /\ NewIds(n) \subseteq Worker
      /\ \A w \in Worker : w \in NewIds(n) <=> w >= nextId /\ w < nextId + n
      /\ n > 0 => nextId \in NewIds(n)
  BY Numbers DEF NewIds, Worker, TypeOK
<1>2. \A w \in Worker : proc'[w] = IF w \in NewIds(n) THEN "booting" ELSE proc[w]
  BY <1>1 DEF AfterForks
<1>3. \A w \in NewIds(n) : proc[w] = "unborn"
  BY <1>1 DEF LifeInv
<1>4. proc' \in [Worker -> State]
  BY <1>2 DEF TypeOK, AfterForks, State
<1>5. Alive' = Alive \cup NewIds(n) /\ NewIds(n) \cap Alive = {}
  BY <1>1, <1>2, <1>3 DEF Alive, IsAlive
<1>6. Cardinality(NewIds(n)) = n
  <2>1. nextId \in Int /\ nextId + n - 1 \in Int
    BY DEF TypeOK
  <2> QED  BY <2>1, FS_Interval DEF NewIds
<1>7. Active' = Active + n
  <2>1. IsFiniteSet(Alive) /\ IsFiniteSet(NewIds(n)) /\ Cardinality(Alive) \in Nat
    BY <1>1, Finite DEF Alive
  <2>2. Cardinality(Alive \cup NewIds(n)) =
          Cardinality(Alive) + Cardinality(NewIds(n)) - Cardinality(Alive \cap NewIds(n))
    BY <2>1, FS_Union
  <2>3. Cardinality(Alive \cap NewIds(n)) = 0
    BY <1>5, FS_EmptySet
  <2> QED  BY <1>5, <1>6, <2>1, <2>2, <2>3 DEF Active
<1>8. \A w \in Worker : proc'[w] = "unborn" <=> w >= nextId'
  BY <1>1, <1>2, Numbers DEF LifeInv, TypeOK, Worker
<1>9. nextId' \in 1..(MaxId + 1)
  BY Numbers DEF TypeOK
<1>10. n > 0 => \E w \in Worker : proc'[w] = "booting"
  BY <1>1, <1>2
<1> QED  BY <1>1, <1>2, <1>3, <1>4, <1>5, <1>6, <1>7, <1>8, <1>9, <1>10

\* What a recycle of registered workers changes.
LEMMA Recycles ==
  ASSUME IInv, NEW candidates \in SUBSET Alive, TriggerWorkerRecycle(candidates)
  PROVE  /\ proc' \in [Worker -> State] /\ nextId' \in 1..(MaxId + 1)
         /\ marked' \in SUBSET Alive' /\ marked \subseteq marked' /\ marked' \subseteq Alive
         /\ Alive \subseteq Alive'
         /\ \A w \in Worker : proc'[w] = proc[w] \/ (proc[w] = "unborn" /\ proc'[w] = "booting")
         /\ \A w \in Worker : proc'[w] = "unborn" <=> w >= nextId'
         /\ Cardinality(Alive' \ marked') <= Target \/ ~(Cardinality(Alive \ marked) <= Target)
         /\ Active' \in Nat /\ Active' >= Active
         /\ belowFor' = IF Active' >= Target THEN 0 ELSE belowFor
         /\ Active' = Active \/ \E w \in Worker : proc'[w] = "booting"
         /\ Active' = Active => proc' = proc
<1>1. TypeOK /\ LifeInv
  BY DEF IInv
<1>2. PICK forked \in SUBSET (candidates \ marked) :
        /\ nextId + Cardinality(forked) <= MaxId + 1
        /\ marked' = marked \cup forked
        /\ proc' = AfterForks(Cardinality(forked))
        /\ nextId' = nextId + Cardinality(forked)
        /\ ForgetShortfall(Active + Cardinality(forked))
  BY DEF TriggerWorkerRecycle
<1> DEFINE n == Cardinality(forked)
<1>3. n \in Nat /\ forked \subseteq Alive /\ forked \cap marked = {} /\ Active \in Nat
  BY Finite DEF Alive, Active
<1> HIDE DEF n
<1>4. nextId + n <= MaxId + 1 /\ proc' = AfterForks(n) /\ nextId' = nextId + n
  BY <1>2 DEF n
<1>5. /\ proc' \in [Worker -> State] /\ nextId' \in 1..(MaxId + 1)
      /\ NewIds(n) \subseteq Worker /\ NewIds(n) \cap Alive = {}
      /\ Cardinality(NewIds(n)) = n
      /\ Alive' = Alive \cup NewIds(n)
      /\ Active' = Active + n
      /\ \A w \in Worker : proc'[w] = IF w \in NewIds(n) THEN "booting" ELSE proc[w]
      /\ \A w \in NewIds(n) : proc[w] = "unborn"
      /\ \A w \in Worker : proc'[w] = "unborn" <=> w >= nextId'
      /\ n > 0 => \E w \in Worker : proc'[w] = "booting"
  BY <1>1, <1>3, <1>4, Forks
<1>6. /\ marked' \in SUBSET Alive' /\ marked \subseteq marked' /\ marked' \subseteq Alive
      /\ Alive \subseteq Alive'
  BY <1>1, <1>2, <1>3, <1>5 DEF TypeOK
<1>8. Cardinality(Alive' \ marked') = Cardinality(Alive \ marked)
  <2> DEFINE kept == (Alive \ marked) \ forked
  <2>1. Alive' \ marked' = kept \cup NewIds(n) /\ kept \cap NewIds(n) = {}
    BY <1>1, <1>2, <1>3, <1>5 DEF TypeOK
  <2>2. Alive \ marked = kept \cup forked /\ kept \cap forked = {}
    BY <1>3
  <2>3. kept \in SUBSET Worker /\ forked \in SUBSET Worker /\ NewIds(n) \in SUBSET Worker
    BY <1>3, <1>5 DEF Alive
  <2>4. IsFiniteSet(kept) /\ IsFiniteSet(forked) /\ IsFiniteSet(NewIds(n))
        /\ Cardinality(kept) \in Nat
    BY <2>3, Finite
  <2>5. Cardinality(Alive' \ marked') = Cardinality(kept) + n
    <3> HIDE DEF kept
    <3>1. Cardinality(kept \cap NewIds(n)) = 0
      BY <2>1, FS_EmptySet
    <3>2. Cardinality(kept \cup NewIds(n)) = Cardinality(kept) + Cardinality(NewIds(n))
                                               - Cardinality(kept \cap NewIds(n))
      BY <2>4, FS_Union
    <3>3. Cardinality(Alive' \ marked') = Cardinality(kept \cup NewIds(n))
      BY ONLY <2>1, Zenon
    <3> QED  BY ONLY <1>3, <1>5, <2>4, <3>1, <3>2, <3>3, SMT
  <2>6. Cardinality(Alive \ marked) = Cardinality(kept) + n
    <3> HIDE DEF kept
    <3>1. Cardinality(kept \cap forked) = 0
      BY <2>2, FS_EmptySet
    <3>2. Cardinality(kept \cup forked) = Cardinality(kept) + Cardinality(forked)
                                            - Cardinality(kept \cap forked)
      BY <2>4, FS_Union
    <3>3. Cardinality(Alive \ marked) = Cardinality(kept \cup forked)
      BY ONLY <2>2, Zenon
    <3> QED  BY ONLY <1>3, <2>4, <3>1, <3>2, <3>3, SMT DEF n
  <2> QED  BY <2>5, <2>6
<1>9. Active' \in Nat /\ Active' >= Active
  BY <1>3, <1>5
<1>10. belowFor' = IF Active' >= Target THEN 0 ELSE belowFor
  BY <1>2, <1>5 DEF ForgetShortfall, n
<1>11. Active' = Active => proc' = proc
  <2> SUFFICES ASSUME Active' = Active PROVE proc' = proc
    OBVIOUS
  <2>1. n = 0
    BY <1>3, <1>5
  <2>2. NewIds(n) = {}
    BY <1>1, <2>1 DEF NewIds, TypeOK
  <2> QED  BY <1>1, <1>5, <2>2 DEF TypeOK, State
<1>12. Active' = Active \/ \E w \in Worker : proc'[w] = "booting"
  BY <1>3, <1>5
<1> QED  BY <1>5, <1>6, <1>8, <1>9, <1>10, <1>11, <1>12
-----------------------------------------------------------------------------
LEMMA InvInit == Init => IInv
<1> SUFFICES ASSUME Init PROVE IInv
  OBVIOUS
<1> USE Numbers DEF Off, Unregistered, Nothing
<1>1. /\ \A w \in Worker : proc[w] = IF w <= Target THEN "booting" ELSE "unborn"
      /\ \A w \in Worker : inflight[w] = Nothing /\ silence[w] = Unregistered
                           /\ lagBeats[w] = 0 /\ sinceBeat[w] = 0
  BY DEF Init
<1>2. Alive = 1..Target /\ Registered = {}
  BY <1>1 DEF Alive, IsAlive, Worker, Registered
<1>3. Active = Target /\ Cardinality(Alive \ marked) = Target
  <2>1. Cardinality(1..Target) = Target
    BY FS_Interval
  <2>2. Alive \ marked = Alive
    BY DEF Init
  <2> QED  BY <1>2, <2>1, <2>2, Zenon DEF Active
<1>4. TypeOK
  <2>1. /\ 0 \in 0..LongAgo /\ 0 \in 0..(LagRecycleBeats - 1) /\ 0 \in 0..(DegradedAfterMs + 1)
        /\ Target + 1 \in 1..(MaxId + 1) /\ HeartbeatMs \in 0..WedgedTimeoutMs
    OBVIOUS
  <2>2. blocked \subseteq Alive /\ marked \subseteq Alive
    BY DEF Init
  <2>3. /\ proc \in [Worker -> {"unborn", "booting", "online", "reporting", "closing", "dead"}]
        /\ rssRecycled \subseteq Worker /\ lagRecycled \subseteq Worker
        /\ exitedWorkerIds \subseteq Worker /\ exported \subseteq Worker
    BY DEF Init
  <2>4. fleetDegraded \in BOOLEAN /\ shuttingDown \in BOOLEAN /\ declined \subseteq Worker
    BY DEF Init
  <2> QED  BY <2>1, <2>2, <2>3, <2>4 DEF Init, TypeOK
<1>5. LifeInv /\ ClockInv /\ WatchInv
  BY <1>1, <1>2 DEF Init, LifeInv, ClockInv, WatchInv, Worker
<1>6. AlarmInv /\ AlarmIsAboutMissing /\ SettledWithinTarget
  BY <1>3 DEF Init, AlarmInv, AlarmIsAboutMissing, SettledWithinTarget
<1>7. NothingKeptOfTheDead
  BY <1>1, <1>2 DEF Init, NothingKeptOfTheDead
<1> QED  BY <1>4, <1>5, <1>6, <1>7 DEF IInv

LEMMA AlarmTypes ==
  ASSUME TypeOK, NEW active, RecomputeFleetHealth(active)
  PROVE  degradedIn' \in {Off} \cup 0..DegradedAfterMs /\ fleetDegraded' \in BOOLEAN
<1>1. degradedIn' \in {Off, degradedIn, DegradedAfterMs}
  BY DEF RecomputeFleetHealth
<1>2. fleetDegraded' = FALSE \/ fleetDegraded' = fleetDegraded
  BY DEF RecomputeFleetHealth
<1>3. degradedIn' \in {Off} \cup 0..DegradedAfterMs
  BY <1>1, Numbers DEF TypeOK
<1>4. fleetDegraded' \in BOOLEAN
  BY <1>2 DEF TypeOK
<1> QED  BY <1>3, <1>4

\* Steps of a worker that do not change which workers live: nothing is
\* registered, recycled or forked.
LEMMA WorkerSteps ==
  ASSUME IInv, ~shuttingDown, NEW w \in Worker,
         WorkerOnline(w) \/ StartReporting(w) \/ Block(w) \/ Beat(w) \/ StopReporting(w)
  PROVE  IInv'
<1> USE Numbers DEF Off, Unregistered, Nothing
<1>1. /\ TypeOK /\ LifeInv /\ ClockInv /\ WatchInv /\ AlarmInv
      /\ SettledWithinTarget /\ NothingKeptOfTheDead /\ AlarmIsAboutMissing
  BY DEF IInv
<1>2. /\ UNCHANGED <<nextId, marked, monitorVars, watchIn, shuttingDown, declined, belowFor>>
      /\ proc' \in [Worker -> State]
      /\ \A v \in Worker \ {w} :
           proc'[v] = proc[v] /\ inflight'[v] = inflight[v] /\ sinceBeat'[v] = sinceBeat[v]
      /\ IsAlive(proc[w]) /\ IsAlive(proc'[w])
  BY <1>1 DEF TypeOK, State, WorkerOnline, StartReporting, Block, Beat, StopReporting, BeatDue,
              IsAlive, alarmVars
<1>3. Alive' = Alive /\ Active' = Active
  BY <1>2 DEF Alive, Active, IsAlive
<1>4. Registered' = Registered
  BY <1>2 DEF Registered, monitorVars
<1>5. /\ sinceBeat' \in [Worker -> 0..LongAgo]
      /\ inflight' \in [Worker -> {Nothing} \cup 0..LongAgo]
  <2>1. CASE Beat(w)
    <3>1. sinceBeat[w] - HeartbeatMs \in 0..LongAgo
      BY <1>1, <2>1 DEF Beat, BeatDue, TypeOK
    <3> QED  BY <1>1, <2>1, <3>1 DEF Beat, TypeOK
  <2>2. CASE ~Beat(w)
    BY <1>1, <2>2 DEF TypeOK, WorkerOnline, StartReporting, Block, StopReporting
  <2> QED  BY <2>1, <2>2
<1>6. blocked' \subseteq Alive'
  BY <1>1, <1>2, <1>3 DEF TypeOK, WorkerOnline, StartReporting, Block, Beat, StopReporting, Alive
<1>7. degradedIn' \in {Off} \cup 0..DegradedAfterMs /\ fleetDegraded' \in BOOLEAN
  <2>1. CASE WorkerOnline(w)
    <3>1. RecomputeFleetHealth(Active)
      BY <2>1 DEF WorkerOnline
    <3> QED  BY <1>1, <3>1, AlarmTypes
  <2>2. CASE ~WorkerOnline(w)
    <3>1. UNCHANGED <<degradedIn, fleetDegraded>>
      BY <2>2 DEF StartReporting, Block, Beat, StopReporting, alarmVars
    <3> QED  BY <1>1, <3>1 DEF TypeOK
  <2> QED  BY <2>1, <2>2
<1>8. TypeOK'
  BY <1>1, <1>2, <1>3, <1>5, <1>6, <1>7 DEF TypeOK, monitorVars, State
<1>9. LifeInv'
  BY <1>1, <1>2 DEF LifeInv, WorkerOnline, StartReporting, Block, Beat, BeatDue, StopReporting,
                    monitorVars, TypeOK
<1>10. ClockInv'
  <2>1. \A v \in Alive : inflight'[v] # Nothing => sinceBeat'[v] = 0
    BY <1>1, <1>2 DEF ClockInv, WorkerOnline, StartReporting, Block, Beat, StopReporting, Alive,
                      TypeOK
  <2>2. \A v \in Registered \ marked :
          /\ proc'[v] = "reporting"
          /\ inflight'[v] = Nothing => silence[v] = sinceBeat'[v]
          /\ inflight'[v] # Nothing => silence[v] = inflight'[v] + HeartbeatMs
    <3> SUFFICES ASSUME NEW v \in Registered \ marked
                 PROVE  /\ proc'[v] = "reporting"
                        /\ inflight'[v] = Nothing => silence[v] = sinceBeat'[v]
                        /\ inflight'[v] # Nothing => silence[v] = inflight'[v] + HeartbeatMs
      OBVIOUS
    <3>1. /\ v \in Worker /\ proc[v] = "reporting"
          /\ inflight[v] = Nothing => silence[v] = sinceBeat[v]
          /\ inflight[v] # Nothing => silence[v] = inflight[v] + HeartbeatMs
          /\ sinceBeat[v] \in Nat
      BY <1>1 DEF ClockInv, Registered, TypeOK
    <3>2. CASE v = w /\ Beat(w)
      <4>1. inflight'[v] = sinceBeat[v] - HeartbeatMs /\ inflight[v] = Nothing
            /\ sinceBeat[v] >= HeartbeatMs /\ proc' = proc
        BY <1>1, <3>2 DEF Beat, BeatDue, TypeOK
      <4> QED  BY <3>1, <4>1
    <3>3. CASE v # w \/ ~Beat(w)
      <4>1. v = w => Block(w)
        BY <3>1, <3>3 DEF WorkerOnline, StartReporting, StopReporting
      <4> QED  BY <1>2, <3>1, <4>1 DEF Block
    <3> QED  BY <3>2, <3>3
  <2> QED  BY <1>2, <1>3, <1>4, <2>1, <2>2 DEF ClockInv, monitorVars
<1>11. WatchInv'
  BY <1>1, <1>2, <1>4 DEF WatchInv, monitorVars
<1>12. AlarmInv' /\ AlarmIsAboutMissing'
  <2>0. Active \in Nat
    BY Finite DEF Active, Alive
  <2>1. CASE WorkerOnline(w)
    BY <1>1, <1>2, <1>3, <2>0, <2>1
       DEF WorkerOnline, RecomputeFleetHealth, AlarmInv, AlarmIsAboutMissing, TypeOK
  <2>2. CASE ~WorkerOnline(w)
    <3>1. UNCHANGED <<degradedIn, fleetDegraded>>
      BY <2>2 DEF StartReporting, Block, Beat, StopReporting, alarmVars
    <3>2. \A v \in Worker : proc[v] = "booting" => proc'[v] = "booting"
      BY <1>1, <2>2 DEF StartReporting, Block, Beat, StopReporting, TypeOK
    <3> QED  BY <1>1, <1>2, <1>3, <3>1, <3>2 DEF AlarmInv, AlarmIsAboutMissing
  <2> QED  BY <2>1, <2>2
<1>13. SettledWithinTarget' /\ NothingKeptOfTheDead'
  BY <1>1, <1>2, <1>3, <1>4 DEF SettledWithinTarget, NothingKeptOfTheDead, monitorVars
<1> QED  BY <1>8, <1>9, <1>10, <1>11, <1>12, <1>13 DEF IInv

\* The restart of a missing worker.
LEMMA RestartStep == IInv /\ RestartForks => IInv'
<1> SUFFICES ASSUME IInv, RestartForks PROVE IInv'
  OBVIOUS
<1> USE Numbers DEF Off, Unregistered, Nothing
<1>1. /\ TypeOK /\ LifeInv /\ ClockInv /\ WatchInv /\ AlarmInv
      /\ SettledWithinTarget /\ NothingKeptOfTheDead /\ AlarmIsAboutMissing
  BY DEF IInv
<1>2. /\ UNCHANGED <<blocked, sinceBeat, marked, inflight, monitorVars, watchIn, degradedIn,
                     fleetDegraded, shuttingDown, declined>>
      /\ nextId + 1 <= MaxId + 1 /\ proc' = AfterForks(1) /\ nextId' = nextId + 1
      /\ Cardinality(Alive \ marked) < Target
      /\ ForgetShortfall(Active + 1)
  BY <1>1 DEF RestartForks, TypeOK
<1>3. /\ proc' \in [Worker -> State] /\ nextId' \in 1..(MaxId + 1)
      /\ NewIds(1) \subseteq Worker /\ NewIds(1) \cap Alive = {}
      /\ Cardinality(NewIds(1)) = 1
      /\ Alive' = Alive \cup NewIds(1)
      /\ Active' = Active + 1
      /\ \A w \in Worker : proc'[w] = IF w \in NewIds(1) THEN "booting" ELSE proc[w]
      /\ \A w \in NewIds(1) : proc[w] = "unborn"
      /\ \A w \in Worker : proc'[w] = "unborn" <=> w >= nextId'
      /\ \E w \in Worker : proc'[w] = "booting"
  BY <1>1, <1>2, Forks
<1>4. Registered' = Registered /\ Active \in Nat
  BY <1>2, Finite DEF Registered, monitorVars, Active, Alive
<1>5. belowFor' = IF Active' >= Target THEN 0 ELSE belowFor
  BY <1>2, <1>3 DEF ForgetShortfall
<1>6. TypeOK'
  BY <1>1, <1>2, <1>3, <1>5 DEF TypeOK, State, monitorVars
<1>7. LifeInv'
  BY <1>1, <1>2, <1>3 DEF LifeInv, monitorVars, TypeOK
<1>8. ClockInv'
  <2>1. \A w \in Alive' : inflight[w] # Nothing => sinceBeat[w] = 0
    BY <1>1, <1>2, <1>3 DEF ClockInv, LifeInv, RestartForks
  <2> QED  BY <1>1, <1>2, <1>3, <1>4, <2>1 DEF ClockInv, monitorVars, Registered
<1>9. WatchInv'
  BY <1>1, <1>2, <1>4 DEF WatchInv, monitorVars
<1>10. AlarmInv' /\ AlarmIsAboutMissing'
  BY <1>1, <1>2, <1>3, <1>4, <1>5 DEF AlarmInv, AlarmIsAboutMissing, TypeOK
<1>11. SettledWithinTarget'
  <2>1. Alive' \ marked' = (Alive \ marked) \cup NewIds(1)
        /\ (Alive \ marked) \cap NewIds(1) = {}
    BY <1>1, <1>2, <1>3 DEF TypeOK
  <2>2. /\ IsFiniteSet(Alive \ marked) /\ IsFiniteSet(NewIds(1))
        /\ Cardinality(Alive \ marked) \in Nat
    BY <1>3, Finite DEF Alive
  <2>3. Cardinality((Alive \ marked) \cap NewIds(1)) = 0
    BY <2>1, FS_EmptySet
  <2>4. Cardinality((Alive \ marked) \cup NewIds(1)) =
          Cardinality(Alive \ marked) + Cardinality(NewIds(1))
            - Cardinality((Alive \ marked) \cap NewIds(1))
    BY <2>2, FS_Union
  <2>5. Cardinality(Alive' \ marked') = Cardinality((Alive \ marked) \cup NewIds(1))
    BY ONLY <2>1, Zenon
  <2>6. Cardinality(Alive' \ marked') <= Target
    BY <1>2, <1>3, <2>2, <2>3, <2>4, <2>5
  <2> QED  BY <2>6 DEF SettledWithinTarget
<1>12. NothingKeptOfTheDead'
  BY <1>1, <1>2, <1>3, <1>4 DEF NothingKeptOfTheDead, monitorVars
<1> QED  BY <1>6, <1>7, <1>8, <1>9, <1>10, <1>11, <1>12 DEF IInv

\* The exit of a worker.
LEMMA ExitStep == ASSUME IInv, NEW w \in Worker, WorkerExit(w) PROVE IInv'
<1> USE Numbers DEF Off, Unregistered, Nothing
<1>1. /\ TypeOK /\ LifeInv /\ ClockInv /\ WatchInv /\ AlarmInv
      /\ SettledWithinTarget /\ NothingKeptOfTheDead /\ AlarmIsAboutMissing
  BY DEF IInv
<1>2. /\ proc' \in [Worker -> State] /\ w \in Alive
      /\ proc'[w] = "dead"
      /\ \A v \in Worker \ {w} :
           /\ proc'[v] = proc[v] /\ inflight'[v] = inflight[v] /\ sinceBeat'[v] = sinceBeat[v]
           /\ silence'[v] = silence[v] /\ lagBeats'[v] = lagBeats[v]
      /\ silence'[w] = Unregistered /\ lagBeats'[w] = 0 /\ sinceBeat'[w] = 0
      /\ inflight'[w] = IF inflight[w] = Nothing THEN Nothing ELSE 0
      /\ marked' = marked \ {w} /\ exitedWorkerIds' = exitedWorkerIds \cup {w}
      /\ exported' = exported \ {w} /\ rssRecycled' = rssRecycled \ {w}
      /\ lagRecycled' = lagRecycled \ {w} /\ blocked' = blocked \ {w}
      /\ declined' = declined \ {w}
      /\ UNCHANGED <<nextId, watchIn, belowFor, shuttingDown>>
      /\ RecomputeFleetHealth(Active - 1)
  BY <1>1 DEF WorkerExit, TypeOK, State, ClearSample
<1>3. Alive' = Alive \ {w} /\ Registered' = Registered \ {w}
  BY <1>2 DEF Alive, IsAlive, Registered
<1>4. Active' = Active - 1 /\ Active \in Nat
  <2>1. IsFiniteSet(Alive)
    BY Finite DEF Alive
  <2>2. Cardinality(Alive \ {w}) = Cardinality(Alive) - 1 /\ Cardinality(Alive) \in Nat
    BY <1>2, <2>1, FS_RemoveElement, FS_CardinalityType
  <2>3. Cardinality(Alive') = Cardinality(Alive \ {w})
    BY ONLY <1>3, Zenon
  <2> QED  BY <2>2, <2>3 DEF Active
<1>5. TypeOK'
  <2>1. degradedIn' \in {Off} \cup 0..DegradedAfterMs /\ fleetDegraded' \in BOOLEAN
    BY <1>1, <1>2, AlarmTypes
  <2>2. /\ inflight' \in [Worker -> {Nothing} \cup 0..LongAgo]
        /\ sinceBeat' \in [Worker -> 0..LongAgo]
        /\ silence' \in [Worker -> {Unregistered} \cup 0..LongAgo]
        /\ lagBeats' \in [Worker -> 0..(LagRecycleBeats - 1)]
    BY <1>1 DEF WorkerExit, TypeOK
  <2>3. /\ marked' \subseteq Alive' /\ blocked' \subseteq Alive'
        /\ exitedWorkerIds' \subseteq Worker /\ exported' \subseteq Worker
        /\ rssRecycled' \subseteq Worker /\ lagRecycled' \subseteq Worker
        /\ declined' \subseteq Worker
    BY <1>1, <1>2, <1>3 DEF TypeOK
  <2> QED  BY <1>1, <1>2, <2>1, <2>2, <2>3 DEF TypeOK, State
<1>6. LifeInv'
  <2>1. ~(w >= nextId)
    BY <1>1, <1>2 DEF LifeInv, Alive, IsAlive
  <2>2. \A v \in Worker : proc'[v] = "unborn" <=> v >= nextId'
    <3> SUFFICES ASSUME NEW v \in Worker PROVE proc'[v] = "unborn" <=> v >= nextId
      BY <1>2
    <3>1. CASE v = w
      BY <1>2, <2>1, <3>1
    <3>2. CASE v # w
      BY <1>1, <1>2, <3>2 DEF LifeInv
    <3> QED  BY <3>1, <3>2
  <2>3. \A v \in Worker : inflight'[v] # Nothing => proc'[v] \in {"reporting", "closing", "dead"}
    <3> SUFFICES ASSUME NEW v \in Worker, inflight'[v] # Nothing
                 PROVE  proc'[v] \in {"reporting", "closing", "dead"}
      OBVIOUS
    <3>1. CASE v = w
      BY <1>2, <3>1
    <3>2. CASE v # w
      BY <1>1, <1>2, <3>2 DEF LifeInv
    <3> QED  BY <3>1, <3>2
  <2>4. \A v \in exitedWorkerIds' : proc'[v] = "dead"
    <3> SUFFICES ASSUME NEW v \in exitedWorkerIds', v # w PROVE proc'[v] = "dead"
      BY <1>2
    <3>1. v \in exitedWorkerIds /\ v \in Worker
      BY <1>1, <1>2 DEF TypeOK
    <3> QED  BY <1>1, <1>2, <3>1 DEF LifeInv
  <2>5. ~shuttingDown' => \A v \in Worker : /\ proc'[v] = "dead" => v \in exitedWorkerIds'
                                            /\ proc'[v] = "closing" => v \in marked'
    <3> SUFFICES ASSUME ~shuttingDown, NEW v \in Worker
                 PROVE  /\ proc'[v] = "dead" => v \in exitedWorkerIds'
                        /\ proc'[v] = "closing" => v \in marked'
      BY <1>2
    <3>1. CASE v = w
      BY <1>2, <3>1
    <3>2. CASE v # w
      BY <1>1, <1>2, <3>2 DEF LifeInv
    <3> QED  BY <3>1, <3>2
  <2> QED  BY <2>2, <2>3, <2>4, <2>5 DEF LifeInv
<1>7. ClockInv'
  BY <1>1, <1>2, <1>3 DEF ClockInv, Registered, Alive
<1>8. WatchInv'
  BY <1>1, <1>2, <1>3 DEF WatchInv, Registered
<1>9. AlarmInv' /\ AlarmIsAboutMissing'
  <2>1. CASE shuttingDown
    BY <1>1, <1>2, <2>1 DEF AlarmInv, AlarmIsAboutMissing, RecomputeFleetHealth
  <2>2. CASE ~shuttingDown /\ Active - 1 >= Target
    BY <1>1, <1>2, <1>4, <2>2 DEF AlarmInv, AlarmIsAboutMissing, RecomputeFleetHealth
  <2>3. CASE ~shuttingDown /\ Active - 1 < Target
    BY <1>1, <1>2, <1>4, <2>3 DEF AlarmInv, AlarmIsAboutMissing, RecomputeFleetHealth, TypeOK
  <2> QED  BY <1>4, <2>1, <2>2, <2>3
<1>10. SettledWithinTarget'
  <2>1. Alive' \ marked' \subseteq Alive \ marked /\ Alive \ marked \subseteq Worker
    BY <1>2, <1>3 DEF Alive
  <2>2. Cardinality(Alive' \ marked') <= Cardinality(Alive \ marked)
        /\ Cardinality(Alive' \ marked') \in Nat /\ Cardinality(Alive \ marked) \in Nat
    <3>1. /\ Alive \ marked \in SUBSET Worker
          /\ Alive' \ marked' \in SUBSET (Alive \ marked)
          /\ Alive' \ marked' \in SUBSET Worker
      BY <2>1
    <3>2. /\ \A S \in SUBSET Worker : Cardinality(S) \in Nat
          /\ \A S \in SUBSET Worker : \A T \in SUBSET S : Cardinality(T) <= Cardinality(S)
      BY Finite
    <3> QED  BY ONLY <3>1, <3>2, Zenon
  <2> QED  BY <1>1, <1>2, <2>2 DEF SettledWithinTarget
<1>11. NothingKeptOfTheDead'
  BY <1>1, <1>2, <1>3 DEF NothingKeptOfTheDead
<1> QED  BY <1>5, <1>6, <1>7, <1>8, <1>9, <1>10, <1>11 DEF IInv

\* What a recycle asked by the monitor keeps of the invariants about the fleet,
\* when the alarm is not touched.
LEMMA RecycleKeeps ==
  ASSUME IInv, NEW candidates \in SUBSET Alive, TriggerWorkerRecycle(candidates),
         ~shuttingDown,
         UNCHANGED <<degradedIn, fleetDegraded, shuttingDown>>
  PROVE  /\ AlarmInv' /\ AlarmIsAboutMissing' /\ SettledWithinTarget'
         /\ belowFor' \in 0..(DegradedAfterMs + 1)
<1> USE Numbers DEF Off
<1>1. TypeOK /\ AlarmInv /\ AlarmIsAboutMissing /\ SettledWithinTarget
  BY DEF IInv
<1>2. /\ Cardinality(Alive' \ marked') <= Target \/ ~(Cardinality(Alive \ marked) <= Target)
      /\ Active' \in Nat /\ Active' >= Active
      /\ belowFor' = IF Active' >= Target THEN 0 ELSE belowFor
      /\ Active' = Active \/ \E w \in Worker : proc'[w] = "booting"
      /\ Active' = Active => proc' = proc
  BY Recycles
<1>3. Active \in Nat
  BY Finite DEF Active, Alive
<1>4. SettledWithinTarget'
  BY <1>1, <1>2 DEF SettledWithinTarget
<1>5. belowFor' \in 0..(DegradedAfterMs + 1)
  BY <1>1, <1>2 DEF TypeOK
<1>6. AlarmInv'
  BY <1>1, <1>2, <1>3 DEF AlarmInv, TypeOK
<1>7. AlarmIsAboutMissing'
  BY <1>1, <1>2, <1>3 DEF AlarmIsAboutMissing
<1> QED  BY <1>4, <1>5, <1>6, <1>7

\* A report is read.
LEMMA ReportStep == ASSUME IInv, NEW w \in Worker, OnWorkerMessage(w) PROVE IInv'
<1> USE Numbers DEF Off, Unregistered, Nothing
<1>1. /\ TypeOK /\ LifeInv /\ ClockInv /\ WatchInv /\ AlarmInv
      /\ SettledWithinTarget /\ NothingKeptOfTheDead /\ AlarmIsAboutMissing
  BY DEF IInv
<1>2. /\ inflight[w] # Nothing /\ inflight[w] \in 0..LongAgo
      /\ inflight' = [inflight EXCEPT ![w] = Nothing]
      /\ inflight' \in [Worker -> {Nothing} \cup 0..LongAgo]
      /\ UNCHANGED <<blocked, sinceBeat, watchIn, degradedIn, fleetDegraded, shuttingDown>>
  BY <1>1 DEF OnWorkerMessage, TypeOK
<1>3. CASE Stale(w)
  <2>1. UNCHANGED <<proc, nextId, marked, monitorVars, belowFor, declined>> /\ proc[w] = "dead"
    BY <1>1, <1>3 DEF OnWorkerMessage, Stale, monitorVars, LifeInv
  <2>2. Alive' = Alive /\ Active' = Active /\ Registered' = Registered /\ w \notin Alive
    BY <2>1 DEF Alive, Active, IsAlive, Registered, monitorVars
  <2>3. TypeOK' /\ LifeInv'
    BY <1>1, <1>2, <2>1, <2>2 DEF TypeOK, LifeInv, monitorVars
  <2>4. ClockInv'
    <3>1. \A v \in Worker \ {w} : inflight'[v] = inflight[v]
      BY <1>1, <1>2 DEF TypeOK
    <3>2. ~shuttingDown => w \notin Registered
      BY <1>1, <2>2 DEF NothingKeptOfTheDead
    <3> QED  BY <1>1, <1>2, <2>1, <2>2, <3>1, <3>2 DEF ClockInv, monitorVars, Alive, Registered
  <2>5. WatchInv' /\ AlarmInv' /\ AlarmIsAboutMissing'
    BY <1>1, <1>2, <2>1, <2>2 DEF WatchInv, AlarmInv, AlarmIsAboutMissing, monitorVars
  <2>6. SettledWithinTarget' /\ NothingKeptOfTheDead'
    BY <1>1, <1>2, <2>1, <2>2 DEF SettledWithinTarget, NothingKeptOfTheDead, monitorVars
  <2> QED  BY <2>3, <2>4, <2>5, <2>6 DEF IInv
<1>4. CASE ~Stale(w)
  <2>1. /\ silence' = [silence EXCEPT ![w] = 0]
        /\ declined' = declined \ {w}
        /\ exported' = exported \cup {w}
        /\ exitedWorkerIds' = exitedWorkerIds
        /\ rssRecycled' \subseteq rssRecycled \cup {w}
        /\ lagRecycled' \subseteq lagRecycled \cup {w}
        /\ lagBeats' = [lagBeats EXCEPT ![w] = BeatsAfter(w)]
        /\ \/ ~shuttingDown /\ TriggerWorkerRecycle({w})
           \/ UNCHANGED <<proc, nextId, marked, belowFor>>
    BY <1>4 DEF OnWorkerMessage, RecordSample, RssFires, LagFires
  <2>2. ~shuttingDown => w \in Alive /\ sinceBeat[w] = 0
                         /\ (proc[w] = "reporting" \/ w \in marked)
    BY <1>1, <1>2, <1>4 DEF LifeInv, Stale, Alive, IsAlive, ClockInv
  <2>3. BeatsAfter(w) \in 0..(LagRecycleBeats - 1)
    <3>1. lagBeats[w] \in 0..(LagRecycleBeats - 1)
      BY <1>1 DEF TypeOK
    <3> QED  BY <1>2, <3>1, ConfigAssumption DEF BeatsAfter, LagIgnored, LagFires
  <2>4. /\ proc' \in [Worker -> State] /\ nextId' \in 1..(MaxId + 1)
        /\ marked' \in SUBSET Alive' /\ marked \subseteq marked' /\ marked' \subseteq Alive
        /\ Alive \subseteq Alive'
        /\ \A v \in Worker : proc'[v] = proc[v] \/ (proc[v] = "unborn" /\ proc'[v] = "booting")
        /\ \A v \in Worker : proc'[v] = "unborn" <=> v >= nextId'
        /\ AlarmInv' /\ AlarmIsAboutMissing' /\ SettledWithinTarget'
        /\ belowFor' \in 0..(DegradedAfterMs + 1)
    <3>1. CASE ~shuttingDown /\ TriggerWorkerRecycle({w})
      <4>1. {w} \in SUBSET Alive
        BY <2>2, <3>1
      <4>2. AlarmInv' /\ AlarmIsAboutMissing' /\ SettledWithinTarget'
            /\ belowFor' \in 0..(DegradedAfterMs + 1)
        BY <1>2, <3>1, <4>1, RecycleKeeps
      <4> QED  BY <3>1, <4>1, <4>2, Recycles
    <3>2. CASE UNCHANGED <<proc, nextId, marked, belowFor>>
      <4>1. Alive' = Alive /\ Active' = Active
        BY <3>2 DEF Alive, Active
      <4> QED  BY <1>1, <1>2, <3>2, <4>1
            DEF TypeOK, State, LifeInv, AlarmInv, AlarmIsAboutMissing, SettledWithinTarget
    <3> QED  BY <2>1, <3>1, <3>2
  <2>5. TypeOK'
    <3>1. /\ silence' \in [Worker -> {Unregistered} \cup 0..LongAgo]
          /\ lagBeats' \in [Worker -> 0..(LagRecycleBeats - 1)]
          /\ exported' \subseteq Worker /\ exitedWorkerIds' \subseteq Worker
          /\ rssRecycled' \subseteq Worker /\ lagRecycled' \subseteq Worker
          /\ blocked' \subseteq Alive' /\ declined' \subseteq Worker
      BY <1>1, <1>2, <2>1, <2>3, <2>4 DEF TypeOK
    <3> QED  BY <1>1, <1>2, <2>4, <3>1 DEF TypeOK, State
  <2>6. LifeInv'
    BY <1>1, <1>2, <2>1, <2>4 DEF LifeInv, TypeOK
  <2>7. NothingKeptOfTheDead'
    <3> SUFFICES ASSUME ~shuttingDown PROVE NothingKeptOfTheDead'
      BY <1>2 DEF NothingKeptOfTheDead
    <3>1. Registered' \subseteq Registered \cup {w}
      BY <1>1, <2>1 DEF Registered, TypeOK
    <3>2. \A v \in Worker : lagBeats'[v] > 0 => v = w \/ lagBeats[v] > 0
      BY <1>1, <2>1 DEF TypeOK
    <3> QED  BY <1>1, <2>1, <2>2, <2>4, <3>1, <3>2 DEF NothingKeptOfTheDead
  <2>8. ClockInv' /\ WatchInv'
    <3> SUFFICES ASSUME ~shuttingDown PROVE ClockInv' /\ WatchInv'
      BY <1>2 DEF ClockInv, WatchInv
    <3>1. /\ silence'[w] = 0 /\ inflight'[w] = Nothing /\ w \in Registered'
          /\ \A v \in Worker \ {w} : silence'[v] = silence[v] /\ inflight'[v] = inflight[v]
      BY <1>1, <1>2, <2>1 DEF TypeOK, Registered
    <3>2. Registered' = Registered \cup {w} /\ Registered \subseteq Alive
      BY <1>1, <3>1 DEF Registered, NothingKeptOfTheDead
    <3>3. \A v \in Alive : proc'[v] = proc[v]
      BY <2>4 DEF Alive, IsAlive
    <3>4. \A v \in Alive' : inflight'[v] # Nothing => sinceBeat'[v] = 0
      <4>1. \A v \in Alive' : v \in Alive \/ proc[v] = "unborn"
        BY <2>4 DEF Alive, IsAlive
      <4> QED  BY <1>1, <1>2, <3>1, <4>1 DEF ClockInv, LifeInv, Alive
    <3>5. \A v \in Registered' \ marked' :
            /\ proc'[v] = "reporting"
            /\ inflight'[v] = Nothing => silence'[v] = sinceBeat'[v]
            /\ inflight'[v] # Nothing => silence'[v] = inflight'[v] + HeartbeatMs
      <4>1. w \notin marked' => proc'[w] = "reporting" /\ silence'[w] = sinceBeat'[w]
        BY <1>2, <2>2, <2>4, <3>1, <3>3
      <4> QED  BY <1>1, <1>2, <2>4, <3>1, <3>2, <3>3, <4>1 DEF ClockInv, Registered
    <3>6. watchIn \in Nat /\ watchIn <= HeartbeatMs
      BY <1>1 DEF TypeOK, WatchInv
    <3>7. \A v \in Registered' : silence'[v] + watchIn <= WedgedTimeoutMs + HeartbeatMs
      BY <1>1, <3>1, <3>2, <3>6 DEF WatchInv, Registered
    <3>8. exported' \ (marked' \cup declined') \subseteq Registered'
      BY <1>1, <2>1, <2>4, <3>2 DEF WatchInv
    <3> QED  BY <1>2, <3>4, <3>5, <3>6, <3>7, <3>8 DEF ClockInv, WatchInv
  <2> QED  BY <2>4, <2>5, <2>6, <2>7, <2>8 DEF IInv
<1> QED  BY <1>3, <1>4

\* The watch looks at the registry.
LEMMA WatchStep == IInv /\ WedgedWatch => IInv'
<1> SUFFICES ASSUME IInv, WedgedWatch PROVE IInv'
  OBVIOUS
<1> USE Numbers DEF Off, Unregistered, Nothing
<1>1. /\ TypeOK /\ LifeInv /\ ClockInv /\ WatchInv /\ AlarmInv
      /\ SettledWithinTarget /\ NothingKeptOfTheDead /\ AlarmIsAboutMissing
  BY DEF IInv
<1> DEFINE wedged == {w \in Worker : IsWedged(w)}
<1>2. /\ ~shuttingDown /\ watchIn' = HeartbeatMs
      /\ silence' = [w \in Worker |-> IF IsWedged(w) THEN Unregistered ELSE silence[w]]
      /\ TriggerWorkerRecycle(wedged)
      /\ declined' = declined \cup (wedged \ marked')
      /\ UNCHANGED <<blocked, sinceBeat, inflight, rssRecycled, lagRecycled, lagBeats,
                     exitedWorkerIds, exported, degradedIn, fleetDegraded, shuttingDown>>
  BY DEF WedgedWatch, WatchPeriod
<1>3. Registered \subseteq Alive /\ wedged \subseteq Registered
  BY <1>1, <1>2 DEF NothingKeptOfTheDead, Registered, IsWedged
<1>4. wedged \in SUBSET Alive
  BY <1>3
<1>5. Registered' = Registered \ wedged
      /\ \A w \in Registered' : silence'[w] = silence[w] /\ silence[w] <= WedgedTimeoutMs
  <2>1. \A w \in Worker : silence[w] \in {Unregistered} \cup 0..LongAgo
    BY <1>1 DEF TypeOK
  <2> QED  BY <1>2, <2>1 DEF Registered, IsWedged
<1> HIDE DEF wedged
<1>6. /\ proc' \in [Worker -> State] /\ nextId' \in 1..(MaxId + 1)
      /\ marked' \in SUBSET Alive' /\ marked \subseteq marked' /\ marked' \subseteq Alive
      /\ Alive \subseteq Alive'
      /\ \A w \in Worker : proc'[w] = proc[w] \/ (proc[w] = "unborn" /\ proc'[w] = "booting")
      /\ \A w \in Worker : proc'[w] = "unborn" <=> w >= nextId'
  BY <1>2, <1>4, Recycles
<1>7. /\ AlarmInv' /\ AlarmIsAboutMissing' /\ SettledWithinTarget'
      /\ belowFor' \in 0..(DegradedAfterMs + 1)
  BY <1>2, <1>4, RecycleKeeps
<1>8. TypeOK'
  <2>1. silence' \in [Worker -> {Unregistered} \cup 0..LongAgo]
    BY <1>1, <1>2 DEF TypeOK
  <2>2. watchIn' \in 0..WedgedTimeoutMs /\ declined' \subseteq Worker
    BY <1>1, <1>2, <1>3 DEF TypeOK, Registered
  <2> QED  BY <1>1, <1>2, <1>6, <1>7, <2>1, <2>2 DEF TypeOK, State
<1>9. LifeInv'
  BY <1>1, <1>2, <1>6 DEF LifeInv, TypeOK
<1>10. ClockInv'
  <2>1. \A w \in Alive' : w \in Alive \/ proc[w] = "unborn"
    BY <1>6 DEF Alive, IsAlive
  <2>2. \A w \in Alive' : inflight'[w] # Nothing => sinceBeat'[w] = 0
    BY <1>1, <1>2, <2>1 DEF ClockInv, LifeInv, Alive
  <2>3. \A w \in Alive : proc'[w] = proc[w]
    BY <1>6 DEF Alive, IsAlive
  <2>4. \A w \in Registered' \ marked' : w \in Registered \ marked
                                         /\ proc'[w] = proc[w] /\ silence'[w] = silence[w]
    BY <1>3, <1>5, <1>6, <2>3
  <2> QED  BY <1>1, <1>2, <2>2, <2>4 DEF ClockInv
<1>11. WatchInv'
  <2>1. \A w \in Registered' : silence'[w] + watchIn' <= WedgedTimeoutMs + HeartbeatMs
    <3>1. \A w \in Registered' : silence[w] \in Int
      BY <1>1, <1>5 DEF TypeOK, Registered
    <3> QED  BY <1>2, <1>5, <3>1
  <2>2. exported' \ (marked' \cup declined') \subseteq Registered'
    BY <1>1, <1>2, <1>5, <1>6 DEF WatchInv
  <2> QED  BY <1>2, <2>1, <2>2 DEF WatchInv
<1>12. NothingKeptOfTheDead'
  BY <1>1, <1>2, <1>5, <1>6 DEF NothingKeptOfTheDead
<1> QED  BY <1>7, <1>8, <1>9, <1>10, <1>11, <1>12 DEF IInv

\* The alarm goes on.
LEMMA FleetDegradesStep == IInv /\ FleetDegrades => IInv'
<1> SUFFICES ASSUME IInv, FleetDegrades PROVE IInv'
  OBVIOUS
<1> USE Numbers DEF Off, Unregistered, Nothing
<1>1. /\ TypeOK /\ LifeInv /\ ClockInv /\ WatchInv /\ AlarmInv
      /\ SettledWithinTarget /\ NothingKeptOfTheDead /\ AlarmIsAboutMissing
  BY DEF IInv
<1>2. /\ degradedIn = 0 /\ degradedIn' = Off /\ fleetDegraded' = TRUE
      /\ UNCHANGED <<proc, blocked, sinceBeat, nextId, marked, inflight, monitorVars, watchIn,
                     belowFor, shuttingDown, declined>>
  BY DEF FleetDegrades, workerVars
<1>3. Alive' = Alive /\ Active' = Active /\ Registered' = Registered
  BY <1>2 DEF Alive, Active, Registered, monitorVars
<1>4. TypeOK'
  BY <1>1, <1>2, <1>3 DEF TypeOK, monitorVars
<1>5. LifeInv' /\ ClockInv' /\ WatchInv'
  BY <1>1, <1>2, <1>3 DEF LifeInv, ClockInv, WatchInv, monitorVars
<1>6. AlarmInv' /\ AlarmIsAboutMissing'
  BY <1>1, <1>2, <1>3 DEF AlarmInv, AlarmIsAboutMissing
<1>7. SettledWithinTarget' /\ NothingKeptOfTheDead'
  BY <1>1, <1>2, <1>3 DEF SettledWithinTarget, NothingKeptOfTheDead, monitorVars
<1> QED  BY <1>4, <1>5, <1>6, <1>7 DEF IInv

\* The shutdown begins, and the exporters are uninstalled.
LEMMA ShutdownSteps == IInv /\ (Shutdown \/ Uninstall) => IInv'
<1> SUFFICES ASSUME IInv, Shutdown \/ Uninstall PROVE IInv'
  OBVIOUS
<1> USE Numbers DEF Off, Unregistered, Nothing
<1>1. TypeOK /\ LifeInv /\ AlarmInv
  BY DEF IInv
<1>2. /\ shuttingDown' /\ UNCHANGED <<proc, nextId, lagRecycled, lagBeats>>
      /\ exitedWorkerIds' \subseteq exitedWorkerIds
  BY DEF Shutdown, Uninstall, workerVars
<1>3. Alive' = Alive
  BY <1>2 DEF Alive
<1>4. degradedIn' = Off /\ ~fleetDegraded'
  BY <1>1 DEF Shutdown, Uninstall, alarmVars, AlarmInv
<1>5. TypeOK'
  <2>1. CASE Shutdown
    <3>1. /\ [w \in Worker |-> Unregistered] \in [Worker -> {Unregistered} \cup 0..LongAgo]
          /\ [w \in Worker |-> 0] \in [Worker -> 0..LongAgo]
          /\ HeartbeatMs \in 0..WedgedTimeoutMs /\ 0 \in 0..(DegradedAfterMs + 1)
      OBVIOUS
    <3> QED  BY <1>1, <1>2, <1>3, <2>1, <3>1 DEF TypeOK, Shutdown
  <2>2. CASE Uninstall
    <3>1. [w \in Worker |-> Nothing] \in [Worker -> {Nothing} \cup 0..LongAgo]
      OBVIOUS
    <3> QED  BY <1>1, <1>2, <1>3, <2>2, <3>1 DEF TypeOK, Uninstall, workerVars, alarmVars
  <2> QED  BY <2>1, <2>2
<1>6. LifeInv'
  <2>1. \A w \in Worker : inflight'[w] = inflight[w] \/ inflight'[w] = Nothing
    BY DEF Shutdown, Uninstall
  <2> QED  BY <1>1, <1>2, <2>1 DEF LifeInv
<1> QED  BY <1>2, <1>4, <1>5, <1>6
      DEF IInv, ClockInv, WatchInv, AlarmInv, SettledWithinTarget, NothingKeptOfTheDead,
          AlarmIsAboutMissing

\* Time advances.
LEMMA TickStep == IInv /\ Tick => IInv'
<1> SUFFICES ASSUME IInv, Tick PROVE IInv'
  OBVIOUS
<1> USE Numbers DEF Off, Unregistered, Nothing
<1>1. /\ TypeOK /\ LifeInv /\ ClockInv /\ WatchInv /\ AlarmInv
      /\ SettledWithinTarget /\ NothingKeptOfTheDead /\ AlarmIsAboutMissing
  BY DEF IInv
<1>2. /\ ~shuttingDown /\ watchIn > 0 /\ degradedIn # 0 /\ watchIn' = watchIn - 1
      /\ \A w \in Alive : inflight[w] = Nothing
      /\ degradedIn' = IF degradedIn = Off THEN Off ELSE degradedIn - 1
      /\ \A w \in Worker : sinceBeat'[w] = IF proc[w] = "reporting"
                                           THEN Older(sinceBeat[w], LongAgo) ELSE sinceBeat[w]
      /\ \A w \in Worker : silence'[w] = IF w \in Registered THEN Older(silence[w], LongAgo)
                                                             ELSE Unregistered
      /\ belowFor' = IF Active < Target THEN Older(belowFor, DegradedAfterMs + 1) ELSE 0
      /\ UNCHANGED <<proc, blocked, nextId, marked, inflight, rssRecycled, lagRecycled, lagBeats,
                     exitedWorkerIds, exported, fleetDegraded, shuttingDown, declined>>
  BY DEF Tick
<1>3. /\ \A age \in 0..LongAgo : Older(age, LongAgo) \in 0..LongAgo
      /\ \A age \in 0..(DegradedAfterMs + 1) :
           Older(age, DegradedAfterMs + 1) \in 0..(DegradedAfterMs + 1)
      /\ \A age \in 0..(LongAgo - 1) : Older(age, LongAgo) = age + 1
  BY DEF Older
<1>4. Alive' = Alive /\ Active' = Active /\ Active \in Nat
  BY <1>2, Finite DEF Alive, Active
<1>5. Registered' = Registered
      /\ \A w \in Registered : silence[w] \in 0..LongAgo /\ silence'[w] = Older(silence[w], LongAgo)
  <2>1. \A w \in Registered : silence[w] \in 0..LongAgo
    BY <1>1 DEF Registered, TypeOK
  <2> QED  BY <1>2, <1>3, <2>1 DEF Registered
<1>6. TypeOK'
  <2>1. /\ sinceBeat' \in [Worker -> 0..LongAgo]
        /\ silence' \in [Worker -> {Unregistered} \cup 0..LongAgo]
    <3>1. sinceBeat' = [w \in Worker |-> IF proc[w] = "reporting" THEN Older(sinceBeat[w], LongAgo)
                                                                  ELSE sinceBeat[w]]
          /\ silence' = [w \in Worker |-> IF w \in Registered THEN Older(silence[w], LongAgo)
                                                              ELSE Unregistered]
      BY DEF Tick
    <3> QED  BY <1>1, <1>3, <1>5, <3>1 DEF TypeOK
  <2>2. watchIn' \in 0..WedgedTimeoutMs /\ degradedIn' \in {Off} \cup 0..DegradedAfterMs
    BY <1>1, <1>2 DEF TypeOK
  <2>3. belowFor' \in 0..(DegradedAfterMs + 1)
    BY <1>1, <1>2, <1>3 DEF TypeOK
  <2> QED  BY <1>1, <1>2, <1>4, <2>1, <2>2, <2>3 DEF TypeOK
<1>7. LifeInv'
  BY <1>1, <1>2 DEF LifeInv
<1>8. \A w \in Registered : silence[w] < LongAgo /\ silence'[w] = silence[w] + 1
  <2>1. watchIn \in Nat
    BY <1>1 DEF TypeOK
  <2>2. \A w \in Registered : silence[w] + watchIn <= WedgedTimeoutMs + HeartbeatMs
    BY <1>1, <1>2 DEF WatchInv
  <2> QED  BY <1>2, <1>3, <1>5, <2>1, <2>2
<1>9. ClockInv'
  <2>1. Registered \subseteq Alive
    BY <1>1, <1>2 DEF NothingKeptOfTheDead
  <2>2. \A w \in Registered \ marked : proc[w] = "reporting" /\ silence[w] = sinceBeat[w]
    BY <1>1, <1>2, <2>1 DEF ClockInv
  <2>3. \A w \in Registered \ marked : sinceBeat'[w] = silence'[w]
    BY <1>2, <1>5, <2>2 DEF Registered
  <2> QED  BY <1>2, <1>4, <1>5, <2>1, <2>2, <2>3 DEF ClockInv
<1>10. WatchInv'
  BY <1>1, <1>2, <1>5, <1>8 DEF WatchInv, TypeOK
<1>11. AlarmInv' /\ AlarmIsAboutMissing'
  <2>1. CASE Active >= Target
    BY <1>1, <1>2, <1>4, <2>1 DEF AlarmInv, AlarmIsAboutMissing
  <2>2. CASE Active < Target
    <3>1. belowFor' <= belowFor + 1
      BY <1>1, <1>2, <2>2 DEF Older, TypeOK
    <3> QED  BY <1>1, <1>2, <1>4, <1>6, <2>2, <3>1 DEF AlarmInv, AlarmIsAboutMissing, TypeOK
  <2> QED  BY <1>4, <2>1, <2>2
<1>12. SettledWithinTarget' /\ NothingKeptOfTheDead'
  BY <1>1, <1>2, <1>4, <1>5 DEF SettledWithinTarget, NothingKeptOfTheDead
<1> QED  BY <1>6, <1>7, <1>9, <1>10, <1>11, <1>12 DEF IInv
-----------------------------------------------------------------------------
LEMMA InvNext == IInv /\ [Next]_vars => IInv'
<1> SUFFICES ASSUME IInv, [Next]_vars PROVE IInv'
  OBVIOUS
<1>1. ASSUME ~shuttingDown, NEW w \in Worker,
             WorkerOnline(w) \/ StartReporting(w) \/ Block(w) \/ Beat(w) \/ StopReporting(w)
      PROVE  IInv'
  BY <1>1, WorkerSteps
<1>2. ASSUME NEW w \in Worker, WorkerExit(w)
      PROVE  IInv'
  BY <1>2, ExitStep
<1>3. ASSUME NEW w \in Worker, OnWorkerMessage(w)
      PROVE  IInv'
  BY <1>3, ReportStep
<1>4. CASE RestartForks
  BY <1>4, RestartStep
<1>5. CASE WedgedWatch
  BY <1>5, WatchStep
<1>6. CASE FleetDegrades
  BY <1>6, FleetDegradesStep
<1>7. CASE Shutdown \/ Uninstall
  BY <1>7, ShutdownSteps
<1>8. CASE Tick
  BY <1>8, TickStep
<1>9. CASE UNCHANGED vars
  <2>1. UNCHANGED <<proc, blocked, sinceBeat, nextId, marked, inflight, silence, rssRecycled,
                    lagRecycled, lagBeats, exitedWorkerIds, exported, watchIn, degradedIn,
                    fleetDegraded, belowFor, shuttingDown, declined>>
    BY <1>9 DEF vars, workerVars, monitorVars, alarmVars
  <2>2. Alive' = Alive /\ Active' = Active /\ Registered' = Registered
    BY <2>1 DEF Alive, Active, Registered
  <2>3. TypeOK' /\ LifeInv' /\ ClockInv' /\ WatchInv'
    BY <2>1, <2>2 DEF IInv, TypeOK, LifeInv, ClockInv, WatchInv
  <2>4. AlarmInv' /\ AlarmIsAboutMissing' /\ SettledWithinTarget' /\ NothingKeptOfTheDead'
    BY <2>1, <2>2
       DEF IInv, AlarmInv, AlarmIsAboutMissing, SettledWithinTarget, NothingKeptOfTheDead
  <2> QED  BY <2>3, <2>4 DEF IInv
<1> QED  BY <1>1, <1>2, <1>3, <1>4, <1>5, <1>6, <1>7, <1>8, <1>9 DEF Next

LEMMA Invariance == Spec => []IInv
BY InvInit, InvNext, PTL DEF Spec
-----------------------------------------------------------------------------
\* Every variable keeps its type.
THEOREM TypeCorrect == Spec => []TypeOK
<1>1. IInv => TypeOK
  BY DEF IInv
<1> QED  BY <1>1, Invariance, PTL

\* Whatever the recycles asked by rss, lag and the watch, the fleet does not
\* settle above its target: one replacement is forked for a worker.
THEOREM SettlesWithinTarget == Spec => []SettledWithinTarget
<1>1. IInv => SettledWithinTarget
  BY DEF IInv
<1> QED  BY <1>1, Invariance, PTL

\* No registry entry, one-shot, lag count or exported sample outlives its
\* worker, although its last report may be read after its exit.
THEOREM DeadAreForgotten == Spec => []NothingKeptOfTheDead
<1>1. IInv => NothingKeptOfTheDead
  BY DEF IInv
<1> QED  BY <1>1, Invariance, PTL

\* A worker that reported and then blocks is being replaced one beat after the
\* timeout at the latest, unless its replacement could not be forked.
THEOREM BlockedAreReplaced == Spec => []BlockedIsReplaced
<1>1. IInv => BlockedIsReplaced
  <2> SUFFICES ASSUME IInv, ~shuttingDown, NEW w \in exported \ (marked \cup declined)
               PROVE  sinceBeat[w] <= WedgedTimeoutMs + HeartbeatMs
    BY DEF BlockedIsReplaced
  <2> USE Numbers DEF Unregistered, Nothing
  <2>1. w \in Registered \ marked /\ w \in Alive /\ w \in Worker
    BY DEF IInv, WatchInv, NothingKeptOfTheDead, Registered
  <2>2. silence[w] + watchIn <= WedgedTimeoutMs + HeartbeatMs
        /\ watchIn \in Nat /\ silence[w] \in Int /\ sinceBeat[w] \in Nat
    BY <2>1 DEF IInv, WatchInv, TypeOK
  <2>3. CASE inflight[w] # Nothing
    BY <2>1, <2>2, <2>3 DEF IInv, ClockInv
  <2>4. CASE inflight[w] = Nothing
    BY <2>1, <2>2, <2>4 DEF IInv, ClockInv
  <2> QED  BY <2>3, <2>4
<1> QED  BY <1>1, Invariance, PTL

\* A shortfall older than degradedAfterMs has raised the alarm.
THEOREM ShortfallIsFlagged == Spec => []MissingCapacityIsFlagged
<1>1. IInv => MissingCapacityIsFlagged
  <2> SUFFICES ASSUME IInv, ~shuttingDown, ~fleetDegraded
               PROVE  belowFor <= DegradedAfterMs
    BY DEF MissingCapacityIsFlagged
  <2>1. Active \in Nat
    BY Finite DEF Active, Alive
  <2> QED  BY <2>1, Numbers DEF IInv, AlarmInv, TypeOK, Off
<1> QED  BY <1>1, Invariance, PTL

\* The alarm is armed, or on, only while a worker is missing or booting.
THEOREM AlarmIsTrue == Spec => []AlarmIsAboutMissing
<1>1. IInv => AlarmIsAboutMissing
  BY DEF IInv
<1> QED  BY <1>1, Invariance, PTL

\* The watch takes no worker that runs for a wedged one: one that it drops from
\* the registry is marked, or has not beaten for longer than the timeout, but
\* for the late beat whose report is on its way.
THEOREM WedgedWereBlocked == Spec => WedgedWasBlocked
<1>1. ASSUME IInv, [Next]_vars,
             NEW w \in Registered \ Registered', proc'[w] = proc[w], ~shuttingDown'
      PROVE  \/ w \in marked
             \/ sinceBeat[w] > WedgedTimeoutMs
             \/ inflight[w] + HeartbeatMs > WedgedTimeoutMs
  <2> USE <1>1, Numbers DEF Unregistered, Nothing
  <2>1. silence'[w] = Unregistered /\ silence[w] # Unregistered /\ w \in Worker
    BY DEF Registered
  <2>2. silence \in [Worker -> {Unregistered} \cup 0..LongAgo]
    BY DEF IInv, TypeOK
  <2>3. WedgedWatch
    <3>1. silence' # silence
      BY <2>1
    <3>2. ASSUME NEW v \in Worker, WorkerExit(v) PROVE FALSE
      <4>1. v = w /\ proc[v] # "dead" /\ proc'[v] = "dead"
        BY <2>1, <2>2, <3>2 DEF WorkerExit, Alive, IsAlive, IInv, TypeOK
      <4> QED  BY <4>1
    <3>3. ASSUME NEW v \in Worker, OnWorkerMessage(v) PROVE FALSE
      BY <2>1, <2>2, <3>3 DEF OnWorkerMessage, monitorVars
    <3>4. ASSUME NEW v \in Worker,
                 WorkerOnline(v) \/ StartReporting(v) \/ Block(v) \/ Beat(v) \/ StopReporting(v)
          PROVE  FALSE
      BY <3>1, <3>4
         DEF WorkerOnline, StartReporting, Block, Beat, StopReporting, monitorVars
    <3>5. ~(RestartForks \/ FleetDegrades \/ Uninstall \/ UNCHANGED vars)
      BY <3>1 DEF RestartForks, FleetDegrades, Uninstall, vars, monitorVars
    <3>6. ~Shutdown
      BY DEF Shutdown
    <3>7. ~Tick
      BY <2>1, <2>2 DEF Tick, Older
    <3> QED  BY <3>2, <3>3, <3>4, <3>5, <3>6, <3>7 DEF Next
  <2>4. IsWedged(w)
    BY <2>1, <2>3 DEF WedgedWatch
  <2> QED  BY <2>1, <2>2, <2>3, <2>4 DEF IInv, ClockInv, IsWedged, WedgedWatch, TypeOK
<1>2. IInv /\ [Next]_vars =>
        [\A w \in Registered \ Registered' :
           proc'[w] = proc[w] /\ ~shuttingDown' =>
             \/ w \in marked
             \/ sinceBeat[w] > WedgedTimeoutMs
             \/ inflight[w] + HeartbeatMs > WedgedTimeoutMs]_vars
  BY <1>1
<1> QED  BY <1>2, Invariance, PTL DEF Spec, WedgedWasBlocked
=============================================================================
