------------------------------ MODULE Monitoring ------------------------------
(***************************************************************************)
(* Health of the workers as the primary sees it: the beats of the workers, *)
(* the registry and the one-shots of HealthMonitor, the recycles they      *)
(* trigger, the degradation alarm of the Orchestrator, and the per-worker  *)
(* samples of the two metrics exporters.                                   *)
(*                                                                         *)
(* One Tick is one unit of time; ages and countdowns stand for the clock.  *)
(* Timers of the primary are on time and a report reaches it within the    *)
(* unit it was sent in, unless its worker exits first: the report is then  *)
(* read any time later.  What the restart engine does is reduced to one    *)
(* fork per missing worker (module Fleet has the rest).  Ids are never     *)
(* used again.                                                             *)
(***************************************************************************)
EXTENDS Integers, FiniteSets

CONSTANTS
  Target,             \* resolveWorkerCount()
  MaxId,              \* bound on the workers ever forked
  MaxBlocked,         \* bound on the workers blocked at once
  HeartbeatMs,        \* health.heartbeatMs
  WedgedTimeoutMs,    \* health.wedgedTimeoutMs
  MaxEventLoopLagMs,  \* health.maxEventLoopLagMs
  LagRecycleBeats,    \* health.lagRecycleBeats
  LagSpikeMs,         \* health.lagSpikeMs
  DegradedAfterMs     \* health.degradedAfterMs

\* The checks of validateConfig(); every policy is switched on.
ASSUME ConfigAssumption ==
  /\ Target \in Nat \ {0} /\ MaxId \in Nat /\ Target <= MaxId
  /\ MaxBlocked \in Nat
  /\ HeartbeatMs \in Nat \ {0}
  /\ WedgedTimeoutMs \in Nat /\ WedgedTimeoutMs >= 2 * HeartbeatMs
  /\ MaxEventLoopLagMs \in Nat \ {0}
  /\ LagRecycleBeats \in Nat \ {0}
  /\ LagSpikeMs \in Nat \ {0}
  /\ DegradedAfterMs \in Nat \ {0}

VARIABLES
  proc,          \* of each worker: unborn, booting, online (no report yet),
                 \* reporting, closing (its drain stopped the beats) or dead
  blocked,       \* workers whose event loop does not run
  sinceBeat,     \* time since a worker's last beat, saturating at LongAgo
  inflight,      \* lag told by the report on its way from a worker, or Nothing
  nextId,        \* id of the next fork
  marked,        \* recyclingWorkerIds
  silence,       \* registry: time since the last report, or Unregistered
  rssRecycled, lagRecycled, lagBeats, exitedWorkerIds,
  watchIn,       \* time to the next run of the wedged watch
  exported,      \* workers in lastReports (prometheus), in workerHealth (otlp)
  degradedIn,    \* time left on degradedTimer, or Off
  fleetDegraded,
  shuttingDown,
  declined,      \* history: workers the wedged watch dropped without a
                 \* replacement, that have not reported since
  belowFor       \* history: time the fleet has been below its target

workerVars  == <<proc, blocked, sinceBeat, nextId, marked>>
monitorVars == <<silence, rssRecycled, lagRecycled, lagBeats, exitedWorkerIds, exported>>
alarmVars   == <<degradedIn, fleetDegraded, belowFor>>
vars == <<workerVars, inflight, monitorVars, watchIn, alarmVars, shuttingDown, declined>>

Worker       == 1..MaxId
Off          == -1
Unregistered == -1
LongAgo      == WedgedTimeoutMs + 2 * HeartbeatMs
Nothing      == -1

IsAlive(p) == p \notin {"unborn", "dead"}
Alive      == {w \in Worker : IsAlive(proc[w])}
Active     == Cardinality(Alive)
Registered == {w \in Worker : silence[w] # Unregistered}

TypeOK ==
  /\ proc \in [Worker -> {"unborn", "booting", "online", "reporting", "closing", "dead"}]
  /\ blocked \subseteq Alive
  /\ sinceBeat \in [Worker -> 0..LongAgo]
  /\ inflight \in [Worker -> {Nothing} \cup 0..LongAgo]
  /\ nextId \in 1..(MaxId + 1)
  /\ marked \subseteq Alive
  /\ silence \in [Worker -> {Unregistered} \cup 0..LongAgo]
  /\ rssRecycled \subseteq Worker /\ lagRecycled \subseteq Worker
  /\ lagBeats \in [Worker -> 0..(LagRecycleBeats - 1)]
  /\ exitedWorkerIds \subseteq Worker /\ exported \subseteq Worker
  /\ watchIn \in 0..WedgedTimeoutMs
  /\ degradedIn \in {Off} \cup 0..DegradedAfterMs
  /\ fleetDegraded \in BOOLEAN /\ shuttingDown \in BOOLEAN
  /\ declined \subseteq Worker
  /\ belowFor \in 0..(DegradedAfterMs + 1)

Init ==
  /\ proc = [w \in Worker |-> IF w <= Target THEN "booting" ELSE "unborn"]
  /\ blocked = {} /\ sinceBeat = [w \in Worker |-> 0]
  /\ inflight = [w \in Worker |-> Nothing]
  /\ nextId = Target + 1 /\ marked = {}
  /\ silence = [w \in Worker |-> Unregistered]
  /\ rssRecycled = {} /\ lagRecycled = {} /\ lagBeats = [w \in Worker |-> 0]
  /\ exitedWorkerIds = {} /\ exported = {}
  /\ watchIn = HeartbeatMs
  /\ degradedIn = Off /\ fleetDegraded = FALSE /\ belowFor = 0
  /\ shuttingDown = FALSE /\ declined = {}
-----------------------------------------------------------------------------
\* The processes after "n" forks.
AfterForks(n) ==
  [w \in Worker |-> IF w >= nextId /\ w < nextId + n THEN "booting" ELSE proc[w]]

\* History: a fleet at its target has not been below it.
ForgetShortfall(active) == belowFor' = IF active >= Target THEN 0 ELSE belowFor

\* Mutants of the next definition.
RecomputeKeepsTheTimer(active) ==
  \/ /\ shuttingDown
     /\ UNCHANGED <<degradedIn, fleetDegraded>>
  \/ /\ ~shuttingDown
     /\ fleetDegraded' = (fleetDegraded /\ active < Target)
     /\ degradedIn' = IF active < Target /\ ~fleetDegraded /\ degradedIn = Off
                      THEN DegradedAfterMs ELSE degradedIn
RecomputeAllowsOneMissing(active) ==
  \/ /\ shuttingDown
     /\ UNCHANGED <<degradedIn, fleetDegraded>>
  \/ /\ ~shuttingDown /\ active + 1 >= Target
     /\ degradedIn' = Off
     /\ fleetDegraded' = FALSE
  \/ /\ ~shuttingDown /\ active + 1 < Target
     /\ degradedIn' = IF fleetDegraded \/ degradedIn # Off THEN degradedIn
                                                           ELSE DegradedAfterMs
     /\ UNCHANGED fleetDegraded

\* recomputeFleetHealth(), with metrics.activeWorkers at that point.
RecomputeFleetHealth(active) ==
  \/ /\ shuttingDown
     /\ UNCHANGED <<degradedIn, fleetDegraded>>
  \/ /\ ~shuttingDown /\ active >= Target
     /\ degradedIn' = Off
     /\ fleetDegraded' = FALSE
  \/ /\ ~shuttingDown /\ active < Target
     /\ degradedIn' = IF fleetDegraded \/ degradedIn # Off THEN degradedIn
                                                           ELSE DegradedAfterMs
     /\ UNCHANGED fleetDegraded

\* Mutant of the next definition.
RecycleMarkedToo(candidates) ==
  \E forked \in SUBSET candidates :
    /\ nextId + Cardinality(forked) <= MaxId + 1
    /\ marked' = marked \cup forked
    /\ proc' = AfterForks(Cardinality(forked))
    /\ nextId' = nextId + Cardinality(forked)
    /\ ForgetShortfall(Active + Cardinality(forked))

(***************************************************************************)
(* triggerWorkerRecycle() for every candidate in turn: one that is marked  *)
(* already is left alone, one whose replacement cannot be forked is left   *)
(* running, unmarked.                                                      *)
(***************************************************************************)
TriggerWorkerRecycle(candidates) ==
  \E forked \in SUBSET (candidates \ marked) :
    /\ nextId + Cardinality(forked) <= MaxId + 1
    /\ marked' = marked \cup forked
    /\ proc' = AfterForks(Cardinality(forked))
    /\ nextId' = nextId + Cardinality(forked)
    /\ ForgetShortfall(Active + Cardinality(forked))
-----------------------------------------------------------------------------
\* The restart engine forks for a missing worker.
RestartForks ==
  /\ ~shuttingDown /\ nextId <= MaxId
  /\ Cardinality(Alive \ marked) < Target
  /\ proc' = AfterForks(1)
  /\ nextId' = nextId + 1
  /\ ForgetShortfall(Active + 1)
  /\ UNCHANGED <<blocked, sinceBeat, marked, inflight, monitorVars, watchIn,
                 degradedIn, fleetDegraded, shuttingDown, declined>>

WorkerOnline(w) ==
  /\ proc[w] = "booting"
  /\ proc' = [proc EXCEPT ![w] = "online"]
  /\ RecomputeFleetHealth(Active)
  /\ UNCHANGED <<blocked, sinceBeat, nextId, marked, inflight, monitorVars, watchIn,
                 belowFor, shuttingDown, declined>>

\* startWorkerReporting() arms the beat timer.
StartReporting(w) ==
  /\ proc[w] = "online"
  /\ proc' = [proc EXCEPT ![w] = "reporting"]
  /\ UNCHANGED <<blocked, sinceBeat, nextId, marked, inflight, monitorVars, watchIn,
                 alarmVars, shuttingDown, declined>>

BeatDue(w) == proc[w] = "reporting" /\ w \notin blocked /\ sinceBeat[w] >= HeartbeatMs

\* The event loop of a reporting worker blocks, or runs again (and then fires a
\* beat that is due before it can block again).
Block(w) ==
  /\ proc[w] = "reporting"
  /\ \/ /\ w \notin blocked /\ ~BeatDue(w) /\ Cardinality(blocked) < MaxBlocked
        /\ blocked' = blocked \cup {w}
     \/ w \in blocked /\ blocked' = blocked \ {w}
  /\ UNCHANGED <<proc, sinceBeat, nextId, marked, inflight, monitorVars, watchIn,
                 alarmVars, shuttingDown, declined>>

\* One beat: the lag is how late the timer fired.  (The rss it also tells is
\* arbitrary, and chosen when the report is read.)
Beat(w) ==
  /\ BeatDue(w) /\ inflight[w] = Nothing
  /\ inflight' = [inflight EXCEPT ![w] = sinceBeat[w] - HeartbeatMs]
  /\ sinceBeat' = [sinceBeat EXCEPT ![w] = 0]
  /\ UNCHANGED <<proc, blocked, nextId, marked, monitorVars, watchIn, alarmVars,
                 shuttingDown, declined>>

\* handleShutdown() in a recycled worker stops its beats first.
StopReporting(w) ==
  /\ w \in marked \ blocked /\ proc[w] = "reporting"
  /\ proc' = [proc EXCEPT ![w] = "closing"]
  /\ sinceBeat' = [sinceBeat EXCEPT ![w] = 0]
  /\ UNCHANGED <<blocked, nextId, marked, inflight, monitorVars, watchIn,
                 alarmVars, shuttingDown, declined>>

\* The exporters keep the last report of a worker, until it exits.
RecordSample(w) == exported' = exported \cup {w}
ClearSample(w)  == exported' = exported \ {w}

\* The 'exit' event: the Orchestrator re-evaluates the fleet, the monitor and
\* the exporters forget the worker.  A report it left behind is never judged
\* (it is dropped, or read in a shutdown), so what it says does not matter.
WorkerExit(w) ==
  /\ w \in Alive
  /\ proc' = [proc EXCEPT ![w] = "dead"]
  /\ blocked' = blocked \ {w}
  /\ sinceBeat' = [sinceBeat EXCEPT ![w] = 0]
  /\ marked' = marked \ {w}
  /\ RecomputeFleetHealth(Active - 1)
  /\ exitedWorkerIds' = exitedWorkerIds \cup {w}
  /\ silence' = [silence EXCEPT ![w] = Unregistered]
  /\ rssRecycled' = rssRecycled \ {w}
  /\ lagRecycled' = lagRecycled \ {w}
  /\ lagBeats' = [lagBeats EXCEPT ![w] = 0]
  /\ ClearSample(w)
  /\ inflight' = [inflight EXCEPT ![w] = IF @ = Nothing THEN Nothing ELSE 0]
  /\ declined' = declined \ {w}
  /\ UNCHANGED <<nextId, watchIn, belowFor, shuttingDown>>
-----------------------------------------------------------------------------
\* Mutant of the next definition.
NeverStale(w) == FALSE

\* Reports of a worker that has exited are dropped.
Stale(w) == w \in exitedWorkerIds

\* checkRssLimit(): does a report with an rss above the limit, or not, trigger
\* a recycle?
RssFires(w, aboveLimit) == ~shuttingDown /\ w \notin rssRecycled /\ aboveLimit

\* checkLagLimit(): the same for its lag.
LagFires(w) ==
  /\ ~shuttingDown /\ w \notin lagRecycled
  /\ \/ inflight[w] > LagSpikeMs
     \/ inflight[w] > MaxEventLoopLagMs /\ lagBeats[w] + 1 >= LagRecycleBeats

LagIgnored(w) == shuttingDown \/ w \in lagRecycled

\* Mutant of the next definition.
BeatsCountedPastTheLimit(w) ==
  CASE LagIgnored(w) -> lagBeats[w]
    [] ~LagIgnored(w) /\ inflight[w] <= MaxEventLoopLagMs -> 0
    [] ~LagIgnored(w) /\ inflight[w] > MaxEventLoopLagMs -> lagBeats[w] + 1

\* The consecutive late beats after this report.
BeatsAfter(w) ==
  CASE LagIgnored(w) -> lagBeats[w]
    [] ~LagIgnored(w) /\ (LagFires(w) \/ inflight[w] <= MaxEventLoopLagMs) -> 0
    [] ~LagIgnored(w) /\ ~LagFires(w) /\ inflight[w] > MaxEventLoopLagMs -> lagBeats[w] + 1

\* onWorkerMessage(): the report is registered and exported, then rss and lag
\* are judged; both may ask for the recycle.
OnWorkerMessage(w) ==
  /\ inflight[w] # Nothing
  /\ inflight' = [inflight EXCEPT ![w] = Nothing]
  /\ \/ /\ Stale(w)
        /\ UNCHANGED <<proc, nextId, marked, monitorVars, belowFor, declined>>
     \/ /\ ~Stale(w)
        /\ silence' = [silence EXCEPT ![w] = 0]
        /\ declined' = declined \ {w}
        /\ RecordSample(w)
        /\ \E aboveLimit \in BOOLEAN :
             /\ rssRecycled' = IF RssFires(w, aboveLimit) THEN rssRecycled \cup {w} ELSE rssRecycled
             /\ IF RssFires(w, aboveLimit) \/ LagFires(w)
                THEN TriggerWorkerRecycle({w})
                ELSE UNCHANGED <<proc, nextId, marked, belowFor>>
        /\ lagRecycled' = IF LagFires(w) THEN lagRecycled \cup {w} ELSE lagRecycled
        /\ lagBeats' = [lagBeats EXCEPT ![w] = BeatsAfter(w)]
        /\ UNCHANGED exitedWorkerIds
  /\ UNCHANGED <<blocked, sinceBeat, watchIn, degradedIn, fleetDegraded, shuttingDown>>

\* Mutant of the next definition.
SilentForABeat(w) == silence[w] > HeartbeatMs

\* A registered worker the watch takes for wedged.
IsWedged(w) == silence[w] > WedgedTimeoutMs

\* Mutant of the next definition.
WatchPeriodTooLong == WedgedTimeoutMs

\* The watch runs at the pace of the beats.
WatchPeriod == HeartbeatMs

\* The wedged watch drops every silent worker from the registry and asks for
\* its recycle.
WedgedWatch ==
  /\ ~shuttingDown /\ watchIn = 0
  /\ watchIn' = WatchPeriod
  /\ silence' = [w \in Worker |-> IF IsWedged(w) THEN Unregistered ELSE silence[w]]
  /\ TriggerWorkerRecycle({w \in Worker : IsWedged(w)})
  /\ declined' = declined \cup ({w \in Worker : IsWedged(w)} \ marked')
  /\ UNCHANGED <<blocked, sinceBeat, inflight, rssRecycled, lagRecycled, lagBeats,
                 exitedWorkerIds, exported, degradedIn, fleetDegraded, shuttingDown>>

\* degradedTimer fires: fleet:degraded is emitted, whatever the capacity is now.
FleetDegrades ==
  /\ degradedIn = 0
  /\ degradedIn' = Off
  /\ fleetDegraded' = TRUE
  /\ UNCHANGED <<workerVars, inflight, monitorVars, watchIn, belowFor, shuttingDown, declined>>

\* shutdownPrimary(): HealthMonitor.stop() (which leaves the lag state alone),
\* stopRecycling(), and the alarm is cleared.  (Beats are not modelled from then
\* on, so that what leads to them is forgotten.)
Shutdown ==
  /\ ~shuttingDown
  /\ shuttingDown' = TRUE
  /\ silence' = [w \in Worker |-> Unregistered]
  /\ rssRecycled' = {}
  /\ exitedWorkerIds' = {}
  /\ marked' = {}
  /\ degradedIn' = Off
  /\ fleetDegraded' = FALSE
  /\ blocked' = {} /\ sinceBeat' = [w \in Worker |-> 0]
  /\ watchIn' = HeartbeatMs /\ belowFor' = 0
  /\ declined' = {}
  /\ UNCHANGED <<proc, nextId, inflight, lagRecycled, lagBeats, exported>>

\* uninstall() of the exporters, the workers being gone: their listeners and
\* those maps are cleared.  (No report is exported after it.)
Uninstall ==
  /\ shuttingDown /\ Alive = {} /\ exported # {}
  /\ exported' = {}
  /\ inflight' = [w \in Worker |-> Nothing]
  /\ UNCHANGED <<workerVars, silence, rssRecycled, lagRecycled, lagBeats, exitedWorkerIds,
                 watchIn, alarmVars, shuttingDown, declined>>

Older(age, cap) == IF age < cap THEN age + 1 ELSE age

\* Time advances when nothing is due.  Nothing timed is left in a shutdown.
Tick ==
  /\ ~shuttingDown /\ watchIn > 0 /\ degradedIn # 0
  /\ \A w \in Alive : ~BeatDue(w) /\ inflight[w] = Nothing
  /\ watchIn' = watchIn - 1
  /\ degradedIn' = IF degradedIn = Off THEN Off ELSE degradedIn - 1
  /\ sinceBeat' = [w \in Worker |-> IF proc[w] = "reporting" THEN Older(sinceBeat[w], LongAgo)
                                                             ELSE sinceBeat[w]]
  /\ silence' = [w \in Worker |-> IF w \in Registered THEN Older(silence[w], LongAgo)
                                                      ELSE Unregistered]
  /\ belowFor' = IF Active < Target THEN Older(belowFor, DegradedAfterMs + 1) ELSE 0
  /\ UNCHANGED <<proc, blocked, nextId, marked, inflight, rssRecycled, lagRecycled, lagBeats,
                 exitedWorkerIds, exported, fleetDegraded, shuttingDown, declined>>

\* (Of the workers, only what ends them is kept in a shutdown.)
Next ==
  \/ /\ ~shuttingDown
     /\ \E w \in Worker : \/ WorkerOnline(w)
                          \/ StartReporting(w)
                          \/ Block(w)
                          \/ Beat(w)
                          \/ StopReporting(w)
  \/ \E w \in Worker : WorkerExit(w) \/ OnWorkerMessage(w)
  \/ RestartForks
  \/ WedgedWatch
  \/ FleetDegrades
  \/ Shutdown
  \/ Uninstall
  \/ Tick

Spec == Init /\ [][Next]_vars

-----------------------------------------------------------------------------
\* The watch (health-monitor.ts:148-155) never takes a worker that runs for a
\* wedged one: whatever the order of beats, watch and recycles, a worker it
\* drops from the registry has not beaten for longer than the timeout (its next
\* report, that late, may just be on its way), or is being replaced already.
WedgedWasBlocked ==
  [][\A w \in Registered \ Registered' :
       proc'[w] = proc[w] /\ ~shuttingDown' =>
         \/ w \in marked
         \/ sinceBeat[w] > WedgedTimeoutMs
         \/ inflight[w] + HeartbeatMs > WedgedTimeoutMs]_vars

\* The three policies (and two of them in one report) fork one replacement for
\* a worker between them: outside of a shutdown the fleet never settles above
\* its target (orchestrator.ts:792, worker-manager.ts:163).
SettledWithinTarget == shuttingDown \/ Cardinality(Alive \ marked) <= Target

\* Nothing is kept of a worker that has exited, although its last report may
\* be read after its exit: no registry entry, no one-shot, no lag count, no
\* exported sample (health-monitor.ts:72, 159-165).  The list of exited ids is
\* itself cleared when a shutdown begins.
NothingKeptOfTheDead ==
  shuttingDown \/ /\ Registered \cup rssRecycled \cup lagRecycled \cup exported \subseteq Alive
                  /\ \A w \in Worker : lagBeats[w] > 0 => w \in Alive

\* A worker that reported once and then blocks is being replaced one run of the
\* watch after the timeout at the latest, even if it reports in between, rss
\* and lag are judged, or other workers come and go.  The exception, of that
\* worker only: a replacement that could not be forked is not tried again until
\* the worker reports (the comment at orchestrator.ts:789-790).
BlockedIsReplaced ==
  shuttingDown \/
    \A w \in exported \ (marked \cup declined) :
      sinceBeat[w] <= WedgedTimeoutMs + HeartbeatMs

\* A shortfall that lasts is flagged: no sequence of exits, boots and forks
\* puts the alarm off (orchestrator.ts:768-775).
MissingCapacityIsFlagged ==
  shuttingDown \/ fleetDegraded \/ belowFor <= DegradedAfterMs

\* The alarm is on or armed only while a worker is missing or still booting.
\* (Not only while one is missing: a fork brings activeWorkers back to the
\* target, but the alarm is looked at again only when the worker is online.)
AlarmIsAboutMissing ==
  fleetDegraded \/ degradedIn # Off =>
    Active < Target \/ \E w \in Worker : proc[w] = "booting"
=============================================================================
