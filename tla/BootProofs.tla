------------------------------- MODULE BootProofs -------------------------------
(***************************************************************************)
(* Theorems about the start and the end of a primary, for every set of     *)
(* hosts (whatever the environment, the options and the plugins are) and   *)
(* every number of callbacks, forks and events.                            *)
(***************************************************************************)
EXTENDS Boot, SequenceTheorems, FiniteSetTheorems, WellFoundedInduction, TLAPS

Counters ==
  /\ plugins \in Seq(Plugin)
  /\ installed \in 0..Len(plugins) /\ rolledBack \in 0..installed
  /\ tornDown \in 0..Len(plugins)
  /\ ran \in 0..Callbacks

\* A primary that has forked listens to signals until its shutdown.
HandlersInv ==
  /\ stage = "forking" => hasForked
  /\ hasForked /\ shutdown = "no" => handlers
  /\ ~hasForked => forks = <<>>

\* What run() did with the plugins, by how far it came.
StageInv ==
  /\ stage \in {"rejected", "new"} => installed = 0
  /\ stage \in {"rejected", "new", "installing"} => rolledBack = 0
  /\ stage \in {"rejected", "new", "installing", "rollback"} => ~hasForked
  /\ hasForked => installed = Len(plugins) /\ rolledBack = 0
  /\ stage = "failed" /\ ~hasForked => rolledBack = installed

\* What the shutdown has done, by its phase.
PhaseInv ==
  /\ shutdown # "no" /\ ~early => hasForked
  /\ shutdown \in {"no", "workers", "callbacks"} => tornDown = 0
  /\ shutdown \in {"uninstalling", "complete"} => ran = Callbacks
  /\ shutdown = "complete" /\ ~early => tornDown = Len(plugins)

LifeInv ==
  /\ Counters
  /\ HandlersInv
  /\ StageInv
  /\ PhaseInv
  /\ KilledOnlyUnmanned
  /\ CleanExitIsComplete

LEMMA LifeInit == Init => LifeInv
BY StartupAssumption
   DEF Init, StartupInit, LifeInv, Counters, HandlersInv, StageInv, PhaseInv,
       KilledOnlyUnmanned, CleanExitIsComplete

\* Without forks nobody is alive.
LEMMA NobodyAlive == forks = <<>> => Workers = {} /\ Alive = {}
BY DEF Workers, Alive

\* The variables of LifeInv; what leaves them unchanged keeps it.
lifeVars == <<runVars, pluginVars, hasForked, handlers, forks, shutdownVars, ended>>

LEMMA LifeFrame == LifeInv /\ UNCHANGED lifeVars => LifeInv'
BY DEF LifeInv, Counters, HandlersInv, StageInv, PhaseInv, KilledOnlyUnmanned,
       CleanExitIsComplete, Workers, Alive, lifeVars, runVars, pluginVars, shutdownVars

\* run(), from the registration of the plugins to the first fork.
LEMMA LifeInstall ==
  ASSUME LifeInv,
         \/ \E p \in Plugin : Use(p)
         \/ Run \/ InstallSizing \/ InstallPrometheus \/ InstallUser \/ InstallFails
         \/ Rollback \/ StartPrimary
  PROVE  LifeInv'
<1> USE DEF LifeInv, Counters, HandlersInv, StageInv, PhaseInv, Turn,
            runVars, pluginVars, shutdownVars
<1>0. ended = "no" /\ ended' = ended
  BY DEF Use, Run, InstallSizing, InstallPrometheus, InstallUser, InstallFails, Rollback,
         StartPrimary, Installing
<1>1. KilledOnlyUnmanned' /\ CleanExitIsComplete'
  BY <1>0 DEF KilledOnlyUnmanned, CleanExitIsComplete
<1>2. ASSUME NEW p \in Plugin, Use(p) PROVE LifeInv'
  BY <1>1, <1>2 DEF Use
<1>3. CASE Run
  BY <1>1, <1>3 DEF Run
<1>4. CASE InstallSizing \/ InstallPrometheus \/ InstallUser
  <2>1. /\ stage = "installing" /\ installed < Len(plugins) /\ installed' = installed + 1
        /\ UNCHANGED <<stage, plugins, rolledBack, tornDown, hasForked, handlers, forks,
                       shutdown, early, ran>>
    BY <1>4 DEF InstallSizing, InstallPrometheus, InstallUser, Installing
  <2> QED  BY <1>1, <2>1
<1>5. CASE InstallFails
  BY <1>1, <1>5 DEF InstallFails, Installing
<1>6. CASE Rollback
  BY <1>1, <1>6 DEF Rollback, RollbackFrom
<1>7. CASE StartPrimary
  BY <1>1, <1>7 DEF StartPrimary, RegisterSignalHandlers
<1> QED  BY <1>2, <1>3, <1>4, <1>5, <1>6, <1>7

\* The workers come and go.
LEMMA LifeFleet ==
  ASSUME LifeInv,
         \/ ForkInitial \/ ForkInitialFails \/ Started \/ ForkAnew
         \/ \E w \in Workers : WorkerOnline(w) \/ WorkerExit(w)
  PROVE  LifeInv'
<1> USE DEF LifeInv, Counters, HandlersInv, StageInv, PhaseInv, Turn,
            runVars, pluginVars, shutdownVars
<1>0. ended = "no" /\ ended' = ended
  BY DEF ForkInitial, ForkInitialFails, Started, ForkAnew, WorkerOnline, WorkerExit
<1>1. KilledOnlyUnmanned' /\ CleanExitIsComplete'
  BY <1>0 DEF KilledOnlyUnmanned, CleanExitIsComplete
<1>2. hasForked
  <2>1. ASSUME NEW w \in Workers PROVE hasForked
    BY NobodyAlive
  <2> QED  BY <2>1 DEF ForkInitial, ForkInitialFails, Started, ForkAnew
<1>3. UNCHANGED <<plugins, installed, rolledBack, tornDown, hasForked, handlers,
                  shutdown, early, ran>>
  BY DEF ForkInitial, ForkInitialFails, Started, ForkAnew, WorkerOnline, WorkerExit
<1>4. stage' = stage \/ stage' \in {"failed", "running"}
  BY DEF ForkInitial, ForkInitialFails, Started, ForkAnew, WorkerOnline, WorkerExit
<1> QED  BY <1>1, <1>2, <1>3, <1>4

\* shutdownPrimary() and the end of the process.
LEMMA LifeShutdown ==
  ASSUME LifeInv,
         \/ SignalKills \/ ShutdownPrimary \/ WorkersGone \/ CallbackSettles
         \/ UninstallNext \/ Hangs \/ FailsafeFires \/ LoopDrains
  PROVE  LifeInv'
<1> USE DEF LifeInv, Counters, HandlersInv, StageInv, PhaseInv, Turn,
            runVars, pluginVars, shutdownVars
<1>1. CASE SignalKills
  <2>1. shutdown = "no" => Alive = {}
    BY <1>1, NobodyAlive DEF SignalKills
  <2>2. Alive' = Alive
    BY <1>1 DEF SignalKills, Alive, Workers
  <2> QED  BY <1>1, <2>1, <2>2 DEF SignalKills, KilledOnlyUnmanned, CleanExitIsComplete
<1>2. CASE ShutdownPrimary
  BY <1>2 DEF ShutdownPrimary, KilledOnlyUnmanned, CleanExitIsComplete
<1>3. CASE WorkersGone
  BY <1>3 DEF WorkersGone, KilledOnlyUnmanned, CleanExitIsComplete
<1>4. CASE CallbackSettles
  BY <1>4, StartupAssumption DEF CallbackSettles, KilledOnlyUnmanned, CleanExitIsComplete
<1>5. CASE UninstallNext
  BY <1>5 DEF UninstallNext, UninstallFrom, KilledOnlyUnmanned, CleanExitIsComplete
<1>6. CASE Hangs
  BY <1>6 DEF Hangs, KilledOnlyUnmanned, CleanExitIsComplete
<1>7. CASE FailsafeFires
  BY <1>7 DEF FailsafeFires, KilledOnlyUnmanned, CleanExitIsComplete
<1>8. CASE LoopDrains
  <2>1. Alive' = Alive
    BY <1>8 DEF LoopDrains, Alive, Workers
  <2> QED  BY <1>8, <2>1 DEF LoopDrains, KilledOnlyUnmanned, CleanExitIsComplete
<1> QED  BY <1>1, <1>2, <1>3, <1>4, <1>5, <1>6, <1>7, <1>8

LEMMA LifeStep == LifeInv /\ [Next]_vars => LifeInv'
<1> SUFFICES ASSUME LifeInv, [Next]_vars PROVE LifeInv'
  OBVIOUS
<1>1. CASE PrimaryStep
  <2>1. ASSUME NEW n \in 1..MaxForks, OverrideWorkerCount(n) PROVE LifeInv'
    BY <2>1, LifeFrame DEF OverrideWorkerCount, lifeVars
  <2>2. CASE PatchWorkerEnv
    BY <2>2, LifeFrame DEF PatchWorkerEnv, lifeVars
  <2> QED  BY <1>1, <2>1, <2>2, LifeInstall, LifeFleet, LifeShutdown, Zenon DEF PrimaryStep
<1>2. CASE PluginStep
  BY <1>2, LifeInstall, LifeShutdown, Zenon DEF PluginStep
<1>3. CASE FleetStep
  BY <1>3, LifeFleet, Zenon DEF FleetStep
<1>4. CASE ScrapeStep \/ WorkerStep \/ UNCHANGED vars
  <2>1. UNCHANGED startupVars
    BY <1>4, Zenon DEF ScrapeStep, WorkerStep, vars
  <2> QED  BY <2>1, LifeFrame DEF startupVars, lifeVars
<1> QED  BY <1>1, <1>2, <1>3, <1>4 DEF Next

LEMMA LifeHolds == Spec => []LifeInv
BY LifeInit, LifeStep, PTL DEF Spec

\* A first signal never orphans a fleet: the handlers are there before the first
\* fork and until a shutdown begins.
THEOREM NeverOrphaned == Spec => []KilledOnlyUnmanned
<1>1. LifeInv => KilledOnlyUnmanned
  BY DEF LifeInv
<1> QED  BY <1>1, LifeHolds, PTL

\* An exit by itself after a shutdown of a fleet is a complete one.
THEOREM CleanExits == Spec => []CleanExitIsComplete
<1>1. LifeInv => CleanExitIsComplete
  BY DEF LifeInv
<1> QED  BY <1>1, LifeHolds, PTL

\* Every installed plugin is uninstalled once and no other is, whether an
\* install() fails or the fleet is shut down.
THEOREM InstallsAreBalanced == Spec => []PluginsBalanced
<1>1. LifeInv => PluginsBalanced
  BY DEF LifeInv, Counters, HandlersInv, StageInv, PhaseInv, PluginsBalanced
<1> QED  BY <1>1, LifeHolds, PTL
-----------------------------------------------------------------------------
(***************************************************************************)
(* The scrapes.  Of Without the proofs only use what WithoutOne says: what  *)
(* remains of the collections when one ends are some of those that ran.    *)
(***************************************************************************)
FreshInv ==
  /\ events \in Nat /\ mergedMetricsCache \in Int /\ collecting \in Seq(Nat)
  /\ quiet => \A i \in 1..Len(collecting) : collecting[i] = events
  /\ FreshAfterQuietEvent

LEMMA WithoutOne ==
  ASSUME NEW s \in Seq(Nat), NEW i \in 1..Len(s)
  PROVE  /\ Without(s, i) \in Seq(Nat)
         /\ \A k \in 1..Len(Without(s, i)) : \E j \in 1..Len(s) : Without(s, i)[k] = s[j]
<1> DEFINE before == SubSeq(s, 1, i - 1)
           after  == SubSeq(s, i + 1, Len(s))
<1>1. /\ before \in Seq(Nat) /\ Len(before) = i - 1
      /\ \A k \in 1..(i - 1) : before[k] = s[k]
  OBVIOUS
<1>2. /\ after \in Seq(Nat) /\ Len(after) = Len(s) - i
      /\ \A k \in 1..(Len(s) - i) : after[k] = s[i + k]
  OBVIOUS
<1> HIDE DEF before, after
<1>3. /\ before \o after \in Seq(Nat)
      /\ Len(before \o after) = Len(before) + Len(after)
      /\ \A k \in 1..Len(before) + Len(after) :
           (before \o after)[k] = IF k <= Len(before) THEN before[k] ELSE after[k - Len(before)]
  BY <1>1, <1>2, ConcatProperties, Zenon
<1>4. ASSUME NEW k \in 1..Len(before \o after)
      PROVE  \E j \in 1..Len(s) : (before \o after)[k] = s[j]
  <2>1. CASE k <= i - 1
    BY <1>1, <1>2, <1>3, <2>1
  <2>2. CASE k > i - 1
    <3>1. k - (i - 1) \in 1..(Len(s) - i)
      BY <1>1, <1>2, <1>3, <2>2
    <3>2. (before \o after)[k] = after[k - (i - 1)]
      BY <1>1, <1>2, <1>3, <2>2
    <3>3. after[k - (i - 1)] = s[i + (k - (i - 1))] /\ i + (k - (i - 1)) \in 1..Len(s)
      BY <1>2, <3>1
    <3> QED  BY <3>2, <3>3
  <2>3. k <= i - 1 \/ k > i - 1
    OBVIOUS
  <2> QED  BY <2>1, <2>2, <2>3, Zenon
<1>5. \A k \in 1..Len(before \o after) : \E j \in 1..Len(s) : (before \o after)[k] = s[j]
  BY <1>4
<1> QED  BY <1>3, <1>5, Zenon DEF Without, before, after

LEMMA FreshInit == Init => FreshInv
BY DEF Init, ScrapeInit, FreshInv, FreshAfterQuietEvent, NoValue

LEMMA FreshStep == FreshInv /\ [Next]_vars => FreshInv'
<1> SUFFICES ASSUME FreshInv, [Next]_vars PROVE FreshInv'
  OBVIOUS
<1> USE DEF FreshInv, FreshAfterQuietEvent
<1>1. CASE UNCHANGED scrapeVars
  BY <1>1 DEF scrapeVars
<1>2. ASSUME NEW now \in BOOLEAN, Listens(now) PROVE FreshInv'
  BY <1>2 DEF Listens, ClearMergedMetricsCache, NoValue
<1>3. CASE FleetEvent
  <2>1. ASSUME quiet' PROVE collecting' = <<>>
    BY <1>3, <2>1, Zenon DEF FleetEvent
  <2>2. listening' => mergedMetricsCache' = NoValue /\ ~inflightMetrics'
    BY <1>3 DEF FleetEvent, ClearMergedMetricsCache
  <2>3. mergedMetricsCache' \in Int /\ events' \in Nat /\ collecting' \in Seq(Nat)
    BY <1>3 DEF FleetEvent, ClearMergedMetricsCache, NoValue
  <2> QED  BY <2>1, <2>2, <2>3
<1>4. CASE StartCollection
  <2>1. /\ collecting' = Append(collecting, events) /\ inflightMetrics'
        /\ UNCHANGED <<listening, events, mergedMetricsCache, quiet>>
    BY <1>4 DEF StartCollection
  <2> QED  BY <2>1
<1>5. ASSUME NEW i \in 1..Len(collecting), CollectionEnds(i) PROVE FreshInv'
  <2>1. /\ collecting' \in Seq(Nat)
        /\ \A k \in 1..Len(collecting') : \E j \in 1..Len(collecting) : collecting'[k] = collecting[j]
    BY <1>5, WithoutOne DEF CollectionEnds
  <2>2. /\ mergedMetricsCache' = (IF Caching THEN collecting[i] ELSE NoValue)
        /\ inflightMetrics' = FALSE
        /\ UNCHANGED <<listening, events, quiet>>
    BY <1>5 DEF CollectionEnds
  <2>3. collecting[i] \in Nat
    OBVIOUS
  <2> QED  BY <2>1, <2>2, <2>3 DEF NoValue
<1>6. CASE CacheExpires
  BY <1>6 DEF CacheExpires, NoValue
<1> QED
  BY <1>1, <1>2, <1>3, <1>4, <1>5, <1>6, Zenon
     DEF Next, PrimaryStep, PluginStep, FleetStep, ScrapeStep, WorkerStep, vars

\* A scrape of a listening plugin joins no collection that an event overtook, and
\* finds in the cache only what shows every event, unless a collection was running
\* at the last one.
THEOREM CacheIsFresh == Spec => []FreshAfterQuietEvent
<1>1. FreshInv => FreshAfterQuietEvent
  BY DEF FreshInv
<1> QED  BY <1>1, FreshInit, FreshStep, PTL DEF Spec
-----------------------------------------------------------------------------
(***************************************************************************)
(* The sockets.                                                            *)
(***************************************************************************)
\* What an undoubted probe of this kernel answers, and how one then listens.
TrueAnswer == IF Supports(host.platform) THEN "yes" ELSE "no"
TrueBind   == IF Supports(host.platform) THEN "direct" ELSE "shared"

AgreeInv ==
  /\ cachedReusePortSupport \in [Process -> Answer]
  /\ reusePort \in [Process -> Answer]
  /\ socket \in [Process -> {"none", "shared", "direct", "failed"}]
  /\ doubted \in BOOLEAN
  /\ ~doubted => \A w \in Process : /\ cachedReusePortSupport[w] \in {"unset", TrueAnswer}
                                    /\ reusePort[w] \in {"unset", TrueAnswer}
                                    /\ socket[w] \in {"none", TrueBind}

LEMMA AgreeInit == Init => AgreeInv
BY DEF Init, ReusePortInit, AgreeInv, Answer

LEMMA HostStays == [Next]_vars => host' = host
<1> SUFFICES ASSUME Next PROVE host' = host
  BY DEF vars, startupVars
<1>1. CASE PrimaryStep
  BY <1>1 DEF PrimaryStep, Use, OverrideWorkerCount, PatchWorkerEnv, Run, InstallSizing,
     InstallUser, InstallFails, StartPrimary, ForkInitial, ForkInitialFails, Started,
     SignalKills, ShutdownPrimary, WorkersGone, CallbackSettles, Hangs, FailsafeFires, LoopDrains
<1>2. CASE PluginStep
  BY <1>2 DEF PluginStep, InstallPrometheus, Rollback, UninstallNext
<1>3. CASE FleetStep
  BY <1>3 DEF FleetStep, WorkerOnline, WorkerExit, ForkAnew
<1>4. CASE ScrapeStep \/ WorkerStep
  BY <1>4 DEF ScrapeStep, WorkerStep, startupVars
<1> QED  BY <1>1, <1>2, <1>3, <1>4 DEF Next

LEMMA AgreeStep == AgreeInv /\ [Next]_vars => AgreeInv'
<1> SUFFICES ASSUME AgreeInv, [Next]_vars PROVE AgreeInv'
  OBVIOUS
<1>0. TrueAnswer' = TrueAnswer /\ TrueBind' = TrueBind /\ TrueAnswer \in Answer
  BY HostStays DEF TrueAnswer, TrueBind, Answer
<1>1. CASE UNCHANGED reusePortVars
  BY <1>0, <1>1 DEF AgreeInv, reusePortVars
<1>2. ASSUME NEW w, NEW caller, DetectReusePortSupport(w, caller, host.platform)
      PROVE  AgreeInv'
  <2>1. ~Probed(host.platform) => TrueAnswer = "no"
    BY DEF TrueAnswer, Supports
  <2>2. UNCHANGED <<socket, doubted>>
    BY <1>2 DEF DetectReusePortSupport
  <2>3. \/ UNCHANGED cachedReusePortSupport
        \/ /\ ~Probed(host.platform)
           /\ cachedReusePortSupport' = [cachedReusePortSupport EXCEPT ![w] = "no"]
    BY <1>2 DEF DetectReusePortSupport
  <2>4. \/ UNCHANGED reusePort
        \/ reusePort' = [reusePort EXCEPT ![w] = cachedReusePortSupport[w]]
        \/ ~Probed(host.platform) /\ reusePort' = [reusePort EXCEPT ![w] = "no"]
    BY <1>2 DEF DetectReusePortSupport, Resolved
  <2> QED  BY <1>0, <2>1, <2>2, <2>3, <2>4 DEF AgreeInv, Answer
<1>3. ASSUME NEW w, NEW outcome, ProbeSettles(w, outcome, host.platform) PROVE AgreeInv'
  <2> DEFINE answer == IF outcome = "both listen" THEN "yes" ELSE "no"
  <2>1. \/ UNCHANGED reusePort
        \/ reusePort' = [reusePort EXCEPT ![w] = answer]
    BY <1>3 DEF ProbeSettles, Resolved
  <2>2. \/ UNCHANGED cachedReusePortSupport
        \/ cachedReusePortSupport' = [cachedReusePortSupport EXCEPT ![w] = answer]
    BY <1>3 DEF ProbeSettles
  <2>3. socket' = socket
    BY <1>3 DEF ProbeSettles
  <2>4. /\ doubted' \in BOOLEAN
        /\ ~doubted' => ~doubted /\ answer = TrueAnswer
    BY <1>3 DEF ProbeSettles, TrueAnswer, AgreeInv
  <2>5. answer \in Answer
    BY DEF Answer
  <2> QED  BY <1>0, <2>1, <2>2, <2>3, <2>4, <2>5 DEF AgreeInv
<1>4. ASSUME NEW w, Listen(w, host.platform) PROVE AgreeInv'
  <2> DEFINE bind == BindOf(BuildListenOptions(reusePort[w]), host.platform)
  <2>1. /\ socket' = [socket EXCEPT ![w] = bind]
        /\ reusePort[w] # "unset"
        /\ UNCHANGED <<cachedReusePortSupport, reusePort, doubted>>
    BY <1>4 DEF Listen
  <2>2. bind \in {"shared", "direct", "failed"}
    BY DEF BindOf
  <2>3. ASSUME ~doubted, w \in Process PROVE bind = TrueBind
    <3>1. reusePort[w] = TrueAnswer /\ \A v \in Process : socket[v] \in {"none", TrueBind}
      BY <2>1, <2>3 DEF AgreeInv
    <3>2. CASE Supports(host.platform)
      <4>1. Bound("shared") = {}
        BY <3>1, <3>2 DEF Bound, TrueBind
      <4> QED  BY <3>1, <3>2, <4>1 DEF BindOf, BuildListenOptions, TrueAnswer, TrueBind
    <3>3. CASE ~Supports(host.platform)
      <4>1. Bound("direct") = {}
        BY <3>1, <3>3 DEF Bound, TrueBind
      <4> QED  BY <3>1, <3>3, <4>1 DEF BindOf, BuildListenOptions, TrueAnswer, TrueBind
    <3> QED  BY <3>2, <3>3
  <2> HIDE DEF bind
  <2> QED  BY <1>0, <2>1, <2>2, <2>3 DEF AgreeInv
<1>5. ASSUME NEW w, ProcessEnds(w) PROVE AgreeInv'
  BY <1>0, <1>5 DEF ProcessEnds, AgreeInv, Answer
<1> QED
  BY <1>1, <1>2, <1>3, <1>4, <1>5, Zenon
     DEF Next, PrimaryStep, PluginStep, FleetStep, ScrapeStep, WorkerStep, vars

\* However the probes of the workers race, no worker fails to listen on the port
\* of the fleet unless a probe of a kernel with SO_REUSEPORT did not say yes.
THEOREM BindsAgree == Spec => []BindFailsOnlyAfterDoubt
<1>1. AgreeInv => BindFailsOnlyAfterDoubt
  BY DEF AgreeInv, BindFailsOnlyAfterDoubt, TrueBind
<1> QED  BY <1>1, AgreeInit, AgreeStep, PTL DEF Spec
-----------------------------------------------------------------------------
(***************************************************************************)
(* The plan of the container sizing plugin.  StepDown is a recursive       *)
(* function: that it is defined, and where it stops, is shown by the least *)
(* element of a set of naturals.                                           *)
(***************************************************************************)
\* Every set of naturals has a least element.
LEMMA Least ==
  ASSUME NEW T, T \subseteq Nat, T # {}
  PROVE  \E x \in T : \A y \in T : x <= y
<1>1. PICK x \in T : \A y \in T : ~ (<<y, x>> \in OpToRel(<, Nat))
  BY NatLessThanWellFounded, WFMin, Zenon
<1>2. \A y \in T : ~ (y < x)
  BY <1>1, Zenon DEF OpToRel
<1> QED  BY <1>2

\* Stepping down from w while in D ends at f[w].
StopsAt(D, v, w) == v \in 0..w /\ v \notin D /\ \A u \in (v + 1)..w : u \in D

LEMMA SomeStop ==
  ASSUME NEW D, 0 \notin D, NEW w \in Nat
  PROVE  \E v \in Nat : StopsAt(D, v, w)
<1> DEFINE T == {d \in 0..w : w - d \notin D}
<1>1. T \subseteq Nat /\ w \in T
  OBVIOUS
<1>2. PICK d \in T : \A e \in T : d <= e
  BY <1>1, Least
<1>3. w - d \in 0..w /\ w - d \notin D
  BY <1>2
<1>4. ASSUME NEW u \in (w - d + 1)..w PROVE u \in D
  <2>1. w - u \in 0..w /\ w - u < d /\ w - (w - u) = u
    BY <1>2, <1>4
  <2>2. ASSUME w - u \in T PROVE FALSE
    <3>1. d <= w - u
      BY <1>2, <2>2, Zenon
    <3> QED  BY <2>1, <3>1
  <2> QED  BY <2>1, <2>2
<1> QED  BY <1>3, <1>4 DEF StopsAt

\* There is a function that steps down, and every one stops there.
LEMMA DescentExists ==
  ASSUME NEW D, 0 \notin D
  PROVE  \E f : f = [w \in Nat |-> IF w \in D THEN f[w - 1] ELSE w]
<1> DEFINE g == [w \in Nat |-> CHOOSE v \in Nat : StopsAt(D, v, w)]
<1>1. ASSUME NEW w \in Nat PROVE g[w] \in Nat /\ StopsAt(D, g[w], w)
  BY SomeStop
<1>2. ASSUME NEW w \in Nat, NEW v, NEW x, StopsAt(D, v, w), StopsAt(D, x, w) PROVE v = x
  BY <1>2 DEF StopsAt
<1> HIDE DEF g
<1>3. ASSUME NEW w \in Nat PROVE g[w] = IF w \in D THEN g[w - 1] ELSE w
  <2>1. CASE w \in D
    <3>1. w - 1 \in Nat
      BY <2>1
    <3>2. StopsAt(D, g[w - 1], w)
      BY <1>1, <2>1, <3>1 DEF StopsAt
    <3> QED  BY <1>1, <1>2, <2>1, <3>2
  <2>2. CASE w \notin D
    <3>1. StopsAt(D, w, w)
      BY <2>2 DEF StopsAt
    <3> QED  BY <1>1, <1>2, <2>2, <3>1
  <2> QED  BY <2>1, <2>2
<1>4. g = [w \in Nat |-> IF w \in D THEN g[w - 1] ELSE w]
  BY <1>3 DEF g
<1> QED  BY <1>4

LEMMA DescentStops ==
  ASSUME NEW D, 0 \notin D, NEW f, f = [w \in Nat |-> IF w \in D THEN f[w - 1] ELSE w],
         NEW w \in Nat
  PROVE  StopsAt(D, f[w], w)
<1> DEFINE T == {n \in Nat : ~StopsAt(D, f[n], n)}
<1>1. SUFFICES ASSUME T # {} PROVE FALSE
  OBVIOUS
<1>2. PICK n \in T : \A e \in T : n <= e
  BY <1>1, Least
<1>3. f[n] = IF n \in D THEN f[n - 1] ELSE n
  BY <1>2
<1>4. CASE n \in D
  <2>1. n - 1 \in Nat /\ n - 1 \notin T
    BY <1>2, <1>4
  <2>2. StopsAt(D, f[n - 1], n - 1)
    BY <2>1
  <2>3. StopsAt(D, f[n], n)
    BY <1>2, <1>3, <1>4, <2>2 DEF StopsAt
  <2> QED  BY <1>2, <2>3
<1>5. CASE n \notin D
  BY <1>2, <1>3, <1>5 DEF StopsAt
<1> QED  BY <1>4, <1>5

\* The largest count with a viable heap, from the first on, or the least allowed.
LEMMA StepDownStops ==
  ASSUME NEW memory, NEW o, o.minWorkers \in Nat, NEW start \in Nat, o.minWorkers <= start
  PROVE  LET w == StepDown(memory, o, start)
         IN  /\ w \in o.minWorkers..start
             /\ w = o.minWorkers \/ ~(HeapMb(memory, o, w) < MIN_VIABLE_HEAP_MB)
             /\ \A u \in (w + 1)..start : HeapMb(memory, o, u) < MIN_VIABLE_HEAP_MB
<1> DEFINE D == {w \in Nat : w > o.minWorkers /\ HeapMb(memory, o, w) < MIN_VIABLE_HEAP_MB}
           count == CHOOSE f : f = [w \in Nat |-> IF w \in D THEN f[w - 1] ELSE w]
<1>1. 0 \notin D
  OBVIOUS
<1>2. count = [w \in Nat |-> IF w \in D THEN count[w - 1] ELSE w]
  <2> HIDE DEF D
  <2> QED  BY <1>1, DescentExists
<1>3. StopsAt(D, count[start], start)
  <2> HIDE DEF D, count
  <2> QED  BY <1>1, <1>2, DescentStops
<1>4. StepDown(memory, o, start) = count[start]
  BY DEF StepDown
<1> HIDE DEF count
<1> QED  BY <1>3, <1>4 DEF StopsAt

\* Of quotients and products.
LEMMA Division ==
  ASSUME NEW a \in Int, NEW b \in Nat \ {0}
  PROVE  a \div b \in Int /\ b * (a \div b) <= a /\ a < b * (a \div b) + b
OBVIOUS

LEMMA QuotientOfNat ==
  ASSUME NEW a \in Nat, NEW b \in Nat \ {0}, NEW q \in Int, a < b * q + b
  PROVE  q \in Nat
<1> SUFFICES ASSUME q <= -1 PROVE FALSE
  OBVIOUS
<1>1. b * q <= b * (-1)
  OBVIOUS
<1> QED  BY <1>1

LEMMA Distributes ==
  ASSUME NEW a \in Int, NEW b \in Int, NEW c \in Int
  PROVE  (a * b + a) * c = a * (b * c + c)
OBVIOUS

LEMMA TimesStrict ==
  ASSUME NEW a \in Int, NEW b \in Int, NEW c \in Nat \ {0}, a < b
  PROVE  a * c < b * c
OBVIOUS

LEMMA TimesMono ==
  ASSUME NEW a \in Int, NEW b \in Int, NEW c \in Nat, a <= b
  PROVE  c * a <= c * b
OBVIOUS

LEMMA TimesCancel ==
  ASSUME NEW a \in Int, NEW b \in Int, NEW c \in Nat \ {0}, c * a < c * b
  PROVE  a < b
<1> SUFFICES ASSUME b <= a PROVE FALSE
  OBVIOUS
<1>1. c * b <= c * a
  BY TimesMono
<1> QED  BY <1>1

PerWorkerMb(memory, o, w) == (memory * o.memoryOverheadFactor) \div (w * 100)
RawHeapMb(memory, o, w)   == (PerWorkerMb(memory, o, w) * o.heapRatio) \div 100

\* The heap of each worker, rounded once and twice.
LEMMA HeapBounds ==
  ASSUME NEW memory \in Nat, NEW o, o.memoryOverheadFactor \in 1..100, o.heapRatio \in 1..100,
         NEW w \in Nat \ {0}
  PROVE  /\ PerWorkerMb(memory, o, w) \in Nat
         /\ RawHeapMb(memory, o, w) \in Nat
         /\ HeapMb(memory, o, w) \in Nat
         /\ w * RawHeapMb(memory, o, w) * 100 <= memory * o.memoryOverheadFactor
         /\ HeapMb(memory, o, w) >= 128 => w * 128 * 100 <= memory * o.memoryOverheadFactor
         /\ HeapMb(memory, o, w) < 128
              <=> memory * o.memoryOverheadFactor * o.heapRatio < w * 128 * 10000
         /\ RawHeapMb(memory, o, w) < 128 /\ HeapMb(memory, o, w) >= 128
              => RawHeapMb(memory, o, w) = 127
<1>1. PICK A : A = memory * o.memoryOverheadFactor
  OBVIOUS
<1>2. PICK r : r = o.heapRatio
  OBVIOUS
<1>3. PICK AR : AR = A * r
  OBVIOUS
<1>4. A \in Nat /\ r \in 1..100
  BY <1>1, <1>2
<1>5. AR \in Nat
  BY <1>3, <1>4
<1>6. PICK a : a = w * 100
  OBVIOUS
<1>7. PICK b : b = w * 10000
  OBVIOUS
<1>8. a \in Nat \ {0} /\ b \in Nat \ {0}
  BY <1>6, <1>7
<1>9. PICK perWorker : perWorker = A \div a
  OBVIOUS
<1>10. perWorker \in Int /\ a * perWorker <= A /\ A < a * perWorker + a
  BY <1>4, <1>8, <1>9, Division
<1>11. PICK once : once = AR \div b
  OBVIOUS
<1>12. once \in Int /\ b * once <= AR /\ AR < b * once + b
  BY <1>5, <1>8, <1>11, Division
<1>13. PICK s : s = perWorker * r
  OBVIOUS
<1>14. s \in Int
  BY <1>4, <1>10, <1>13
<1>15. PICK raw : raw = s \div 100
  OBVIOUS
<1>16. raw \in Int /\ 100 * raw <= s /\ s < 100 * raw + 100
  BY <1>14, <1>15, Division
<1>17. PICK wp : wp = w * perWorker
  OBVIOUS
<1>18. wp \in Int /\ 100 * wp <= A /\ A < 100 * wp + 100 * w
  BY <1>4, <1>6, <1>10, <1>17
<1>19. PICK wo : wo = w * once
  OBVIOUS
<1>20. wo \in Int /\ 10000 * wo <= AR /\ AR < 10000 * wo + 10000 * w
  BY <1>5, <1>7, <1>12, <1>19
<1>21. perWorker \in Nat /\ raw \in Nat /\ s \in Nat
  <2>1. perWorker \in Nat
    BY <1>4, <1>8, <1>10, QuotientOfNat
  <2>2. s \in Nat
    BY <1>4, <1>13, <2>1
  <2> QED  BY <1>16, <2>1, <2>2
<1>22. once \in Nat
  BY <1>5, <1>8, <1>12, QuotientOfNat
<1>23. w * raw * 100 <= A
  <2>1. s <= perWorker * 100
    BY <1>4, <1>13, <1>21
  <2>2. raw <= perWorker
    BY <1>16, <1>21, <2>1
  <2>3. w * raw <= wp
    BY <1>17, <1>21, <2>2, TimesMono
  <2> QED  BY <1>4, <1>18, <1>21, <2>3
<1>24. once >= 128 => w * 128 <= wo
  BY <1>19, <1>22, TimesMono
<1>25. once < 128 => wo + w <= w * 128
  <2>1. once < 128 => w * (once + 1) <= w * 128
    BY <1>22, TimesMono
  <2> QED  BY <1>19, <1>22, <2>1
<1>26. AR <= A * 100
  BY <1>3, <1>4
<1>27. ASSUME raw < 128, once >= 128 PROVE raw = 127
  <2>1. AR < (100 * wp + 100 * w) * r
    BY <1>3, <1>4, <1>18, TimesStrict
  <2>2. (100 * wp + 100 * w) * r = 100 * (w * (s + r))
    <3>1. (w * perWorker + w) * r = w * (perWorker * r + r)
      BY <1>4, <1>10, Distributes
    <3>2. (100 * wp + 100 * w) * r = 100 * ((wp + w) * r)
      BY <1>4, <1>18
    <3> QED  BY <1>13, <1>17, <3>1, <3>2
  <2>3. w * 12800 < w * (s + r)
    <3>1. PICK m : m = w * (s + r)
      OBVIOUS
    <3>2. m \in Int
      BY <1>4, <1>21, <3>1
    <3>3. 10000 * (w * 128) < 100 * m
      BY <1>5, <1>20, <1>24, <1>27, <2>1, <2>2, <3>1, <3>2
    <3> QED  BY <3>1, <3>2, <3>3
  <2>4. 12800 < s + r
    BY <1>4, <1>21, <2>3, TimesCancel
  <2> QED  BY <1>4, <1>16, <1>21, <1>27, <2>4
<1>28. once >= 128 => w * 128 * 100 <= A
  <2>1. w * 128 <= wo => 10000 * (w * 128) <= A * 100
    BY <1>4, <1>5, <1>20, <1>26
  <2> QED  BY <1>4, <1>24, <2>1
<1>29. once < 128 <=> AR < w * 128 * 10000
  BY <1>5, <1>20, <1>22, <1>24, <1>25
<1>30. PerWorkerMb(memory, o, w) = perWorker
  BY <1>1, <1>6, <1>9 DEF PerWorkerMb
<1>31. RawHeapMb(memory, o, w) = raw
  BY <1>2, <1>13, <1>15, <1>30 DEF RawHeapMb
<1>32. HeapMb(memory, o, w) = once
  BY <1>1, <1>2, <1>3, <1>7, <1>11 DEF HeapMb
<1> QED
  BY <1>1, <1>2, <1>3, <1>21, <1>22, <1>23, <1>27, <1>28, <1>29, <1>30, <1>31, <1>32
\* The count the plan starts to step down from.
LEMMA StartInRange ==
  ASSUME NEW limits, NEW cpus \in Nat \ {0}, NEW o, ValidSizingOptions(o),
         limits.cpu = None \/ (limits.cpu.quota \in Int /\ limits.cpu.period \in Nat \ {0})
  PROVE  LET cpu   == EffectiveCpu(limits, cpus)
             start == Larger(o.minWorkers, Lesser(o.maxWorkers, cpu))
         IN  /\ cpu \in Int /\ Lesser(o.maxWorkers, cpu) \in Int /\ start \in Nat \ {0}
             /\ o.minWorkers <= start /\ start <= o.maxWorkers
             /\ Lesser(o.maxWorkers, cpu) <= start
<1>1. EffectiveCpu(limits, cpus) \in Int
  BY Division DEF EffectiveCpu, Floor
<1>2. o.minWorkers \in Nat \ {0} /\ o.maxWorkers \in Nat \ {0} /\ o.minWorkers <= o.maxWorkers
  BY SizingAssumption DEF ValidSizingOptions
<1> QED  BY <1>1, <1>2 DEF Larger, Lesser

LEMMA PlanFits ==
  ASSUME NEW limits, NEW o, ValidSizingOptions(o),
         limits.cpu = None \/ (limits.cpu.quota \in Int /\ limits.cpu.period \in Nat \ {0}),
         limits.memory \in Nat \cup {None}, host.cpus \in Nat \ {0}, host.memory \in Nat
  PROVE  /\ CalculateSizing(limits, host, o).workers \in Nat \ {0}
         /\ CalculateSizing(limits, host, o).v8HeapMb \in Nat \ {0}
         /\ PlanIsLargestThatFits(limits, o)
<1>1. PICK memory : memory = EffectiveMemory(limits, host.memory)
  OBVIOUS
<1>2. PICK most : most = Lesser(o.maxWorkers, EffectiveCpu(limits, host.cpus))
  OBVIOUS
<1>3. PICK start : start = Larger(o.minWorkers, most)
  OBVIOUS
<1>4. PICK w : w = IF o.strategy = "cpu-first" THEN start ELSE StepDown(memory, o, start)
  OBVIOUS
<1>5. PICK p : p = CalculateSizing(limits, host, o)
  OBVIOUS
<1>6. /\ most \in Int /\ start \in Nat \ {0} /\ o.minWorkers <= start /\ start <= o.maxWorkers
      /\ most <= start
  BY <1>2, <1>3, StartInRange, Zenon
<1>7. /\ o.minWorkers \in Nat \ {0} /\ o.maxWorkers \in Nat \ {0}
      /\ o.memoryOverheadFactor \in 1..100 /\ o.heapRatio \in 1..100
  BY SizingAssumption DEF ValidSizingOptions
<1>8. memory \in Nat
  BY <1>1 DEF EffectiveMemory
<1>9. /\ w \in o.minWorkers..start
      /\ o.strategy = "balanced" =>
           /\ w = o.minWorkers \/ ~(HeapMb(memory, o, w) < 128)
           /\ \A u \in (w + 1)..start : HeapMb(memory, o, u) < 128
  <2>1. CASE o.strategy = "cpu-first"
    BY <1>4, <1>6, <1>7, <2>1
  <2>2. CASE o.strategy # "cpu-first"
    BY <1>4, <1>6, <1>7, <2>2, StepDownStops DEF MIN_VIABLE_HEAP_MB
  <2> QED  BY <2>1, <2>2
<1>10. w \in Nat \ {0} /\ o.minWorkers <= w /\ w <= o.maxWorkers
  BY <1>6, <1>7, <1>9
<1>11. PICK raw : raw = RawHeapMb(memory, o, w)
  OBVIOUS
<1>12. /\ p.workers = w
       /\ p.memoryPerWorkerMb = PerWorkerMb(memory, o, w)
       /\ p.v8HeapMb = Larger(raw, 128)
       /\ p.constrained = (raw < 128)
       /\ (p.memoryPerWorkerMb * o.heapRatio) \div 100 = raw
  BY <1>1, <1>2, <1>3, <1>4, <1>5, <1>11, Zenon
     DEF CalculateSizing, RawHeapMb, PerWorkerMb, MIN_VIABLE_HEAP_MB
<1>13. /\ raw \in Nat
       /\ HeapMb(memory, o, w) \in Nat
       /\ w * raw * 100 <= memory * o.memoryOverheadFactor
       /\ HeapMb(memory, o, w) >= 128 => w * 128 * 100 <= memory * o.memoryOverheadFactor
       /\ HeapMb(memory, o, w) < 128
            <=> memory * o.memoryOverheadFactor * o.heapRatio < w * 128 * 10000
       /\ raw < 128 /\ HeapMb(memory, o, w) >= 128 => raw = 127
  BY <1>7, <1>8, <1>10, <1>11, HeapBounds
<1>14. PICK all : all = memory * o.memoryOverheadFactor * o.heapRatio
  OBVIOUS
<1>15. all \in Nat
  BY <1>7, <1>8, <1>14
<1>16. p.v8HeapMb \in Nat /\ p.v8HeapMb >= 128
  BY <1>12, <1>13 DEF Larger
<1>17. ASSUME o.strategy = "balanced", w > o.minWorkers
       PROVE  w * p.v8HeapMb * 100 <= memory * o.memoryOverheadFactor
  <2>1. HeapMb(memory, o, w) >= 128
    BY <1>7, <1>9, <1>10, <1>13, <1>17
  <2>2. p.v8HeapMb = raw \/ p.v8HeapMb = 128
    BY <1>12 DEF Larger
  <2> QED  BY <1>13, <2>1, <2>2
<1>18. ASSUME o.strategy = "balanced", NEW n \in w + 1 .. most
       PROVE  ~(all >= n * 128 * 10000)
  <2>1. n \in (w + 1)..start /\ n \in Nat \ {0}
    BY <1>6, <1>10
  <2>2. HeapMb(memory, o, n) < 128
    BY <1>9, <1>18, <2>1
  <2>3. all < n * 128 * 10000
    BY <1>7, <1>8, <1>14, <2>1, <2>2, HeapBounds
  <2> QED  BY <1>15, <2>1, <2>3
<1>19. ASSUME raw < 128, all >= w * 128 * 10000
       PROVE  raw = 127
  <2>1. ~(all < w * 128 * 10000)
    BY <1>10, <1>15, <1>19
  <2> QED  BY <1>13, <1>14, <1>19, <2>1
<1>20. /\ p.workers \in Nat \ {0} /\ p.v8HeapMb \in Nat \ {0}
       /\ o.minWorkers <= p.workers /\ p.workers <= o.maxWorkers
       /\ p.v8HeapMb >= 128
  BY <1>10, <1>12, <1>16
<1>21. o.strategy = "balanced" /\ p.workers > o.minWorkers =>
         p.workers * p.v8HeapMb * 100 <= memory * o.memoryOverheadFactor
  BY <1>12, <1>17
<1>22. o.strategy = "balanced" => ~\E n \in p.workers + 1 .. most : all >= n * 128 * 10000
  BY <1>12, <1>18
<1>23. ASSUME p.constrained, all >= p.workers * 128 * 10000
       PROVE  (p.memoryPerWorkerMb * o.heapRatio) \div 100 = 127
  <2>1. raw < 128
    <3>1. p.constrained = (raw < 128)
      BY <1>12
    <3>2. p.constrained
      BY <1>23
    <3> QED  BY <3>1, <3>2, Zenon
  <2>2. all >= w * 128 * 10000
    BY <1>12, <1>23
  <2>3. raw = 127
    BY <1>19, <2>1, <2>2
  <2> QED  BY <1>12, <2>3
<1>24. p.constrained /\ all >= p.workers * 128 * 10000 =>
         (p.memoryPerWorkerMb * o.heapRatio) \div 100 = 127
  BY <1>23
<1> QED
  BY <1>1, <1>2, <1>5, <1>14, <1>20, <1>21, <1>22, <1>24
     DEF PlanIsLargestThatFits, MIN_VIABLE_HEAP_MB

\* The plan of calculateSizing() is the largest that fits, whatever the container
\* allows and the options are: a count within its bounds, a viable heap for each
\* worker, no overcommitment unless the least count forces it, no larger count
\* that would have fitted, and a truthful "constrained".
THEOREM PlansAreLargest == Spec => []PlanIsBest
<1>1. Init => host \in Hosts
  BY DEF Init, StartupInit
<1>2. host \in Hosts /\ [Next]_vars => (host \in Hosts)'
  BY HostStays
<1>3. host \in Hosts => PlanIsBest
  <2> SUFFICES ASSUME host \in Hosts, NEW limits \in Readings, NEW o \in Options
               PROVE  PlanIsLargestThatFits(limits, o)
    BY DEF PlanIsBest
  <2>1. /\ ValidSizingOptions(o) /\ limits.memory \in Nat \cup {None}
        /\ limits.cpu = None \/ (limits.cpu.quota \in Int /\ limits.cpu.period \in Nat \ {0})
    BY PlanAssumption
  <2>2. host.cpus \in Nat \ {0} /\ host.memory \in Nat
    BY HostsAssumption
  <2> QED  BY <2>1, <2>2, PlanFits
<1> QED  BY <1>1, <1>2, <1>3, PTL DEF Spec

--------------------------------------------------------------------------------
\* The types, and the fleet against its configuration.

\* The options: what the constructor accepts is supported.
LEMMA OptionSet ==
  /\ Option = {"count", "maxAgeMs", "maxRssMb", "crashThreshold", "crashWindowMs", "backoffMs",
               "maxBackoffMs", "backoffMultiplier", "stabilityWindowMs", "bootFailQuarantine",
               "timeoutMs", "ackTimeoutMs", "sigtermDelayMs", "sigintDelayMs", "heartbeatMs",
               "wedgedTimeoutMs", "degradedAfterMs", "maxEventLoopLagMs", "lagRecycleBeats",
               "lagSpikeMs"}
  /\ DEFAULTS \in [Option -> Int]
BY DEF Option, DEFAULTS, AutoCount

LEMMA AcceptedIsSupported ==
  ASSUME NEW config, \A o \in DOMAIN config : config[o] \in Int
  PROVE  /\ Resolve(config) \in [Option -> Int]
         /\ Accepts(config) => Resolve(config) \in Supported
<1>1. Resolve(config) \in [Option -> Int]
  BY OptionSet DEF Resolve
<1>2. ASSUME Accepts(config) PROVE Resolve(config) \in Supported
  <2>1. PICK r : r = Resolve(config)
    OBVIOUS
  <2>2. ValidTogether(r)
    BY <1>2, <2>1 DEF Accepts
  <2>3. ASSUME NEW o \in Option PROVE r[o] = DEFAULTS[o] \/ (r[o] \in Int /\ InRange(o, r[o]))
    BY <1>2, <2>1, <2>3 DEF Accepts, Resolve
  <2>4. /\ r.count = AutoCount \/ r.count >= 1
        /\ r.crashThreshold >= 1 /\ r.bootFailQuarantine >= 0 /\ r.stabilityWindowMs >= 0
    BY <2>3, OptionSet DEF InRange, RangeOf, OffValue, DEFAULTS, AutoCount
  <2>5. /\ 0 <= r.backoffMs /\ r.backoffMultiplier >= 1
        /\ r.ackTimeoutMs >= 1 /\ r.sigtermDelayMs >= 1 /\ r.sigintDelayMs >= 1
    BY <2>3, OptionSet DEF InRange, RangeOf, OffValue, DEFAULTS, AutoCount
  <2>6. r.wedgedTimeoutMs >= 0 /\ r.maxEventLoopLagMs >= 0 /\ r.lagSpikeMs >= 0
    BY <2>3, OptionSet DEF InRange, RangeOf, OffValue, DEFAULTS, AutoCount
  <2>7. r \in [Option -> Int]
    BY <1>1, <2>1
  <2> QED  BY <2>1, <2>2, <2>4, <2>5, <2>6, <2>7, OptionSet DEF Supported, ValidTogether
<1> QED  BY <1>1, <1>2

\* What reading the cgroup files gives.
LEMMA LimitsType ==
  ASSUME host \in Hosts
  PROVE  LET limits == ReadCgroupLimits(host.files)
         IN  /\ limits.cpu = None \/ (limits.cpu.quota \in Int /\ limits.cpu.period \in Nat \ {0})
             /\ limits.memory \in Nat \cup {None}
BY HostsAssumption DEF ReadCgroupLimits, CpuLimitOf, ParseCpuLimit, ParseMemory, TryReadFirst

LEMMA AutoCountType ==
  ASSUME host \in Hosts
  PROVE  ComputeAutoWorkerCount(host) \in Nat
<1> DEFINE limit(version) == CpuLimitOf(host.files, version)
<1>1. ASSUME NEW version, limit(version) # None
      PROVE  limit(version).quota \in Int /\ limit(version).period \in Nat \ {0}
  BY <1>1, HostsAssumption DEF CpuLimitOf, ParseCpuLimit, TryReadFirst
<1>2. ASSUME NEW version, limit(version) # None
      PROVE  Larger(1, Floor(limit(version))) \in Nat
  <2>1. Floor(limit(version)) \in Int
    BY <1>1, <1>2, Division DEF Floor
  <2> QED  BY <2>1 DEF Larger
<1>3. GetCgroupCpuLimit(host.files) \in Nat \cup {None}
  BY <1>2 DEF GetCgroupCpuLimit
<1>4. GetCPUCount(host) \in Nat
  BY <1>3, HostsAssumption DEF GetCPUCount, Lesser
<1> QED  BY <1>4, HostsAssumption, SizingAssumption DEF ComputeAutoWorkerCount, Lesser

LEMMA OthersType ==
  ASSUME NEW flags \in Seq(Nat)
  PROVE  WithoutHeap(flags) \in Seq({Other})
<1> DEFINE S == {j \in 1..Len(flags) : flags[j] = Other}
<1>1. IsFiniteSet(S)
  BY FS_Interval, FS_Subset
<1>2. Cardinality(S) \in Nat
  BY <1>1, FS_CardinalityType
<1> HIDE DEF S
<1>3. [i \in 1..Cardinality(S) |-> Other] \in Seq({Other})
  BY <1>2
<1> QED  BY <1>3 DEF WithoutHeap, S

\* The injected heap is the one that counts.
LEMMA InjectedHeap ==
  ASSUME NEW heap \in Nat \ {0}, NEW existing \in Seq(Nat), NEW extra \in Seq(Nat)
  PROVE  /\ MergeNodeOptions(heap, existing, extra) \in Seq(Nat)
         /\ EffectiveHeap(None, MergeNodeOptions(heap, existing, extra)) = heap
<1>1. PICK a \in Seq({Other}) : a = WithoutHeap(existing)
  BY OthersType
<1>2. PICK b \in Seq({Other}) : b = WithoutHeap(extra)
  BY OthersType
<1>3. PICK flags : flags = (<<heap>> \o a) \o b
  OBVIOUS
<1>4. /\ flags \in Seq(Nat) /\ Len(flags) = 1 + Len(a) + Len(b)
      /\ \A i \in 1..Len(flags) : flags[i] = IF i = 1 THEN heap ELSE Other
  BY <1>3 DEF Other
<1>5. {i \in 1..Len(flags) : flags[i] # Other} = {1}
  BY <1>4 DEF Other
<1>6. EffectiveHeap(None, flags) = flags[1]
  <2>1. (CHOOSE i \in {1} : \A j \in {1} : j <= i) = 1
    OBVIOUS
  <2> QED  BY <1>5, <2>1 DEF EffectiveHeap
<1>7. MergeNodeOptions(heap, existing, extra) = flags
  BY <1>1, <1>2, <1>3, Zenon DEF MergeNodeOptions
<1>8. flags[1] = heap
  BY <1>4
<1> QED  BY <1>4, <1>6, <1>7, <1>8, Zenon

ConfigTypes ==
  /\ host \in Hosts
  /\ cfg \in [options : [Option -> Int], env : Environment]
  /\ stage # "rejected" => cfg.options \in Supported
  /\ autoCount \in Nat \cup {None}

RunTypes ==
  /\ stage \in {"rejected", "new", "installing", "rollback", "forking", "running", "failed"}
  /\ {hasForked, handlers, early} \subseteq BOOLEAN
  /\ forks \in Seq(Fork) /\ toFork \in Nat
  /\ targets \subseteq Workers
  /\ shutdown \in {"no", "workers", "callbacks", "uninstalling", "complete"}
  /\ hung \in {"no", "holding", "unheld"}
  /\ ended \in {"no", "killed", "forced", "drained"}

LEMMA ConfigInit == Init => ConfigTypes
<1> SUFFICES ASSUME Init PROVE ConfigTypes
  OBVIOUS
<1>1. host \in Hosts /\ autoCount = None
  BY DEF Init, StartupInit
<1>2. \A o \in DOMAIN host.config : host.config[o] \in Int
  BY <1>1, HostsAssumption
<1>3. cfg.options \in [Option -> Int]
  BY <1>2, AcceptedIsSupported, OptionSet DEF Init, StartupInit
<1>4. stage # "rejected" => cfg.options \in Supported
  BY <1>2, AcceptedIsSupported DEF Init, StartupInit
<1>5. cfg = [options |-> cfg.options, env |-> cfg.env] /\ cfg.env \in Environment
  BY <1>1, HostsAssumption DEF Init, StartupInit, Environment
<1> QED  BY <1>1, <1>3, <1>4, <1>5 DEF ConfigTypes

\* The count the fleet is held to.
LEMMA CountType == ConfigTypes /\ stage # "rejected" => ResolveWorkerCount \in Nat
BY AutoCountType, OptionSet DEF ConfigTypes, ResolveWorkerCount, Supported, AutoCount

LEMMA WithCountType ==
  ASSUME NEW config \in [options : [Option -> Int], env : Environment],
         config.options \in Supported, NEW n \in Nat \ {0}
  PROVE  /\ WithCount(config, n) \in [options : [Option -> Int], env : Environment]
         /\ WithCount(config, n).options \in Supported
         /\ WithCount(config, n).env = config.env
<1>1. WithCount(config, n).options = [config.options EXCEPT !.count = n]
  BY DEF WithCount
<1>2. [config.options EXCEPT !.count = n] \in [Option -> Int]
  BY OptionSet
<1>3. [config.options EXCEPT !.count = n] \in Supported
  BY <1>2, OptionSet DEF Supported
<1>4. WithCount(config, n) = [options |-> [config.options EXCEPT !.count = n], env |-> config.env]
  BY DEF WithCount
<1> QED  BY <1>2, <1>3, <1>4

\* The plan of the sizing plugin, when its options are valid.
LEMMA SizingType ==
  ASSUME host \in Hosts, ValidSizingOptions(host.sizing)
  PROVE  LET sizing == CalculateSizing(ReadCgroupLimits(host.files), host, host.sizing)
         IN  sizing.workers \in Nat \ {0} /\ sizing.v8HeapMb \in Nat \ {0}
<1>1. PICK limits : limits = ReadCgroupLimits(host.files)
  OBVIOUS
<1>2. /\ limits.cpu = None \/ (limits.cpu.quota \in Int /\ limits.cpu.period \in Nat \ {0})
      /\ limits.memory \in Nat \cup {None}
  BY <1>1, LimitsType
<1>3. host.cpus \in Nat \ {0} /\ host.memory \in Nat
  BY HostsAssumption
<1>4. PICK p : p = CalculateSizing(limits, host, host.sizing)
  OBVIOUS
<1>5. p.workers \in Nat \ {0} /\ p.v8HeapMb \in Nat \ {0}
  BY <1>2, <1>3, <1>4, PlanFits
<1> QED  BY <1>1, <1>4, <1>5, Zenon

LEMMA SizedEnvType ==
  ASSUME host \in Hosts, NEW config \in [options : [Option -> Int], env : Environment],
         NEW heap \in Nat \ {0}
  PROVE  /\ SizedEnv(config, heap) \in Environment
         /\ EffectiveHeap(None, SizedEnv(config, heap).nodeOptions) = heap
<1>1. PICK existing : existing = IF config.env.nodeOptions # None THEN config.env.nodeOptions
                                 ELSE host.nodeOptions
  OBVIOUS
<1>2. existing \in Seq(Nat) /\ host.sizing.extra \in Seq(Nat)
  BY <1>1, HostsAssumption DEF Environment
<1>3. PICK merged : merged = MergeNodeOptions(heap, existing, host.sizing.extra)
  OBVIOUS
<1>4. merged \in Seq(Nat) /\ EffectiveHeap(None, merged) = heap
  BY <1>2, <1>3, InjectedHeap
<1>5. SizedEnv(config, heap) = [config.env EXCEPT !.nodeOptions = merged]
  BY <1>1, <1>3, Zenon DEF SizedEnv
<1> QED  BY <1>4, <1>5 DEF Environment

Config == [options : [Option -> Int], env : Environment]

\* With a plan to inject, the heap of the workers to fork is the planned one.
HeapPlanned ==
  plan # None /\ host.sizing.injectNodeOptions =>
    EffectiveHeap(None, cfg.env.nodeOptions) = plan.v8HeapMb

LEMMA SizingStep ==
  ASSUME ConfigTypes, HeapPlanned, InstallSizing
  PROVE  /\ cfg' \in Config /\ cfg'.options \in Supported
         /\ HeapPlanned'
<1> USE DEF Config
<1>1. host' = host /\ host \in Hosts /\ cfg \in Config /\ cfg.options \in Supported
  BY DEF InstallSizing, Installing, ConfigTypes
<1>2. CASE UNCHANGED <<cfg, plan>>
  BY <1>1, <1>2 DEF HeapPlanned
<1>3. CASE ~UNCHANGED <<cfg, plan>>
  <2>1. PICK sizing : sizing = CalculateSizing(ReadCgroupLimits(host.files), host, host.sizing)
    OBVIOUS
  <2>2. PICK sized : sized = IF host.sizing.overrideWorkerCount /\ MayOverride(sizing.workers, cfg)
                             THEN WithCount(cfg, sizing.workers) ELSE cfg
    OBVIOUS
  <2>3. /\ ValidSizingOptions(host.sizing) /\ plan' = sizing
        /\ cfg' = IF host.sizing.injectNodeOptions
                  THEN [sized EXCEPT !.env = SizedEnv(sized, sizing.v8HeapMb)] ELSE sized
    BY <1>3, <2>1, <2>2, Zenon DEF InstallSizing
  <2>4. sizing.workers \in Nat \ {0} /\ sizing.v8HeapMb \in Nat \ {0}
    BY <1>1, <2>1, <2>3, SizingType, Zenon
  <2>5. sized \in Config /\ sized.options \in Supported
    BY <1>1, <2>2, <2>4, WithCountType
  <2>6. PICK env : env = SizedEnv(sized, sizing.v8HeapMb)
    OBVIOUS
  <2>7. env \in Environment /\ EffectiveHeap(None, env.nodeOptions) = sizing.v8HeapMb
    BY <1>1, <2>4, <2>5, <2>6, SizedEnvType
  <2>8. CASE host.sizing.injectNodeOptions
    <3>1. cfg' = [sized EXCEPT !.env = env]
      BY <2>3, <2>6, <2>8
    <3>2. cfg' \in Config /\ cfg'.options = sized.options /\ cfg'.env = env
      BY <2>5, <2>7, <3>1
    <3>3. HeapPlanned'
      BY <2>3, <2>7, <3>2, Zenon DEF HeapPlanned
    <3> QED  BY <2>5, <3>2, <3>3
  <2>9. CASE ~host.sizing.injectNodeOptions
    <3>1. cfg' = sized
      BY <2>3, <2>9
    <3>2. HeapPlanned'
      BY <1>1, <2>9 DEF HeapPlanned
    <3> QED  BY <2>5, <3>1, <3>2
  <2> QED  BY <2>8, <2>9
<1> QED  BY <1>2, <1>3

\* Steps that leave the configuration alone, and the worker count with it.
LEMMA ConfigStays ==
  [Next]_vars =>
    \/ UNCHANGED <<cfg, autoCount, plan>>
    \/ \E n \in 1..MaxForks : OverrideWorkerCount(n)
    \/ PatchWorkerEnv \/ InstallSizing \/ InstallPrometheus \/ StartPrimary
<1> SUFFICES ASSUME [Next]_vars,
                    ~(\/ \E n \in 1..MaxForks : OverrideWorkerCount(n)
                      \/ PatchWorkerEnv \/ InstallSizing \/ InstallPrometheus \/ StartPrimary)
             PROVE  UNCHANGED <<cfg, autoCount, plan>>
  OBVIOUS
<1>1. CASE PrimaryStep
  BY <1>1 DEF PrimaryStep, configVars, Use, Run, InstallUser, InstallFails, ForkInitial,
     ForkInitialFails, Started, SignalKills, ShutdownPrimary, WorkersGone, CallbackSettles,
     Hangs, FailsafeFires, LoopDrains
<1>2. CASE PluginStep
  BY <1>2 DEF PluginStep, configVars, Rollback, UninstallNext
<1>3. CASE FleetStep
  BY <1>3 DEF FleetStep, configVars, WorkerOnline, WorkerExit, ForkAnew
<1>4. CASE ScrapeStep \/ WorkerStep \/ UNCHANGED vars
  BY <1>4 DEF ScrapeStep, WorkerStep, vars, startupVars, configVars
<1> QED  BY <1>1, <1>2, <1>3, <1>4 DEF Next

\* A rejected configuration stays rejected.
LEMMA RejectedStays == [Next]_vars /\ stage = "rejected" => stage' = stage
<1> SUFFICES ASSUME [Next]_vars, stage = "rejected" PROVE stage' = stage
  OBVIOUS
<1>1. CASE PrimaryStep
  BY <1>1 DEF PrimaryStep, Turn, Installing, runVars, Use, OverrideWorkerCount, PatchWorkerEnv, Run,
     InstallSizing, InstallUser, InstallFails, StartPrimary, ForkInitial, ForkInitialFails,
     Started, SignalKills, ShutdownPrimary, WorkersGone, CallbackSettles, Hangs,
     FailsafeFires, LoopDrains
<1>2. CASE PluginStep
  BY <1>2 DEF PluginStep, Turn, Installing, runVars, InstallPrometheus, Rollback, RollbackFrom, UninstallNext
<1>3. CASE FleetStep
  BY <1>3 DEF FleetStep, Turn, runVars, WorkerOnline, WorkerExit, ForkAnew
<1>4. CASE ScrapeStep \/ WorkerStep \/ UNCHANGED vars
  BY <1>4 DEF ScrapeStep, WorkerStep, vars, startupVars, runVars
<1> QED  BY <1>1, <1>2, <1>3, <1>4 DEF Next

LEMMA ConfigStep == ConfigTypes /\ HeapPlanned /\ [Next]_vars => ConfigTypes' /\ HeapPlanned'
<1> SUFFICES ASSUME ConfigTypes, HeapPlanned, [Next]_vars PROVE ConfigTypes' /\ HeapPlanned'
  OBVIOUS
<1>1. host' = host /\ host \in Hosts
  BY HostStays DEF ConfigTypes
<1>2. cfg \in Config
  BY DEF ConfigTypes, Config
<1>3. stage' # "rejected" => stage # "rejected"
  BY RejectedStays
<1>4. ASSUME cfg' \in Config, cfg'.options \in Supported \/ cfg'.options = cfg.options,
             autoCount' \in Nat \cup {None}
      PROVE  ConfigTypes'
  BY <1>1, <1>3, <1>4 DEF ConfigTypes, Config
<1>5. ASSUME cfg' \in Config, cfg'.env.nodeOptions = cfg.env.nodeOptions, plan' = plan
      PROVE  HeapPlanned'
  BY <1>1, <1>5 DEF HeapPlanned
<1>6. autoCount \in Nat \cup {None}
  BY DEF ConfigTypes
<1>7. CASE UNCHANGED <<cfg, autoCount, plan>>
  BY <1>2, <1>4, <1>5, <1>6, <1>7
<1>8. ASSUME NEW n \in 1..MaxForks, OverrideWorkerCount(n)
      PROVE  ConfigTypes' /\ HeapPlanned'
  <2>1. cfg.options \in Supported
    BY <1>8 DEF OverrideWorkerCount, Turn, ConfigTypes
  <2>2. cfg' = WithCount(cfg, n) /\ autoCount' = autoCount /\ plan' = plan
    BY <1>8 DEF OverrideWorkerCount
  <2>3. n \in Nat \ {0}
    BY StartupAssumption
  <2>4. cfg' \in Config /\ cfg'.options \in Supported /\ cfg'.env = cfg.env
    BY <1>2, <2>1, <2>2, <2>3, WithCountType DEF Config
  <2> QED  BY <1>4, <1>5, <1>6, <2>2, <2>4
<1>9. CASE PatchWorkerEnv
  <2>1. cfg' = [cfg EXCEPT !.env.patched = TRUE] /\ autoCount' = autoCount /\ plan' = plan
    BY <1>9 DEF PatchWorkerEnv
  <2>2. /\ cfg' \in Config /\ cfg'.options = cfg.options
        /\ cfg'.env.nodeOptions = cfg.env.nodeOptions
    BY <1>2, <2>1 DEF Config, Environment
  <2> QED  BY <1>4, <1>5, <1>6, <2>1, <2>2
<1>10. CASE InstallSizing
  <2>1. autoCount' = autoCount
    BY <1>10 DEF InstallSizing
  <2> QED  BY <1>4, <1>6, <1>10, <2>1, SizingStep
<1>11. CASE InstallPrometheus \/ StartPrimary
  <2>1. cfg' = cfg /\ plan' = plan /\ autoCount' = CachedAuto /\ stage # "rejected"
    BY <1>11 DEF InstallPrometheus, StartPrimary, Installing
  <2>2. autoCount' \in Nat \cup {None}
    BY <1>6, <2>1, CountType DEF CachedAuto
  <2> QED  BY <1>2, <1>4, <1>5, <2>1, <2>2
<1> QED  BY <1>7, <1>8, <1>9, <1>10, <1>11, ConfigStays, Zenon

\* A worker that is forked, and one whose state changes.
LEMMA ForkType ==
  ASSUME forks \in Seq(Fork), cfg.env \in Environment, ForkWorker
  PROVE  /\ forks' \in Seq(Fork) /\ Len(forks') = Len(forks) + 1
         /\ \A w \in Workers' : forks'[w].env = IF w \in Workers THEN forks[w].env ELSE cfg.env
<1>1. PICK fork : fork = [state |-> "booting", env |-> cfg.env]
  OBVIOUS
<1>2. fork \in Fork /\ fork.env = cfg.env
  BY <1>1 DEF Fork
<1>3. forks' = Append(forks, fork)
  BY <1>1 DEF ForkWorker
<1> QED  BY <1>2, <1>3 DEF Workers

LEMMA StateType ==
  ASSUME forks \in Seq(Fork), NEW w \in Workers, NEW s \in {"online", "exited"},
         forks' = [forks EXCEPT ![w].state = s]
  PROVE  /\ forks' \in Seq(Fork) /\ Len(forks') = Len(forks)
         /\ \A v \in Workers' : forks'[v].env = forks[v].env
<1>1. PICK fork : fork = [forks[w] EXCEPT !.state = s]
  OBVIOUS
<1>2. forks[w] \in Fork
  BY DEF Workers
<1>3. fork \in Fork /\ fork.env = forks[w].env
  BY <1>1, <1>2 DEF Fork
<1>4. forks' = [forks EXCEPT ![w] = fork]
  BY <1>1
<1>5. forks' \in Seq(Fork) /\ Len(forks') = Len(forks)
  BY <1>3, <1>4 DEF Workers
<1>6. ASSUME NEW v \in Workers' PROVE forks'[v].env = forks[v].env
  BY <1>3, <1>4, <1>5, <1>6 DEF Workers
<1> QED  BY <1>5, <1>6

LEMMA RunInit == Init => RunTypes
<1> SUFFICES ASSUME Init PROVE RunTypes
  OBVIOUS
<1>1. /\ forks = <<>> /\ toFork = 0 /\ targets = {} /\ stage \in {"new", "rejected"}
      /\ shutdown = "no" /\ hung = "no" /\ ended = "no"
      /\ ~hasForked /\ ~handlers /\ ~early
      /\ {hasForked, handlers, early} \subseteq BOOLEAN
  BY DEF Init, StartupInit
<1> QED  BY <1>1 DEF RunTypes

LEMMA RunStep == ConfigTypes /\ RunTypes /\ [Next]_vars => RunTypes'
<1> SUFFICES ASSUME ConfigTypes, RunTypes, [Next]_vars PROVE RunTypes'
  OBVIOUS
<1> USE DEF RunTypes, runVars, shutdownVars
<1>1. cfg.env \in Environment
  BY DEF ConfigTypes
<1>2. CASE UNCHANGED startupVars
  BY <1>2 DEF startupVars, Workers
<1>3. ASSUME NEW w \in Workers, WorkerOnline(w) \/ WorkerExit(w) PROVE RunTypes'
  <2>1. PICK s \in {"online", "exited"} : forks' = [forks EXCEPT ![w].state = s]
    BY <1>3 DEF WorkerOnline, WorkerExit
  <2>2. forks' \in Seq(Fork) /\ Workers' = Workers
    BY <2>1, StateType DEF Workers
  <2> QED  BY <1>3, <2>2 DEF WorkerOnline, WorkerExit
<1>4. CASE ForkInitial \/ ForkAnew
  <2>1. ForkWorker
    BY <1>4 DEF ForkInitial, ForkAnew
  <2>2. forks' \in Seq(Fork) /\ Workers \subseteq Workers'
    BY <1>1, <2>1, ForkType DEF Workers
  <2> QED  BY <1>4, <2>2 DEF ForkInitial, ForkAnew
<1>5. CASE StartPrimary
  <2>1. ResolveWorkerCount \in Nat
    BY <1>5, CountType DEF StartPrimary, Turn
  <2> QED  BY <1>5, <2>1 DEF StartPrimary, RegisterSignalHandlers, Workers
<1>6. ASSUME NEW p \in Plugin, Use(p) PROVE RunTypes'
  BY <1>6 DEF Use, Workers
<1>7. ASSUME NEW n \in 1..MaxForks, OverrideWorkerCount(n) PROVE RunTypes'
  BY <1>7 DEF OverrideWorkerCount, Workers
<1>8. CASE PatchWorkerEnv \/ Run \/ InstallSizing \/ InstallPrometheus \/ InstallUser
           \/ InstallFails \/ Rollback \/ ForkInitialFails \/ Started
  BY <1>8 DEF PatchWorkerEnv, Run, InstallSizing, InstallPrometheus, InstallUser,
     InstallFails, Rollback, RollbackFrom, ForkInitialFails, Started, Workers
<1>9. CASE SignalKills \/ ShutdownPrimary \/ WorkersGone \/ CallbackSettles \/ UninstallNext
           \/ Hangs \/ FailsafeFires \/ LoopDrains
  <2>1. Workers' = Workers
    BY <1>9 DEF SignalKills, ShutdownPrimary, WorkersGone, CallbackSettles, UninstallNext,
       Hangs, FailsafeFires, LoopDrains, Workers
  <2>2. CASE ShutdownPrimary
    BY <2>1, <2>2 DEF ShutdownPrimary, Alive
  <2>3. CASE SignalKills \/ WorkersGone \/ CallbackSettles \/ UninstallNext
    BY <2>1, <2>3 DEF SignalKills, WorkersGone, CallbackSettles, UninstallNext, UninstallFrom
  <2>4. CASE Hangs \/ FailsafeFires \/ LoopDrains
    BY <2>1, <2>4 DEF Hangs, FailsafeFires, LoopDrains
  <2> QED  BY <1>9, <2>2, <2>3, <2>4
<1> QED
  BY <1>2, <1>3, <1>4, <1>5, <1>6, <1>7, <1>8, <1>9, Zenon
     DEF Next, PrimaryStep, PluginStep, FleetStep, ScrapeStep, WorkerStep, vars

\* The scrapes and the sockets.
LEMMA ScrapeStepTypes == ScrapeTypeOK /\ [Next]_vars => ScrapeTypeOK'
<1> SUFFICES ASSUME ScrapeTypeOK, [Next]_vars PROVE ScrapeTypeOK'
  OBVIOUS
<1> USE DEF ScrapeTypeOK
<1>1. CASE UNCHANGED scrapeVars
  BY <1>1 DEF scrapeVars
<1>2. ASSUME NEW now \in BOOLEAN, Listens(now) PROVE ScrapeTypeOK'
  BY <1>2 DEF Listens, ClearMergedMetricsCache, NoValue
<1>3. CASE FleetEvent
  <2>1. events' = events + 1 /\ quiet' \in BOOLEAN /\ listening' = listening
    BY <1>3 DEF FleetEvent
  <2>2. collecting' = collecting /\ collecting \in Seq(0..events')
    BY <1>3, <2>1 DEF FleetEvent
  <2>3. /\ mergedMetricsCache' = mergedMetricsCache \/ mergedMetricsCache' = NoValue
        /\ inflightMetrics' = inflightMetrics \/ inflightMetrics' = FALSE
    BY <1>3 DEF FleetEvent, ClearMergedMetricsCache
  <2>4. 0..events \subseteq 0..events' /\ events' \in Nat
    BY <2>1
  <2>5. mergedMetricsCache' \in 0..events' \cup {NoValue}
    BY <2>3, <2>4
  <2>6. inflightMetrics' \in BOOLEAN /\ (inflightMetrics' => collecting' # <<>>)
    <3>1. inflightMetrics \in BOOLEAN /\ (inflightMetrics => collecting # <<>>)
      BY Zenon
    <3>2. collecting' = collecting
      BY <2>2
    <3>3. CASE inflightMetrics' = inflightMetrics
      BY <3>1, <3>2, <3>3, Zenon
    <3>4. CASE inflightMetrics' = FALSE
      BY <3>4, Zenon
    <3> QED  BY <2>3, <3>3, <3>4, Zenon
  <2> QED  BY <2>1, <2>2, <2>4, <2>5, <2>6
<1>4. CASE StartCollection
  BY <1>4 DEF StartCollection
<1>5. ASSUME NEW i \in 1..Len(collecting), CollectionEnds(i) PROVE ScrapeTypeOK'
  <2>1. collecting[i] \in 0..events
    OBVIOUS
  <2>2. collecting \in Seq(Nat)
    OBVIOUS
  <2>3. PICK rest : rest = Without(collecting, i)
    OBVIOUS
  <2>4. /\ rest \in Seq(Nat)
        /\ \A k \in 1..Len(rest) : \E j \in 1..Len(collecting) : rest[k] = collecting[j]
    BY <2>2, <2>3, WithoutOne, Zenon
  <2>5. \A k \in 1..Len(rest) : rest[k] \in 0..events
    <3>1. \A j \in 1..Len(collecting) : collecting[j] \in 0..events
      OBVIOUS
    <3> QED  BY <2>4, <3>1, Zenon
  <2>6. rest \in [1..Len(rest) -> 0..events] /\ Len(rest) \in Nat
    BY <2>4, <2>5
  <2>7. rest \in Seq(0..events)
    BY <2>6, SeqDef
  <2> QED  BY <1>5, <2>1, <2>3, <2>7 DEF CollectionEnds
<1>6. CASE CacheExpires
  BY <1>6 DEF CacheExpires, NoValue
<1> QED
  BY <1>1, <1>2, <1>3, <1>4, <1>5, <1>6, Zenon
     DEF Next, PrimaryStep, PluginStep, FleetStep, ScrapeStep, WorkerStep, vars

LEMMA ReusePortStepTypes == ReusePortTypeOK /\ [Next]_vars => ReusePortTypeOK'
<1> SUFFICES ASSUME ReusePortTypeOK, [Next]_vars PROVE ReusePortTypeOK'
  OBVIOUS
<1> USE DEF ReusePortTypeOK
<1>1. CASE UNCHANGED reusePortVars
  BY <1>1 DEF reusePortVars
<1>2. ASSUME NEW w, NEW caller \in Caller, DetectReusePortSupport(w, caller, host.platform)
      PROVE  ReusePortTypeOK'
  <2>1. UNCHANGED <<socket, doubted>>
    BY <1>2 DEF DetectReusePortSupport
  <2>2. \/ UNCHANGED cachedReusePortSupport
        \/ cachedReusePortSupport' = [cachedReusePortSupport EXCEPT ![w] = "no"]
    BY <1>2 DEF DetectReusePortSupport
  <2>3. \/ UNCHANGED reusePort
        \/ reusePort' = [reusePort EXCEPT ![w] = cachedReusePortSupport[w]]
        \/ reusePort' = [reusePort EXCEPT ![w] = "no"]
    BY <1>2 DEF DetectReusePortSupport, Resolved
  <2>4. \/ UNCHANGED <<detection, waiting>>
        \/ /\ detection' = [detection EXCEPT ![w] = TRUE]
           /\ waiting' = [waiting EXCEPT ![w] = @ \cup {caller}]
    BY <1>2 DEF DetectReusePortSupport
  <2>5. /\ cachedReusePortSupport' \in [Process -> Answer]
        /\ reusePort' \in [Process -> Answer]
    BY <2>2, <2>3 DEF Answer
  <2>6. detection' \in [Process -> BOOLEAN] /\ waiting' \in [Process -> SUBSET Caller]
    <3>1. CASE UNCHANGED <<detection, waiting>>
      BY <3>1
    <3>2. CASE ~UNCHANGED <<detection, waiting>>
      <4>1. /\ detection' = [detection EXCEPT ![w] = TRUE]
            /\ waiting' = [waiting EXCEPT ![w] = waiting[w] \cup {caller}]
        BY <2>4, <3>2, Zenon
      <4>2. w \in Process => waiting[w] \cup {caller} \in SUBSET Caller
        OBVIOUS
      <4>3. detection' \in [Process -> BOOLEAN]
        BY <4>1
      <4> QED  BY <4>1, <4>2, <4>3
    <3> QED  BY <3>1, <3>2
  <2>7. ASSUME NEW v \in Process PROVE detection'[v] <=> waiting'[v] # {}
    <3>1. CASE UNCHANGED <<detection, waiting>> \/ v # w
      <4>1. detection'[v] = detection[v] /\ waiting'[v] = waiting[v]
        BY <2>4, <3>1
      <4> QED  BY <4>1
    <3>2. CASE ~UNCHANGED <<detection, waiting>> /\ v = w
      <4>1. detection'[v] = TRUE /\ waiting'[v] = waiting[v] \cup {caller}
        BY <2>4, <3>2
      <4> QED  BY <4>1
    <3> QED  BY <3>1, <3>2
  <2> QED  BY <2>1, <2>5, <2>6, <2>7
<1>3. ASSUME NEW w, NEW outcome, ProbeSettles(w, outcome, host.platform)
      PROVE  ReusePortTypeOK'
  BY <1>3 DEF ProbeSettles, Resolved, Answer
<1>4. ASSUME NEW w, Listen(w, host.platform) PROVE ReusePortTypeOK'
  BY <1>4 DEF Listen, BindOf
<1>5. ASSUME NEW w, ProcessEnds(w) PROVE ReusePortTypeOK'
  BY <1>5 DEF ProcessEnds, Answer
<1>6. "startWorker" \in Caller /\ "application" \in Caller
  BY DEF Caller
<1> QED
  BY <1>1, <1>2, <1>3, <1>4, <1>5, <1>6, Zenon
     DEF Next, PrimaryStep, PluginStep, FleetStep, ScrapeStep, WorkerStep, vars

TypeInv == LifeInv /\ ConfigTypes /\ HeapPlanned /\ RunTypes /\ ScrapeTypeOK /\ ReusePortTypeOK

LEMMA TypeInvHolds == Spec => []TypeInv
<1>1. Init => TypeInv
  <2>1. Init => ScrapeTypeOK
    <3> SUFFICES ASSUME Init PROVE ScrapeTypeOK
      OBVIOUS
    <3>1. /\ listening = FALSE /\ events = 0 /\ mergedMetricsCache = NoValue
          /\ inflightMetrics = FALSE /\ collecting = <<>> /\ quiet = TRUE
      BY DEF Init, ScrapeInit
    <3>2. collecting \in Seq(0..events)
      BY <3>1
    <3>3. mergedMetricsCache \in (0..events) \cup {NoValue} /\ events \in Nat
      BY <3>1
    <3> QED  BY <3>1, <3>2, <3>3, Zenon DEF ScrapeTypeOK
  <2>2. Init => ReusePortTypeOK
    BY DEF Init, ReusePortInit, ReusePortTypeOK, Answer
  <2>3. Init => HeapPlanned
    BY DEF Init, StartupInit, HeapPlanned
  <2> QED  BY <2>1, <2>2, <2>3, LifeInit, ConfigInit, RunInit DEF TypeInv
<1>2. TypeInv /\ [Next]_vars => TypeInv'
  BY LifeStep, ConfigStep, RunStep, ScrapeStepTypes, ReusePortStepTypes DEF TypeInv
<1> QED  BY <1>1, <1>2, PTL DEF Spec

\* Whatever a start finds, the state keeps its types, and the options are those that
\* the other components assume of theirs: validateConfig() lets no other through,
\* and neither overrideWorkerCount() nor the sizing plugin leaves them.
THEOREM TypeCorrect == Spec => []TypeOK
<1>1. TypeInv => TypeOK
  BY DEF TypeInv, LifeInv, Counters, ConfigTypes, RunTypes, TypeOK, StartupTypeOK
<1> QED  BY <1>1, TypeInvHolds, PTL

\* The fleet against its configuration: from the first fork on nothing changes it.
FleetInv ==
  /\ \A w \in Workers : forks[w].env = cfg.env
  /\ stage = "running" => hasForked /\ ResolveWorkerCount <= Len(forks)
  /\ stage = "forking" => Len(forks) + toFork = ResolveWorkerCount

LEMMA FleetInit == Init => FleetInv
BY DEF Init, StartupInit, FleetInv, Workers

\* Before the first fork.
LEMMA FleetUnforked ==
  ASSUME LifeInv, FleetInv, ~hasForked, UNCHANGED <<forks, stage, hasForked>>
  PROVE  FleetInv'
<1>1. stage \notin {"forking", "running"}
  BY DEF LifeInv, HandlersInv, FleetInv
<1>2. Workers' = {}
  BY NobodyAlive DEF LifeInv, HandlersInv, Workers
<1> QED  BY <1>1, <1>2 DEF FleetInv

\* StartPrimary() caches the count it forks.
LEMMA FleetStarts ==
  ASSUME TypeInv, StartPrimary, host' = host
  PROVE  FleetInv'
<1>1. ~hasForked /\ forks = <<>> /\ forks' = forks /\ cfg' = cfg /\ autoCount' = CachedAuto
      /\ toFork' = ResolveWorkerCount /\ stage' = "forking" /\ stage = "installing"
  BY DEF TypeInv, LifeInv, StageInv, HandlersInv, StartPrimary
<1>2. ResolveWorkerCount' = ResolveWorkerCount
  BY <1>1 DEF ResolveWorkerCount, CachedAuto
<1>3. ResolveWorkerCount \in Nat
  BY <1>1, CountType DEF TypeInv
<1>4. Workers' = {} /\ Len(forks') = 0
  BY <1>1 DEF Workers
<1> QED  BY <1>1, <1>2, <1>3, <1>4 DEF FleetInv

LEMMA FleetStepKeeps == TypeInv /\ FleetInv /\ [Next]_vars => FleetInv'
<1> SUFFICES ASSUME TypeInv, FleetInv, [Next]_vars PROVE FleetInv'
  OBVIOUS
<1> USE DEF runVars, configVars
<1>0. /\ LifeInv /\ ConfigTypes /\ forks \in Seq(Fork) /\ toFork \in Nat /\ host' = host
      /\ cfg.env \in Environment
  BY HostStays DEF TypeInv, RunTypes, ConfigTypes
<1>1. ASSUME UNCHANGED <<cfg, autoCount>> PROVE ResolveWorkerCount' = ResolveWorkerCount
  BY <1>0, <1>1 DEF ResolveWorkerCount
<1>2. stage # "rejected" => ResolveWorkerCount \in Nat
  BY <1>0, CountType
<1>3. ASSUME UNCHANGED <<cfg, autoCount, forks, hasForked>>,
             \/ UNCHANGED <<stage, toFork>>
             \/ stage' \notin {"forking", "running"}
             \/ stage = "forking" /\ stage' = "running" /\ toFork = 0
      PROVE  FleetInv'
  <2>1. ResolveWorkerCount' = ResolveWorkerCount /\ Workers' = Workers
    BY <1>1, <1>3 DEF Workers
  <2>2. stage = "forking" => hasForked
    BY <1>0 DEF LifeInv, HandlersInv
  <2>3. Len(forks) \in Nat
    BY <1>0
  <2> QED  BY <1>2, <1>3, <2>1, <2>2, <2>3 DEF FleetInv
<1>4. CASE UNCHANGED startupVars
  BY <1>3, <1>4 DEF startupVars
<1>5. ASSUME NEW w \in Workers, WorkerOnline(w) \/ WorkerExit(w) PROVE FleetInv'
  <2>1. PICK s \in {"online", "exited"} : forks' = [forks EXCEPT ![w].state = s]
    BY <1>5 DEF WorkerOnline, WorkerExit
  <2>2. /\ Len(forks') = Len(forks) /\ Workers' = Workers
        /\ \A v \in Workers' : forks'[v].env = forks[v].env
    BY <1>0, <2>1, StateType DEF Workers
  <2>3. UNCHANGED <<cfg, autoCount, stage, toFork, hasForked>>
    BY <1>5 DEF WorkerOnline, WorkerExit
  <2> QED  BY <1>1, <2>2, <2>3 DEF FleetInv
<1>6. CASE ForkInitial \/ ForkAnew
  <2>1. ForkWorker /\ UNCHANGED <<cfg, autoCount, stage, hasForked>>
    BY <1>6 DEF ForkInitial, ForkAnew
  <2>2. /\ Len(forks') = Len(forks) + 1 /\ Len(forks) \in Nat
        /\ \A w \in Workers' : forks'[w].env = IF w \in Workers THEN forks[w].env ELSE cfg.env
    BY <1>0, <2>1, ForkType
  <2>3. ResolveWorkerCount' = ResolveWorkerCount
    BY <1>1, <2>1
  <2>4. stage = "forking" => toFork' = toFork - 1
    BY <1>6 DEF ForkInitial, ForkAnew, Turn
  <2>5. \A w \in Workers' : forks'[w].env = cfg.env
    BY <2>2 DEF FleetInv
  <2> QED  BY <1>0, <1>2, <2>1, <2>2, <2>3, <2>4, <2>5 DEF FleetInv
<1>7. CASE StartPrimary
  BY <1>0, <1>7, FleetStarts
<1>8. ASSUME NEW p \in Plugin, Use(p) PROVE FleetInv'
  BY <1>3, <1>8 DEF Use
<1>9. ASSUME NEW n \in 1..MaxForks, OverrideWorkerCount(n) PROVE FleetInv'
  BY <1>0, <1>9, FleetUnforked DEF OverrideWorkerCount, MayOverride
<1>10. CASE PatchWorkerEnv
  BY <1>0, <1>10, FleetUnforked DEF PatchWorkerEnv
<1>11. CASE InstallSizing \/ InstallPrometheus
  <2>1. UNCHANGED <<forks, stage, hasForked>> /\ stage = "installing"
    BY <1>11 DEF InstallSizing, InstallPrometheus, Installing
  <2> QED  BY <1>0, <2>1, FleetUnforked DEF LifeInv, StageInv
<1>12. CASE Run \/ InstallUser \/ InstallFails \/ Rollback \/ ForkInitialFails \/ Started
  <2>1. UNCHANGED <<cfg, autoCount, forks, hasForked>>
    BY <1>12 DEF Run, InstallUser, InstallFails, Rollback, ForkInitialFails, Started
  <2>2. \/ UNCHANGED <<stage, toFork>>
        \/ stage' \notin {"forking", "running"}
        \/ stage = "forking" /\ stage' = "running" /\ toFork = 0
    BY <1>12 DEF Run, InstallUser, InstallFails, Rollback, RollbackFrom, ForkInitialFails,
       Started
  <2> QED  BY <1>3, <2>1, <2>2
<1>13. CASE SignalKills \/ ShutdownPrimary \/ WorkersGone \/ CallbackSettles \/ UninstallNext
            \/ Hangs \/ FailsafeFires \/ LoopDrains
  <2>1. UNCHANGED <<cfg, autoCount, forks, hasForked, stage, toFork>>
    BY <1>13 DEF SignalKills, ShutdownPrimary, WorkersGone, CallbackSettles, UninstallNext,
       Hangs, FailsafeFires, LoopDrains
  <2> QED  BY <1>3, <2>1
<1> QED
  BY <1>4, <1>5, <1>6, <1>7, <1>8, <1>9, <1>10, <1>11, <1>12, <1>13, Zenon
     DEF Next, PrimaryStep, PluginStep, FleetStep, ScrapeStep, WorkerStep, vars

\* The fleet is the one that was configured, whenever the count was overridden, the
\* environment patched and the plugins installed: one environment for all workers,
\* the later ones too; the forked count is the target; and an injected heap is the
\* one that counts for every worker.
THEOREM FleetsMatchTheirPlan == Spec => []FleetMatchesPlan
<1>1. TypeInv /\ FleetInv => FleetMatchesPlan
  <2> SUFFICES ASSUME TypeInv, FleetInv PROVE FleetMatchesPlan
    OBVIOUS
  <2>1. ASSUME plan # None, host.sizing.injectNodeOptions, host.execHeap = None,
               NEW w \in Workers
        PROVE  EffectiveHeap(host.execHeap, forks[w].env.nodeOptions) = plan.v8HeapMb
    <3>1. EffectiveHeap(None, cfg.env.nodeOptions) = plan.v8HeapMb
      BY <2>1 DEF TypeInv, HeapPlanned
    <3>2. forks[w].env = cfg.env
      BY DEF FleetInv
    <3> QED  BY <2>1, <3>1, <3>2
  <2> QED  BY <2>1 DEF FleetMatchesPlan, FleetInv
<1> QED  BY <1>1, FleetInit, FleetStepKeeps, TypeInvHolds, PTL DEF Spec
================================================================================
