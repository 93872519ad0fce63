---------------------------- MODULE HotReloadProofs ----------------------------
(***************************************************************************)
(* Theorems about the restart triggers, for every choice of the options    *)
(* and every set of environment files.                                     *)
(***************************************************************************)
EXTENDS HotReload, TLAPS

\* Until its teardown is over the plugin has an armed timer exactly while a
\* change is pending, and before its start it has neither.
TimerInv ==
  /\ watching # "off" => (Armed <=> pendingReason)
  /\ watching = "delayed" => ~pendingReason /\ owed = {}
  /\ watching = "off" => ~Armed

\* What changed and was neither rolled out nor refused is pending.
PayloadInv ==
  watching \in {"delayed", "on"} =>
    \A source \in owed \ dropped :
      /\ pendingReason
      /\ source \in Env => source \in pendingEnv

\* How long a pending change has waited.  Without a trailing timer the max-wait
\* timer has run since the change; with one, which runs to the end of the
\* interval, the change came after the last restart.
WaitInv ==
  /\ trailingTimer # Off => sinceRestart + trailingTimer = MinRestartIntervalMs
  /\ watching # "off" /\ pendingReason =>
       /\ sinceRestart < MinRestartIntervalMs \/ trailingTimer # Off
            => waited <= sinceRestart
       /\ DebounceMaxWaitMs > 0 /\ trailingTimer = Off
            => maxWaitTimer # Off /\ waited + maxWaitTimer <= DebounceMaxWaitMs

IInv == TypeOK /\ TimerInv /\ PayloadInv /\ WaitInv
-----------------------------------------------------------------------------
\* restartWorkers() moves sources only between those two sets.
LEMMA RestartTypes ==
  ASSUME dropped \subseteq owed, owed \subseteq Source, restartInProgress \in BOOLEAN,
         NEW env, NEW lost, RestartWorkers(env, lost)
  PROVE  /\ dropped' \subseteq owed' /\ owed' \subseteq Source
         /\ restartInProgress' \in BOOLEAN
<1>1. CASE ~shuttingDown /\ ~restartInProgress
  BY <1>1 DEF RestartWorkers
<1>2. CASE shuttingDown \/ restartInProgress
  BY <1>2 DEF RestartWorkers
<1> QED
  BY <1>1, <1>2

LEMMA InitIInv == Init => IInv
<1> SUFFICES ASSUME Init PROVE IInv
  OBVIOUS
<1> USE OptionsAssumption DEF Init, Off, TimeLeft
<1>1. TypeOK
  <2>1. pendingEnv \subseteq Env /\ dropped \subseteq owed /\ owed \subseteq Source
    BY Zenon
  <2>2. pendingReason \in BOOLEAN /\ restartInProgress \in BOOLEAN /\ shuttingDown \in BOOLEAN
    BY Zenon
  <2>3. /\ watching \in {"delayed", "on", "closing", "off"}
        /\ sinceRestart \in 0..MinRestartIntervalMs /\ waited \in 0..MaxWaited
    OBVIOUS
  <2>4. /\ debounceTimer \in TimeLeft(DebounceMs)
        /\ maxWaitTimer \in TimeLeft(DebounceMaxWaitMs)
        /\ trailingTimer \in TimeLeft(MinRestartIntervalMs)
    OBVIOUS
  <2> QED
    BY <2>1, <2>2, <2>3, <2>4, Zenon DEF TypeOK
<1>2. TimerInv
  BY DEF TimerInv, Armed
<1>3. PayloadInv
  BY DEF PayloadInv
<1>4. WaitInv
  BY DEF WaitInv
<1> QED
  BY <1>1, <1>2, <1>3, <1>4 DEF IInv

\* A change of any source.
LEMMA ChangeKeepsIInv ==
  ASSUME IInv, NEW source \in Source, Change(source)
  PROVE  IInv'
<1> USE OptionsAssumption DEF IInv, Change, TriggerRestart, MergeIntoPending, Off, TimeLeft
<1>1. TypeOK'
  BY DEF TypeOK, Source, Env
<1>2. TimerInv'
  BY DEF TypeOK, TimerInv, Armed
<1>3. PayloadInv'
  BY DEF PayloadInv, Env, Source, TimerInv
<1>4. WaitInv'
  BY DEF TypeOK, TimerInv, Armed, WaitInv
<1> QED
  BY <1>1, <1>2, <1>3, <1>4

\* A flush that is too early.
LEMMA RetryKeepsIInv ==
  ASSUME IInv, FlushRestart, RetryLater
  PROVE  IInv'
<1> USE OptionsAssumption
    DEF IInv, FlushRestart, ClearTimers, RetryLater, Remaining, Off, TimeLeft, pending
<1>1. TypeOK'
  BY DEF TypeOK
<1>2. pendingReason /\ watching \in {"on", "closing"}
  BY DEF TypeOK, TimerInv, Armed
<1>3. TimerInv'
  BY <1>1, <1>2 DEF TypeOK, TimerInv, Armed
<1>4. PayloadInv'
  BY DEF PayloadInv
<1>5. WaitInv'
  BY <1>2 DEF TypeOK, WaitInv
<1> QED
  BY <1>1, <1>3, <1>4, <1>5

\* A flush that calls restartWorkers().
LEMMA FlushKeepsIInv ==
  ASSUME IInv, FlushRestart, FlushPending
  PROVE  IInv'
<1> USE OptionsAssumption
    DEF IInv, FlushRestart, ClearTimers, FlushPending, Off, TimeLeft
<1>1. TypeOK'
  <2>1. /\ dropped' \subseteq owed' /\ owed' \subseteq Source
        /\ restartInProgress' \in BOOLEAN
    BY RestartTypes DEF TypeOK
  <2>2. pendingEnv' \subseteq Env
    OBVIOUS
  <2>3. pendingReason' \in BOOLEAN /\ shuttingDown' \in BOOLEAN
    BY Zenon DEF TypeOK
  <2>4. /\ watching' \in {"delayed", "on", "closing", "off"}
        /\ sinceRestart' \in 0..MinRestartIntervalMs /\ waited' \in 0..MaxWaited
    BY DEF TypeOK
  <2>5. /\ debounceTimer' \in TimeLeft(DebounceMs)
        /\ maxWaitTimer' \in TimeLeft(DebounceMaxWaitMs)
        /\ trailingTimer' \in TimeLeft(MinRestartIntervalMs)
    OBVIOUS
  <2> QED
    BY <2>1, <2>2, <2>3, <2>4, <2>5, Zenon DEF TypeOK
<1>2. TimerInv'
  BY DEF TypeOK, TimerInv, Armed
<1>3. PayloadInv'
  BY DEF TypeOK, PayloadInv, RestartWorkers, Env, Source
<1>4. WaitInv'
  BY DEF TypeOK, WaitInv
<1> QED
  BY <1>1, <1>2, <1>3, <1>4

LEMMA SignalKeepsIInv ==
  ASSUME IInv, SignalRestart
  PROVE  IInv'
<1> USE OptionsAssumption DEF IInv, SignalRestart, RestartWorkers, Off, TimeLeft, timers, pending
<1>1. TypeOK'
  BY DEF TypeOK, Env, Source
<1>2. TimerInv'
  BY DEF TimerInv, Armed
<1>3. PayloadInv'
  BY DEF PayloadInv
<1>4. WaitInv'
  BY DEF WaitInv
<1> QED
  BY <1>1, <1>2, <1>3, <1>4

\* The start of the watchers, the end of a roll, the shutdown and the teardown.
LEMMA LifeKeepsIInv ==
  ASSUME IInv, StartWatchers \/ RollEnds \/ Shutdown \/ TeardownBegins \/ TeardownEnds
  PROVE  IInv'
<1> USE DEF IInv, StartWatchers, RollEnds, Shutdown, TeardownBegins, TeardownEnds, StopTimers,
            Off, TimeLeft, timers, pending
<1>1. TypeOK'
  BY DEF TypeOK
<1>2. TimerInv'
  BY DEF TypeOK, TimerInv, Armed
<1>3. PayloadInv'
  BY DEF PayloadInv
<1>4. WaitInv'
  BY DEF WaitInv
<1> QED
  BY <1>1, <1>2, <1>3, <1>4

LEMMA TickKeepsIInv ==
  ASSUME IInv, Tick
  PROVE  IInv'
<1> USE OptionsAssumption DEF IInv, Tick, OneLess, Off, TimeLeft, pending
<1>1. TypeOK'
  BY DEF TypeOK
<1>2. TimerInv'
  BY DEF TypeOK, TimerInv, Armed
<1>3. PayloadInv'
  BY DEF PayloadInv
<1>4. WaitInv'
  BY DEF TypeOK, TimerInv, WaitInv
<1> QED
  BY <1>1, <1>2, <1>3, <1>4

LEMMA StutterKeepsIInv ==
  ASSUME IInv, UNCHANGED vars
  PROVE  IInv'
  BY DEF IInv, TypeOK, TimerInv, PayloadInv, WaitInv, Armed, vars, timers, pending

LEMMA Invariance == Spec => []IInv
<1>1. ASSUME IInv, [Next]_vars PROVE IInv'
  <2>1. CASE \E source \in Source : Change(source)
    BY <1>1, <2>1, ChangeKeepsIInv
  <2>2. CASE FlushRestart
    BY <1>1, <2>2, RetryKeepsIInv, FlushKeepsIInv DEF FlushRestart
  <2>3. CASE SignalRestart
    BY <1>1, <2>3, SignalKeepsIInv
  <2>4. CASE StartWatchers \/ RollEnds \/ Shutdown \/ TeardownBegins \/ TeardownEnds
    BY <1>1, <2>4, LifeKeepsIInv
  <2>5. CASE Tick
    BY <1>1, <2>5, TickKeepsIInv
  <2>6. CASE UNCHANGED vars
    BY <1>1, <2>6, StutterKeepsIInv
  <2> QED
    BY <1>1, <2>1, <2>2, <2>3, <2>4, <2>5, <2>6 DEF Next
<1> QED
  BY InitIInv, <1>1, PTL DEF Spec
-----------------------------------------------------------------------------
\* Type correctness: no timer is armed for longer than its option, or for a
\* negative time (flushRestart, triggerRestart).
THEOREM TypeCorrect == Spec => []TypeOK
<1>1. IInv => TypeOK
  BY DEF IInv
<1> QED
  BY <1>1, Invariance, PTL

\* A timer runs exactly while a change is pending, whatever the order of
\* changes, flushes and teardown.
THEOREM TimersFollowPending == Spec => []ArmedIffPending
<1>1. IInv => ArmedIffPending
  BY DEF IInv, TimerInv, ArmedIffPending
<1> QED
  BY <1>1, Invariance, PTL

\* No change is lost on its way to restartWorkers(), however many of them are
\* merged and however often the flush is throttled.
THEOREM ChangesAreKept == Spec => []NothingIsLost
<1>1. IInv => NothingIsLost
  BY DEF IInv, PayloadInv, NothingIsLost
<1> QED
  BY <1>1, Invariance, PTL

\* With debounceMaxWaitMs on, no change waits longer than that or than the
\* minimum interval, whichever is the longer, for all values of the options.
THEOREM WaitIsBounded == Spec => []ChangeWaitsBoundedly
<1>1. ASSUME IInv PROVE ChangeWaitsBoundedly
  <2> SUFFICES ASSUME DebounceMaxWaitMs > 0, pendingReason, watching \in {"on", "closing"}
               PROVE  waited <= Larger(DebounceMaxWaitMs, MinRestartIntervalMs)
    BY DEF ChangeWaitsBoundedly
  <2>1. CASE trailingTimer = Off
    <3>1. maxWaitTimer \in 0..DebounceMaxWaitMs /\ waited + maxWaitTimer <= DebounceMaxWaitMs
      BY <1>1, <2>1 DEF IInv, TypeOK, TimeLeft, WaitInv
    <3> QED
      BY <1>1, <3>1, OptionsAssumption DEF IInv, TypeOK, Larger
  <2>2. CASE trailingTimer # Off
    <3>1. waited <= sinceRestart
      BY <1>1, <2>2 DEF IInv, WaitInv
    <3> QED
      BY <1>1, <3>1, OptionsAssumption DEF IInv, TypeOK, Larger
  <2> QED
    BY <2>1, <2>2
<1> QED
  BY <1>1, Invariance, PTL

\* After the teardown no timer is left to fire, although timers may be armed
\* while the watchers close.
THEOREM TeardownSilences == Spec => []TornDownIsSilent
<1>1. IInv => TornDownIsSilent
  BY DEF IInv, TimerInv, TornDownIsSilent
<1> QED
  BY <1>1, Invariance, PTL
=============================================================================
