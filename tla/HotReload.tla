------------------------------- MODULE HotReload -------------------------------
(***************************************************************************)
(* What triggers a rolling restart from outside: the file watcher plugin   *)
(* (its debounce, max-wait and trailing timers, the pending payload, its   *)
(* teardown) and the signal plugin, against restartWorkers(), of which     *)
(* only the guard and the end matter here (module Fleet has the roll).     *)
(*                                                                         *)
(* A change is a change of the code or of one source of environment; a     *)
(* payload is the set of sources it carries the last values of.  One Tick  *)
(* is one unit of time; a timer is the time left on it, or Off.            *)
(***************************************************************************)
EXTENDS Integers, FiniteSets

CONSTANTS
  EnvFile,               \* the watched .env files
  Process,               \* process.env, polled for changes
  Code,                  \* the watched files, all together
  DebounceMs,            \* debounceMs
  DebounceMaxWaitMs,     \* debounceMaxWaitMs, 0 when off
  MinRestartIntervalMs,  \* minRestartIntervalMs, 0 when off
  MaxWaited              \* bound on the history variable waited

ASSUME OptionsAssumption ==
  /\ Code \notin EnvFile /\ Process \notin EnvFile /\ Code # Process
  /\ DebounceMs \in Nat /\ DebounceMaxWaitMs \in Nat /\ MinRestartIntervalMs \in Nat
  /\ MaxWaited \in Nat

VARIABLES
  watching,      \* delayed (startDelayMs runs), on, closing (teardown waits
                 \* for the watchers to close) or off
  debounceTimer, maxWaitTimer, trailingTimer,
  pendingReason, \* is there one?
  pendingEnv,    \* sources merged into it
  sinceRestart,  \* time since lastRestartAt, saturating at the interval
  restartInProgress,
  shuttingDown,
  owed,          \* history: sources changed since the last roll that took them
  dropped,       \* history: those of them whose restart was refused
  waited         \* history: time the oldest pending change has waited

timers  == <<debounceTimer, maxWaitTimer, trailingTimer>>
pending == <<pendingReason, pendingEnv>>
vars == <<watching, timers, pending, sinceRestart, restartInProgress, shuttingDown,
          owed, dropped, waited>>

Env    == EnvFile \cup {Process}
Source == Env \cup {Code}
Off    == -1

Larger(a, b) == IF a >= b THEN a ELSE b

TimeLeft(cap) == {Off} \cup 0..cap

\* Type correctness: no timer is ever armed for longer than its option, or for
\* a negative time, and no source of code ends up in an environment.
TypeOK ==
  /\ watching \in {"delayed", "on", "closing", "off"}
  /\ debounceTimer \in TimeLeft(DebounceMs)
  /\ maxWaitTimer \in TimeLeft(DebounceMaxWaitMs)
  /\ trailingTimer \in TimeLeft(MinRestartIntervalMs)
  /\ pendingReason \in BOOLEAN /\ pendingEnv \subseteq Env
  /\ sinceRestart \in 0..MinRestartIntervalMs
  /\ restartInProgress \in BOOLEAN /\ shuttingDown \in BOOLEAN
  /\ dropped \subseteq owed /\ owed \subseteq Source
  /\ waited \in 0..MaxWaited

\* The plugins are installed, and no restart happened yet (lastRestartAt = 0).
Init ==
  /\ watching \in {"delayed", "on"}
  /\ debounceTimer = Off /\ maxWaitTimer = Off /\ trailingTimer = Off
  /\ pendingReason = FALSE /\ pendingEnv = {}
  /\ sinceRestart = MinRestartIntervalMs
  /\ restartInProgress = FALSE /\ shuttingDown = FALSE
  /\ owed = {} /\ dropped = {} /\ waited = 0

Armed == debounceTimer # Off \/ maxWaitTimer # Off \/ trailingTimer # Off
-----------------------------------------------------------------------------
\* startDelayMs is over.
StartWatchers ==
  /\ watching = "delayed"
  /\ watching' = "on"
  /\ UNCHANGED <<timers, pending, sinceRestart, restartInProgress, shuttingDown,
                 owed, dropped, waited>>

\* Mutant of the next definition.
OverwritePending(payload) == payload

\* The payload of a change is merged into the pending one.
MergeIntoPending(payload) == pendingEnv \cup payload

\* triggerRestart()
TriggerRestart(source) ==
  /\ pendingReason' = TRUE
  /\ pendingEnv' = MergeIntoPending({source} \cap Env)
  /\ debounceTimer' = DebounceMs
  /\ maxWaitTimer' = IF DebounceMaxWaitMs > 0 /\ maxWaitTimer = Off
                     THEN DebounceMaxWaitMs ELSE maxWaitTimer
  /\ owed' = owed \cup {source}
  /\ dropped' = dropped \ {source}
  /\ waited' = IF pendingReason THEN waited ELSE 0
  /\ UNCHANGED <<watching, trailingTimer, sinceRestart, restartInProgress, shuttingDown>>

\* A watched file, a readable .env file, or process.env changed.  A watcher
\* that is closing reports nothing more; the poll of process.env still does.
Change(source) ==
  /\ watching = "on" \/ (watching = "closing" /\ source = Process)
  /\ TriggerRestart(source)

(***************************************************************************)
(* restartWorkers() with an environment: refused in a shutdown and while a *)
(* restart is in progress.  A roll it begins takes the code and that       *)
(* environment to the workers.  A refused one takes them nowhere: lost is   *)
(* what its caller does not keep for another try.                          *)
(***************************************************************************)
RestartWorkers(env, lost) ==
  \/ /\ ~shuttingDown /\ ~restartInProgress
     /\ restartInProgress' = TRUE
     /\ owed' = owed \ (env \cup {Code})
     /\ dropped' = dropped \ (env \cup {Code})
  \/ /\ shuttingDown \/ restartInProgress
     /\ dropped' = dropped \cup (owed \cap lost)
     /\ UNCHANGED <<restartInProgress, owed>>

\* Mutant of the next definition.
MaxWaitTimerKept == debounceTimer' = Off /\ UNCHANGED maxWaitTimer

\* flushRestart() begins by clearing the timers (the trailing one is its own).
ClearTimers == debounceTimer' = Off /\ maxWaitTimer' = Off

\* Mutants of the next definition.
RemainingFromNow == MinRestartIntervalMs
RemainingSwapped == sinceRestart - MinRestartIntervalMs

\* What is left of the minimum interval.
Remaining == MinRestartIntervalMs - sinceRestart

\* The timer fires too early after the last restart: everything stays pending
\* and is tried again when the interval is over.
RetryLater ==
  /\ sinceRestart < MinRestartIntervalMs
  /\ trailingTimer' = Remaining
  /\ UNCHANGED <<pending, sinceRestart, restartInProgress, owed, dropped, waited>>

\* Or it calls restartWorkers(), having forgotten what is pending.
FlushPending ==
  /\ sinceRestart >= MinRestartIntervalMs
  /\ trailingTimer' = Off
  /\ pendingReason' = FALSE /\ pendingEnv' = {}
  /\ sinceRestart' = 0
  /\ waited' = 0
  /\ RestartWorkers(pendingEnv, pendingEnv \cup {Code})

\* flushRestart(), when one of the timers fires
FlushRestart ==
  /\ debounceTimer = 0 \/ maxWaitTimer = 0 \/ trailingTimer = 0
  /\ ClearTimers
  /\ RetryLater \/ FlushPending
  /\ UNCHANGED <<watching, shuttingDown>>

\* The signal plugin restarts without an environment and without a debounce.
\* A change the file watcher holds pending stays pending.
SignalRestart ==
  /\ RestartWorkers({}, {})
  /\ UNCHANGED <<watching, timers, pending, sinceRestart, shuttingDown, waited>>

\* The roll is over, completed or not.
RollEnds ==
  /\ restartInProgress
  /\ restartInProgress' = FALSE
  /\ UNCHANGED <<watching, timers, pending, sinceRestart, shuttingDown, owed, dropped, waited>>

Shutdown ==
  /\ ~shuttingDown
  /\ shuttingDown' = TRUE
  /\ UNCHANGED <<watching, timers, pending, sinceRestart, restartInProgress, owed, dropped,
                 waited>>
-----------------------------------------------------------------------------
\* teardown(), as a shutdown callback: the start delay is over for good, and
\* the watchers begin to close.
TeardownBegins ==
  /\ shuttingDown /\ watching \in {"delayed", "on"}
  /\ watching' = "closing"
  /\ UNCHANGED <<timers, pending, sinceRestart, restartInProgress, shuttingDown,
                 owed, dropped, waited>>

\* Mutant of the next definition.
TrailingTimerKept == debounceTimer' = Off /\ maxWaitTimer' = Off /\ UNCHANGED trailingTimer

StopTimers == debounceTimer' = Off /\ maxWaitTimer' = Off /\ trailingTimer' = Off

\* They are closed: the poll and the timers stop.
TeardownEnds ==
  /\ watching = "closing"
  /\ watching' = "off"
  /\ StopTimers
  /\ UNCHANGED <<pending, sinceRestart, restartInProgress, shuttingDown, owed, dropped,
                 waited>>

OneLess(timer) == IF timer = Off THEN Off ELSE timer - 1

\* One unit of time; a timer that is over fires before the next.
Tick ==
  /\ 0 \notin {debounceTimer, maxWaitTimer, trailingTimer}
  /\ debounceTimer' = OneLess(debounceTimer)
  /\ maxWaitTimer' = OneLess(maxWaitTimer)
  /\ trailingTimer' = OneLess(trailingTimer)
  /\ sinceRestart' = IF sinceRestart < MinRestartIntervalMs
                     THEN sinceRestart + 1 ELSE sinceRestart
  /\ waited' = IF pendingReason /\ waited < MaxWaited THEN waited + 1 ELSE waited
  /\ UNCHANGED <<watching, pending, restartInProgress, shuttingDown, owed, dropped>>

Next ==
  \/ StartWatchers
  \/ \E source \in Source : Change(source)
  \/ FlushRestart
  \/ SignalRestart
  \/ RollEnds
  \/ Shutdown
  \/ TeardownBegins
  \/ TeardownEnds
  \/ Tick

Spec == Init /\ [][Next]_vars
-----------------------------------------------------------------------------
\* While the plugin watches, a timer runs exactly while a change is pending: no
\* change is left with nothing that will flush it, and none of the three timers
\* survives the flush to restart a fleet that has nothing new to load.
ArmedIffPending ==
  watching \in {"on", "closing"} => (Armed <=> pendingReason)

\* Until the teardown, whatever changed and was not taken to the workers by a
\* roll is pending, environment included, unless a restart that carried it was
\* refused: changes merge, and a throttled flush keeps its payload.
NothingIsLost ==
  watching = "on" => \A source \in owed \ dropped :
                       /\ pendingReason
                       /\ source \in Env => source \in pendingEnv

\* A storm of changes does not starve the restart: with debounceMaxWaitMs on,
\* no change is pending for longer than that, or than the minimum interval
\* where it is the longer one, even when a throttled flush has stopped the
\* max-wait timer and later changes have armed it again.
ChangeWaitsBoundedly ==
  DebounceMaxWaitMs > 0 /\ pendingReason /\ watching \in {"on", "closing"}
    => waited <= Larger(DebounceMaxWaitMs, MinRestartIntervalMs)

\* A change reported, or a flush retried, while the watchers close arms timers
\* again; once the teardown is over none of them is left to fire.
TornDownIsSilent == watching = "off" => ~Armed
=============================================================================
