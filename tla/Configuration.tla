----------------------------- MODULE Configuration -----------------------------
(***************************************************************************)
(* validateConfig(): which options the constructor of the Orchestrator     *)
(* accepts, and what they resolve to.  A configuration is a function from  *)
(* the options that are given to their values, in ms, beats or workers.    *)
(* The checks of strings (keys of env, flags of execArgv, messagePrefix)   *)
(* are left out.                                                           *)
(***************************************************************************)
EXTENDS Integers

AutoCount == -1             \* workers.count = "auto"
Infinity == 2147483647

DEFAULTS ==
  [count |-> AutoCount, maxAgeMs |-> 0, maxRssMb |-> 0,
   crashThreshold |-> 5, crashWindowMs |-> 60000, backoffMs |-> 1000,
   maxBackoffMs |-> 30000, backoffMultiplier |-> 2, stabilityWindowMs |-> 30000,
   bootFailQuarantine |-> 0,
   timeoutMs |-> 12000, ackTimeoutMs |-> 3000, sigtermDelayMs |-> 2000, sigintDelayMs |-> 1000,
   heartbeatMs |-> 0, wedgedTimeoutMs |-> 0, degradedAfterMs |-> 0,
   maxEventLoopLagMs |-> 0, lagRecycleBeats |-> 3, lagSpikeMs |-> 0]

Option == DOMAIN DEFAULTS

\* The range of an option by itself: validateWorkersOptions() and its like.
RangeOf ==
  [count |-> <<1, Infinity>>, maxAgeMs |-> <<1000, Infinity>>, maxRssMb |-> <<0, Infinity>>,
   crashThreshold |-> <<1, Infinity>>, crashWindowMs |-> <<1000, 600000>>,
   backoffMs |-> <<0, 60000>>, maxBackoffMs |-> <<1000, 300000>>,
   backoffMultiplier |-> <<1, 10>>, stabilityWindowMs |-> <<0, 600000>>,
   bootFailQuarantine |-> <<0, Infinity>>,
   timeoutMs |-> <<1000, 60000>>, ackTimeoutMs |-> <<500, 30000>>,
   sigtermDelayMs |-> <<100, 10000>>, sigintDelayMs |-> <<100, 10000>>,
   heartbeatMs |-> <<100, Infinity>>, wedgedTimeoutMs |-> <<0, Infinity>>,
   degradedAfterMs |-> <<0, Infinity>>, maxEventLoopLagMs |-> <<0, Infinity>>,
   lagRecycleBeats |-> <<1, Infinity>>, lagSpikeMs |-> <<0, Infinity>>]

\* Values that switch an option off, outside of its range.
OffValue == [count |-> AutoCount, maxAgeMs |-> 0, heartbeatMs |-> 0]

InRange(option, value) ==
  \/ RangeOf[option][1] <= value /\ value <= RangeOf[option][2]
  \/ option \in DOMAIN OffValue /\ value = OffValue[option]

\* What is not given takes its default.
Resolve(config) == [o \in Option |-> IF o \in DOMAIN config THEN config[o] ELSE DEFAULTS[o]]

\* validateCrossFieldConstraints(), of the resolved options.
ValidTogether(r) ==
  /\ r.sigtermDelayMs + r.sigintDelayMs < r.timeoutMs
  /\ r.ackTimeoutMs < r.timeoutMs
  /\ r.backoffMs <= r.maxBackoffMs
  /\ r.wedgedTimeoutMs > 0 => r.heartbeatMs > 0 /\ r.wedgedTimeoutMs >= 2 * r.heartbeatMs
  /\ r.maxEventLoopLagMs > 0 \/ r.lagSpikeMs > 0 => r.heartbeatMs > 0

\* Mutant of the next definition.
AcceptsPart(config) ==
  /\ DOMAIN config \subseteq Option
  /\ \A o \in DOMAIN config : InRange(o, config[o])
  /\ {"timeoutMs", "sigtermDelayMs"} \subseteq DOMAIN config => ValidTogether(Resolve(config))

Accepts(config) ==
  /\ DOMAIN config \subseteq Option
  /\ \A o \in DOMAIN config : InRange(o, config[o])
  /\ ValidTogether(Resolve(config))

(***************************************************************************)
(* What the other modules assume of their options: the assumptions of      *)
(* RestartCoordinator, Shutdown and Monitoring.                            *)
(***************************************************************************)
Supported ==
  {r \in [Option -> Int] :
     /\ r.count = AutoCount \/ r.count >= 1
     /\ r.crashThreshold >= 1 /\ r.bootFailQuarantine >= 0 /\ r.stabilityWindowMs >= 0
     /\ 0 <= r.backoffMs /\ r.backoffMs <= r.maxBackoffMs /\ r.backoffMultiplier >= 1
     /\ r.ackTimeoutMs >= 1 /\ r.sigtermDelayMs >= 1 /\ r.sigintDelayMs >= 1
     /\ r.ackTimeoutMs < r.timeoutMs /\ r.sigtermDelayMs + r.sigintDelayMs < r.timeoutMs
     /\ r.wedgedTimeoutMs = 0 \/ r.wedgedTimeoutMs >= 2 * r.heartbeatMs
     /\ r.heartbeatMs = 0 => r.wedgedTimeoutMs = 0 /\ r.maxEventLoopLagMs = 0 /\ r.lagSpikeMs = 0}
=============================================================================
