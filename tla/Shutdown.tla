-------------------------------- MODULE Shutdown --------------------------------
(***************************************************************************)
(* The coordinated shutdown: ShutdownCoordinator and the rest of           *)
(* Orchestrator.shutdownPrimary() in the primary, handleShutdown() in each *)
(* worker.  Time is explicit (one unit of "now" is one tick of every       *)
(* clock), because the protocol is made of timers on both sides: the ACK   *)
(* timeout, the exit timeout and the escalation delays of the primary, the *)
(* exit timer of each worker.                                              *)
(*                                                                         *)
(* The timers the primary arms for its workers are armed in one run of the *)
(* event loop with the same delay, so each phase has one deadline.         *)
(***************************************************************************)
EXTENDS Integers

CONSTANTS
  Worker,        \* the processes alive when the shutdown begins
  Drained,       \* those a recycle or a roll already asked and disconnected; the
                 \* timers of their drains do nothing during a shutdown
  AckTimeout,    \* shutdown.ackTimeoutMs
  Timeout,       \* shutdown.timeoutMs
  SigtermDelay,  \* shutdown.sigtermDelayMs
  SigintDelay    \* shutdown.sigintDelayMs

\* What validateConfig() enforces.
ASSUME ShutdownAssumption ==
  /\ Drained \subseteq Worker
  /\ {AckTimeout, Timeout, SigtermDelay, SigintDelay} \subseteq Nat \ {0}
  /\ SigtermDelay + SigintDelay < Timeout
  /\ AckTimeout < Timeout

VARIABLES
  phase,      \* where shutdownPrimary() is suspended
  due,        \* when the timer of this phase fires
  waiting,    \* workers whose ACK is awaited
  acked,      \* workers whose ACK arrived in time
  killed,     \* workers that got SIGKILL
  proc,       \* of each worker process: booting, serving, closing (its
              \* handleShutdown() runs), wedged (event loop blocked for good), dead
  exitDue,    \* when the exit timer of a closing worker fires
  inbox,      \* workers with the shutdown message still to be read
  acks,       \* awaited workers whose ACK is on its way
  signalled,  \* booting and serving workers with a SIGTERM or SIGINT to handle
  now

primaryVars == <<phase, due, waiting, acked, killed>>
workerVars  == <<proc, exitDue, inbox, acks, signalled>>
vars == <<primaryVars, workerVars, now>>

\* getActiveWorkers(): a disconnected worker is not listed any more.
Targets == Worker \ Drained

\* The longest the shutdown may take.
Budget == AckTimeout + Timeout + SigtermDelay + SigintDelay + Timeout

Over == phase \in {"done", "forced"}

\* A signal changes nothing in a worker that is closing or wedged.
Signallable(process) == {w \in Worker : process[w] \in {"booting", "serving"}}

TypeOK ==
  /\ phase \in {"idle", "acks", "exits", "term", "int", "callbacks", "done", "forced"}
  /\ due \in Nat
  /\ waiting \subseteq {w \in Targets : proc[w] # "dead"}
  /\ acked \subseteq Targets \ waiting
  /\ killed \subseteq Targets
  /\ proc \in [Worker -> {"booting", "serving", "closing", "wedged", "dead"}]
  /\ exitDue \in [Worker -> Nat]
  /\ inbox \subseteq Worker
  /\ acks \subseteq waiting
  /\ signalled \subseteq Signallable(proc)
  /\ now \in 0..(Budget + 1)

\* A drained worker was sent the message; it may be anywhere in its own
\* shutdown sequence, in its boot, or wedged.
Init ==
  /\ phase = "idle" /\ due = 0 /\ now = 0
  /\ waiting = {} /\ acked = {} /\ killed = {}
  /\ proc \in [Worker -> {"booting", "serving", "closing", "wedged"}]
  /\ \A w \in Targets : proc[w] # "closing"
  /\ exitDue \in [Worker -> 0..Timeout]
  /\ \A w \in Worker : proc[w] # "closing" => exitDue[w] = 0
  /\ inbox = {w \in Drained : proc[w] # "closing"}
  /\ acks = {} /\ signalled = {}
-----------------------------------------------------------------------------
\* Mutant of the next definition.
SomeGone(process) == \E w \in Targets : process[w] = "dead"

\* every worker isDead()
AllGone(process) == \A w \in Targets : process[w] = "dead"

\* Mutant of the next definition.
ExitWaitTooShort == AckTimeout

\* What waitForWorkersToExit() grants after the ACKs.
ExitWait == Timeout

Enter(next, delay) == phase' = next /\ due' = now + delay

\* The failsafe of the callbacks is armed anew, with the same delay.
RunCallbacks == Enter("callbacks", Timeout)

\* The ACK phase is over: wait for the exits, unless there is none to wait for.
WaitForExits(process) ==
  IF AllGone(process) THEN RunCallbacks ELSE Enter("exits", ExitWait)

\* The primary's side of an exit: the ACK wait of that worker ends, and the
\* wait for the exits when it was the last one.
ResumeOnExit(stillWaiting, process) ==
  \/ /\ phase = "acks" /\ stillWaiting = {}
     /\ WaitForExits(process)
  \/ /\ phase = "exits" /\ AllGone(process)
     /\ RunCallbacks
  \/ /\ ~(phase = "acks" /\ stillWaiting = {}) /\ ~(phase = "exits" /\ AllGone(process))
     /\ UNCHANGED <<phase, due>>

(***************************************************************************)
(* initiateShutdown(): the message goes to every listed worker; a send     *)
(* that throws ends the ACK wait of its worker.  The signal may have been  *)
(* delivered to the whole process group (Ctrl+C).                          *)
(***************************************************************************)
Shutdown ==
  /\ phase = "idle"
  /\ \E unsent \in SUBSET Targets :
       /\ waiting' = Targets \ unsent
       /\ inbox' = inbox \cup (Targets \ unsent)
  /\ signalled' \in {{}, Signallable(proc)}
  /\ IF waiting' = {} THEN WaitForExits(proc) ELSE Enter("acks", AckTimeout)
  /\ UNCHANGED <<acked, killed, proc, exitDue, acks, now>>
-----------------------------------------------------------------------------
\* handleShutdown() in a worker, which runs once and arms its exit timer.
BeginClosing(w) ==
  /\ signalled' = signalled \ {w}
  /\ IF proc[w] = "serving"
     THEN proc' = [proc EXCEPT ![w] = "closing"] /\ exitDue' = [exitDue EXCEPT ![w] = now + Timeout]
     ELSE UNCHANGED <<proc, exitDue>>

\* The worker reads the message, acknowledges it and begins to close; nobody
\* listens to an ACK that is not awaited any more.
Receive(w) ==
  /\ w \in inbox /\ proc[w] \in {"serving", "closing"}
  /\ inbox' = inbox \ {w}
  /\ acks' = acks \cup ({w} \cap waiting)
  /\ BeginClosing(w)
  /\ UNCHANGED <<primaryVars, now>>

HandleSignal(w) ==
  /\ w \in signalled /\ proc[w] = "serving"
  /\ BeginClosing(w)
  /\ UNCHANGED <<primaryVars, inbox, acks, now>>

\* The handlers are registered, after an asynchronous boot; a message waits for
\* them, a signal does not.
Booted(w) ==
  /\ proc[w] = "booting" /\ w \notin signalled
  /\ proc' = [proc EXCEPT ![w] = "serving"]
  /\ UNCHANGED <<primaryVars, exitDue, inbox, acks, signalled, now>>

\* Nothing a worker still had to read or to wait for will be handled.
Forget(w) ==
  /\ inbox' = inbox \ {w}
  /\ signalled' = signalled \ {w}
  /\ exitDue' = [exitDue EXCEPT ![w] = 0]

\* The event loop of a worker is blocked for good.
Wedges(w) ==
  /\ phase # "idle"
  /\ proc[w] \in {"serving", "closing"}
  /\ proc' = [proc EXCEPT ![w] = "wedged"]
  /\ Forget(w)
  /\ UNCHANGED <<primaryVars, acks, now>>

\* Mutant of the next definition.
ExitIgnored(w) == waiting

\* terminalHandler of the ACK wait.
NotAwaited(w) == waiting \ {w}

\* A process ends: its callbacks are done, its exit timer fired, it crashed, or
\* a signal killed it.
Exits(w) ==
  /\ phase # "idle" /\ proc[w] # "dead"
  /\ proc' = [proc EXCEPT ![w] = "dead"]
  /\ Forget(w)
  /\ acks' = acks \ {w}
  /\ waiting' = NotAwaited(w)
  /\ ResumeOnExit(NotAwaited(w), proc')
  /\ UNCHANGED <<acked, killed, now>>
-----------------------------------------------------------------------------
\* Mutant of the next definition.
AckRearmsTheTimer(w) ==
  /\ w \in waiting
  /\ waiting' = waiting \ {w}
  /\ IF waiting = {w} THEN WaitForExits(proc) ELSE Enter("acks", AckTimeout)

\* The ACK wait of one worker is over; with the last one the exits are awaited.
AckWaitEnds(w) ==
  /\ w \in waiting
  /\ waiting' = waiting \ {w}
  /\ IF waiting = {w} THEN WaitForExits(proc) ELSE UNCHANGED <<phase, due>>

AckArrives(w) ==
  /\ w \in acks
  /\ acks' = acks \ {w}
  /\ AckWaitEnds(w)
  /\ acked' = acked \cup {w}
  /\ UNCHANGED <<killed, proc, exitDue, inbox, signalled, now>>

\* The channel fails or closes while the ACK is awaited; an unread message is
\* lost with it, or not.
ChannelFails(w) ==
  /\ AckWaitEnds(w)
  /\ inbox' \in {inbox, inbox \ {w}}
  /\ acks' = acks \ {w}
  /\ UNCHANGED <<acked, killed, proc, exitDue, signalled, now>>

\* Mutant of the next definition.
NoAckTimeout == FALSE

\* The ACK timers fire, all in one phase of the event loop.
AckTimeoutFires ==
  /\ phase = "acks" /\ now >= due
  /\ waiting' = {}
  /\ acks' = {}
  /\ WaitForExits(proc)
  /\ UNCHANGED <<acked, killed, proc, exitDue, inbox, signalled, now>>

Survivors == {w \in Targets : proc[w] # "dead"}

\* SIGTERM to the survivors when the exit timeout fires, SIGINT a delay later.
SendSignal ==
  /\ now >= due
  /\ \/ phase = "exits" /\ Enter("term", SigtermDelay)
     \/ /\ phase = "term"
        /\ IF Survivors = {} THEN RunCallbacks ELSE Enter("int", SigintDelay)
  /\ signalled' = signalled \cup (Survivors \cap Signallable(proc))
  /\ UNCHANGED <<waiting, acked, killed, proc, exitDue, inbox, acks, now>>

\* SIGKILL to the survivors; their exit is not awaited.
SendKill ==
  /\ phase = "int" /\ now >= due
  /\ killed' = killed \cup Survivors
  /\ RunCallbacks
  /\ UNCHANGED <<waiting, acked, workerVars, now>>

\* The callbacks and the plugins are done, or hang until the failsafe.
Finish ==
  /\ phase = "callbacks"
  /\ phase' \in {"done"} \cup (IF now >= due THEN {"forced"} ELSE {})
  /\ UNCHANGED <<due, waiting, acked, killed, workerVars, now>>

\* What the OS and its own exit timer owe a process at once.
MustExit(w) ==
  /\ proc[w] # "dead"
  /\ \/ w \in killed
     \/ proc[w] = "booting" /\ w \in signalled
     \/ proc[w] = "closing" /\ (now >= exitDue[w] \/ Over)

\* The clock advances when no timer is due.  It stops with the shutdown: a
\* drained worker that is still closing then exits in its own time.
Tick ==
  /\ phase # "idle" /\ ~Over /\ now <= Budget
  /\ now < due
  /\ \A w \in Worker : ~MustExit(w)
  /\ now' = now + 1
  /\ UNCHANGED <<primaryVars, workerVars>>

Timers == AckTimeoutFires \/ SendSignal \/ SendKill \/ Finish

Next ==
  \/ Shutdown
  \/ \E w \in Worker : \/ Receive(w)
                       \/ HandleSignal(w)
                       \/ Booted(w)
                       \/ Wedges(w)
                       \/ Exits(w)
                       \/ AckArrives(w)
                       \/ ChannelFails(w)
  \/ Timers
  \/ Tick

Spec == Init /\ [][Next]_vars

\* Timers fire, a process dies when it must, and a worker whose loop is not
\* blocked reads its messages.  No boot has to end.
Fairness ==
  /\ WF_vars(Timers) /\ WF_vars(Tick)
  /\ \A w \in Worker : WF_vars(MustExit(w) /\ Exits(w)) /\ WF_vars(Receive(w))

FairSpec == Spec /\ Fairness
-----------------------------------------------------------------------------
\* The callbacks and the plugins' uninstall() run only when no worker the
\* primary coordinates is left: each one is dead, or got SIGKILL.
CallbacksRunLast ==
  phase \in {"callbacks", "done", "forced"} =>
    \A w \in Targets : proc[w] = "dead" \/ w \in killed

\* A worker that acknowledged keeps its full graceful window: its own exit
\* timer fires before the primary resorts to SIGKILL, so only a worker whose
\* event loop is blocked is killed.
AckedWorkersExitUnkilled ==
  [][\A w \in killed' \ killed : w \in acked => proc[w] = "wedged"]_vars

\* However the ACKs, exits and failures interleave, the shutdown takes no
\* longer than the sum of its phases.
ShutdownIsBounded == Over \/ now <= Budget

\* Once begun, the shutdown ends and every worker with it, be it wedged or
\* stuck at boot; the exceptions are the workers a recycle disconnected before.
EveryTargetEnds ==
  phase = "acks" ~> Over /\ \A w \in Worker :
     \/ proc[w] = "dead"
     \/ w \in Drained /\ proc[w] \in {"booting", "wedged"}

\* "5. Force-kills any remaining workers" and "7. Exits the primary"
\* (worker-manager/README.md:237-239): once the shutdown has begun every worker
\* ends.  (The handle of one that does not keeps the primary alive.)
EveryWorkerEnds == phase = "acks" ~> \A w \in Worker : proc[w] = "dead"
=============================================================================
