----------------------------- MODULE ShutdownProofs -----------------------------
(***************************************************************************)
(* Theorems about the coordinated shutdown, for every set of workers and   *)
(* all delays that validateConfig() accepts.                               *)
(***************************************************************************)
EXTENDS Shutdown, TLAPS

\* Only the ACK phase awaits ACKs, and nothing happened before the shutdown.
AwaitInv ==
  /\ waiting # {} => phase = "acks"
  /\ phase = "idle" => now = 0 /\ acked = {} /\ \A w \in Worker : proc[w] # "dead"

\* Each phase is left when its timer fires, so it ends by the sum of the delays.
DeadlineInv ==
  /\ phase \in {"acks", "exits", "term", "int", "callbacks"} => now <= due
  /\ phase = "acks"  => due <= AckTimeout
  /\ phase = "exits" => due <= AckTimeout + Timeout
  /\ phase = "term"  => due <= AckTimeout + Timeout + SigtermDelay
  /\ phase = "int"   => due <= AckTimeout + Timeout + SigtermDelay + SigintDelay
  /\ phase = "callbacks" => due <= Budget

\* A worker that acknowledged is closing, or past it; its exit timer was armed
\* before its ACK arrived, hence before the exit wait of the primary was, and is
\* over before the clock moves on from SIGTERM.
WindowInv ==
  /\ \A w \in Worker : proc[w] = "closing" => exitDue[w] <= now + Timeout
  /\ \A w \in acks \cup acked : proc[w] \in {"closing", "wedged", "dead"}
  /\ \A w \in acked : proc[w] = "closing" =>
       /\ phase = "exits" => exitDue[w] <= due
       /\ phase = "term" => exitDue[w] <= now /\ due = now + SigtermDelay
       /\ phase # "int"

IInv == TypeOK /\ AwaitInv /\ DeadlineInv /\ WindowInv /\ CallbacksRunLast

LEMMA Delays ==
  /\ AckTimeout \in Nat /\ Timeout \in Nat /\ SigtermDelay \in Nat \ {0} /\ SigintDelay \in Nat
  /\ Budget \in Nat /\ Targets \subseteq Worker
  /\ Budget = AckTimeout + Timeout + SigtermDelay + SigintDelay + Timeout
BY ShutdownAssumption DEF Budget, Targets

LEMMA InvInit == Init => IInv
<1> SUFFICES ASSUME Init PROVE IInv
  OBVIOUS
<1>0. /\ proc \in [Worker -> {"booting", "serving", "closing", "wedged", "dead"}]
      /\ exitDue \in [Worker -> Nat]
      /\ \A w \in Worker : exitDue[w] <= Timeout
  <2>1. exitDue \in [Worker -> 0..Timeout]
    BY DEF Init
  <2>2. \A w \in Worker : exitDue[w] \in Nat /\ exitDue[w] <= Timeout
    BY <2>1, Delays
  <2> QED  BY <2>1, <2>2 DEF Init
<1>1. TypeOK
  <2>1. 0 \in 0..(Budget + 1)
    BY Delays
  <2>2. inbox \subseteq Worker
    BY ShutdownAssumption DEF Init
  <2> QED  BY <1>0, <2>1, <2>2 DEF Init, TypeOK
<1>2. WindowInv
  BY <1>0, Delays DEF Init, WindowInv
<1>3. AwaitInv /\ DeadlineInv /\ CallbacksRunLast
  BY <1>0 DEF Init, AwaitInv, DeadlineInv, CallbacksRunLast
<1> QED  BY <1>1, <1>2, <1>3 DEF IInv

\* The deadline of the next phase, when the one before is left in time.
LEMMA WaitStep ==
  ASSUME IInv, phase \in {"idle", "acks"}, NEW process, WaitForExits(process),
         now' = now
  PROVE  /\ phase' \in {"exits", "callbacks"} /\ due' \in Nat
         /\ DeadlineInv'
         /\ phase' = "exits" => due' = now + Timeout
         /\ phase' = "callbacks" => \A w \in Targets : process[w] = "dead"
BY Delays DEF IInv, TypeOK, AwaitInv, DeadlineInv, WaitForExits, RunCallbacks, Enter, ExitWait,
              AllGone

\* A step of a worker by itself: it closes, wedges, boots or handles nothing.
LEMMA WorkerSteps ==
  ASSUME IInv, NEW w \in Worker, Receive(w) \/ HandleSignal(w) \/ Booted(w) \/ Wedges(w)
  PROVE  IInv'
<1>0. TypeOK /\ AwaitInv /\ DeadlineInv /\ WindowInv /\ CallbacksRunLast
  BY DEF IInv
<1>1. UNCHANGED <<phase, due, waiting, acked, killed, now>>
  BY DEF Receive, HandleSignal, Booted, Wedges, primaryVars
<1>2. /\ proc' \in [Worker -> {"booting", "serving", "closing", "wedged", "dead"}]
      /\ exitDue' \in [Worker -> Nat]
      /\ inbox' \subseteq Worker
      /\ \A v \in Worker \ {w} : proc'[v] = proc[v] /\ exitDue'[v] = exitDue[v]
  BY <1>0, Delays DEF TypeOK, Receive, HandleSignal, Booted, Wedges, BeginClosing, Forget
<1>3. /\ proc[w] # "dead" /\ proc'[w] # "dead"
      /\ proc[w] \in {"closing", "wedged"} => proc'[w] \in {"closing", "wedged"}
      /\ proc'[w] = "closing" =>
           \/ proc[w] = "closing" /\ exitDue'[w] = exitDue[w]
           \/ proc[w] = "serving" /\ exitDue'[w] = now + Timeout
  BY <1>0 DEF TypeOK, Receive, HandleSignal, Booted, Wedges, BeginClosing, Forget
<1>4. /\ acks' \subseteq acks \cup ({w} \cap waiting)
      /\ w \in acks' \ acks => proc'[w] \in {"closing", "wedged"}
  BY <1>0 DEF TypeOK, Receive, HandleSignal, Booted, Wedges, BeginClosing
<1>5. signalled' \subseteq signalled /\ (proc'[w] # proc[w] => w \notin signalled')
  BY <1>0 DEF TypeOK, Receive, HandleSignal, Booted, Wedges, BeginClosing, Forget, Signallable
<1>6. TypeOK'
  <2>1. waiting' \subseteq {v \in Targets : proc'[v] # "dead"}
    BY <1>0, <1>1, <1>2, <1>3, Delays DEF TypeOK
  <2>2. signalled' \subseteq Signallable(proc')
    BY <1>0, <1>2, <1>5 DEF TypeOK, Signallable
  <2>3. acks' \subseteq waiting'
    BY <1>0, <1>1, <1>4 DEF TypeOK
  <2> QED  BY <1>0, <1>1, <1>2, <2>1, <2>2, <2>3 DEF TypeOK
<1>7. AwaitInv' /\ DeadlineInv'
  BY <1>0, <1>1, <1>2, <1>3 DEF AwaitInv, DeadlineInv
<1>8. WindowInv'
  <2>1. \A v \in acked' : v \in Worker /\ (v = w => proc[w] \in {"closing", "wedged"})
    BY <1>0, <1>1, <1>3, Delays DEF TypeOK, WindowInv
  <2>2. \A v \in acks' \cup acked' : proc'[v] \in {"closing", "wedged", "dead"}
    <3>1. \A v \in acks' : v \in Worker
      BY <1>0, <1>4, Delays DEF TypeOK
    <3> QED  BY <1>0, <1>1, <1>2, <1>3, <1>4, <2>1, <3>1 DEF WindowInv
  <2>3. \A v \in Worker : proc'[v] = "closing" => exitDue'[v] <= now' + Timeout
    BY <1>0, <1>1, <1>2, <1>3, Delays DEF TypeOK, WindowInv
  <2>4. \A v \in acked' : proc'[v] = "closing" => proc[v] = "closing" /\ exitDue'[v] = exitDue[v]
    BY <1>2, <1>3, <2>1
  <2> QED  BY <1>0, <1>1, <2>2, <2>3, <2>4 DEF WindowInv
<1>9. CallbacksRunLast'
  BY <1>0, <1>1, <1>2, <1>3, Delays DEF CallbacksRunLast
<1> QED  BY <1>6, <1>7, <1>8, <1>9 DEF IInv

\* What the phase does when an exit is noticed or an ACK wait ends.
LEMMA PhaseStep ==
  ASSUME IInv, now' = now, NEW process,
         \/ UNCHANGED <<phase, due>>
         \/ phase = "acks" /\ WaitForExits(process)
         \/ phase = "exits" /\ AllGone(process) /\ RunCallbacks
  PROVE  /\ phase' \in {"idle", "acks", "exits", "term", "int", "callbacks", "done", "forced"}
         /\ due' \in Nat /\ DeadlineInv'
         /\ \/ UNCHANGED <<phase, due>>
            \/ phase' = "exits" /\ due' = now + Timeout
            \/ phase' = "callbacks" /\ \A w \in Targets : process[w] = "dead"
<1>1. CASE UNCHANGED <<phase, due>>
  BY <1>1 DEF IInv, TypeOK, DeadlineInv
<1>2. CASE phase = "acks" /\ WaitForExits(process)
  BY <1>2, WaitStep
<1>3. CASE phase = "exits" /\ AllGone(process) /\ RunCallbacks
  BY <1>3, Delays DEF IInv, TypeOK, DeadlineInv, RunCallbacks, Enter, AllGone
<1> QED  BY <1>1, <1>2, <1>3

\* The message is sent, or not, to every worker of the shutdown.
LEMMA BeginStep == ASSUME IInv, Shutdown PROVE IInv'
<1>0. /\ TypeOK /\ AwaitInv /\ WindowInv
      /\ phase = "idle" /\ now = 0 /\ acked = {} /\ acks = {}
      /\ UNCHANGED <<acked, killed, proc, exitDue, acks, now>>
  BY DEF IInv, TypeOK, AwaitInv, Shutdown
<1>1. /\ waiting' \subseteq Targets /\ inbox' \subseteq Worker
      /\ signalled' \subseteq Signallable(proc)
  BY <1>0, Delays DEF Shutdown, TypeOK
<1>2. \/ waiting' = {} /\ WaitForExits(proc)
      \/ waiting' # {} /\ Enter("acks", AckTimeout)
  BY DEF Shutdown
<1>3. /\ phase' \in {"acks", "exits", "callbacks"} /\ due' \in Nat /\ DeadlineInv'
      /\ waiting' # {} => phase' = "acks"
      /\ phase' = "callbacks" => \A w \in Targets : proc[w] = "dead"
  <2>1. CASE waiting' = {} /\ WaitForExits(proc)
    BY <1>0, <2>1, WaitStep
  <2>2. CASE waiting' # {} /\ Enter("acks", AckTimeout)
    BY <1>0, <2>2, Delays DEF Enter, DeadlineInv
  <2> QED  BY <1>2, <2>1, <2>2
<1>4. TypeOK'
  <2>1. waiting' \subseteq {w \in Targets : proc'[w] # "dead"}
    BY <1>0, <1>1, Delays DEF AwaitInv
  <2> QED  BY <1>0, <1>1, <1>3, <2>1 DEF TypeOK
<1>5. AwaitInv' /\ WindowInv' /\ CallbacksRunLast'
  BY <1>0, <1>3 DEF AwaitInv, WindowInv, CallbacksRunLast
<1> QED  BY <1>3, <1>4, <1>5 DEF IInv

LEMMA ExitStep == ASSUME IInv, NEW w \in Worker, Exits(w) PROVE IInv'
<1>0. /\ TypeOK /\ AwaitInv /\ WindowInv /\ CallbacksRunLast
      /\ phase # "idle"
      /\ proc' = [proc EXCEPT ![w] = "dead"]
      /\ exitDue' = [exitDue EXCEPT ![w] = 0]
      /\ inbox' = inbox \ {w} /\ signalled' = signalled \ {w}
      /\ acks' = acks \ {w} /\ waiting' = waiting \ {w}
      /\ UNCHANGED <<acked, killed, now>>
  BY DEF IInv, Exits, Forget, NotAwaited
<1>1. /\ \/ UNCHANGED <<phase, due>>
         \/ phase = "acks" /\ WaitForExits(proc')
         \/ phase = "exits" /\ AllGone(proc') /\ RunCallbacks
      /\ phase = "acks" /\ waiting' = {} => phase' # "acks"
      /\ phase = "acks" /\ waiting' # {} => phase' = "acks"
  BY <1>0, Zenon DEF Exits, NotAwaited, ResumeOnExit, WaitForExits, Enter, RunCallbacks
<1>2. /\ phase' \in {"idle", "acks", "exits", "term", "int", "callbacks", "done", "forced"}
      /\ due' \in Nat /\ DeadlineInv'
      /\ \/ UNCHANGED <<phase, due>>
         \/ phase' = "exits" /\ due' = now + Timeout
         \/ phase' = "callbacks" /\ \A v \in Targets : proc'[v] = "dead"
  BY <1>0, <1>1, PhaseStep
<1>3. \A v \in Worker : \/ v # w /\ proc'[v] = proc[v] /\ exitDue'[v] = exitDue[v]
                        \/ v = w /\ proc'[v] = "dead"
  BY <1>0 DEF TypeOK
<1>4. TypeOK'
  <2>1. waiting' \subseteq {v \in Targets : proc'[v] # "dead"}
    BY <1>0, <1>3, Delays DEF TypeOK
  <2>2. signalled' \subseteq Signallable(proc')
    BY <1>0, <1>3 DEF TypeOK, Signallable
  <2> QED  BY <1>0, <1>2, <2>1, <2>2, Delays DEF TypeOK
<1>5. AwaitInv'
  <2>1. phase' # "idle"
    BY <1>0, <1>2
  <2>2. waiting' # {} => phase' = "acks"
    BY <1>0, <1>1 DEF AwaitInv
  <2> QED  BY <2>1, <2>2 DEF AwaitInv
<1>6. WindowInv'
  <2>1. acked \subseteq Worker /\ acks \subseteq Worker
    BY <1>0, Delays DEF TypeOK
  <2>2. \A v \in Worker : proc'[v] = "closing" => proc[v] = "closing" /\ exitDue'[v] = exitDue[v]
    BY <1>3
  <2>3. \A v \in acks' \cup acked' : proc'[v] \in {"closing", "wedged", "dead"}
    BY <1>0, <1>3, <2>1 DEF WindowInv
  <2> QED  BY <1>0, <1>2, <2>1, <2>2, <2>3 DEF WindowInv
<1>7. CallbacksRunLast'
  BY <1>0, <1>2, <1>3, Delays DEF CallbacksRunLast
<1> QED  BY <1>2, <1>4, <1>5, <1>6, <1>7 DEF IInv

\* An ACK arrives, or its wait ends without one.
LEMMA AckStep ==
  ASSUME IInv, NEW w \in Worker, AckArrives(w) \/ ChannelFails(w)
  PROVE  IInv'
<1>0. /\ TypeOK /\ AwaitInv /\ WindowInv /\ CallbacksRunLast
      /\ w \in waiting /\ waiting' = waiting \ {w} /\ acks' = acks \ {w} /\ phase = "acks"
      /\ \/ acked' = acked
         \/ acked' = acked \cup {w} /\ w \in acks
      /\ inbox' \subseteq inbox
      /\ UNCHANGED <<killed, proc, exitDue, signalled, now>>
  BY DEF IInv, AwaitInv, AckArrives, ChannelFails, AckWaitEnds
<1>1. /\ \/ UNCHANGED <<phase, due>>
         \/ phase = "acks" /\ WaitForExits(proc)
      /\ waiting' = {} => phase' # "acks"
      /\ waiting' # {} => phase' = "acks"
  <2>1. waiting' = {} <=> waiting = {w}
    BY <1>0
  <2>2. IF waiting = {w} THEN WaitForExits(proc) ELSE UNCHANGED <<phase, due>>
    BY DEF AckArrives, ChannelFails, AckWaitEnds
  <2>3. WaitForExits(proc) => phase' \in {"exits", "callbacks"}
    BY DEF WaitForExits, Enter, RunCallbacks
  <2> QED  BY <1>0, <2>1, <2>2, <2>3
<1>2. /\ phase' \in {"idle", "acks", "exits", "term", "int", "callbacks", "done", "forced"}
      /\ due' \in Nat /\ DeadlineInv'
      /\ \/ UNCHANGED <<phase, due>>
         \/ phase' = "exits" /\ due' = now + Timeout
         \/ phase' = "callbacks" /\ \A v \in Targets : proc[v] = "dead"
  BY <1>0, <1>1, PhaseStep
<1>3. TypeOK'
  BY <1>0, <1>2 DEF TypeOK
<1>4. AwaitInv' /\ CallbacksRunLast'
  BY <1>0, <1>1, <1>2 DEF AwaitInv, CallbacksRunLast
<1>5. WindowInv'
  <2>1. acked' \subseteq Worker /\ \A v \in acks' \cup acked' : proc[v] \in {"closing", "wedged", "dead"}
    BY <1>0, Delays DEF TypeOK, WindowInv
  <2>2. phase' \in {"acks", "exits", "callbacks"} /\ (phase' = "exits" => due' = now + Timeout)
    BY <1>0, <1>2
  <2>3. \A v \in Worker : proc[v] = "closing" => exitDue[v] <= now + Timeout
    BY <1>0 DEF WindowInv
  <2> QED
    <3>1. \A v \in acked' : proc'[v] = "closing" =>
            /\ phase' = "exits" => exitDue'[v] <= due'
            /\ phase' \notin {"term", "int"}
      BY <1>0, <2>1, <2>2, <2>3
    <3> QED  BY <1>0, <2>1, <2>3, <3>1 DEF WindowInv
<1> QED  BY <1>2, <1>3, <1>4, <1>5 DEF IInv

LEMMA AckTimeoutStep == ASSUME IInv, AckTimeoutFires PROVE IInv'
<1>0. /\ TypeOK /\ AwaitInv /\ WindowInv
      /\ phase = "acks" /\ waiting' = {} /\ acks' = {}
      /\ UNCHANGED <<acked, killed, proc, exitDue, inbox, signalled, now>>
  BY DEF IInv, AckTimeoutFires
<1>1. /\ phase' \in {"exits", "callbacks"} /\ due' \in Nat /\ DeadlineInv'
      /\ phase' = "exits" => due' = now + Timeout
      /\ phase' = "callbacks" => \A w \in Targets : proc[w] = "dead"
  BY <1>0, WaitStep DEF AckTimeoutFires
<1>2. TypeOK'
  BY <1>0, <1>1 DEF TypeOK
<1>3. AwaitInv' /\ CallbacksRunLast'
  BY <1>0, <1>1 DEF AwaitInv, CallbacksRunLast
<1>4. WindowInv'
  <2>1. acked \subseteq Worker
    BY <1>0, Delays DEF TypeOK
  <2> QED  BY <1>0, <1>1, <2>1 DEF WindowInv
<1> QED  BY <1>1, <1>2, <1>3, <1>4 DEF IInv

\* SIGTERM: a closing worker that acknowledged is over its window.
LEMMA SignalStep == ASSUME IInv, SendSignal PROVE IInv'
<1>0. /\ TypeOK /\ AwaitInv /\ DeadlineInv /\ WindowInv
      /\ signalled' \subseteq Signallable(proc)
      /\ now = due
      /\ UNCHANGED <<waiting, acked, killed, proc, exitDue, inbox, acks, now>>
  BY DEF IInv, SendSignal, TypeOK, DeadlineInv, AwaitInv, Budget, Signallable
<1>1. \/ phase = "exits" /\ phase' = "term" /\ due' = now + SigtermDelay
      \/ phase = "term" /\ phase' = "int" /\ due' = now + SigintDelay
      \/ /\ phase = "term" /\ phase' = "callbacks" /\ due' = now + Timeout
         /\ \A w \in Targets : proc[w] = "dead"
  BY DEF SendSignal, Enter, RunCallbacks, Survivors
<1>2. due' \in Nat /\ DeadlineInv'
  BY <1>0, <1>1, Delays DEF TypeOK, DeadlineInv
<1>3. TypeOK'
  BY <1>0, <1>1, <1>2 DEF TypeOK
<1>4. AwaitInv' /\ CallbacksRunLast'
  BY <1>0, <1>1 DEF AwaitInv, CallbacksRunLast
<1>5. WindowInv'
  <2>1. CASE phase = "exits"
    BY <1>0, <1>1, <2>1 DEF WindowInv
  <2>2. CASE phase = "term"
    <3>1. \A w \in acked : proc[w] # "closing"
      BY <1>0, <2>2, Delays DEF WindowInv, TypeOK
    <3> QED  BY <1>0, <3>1 DEF WindowInv
  <2> QED  BY <1>1, <2>1, <2>2
<1> QED  BY <1>2, <1>3, <1>4, <1>5 DEF IInv

LEMMA KillStep == ASSUME IInv, SendKill PROVE IInv'
<1>0. /\ TypeOK /\ AwaitInv /\ DeadlineInv /\ WindowInv
      /\ phase = "int" /\ phase' = "callbacks" /\ due' = now + Timeout
      /\ now = due
      /\ killed' = killed \cup Survivors
      /\ UNCHANGED <<waiting, acked, proc, exitDue, inbox, acks, signalled, now>>
  BY DEF IInv, SendKill, TypeOK, DeadlineInv, RunCallbacks, Enter, workerVars
<1>1. due' \in Nat /\ DeadlineInv'
  BY <1>0, Delays DEF TypeOK, DeadlineInv
<1>2. TypeOK'
  BY <1>0, <1>1 DEF TypeOK, Survivors
<1>3. AwaitInv' /\ WindowInv'
  BY <1>0 DEF AwaitInv, WindowInv
<1>4. CallbacksRunLast'
  BY <1>0 DEF CallbacksRunLast, Survivors
<1> QED  BY <1>1, <1>2, <1>3, <1>4 DEF IInv

LEMMA FinishStep == ASSUME IInv, Finish PROVE IInv'
<1>0. /\ phase = "callbacks" /\ phase' \in {"done", "forced"}
      /\ UNCHANGED <<due, waiting, acked, killed, proc, exitDue, inbox, acks, signalled, now>>
  BY DEF Finish, workerVars
<1> QED
  BY <1>0 DEF IInv, TypeOK, AwaitInv, DeadlineInv, WindowInv, CallbacksRunLast

LEMMA TickStep == ASSUME IInv, Tick PROVE IInv'
<1>0. /\ TypeOK /\ AwaitInv /\ DeadlineInv /\ WindowInv /\ CallbacksRunLast
      /\ phase # "idle" /\ now <= Budget /\ now < due /\ now' = now + 1
      /\ \A w \in Worker : ~MustExit(w)
      /\ UNCHANGED <<phase, due, waiting, acked, killed, proc, exitDue, inbox, acks, signalled>>
  BY DEF IInv, Tick, primaryVars, workerVars
<1>1. TypeOK'
  BY <1>0, Delays DEF TypeOK
<1>2. AwaitInv' /\ CallbacksRunLast'
  BY <1>0 DEF AwaitInv, CallbacksRunLast
<1>3. DeadlineInv'
  BY <1>0 DEF TypeOK, DeadlineInv
<1>4. WindowInv'
  <2>1. acked \subseteq Worker
    BY <1>0, Delays DEF TypeOK
  <2>2. \A w \in acked : phase = "term" => proc[w] # "closing"
    BY <1>0, <2>1 DEF WindowInv, MustExit
  <2>3. \A w \in Worker : proc[w] = "closing" => exitDue[w] <= now' + Timeout
    BY <1>0, Delays DEF TypeOK, WindowInv
  <2> QED  BY <1>0, <2>1, <2>2, <2>3 DEF WindowInv
<1> QED  BY <1>1, <1>2, <1>3, <1>4 DEF IInv

LEMMA InvStep == IInv /\ [Next]_vars => IInv'
<1>1. ASSUME IInv, UNCHANGED vars PROVE IInv'
  BY <1>1 DEF vars, primaryVars, workerVars, IInv, TypeOK, AwaitInv, DeadlineInv, WindowInv,
              CallbacksRunLast, Signallable
<1> QED
  BY <1>1, BeginStep, WorkerSteps, ExitStep, AckStep, AckTimeoutStep, SignalStep, KillStep,
     FinishStep, TickStep, Zenon DEF Next, Timers

LEMMA InvHolds == Spec => []IInv
BY InvInit, InvStep, PTL DEF Spec

\* The phases, the waits and the processes stay what they can be; in particular
\* only the ACK of a living worker is awaited, and none twice.
THEOREM TypeCorrect == Spec => []TypeOK
<1>1. IInv => TypeOK
  BY DEF IInv
<1> QED  BY <1>1, InvHolds, PTL

\* shutdownPrimary() runs the callbacks after its workers are gone, or killed.
THEOREM CallbacksAreLast == Spec => []CallbacksRunLast
<1>1. IInv => CallbacksRunLast
  BY DEF IInv
<1> QED  BY <1>1, InvHolds, PTL

\* The whole shutdown takes no longer than the sum of the phases, for any number
\* of workers.
THEOREM ShutdownEndsInTime == Spec => []ShutdownIsBounded
<1>1. IInv => ShutdownIsBounded
  <2> SUFFICES ASSUME IInv PROVE ShutdownIsBounded
    OBVIOUS
  <2>1. phase \in {"acks", "exits", "term", "int", "callbacks"} => now <= due /\ due <= Budget
    BY Delays DEF IInv, TypeOK, DeadlineInv
  <2>2. phase = "idle" => now <= Budget
    BY Delays DEF IInv, AwaitInv
  <2> QED  BY <2>1, <2>2, Delays DEF IInv, TypeOK, ShutdownIsBounded, Over
<1> QED  BY <1>1, InvHolds, PTL

\* killWorkerGradually() reaches SIGKILL only for workers that never acknowledged
\* or whose event loop is blocked: the exit timers of the others fire first.
THEOREM AckedAreNotKilled == Spec => AckedWorkersExitUnkilled
<1>1. IInv /\ [Next]_vars =>
        [\A w \in killed' \ killed : w \in acked => proc[w] = "wedged"]_vars
  <2> SUFFICES ASSUME IInv, Next, NEW w \in killed' \ killed, w \in acked
               PROVE  proc[w] = "wedged"
    OBVIOUS
  <2>1. SendKill
    BY Zenon DEF Next, Timers, Shutdown, Receive, HandleSignal, Booted, Wedges, Exits, AckArrives,
                 ChannelFails, AckTimeoutFires, SendSignal, Finish, Tick, primaryVars
  <2>2. phase = "int" /\ proc[w] # "dead"
    BY <2>1 DEF SendKill, Survivors
  <2> QED  BY <2>2 DEF IInv, WindowInv
<1> QED  BY <1>1, InvHolds, PTL DEF Spec, AckedWorkersExitUnkilled
=============================================================================
