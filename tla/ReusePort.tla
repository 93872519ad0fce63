-------------------------------- MODULE ReusePort --------------------------------
(***************************************************************************)
(* How each worker process listens: detectReusePortSupport() with its      *)
(* cache and its one probe in flight, asked by startWorker() and by the    *)
(* application, and ctx.listen() on what the answer was.  The sockets are  *)
(* those of the kernel: a port bound with SO_REUSEPORT can only be shared  *)
(* by sockets that have it, and a worker that does not bind by itself gets *)
(* the one handle the primary binds without it.                            *)
(***************************************************************************)
EXTENDS Naturals, FiniteSets

CONSTANT Process             \* the worker processes

VARIABLES
  cachedReusePortSupport,    \* of each process: unset, yes or no
  detection,                 \* is its detectionPromise pending?
  waiting,                   \* who awaits it
  reusePort,                 \* what startWorker() was answered: unset, yes or no
  socket,                    \* none, shared (the handle of the primary), direct or failed
  doubted                    \* history: a probe of a kernel with SO_REUSEPORT did not say yes

reusePortVars == <<cachedReusePortSupport, detection, waiting, reusePort, socket, doubted>>

Caller == {"startWorker", "application"}
Answer == {"unset", "yes", "no"}

ReusePortTypeOK ==
  /\ cachedReusePortSupport \in [Process -> Answer]
  /\ detection \in [Process -> BOOLEAN]
  /\ waiting \in [Process -> SUBSET Caller]
  /\ \A w \in Process : detection[w] <=> waiting[w] # {}
  /\ reusePort \in [Process -> Answer]
  /\ socket \in [Process -> {"none", "shared", "direct", "failed"}]
  /\ doubted \in BOOLEAN

ReusePortInit ==
  /\ cachedReusePortSupport = [w \in Process |-> "unset"]
  /\ detection = [w \in Process |-> FALSE]
  /\ waiting = [w \in Process |-> {}]
  /\ reusePort = [w \in Process |-> "unset"]
  /\ socket = [w \in Process |-> "none"]
  /\ doubted = FALSE

\* Windows, macOS and Linux before 3.9 are known not to support it; another
\* platform is probed, and a patched kernel says no.
Probed(platform)   == platform \notin {"win32", "darwin", "linux < 3.9"}
Supports(platform) == Probed(platform) /\ platform # "patched"

\* The promises of these callers resolve.
Resolved(w, callers, answer) ==
  reusePort' = IF "startWorker" \in callers THEN [reusePort EXCEPT ![w] = answer] ELSE reusePort

\* detectReusePortSupport(): the cached answer, the pending detection, the
\* answer of the platform, or a new probe.
DetectReusePortSupport(w, caller, platform) ==
  LET unknown == cachedReusePortSupport[w] = "unset"
  IN
  /\ caller \notin waiting[w]
  /\ \/ /\ ~unknown
        /\ Resolved(w, {caller}, cachedReusePortSupport[w])
        /\ UNCHANGED <<cachedReusePortSupport, detection, waiting>>
     \/ /\ unknown /\ (detection[w] \/ Probed(platform))
        /\ detection' = [detection EXCEPT ![w] = TRUE]
        /\ waiting' = [waiting EXCEPT ![w] = @ \cup {caller}]
        /\ UNCHANGED <<cachedReusePortSupport, reusePort>>
     \/ /\ unknown /\ ~Probed(platform)
        /\ cachedReusePortSupport' = [cachedReusePortSupport EXCEPT ![w] = "no"]
        /\ Resolved(w, {caller}, "no")
        /\ UNCHANGED <<detection, waiting>>
  /\ UNCHANGED <<socket, doubted>>

\* The two sockets of the probe: both listen, one fails, or 500 ms pass.  Only
\* the last is not kept.
ProbeSettles(w, outcome, platform) ==
  /\ detection[w]
  /\ outcome = "both listen" => Supports(platform)
  /\ LET answer == IF outcome = "both listen" THEN "yes" ELSE "no"
     IN  /\ Resolved(w, waiting[w], answer)
         /\ cachedReusePortSupport' =
              IF outcome = "timeout" THEN cachedReusePortSupport
              ELSE [cachedReusePortSupport EXCEPT ![w] = answer]
         /\ doubted' = (doubted \/ (Supports(platform) /\ answer = "no"))
  /\ detection' = [detection EXCEPT ![w] = FALSE]
  /\ waiting' = [waiting EXCEPT ![w] = {}]
  /\ UNCHANGED socket

\* Mutant of the next definition.
AlwaysExclusive(answer) == [exclusive |-> TRUE, reusePort |-> answer = "yes"]

\* The options ctx.listen() passes.
BuildListenOptions(answer) == [exclusive |-> answer = "yes", reusePort |-> answer = "yes"]

Bound(kind) == {v \in Process : socket[v] = kind}

\* What the kernel and node:cluster make of them, all workers on one port.
BindOf(options, platform) ==
  IF options.exclusive
  THEN IF Bound("shared") = {} /\ (Bound("direct") = {} \/ (options.reusePort /\ Supports(platform)))
       THEN "direct" ELSE "failed"
  ELSE IF Bound("direct") = {} THEN "shared" ELSE "failed"

\* ctx.listen(), once startWorker() has its answer.
Listen(w, platform) ==
  /\ socket[w] = "none" /\ reusePort[w] # "unset"
  /\ socket' = [socket EXCEPT ![w] = BindOf(BuildListenOptions(reusePort[w]), platform)]
  /\ UNCHANGED <<cachedReusePortSupport, detection, waiting, reusePort, doubted>>

\* The process is gone, and what it knew with it.
ProcessEnds(w) ==
  /\ cachedReusePortSupport' = [cachedReusePortSupport EXCEPT ![w] = "unset"]
  /\ detection' = [detection EXCEPT ![w] = FALSE]
  /\ waiting' = [waiting EXCEPT ![w] = {}]
  /\ reusePort' = [reusePort EXCEPT ![w] = "unset"]
  /\ socket' = [socket EXCEPT ![w] = "none"]
  /\ UNCHANGED doubted
=============================================================================
