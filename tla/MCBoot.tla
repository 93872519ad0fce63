--------------------------------- MODULE MCBoot ---------------------------------
(***************************************************************************)
(* Boot for TLC: the hosts, and the readings and options that the plan is  *)
(* checked of.                                                             *)
(***************************************************************************)
EXTENDS Boot, TLC

Missing   == [kind |-> "missing"]
Quota(q)  == [kind |-> "quota", quota |-> q, period |-> 100]
Bytes(mb) == [kind |-> "bytes", mb |-> mb]
NoLimit   == [kind |-> "max"]
Own(f)    == [own |-> f, root |-> Missing]
AtRoot(f) == [own |-> Missing, root |-> f]

SizingOptions ==
  [memoryOverheadFactor |-> 80, heapRatio |-> 75, minWorkers |-> 1, maxWorkers |-> 3,
   strategy |-> "balanced", overrideWorkerCount |-> TRUE, injectNodeOptions |-> TRUE,
   fallback |-> TRUE, extra |-> <<64>>]

Bare ==
  [files |-> [version |-> 0, cpu |-> Own(Missing), memory |-> Own(Missing)],
   cpus |-> 2, memory |-> 2048, webConcurrency |-> None, platform |-> "linux",
   nodeOptions |-> <<>>, workerNodeOptions |-> None, execHeap |-> None,
   config |-> <<>>, sizing |-> SizingOptions, uses |-> {}, listens |-> FALSE]

Rejected ==
  {[count |-> 0], [timeoutMs |-> 3000], [timeoutMs |-> 4000, ackTimeoutMs |-> 4000],
   [maxBackoffMs |-> 1000, backoffMs |-> 2000], [wedgedTimeoutMs |-> 1000],
   [heartbeatMs |-> 1000, wedgedTimeoutMs |-> 1999], [lagSpikeMs |-> 10]}

AllHosts ==
  { \* a v2 container with two and a half CPUs and memory for one worker
    [Bare EXCEPT !.files = [version |-> 2, cpu |-> Own(Quota(250)), memory |-> AtRoot(Bytes(384))],
                 !.cpus = 4, !.nodeOptions = <<Other, 4096>>, !.uses = {"sizing", "user"}],
    \* a v1 container, unlimited memory, half a CPU; a heap on the command line
    [Bare EXCEPT !.files = [version |-> 1, cpu |-> Own(Quota(50)), memory |-> Own(Bytes(V1Unlimited))],
                 !.execHeap = 512, !.workerNodeOptions = <<Other>>,
                 !.uses = {"sizing", "prometheus"}],
    \* no container: WEB_CONCURRENCY, and the plugin keeps out
    [Bare EXCEPT !.webConcurrency = 9, !.sizing.fallback = FALSE, !.cpus = 1, !.uses = {"sizing"}],
    \* options of the sizing plugin that it rejects
    [Bare EXCEPT !.webConcurrency = 0, !.sizing.minWorkers = 4,
                 !.uses = {"sizing", "prometheus"}],
    \* a configured count; the workers listen, on three kinds of kernel
    [Bare EXCEPT !.config = [count |-> 2], !.listens = TRUE],
    [Bare EXCEPT !.config = [count |-> 2], !.listens = TRUE, !.platform = "patched"],
    [Bare EXCEPT !.config = [count |-> 2], !.listens = TRUE, !.platform = "darwin"] }
  \* configurations that are rejected, alone or with the defaults of others
  \cup {[Bare EXCEPT !.config = c] : c \in Rejected}

AllReadings ==
  [cpu : {None, Quota(50), Quota(100), Quota(250), Quota(600)},
   memory : {None, 0, 100, 213, 214, 384, 427, 428, 512, 640, 641, 1024}]

AllOptions ==
  {[SizingOptions EXCEPT !.memoryOverheadFactor = f, !.heapRatio = r,
                         !.minWorkers = l, !.maxWorkers = h, !.strategy = s] :
     f \in {50, 80, 100}, r \in {60, 75, 100}, l \in {1, 2}, h \in {2, 3}, s \in {"balanced", "cpu-first"}}
=================================================================================
