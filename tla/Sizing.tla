--------------------------------- MODULE Sizing ---------------------------------
(***************************************************************************)
(* How many workers, and how much V8 heap for each: the limits the cgroup  *)
(* files give, the count "auto" resolves to, the plan of the container     *)
(* sizing plugin and the NODE_OPTIONS it injects.  No state: module        *)
(* Startup calls these operators where the code does.                      *)
(*                                                                         *)
(* Memory is in MB, a fraction of the options in percent.  A cgroup file   *)
(* is what reading it gives: [kind |-> "missing"], "max", "malformed", or   *)
(* its numbers; a CPU limit is a quota over a period.                      *)
(***************************************************************************)
EXTENDS Integers, Sequences, FiniteSets

CONSTANTS
  None,              \* null, undefined
  MaxAutoWorkers,    \* MAX_AUTO_WORKERS, MAX_REASONABLE_WORKERS (256)
  V1Unlimited        \* MB from which a v1 memory limit is none (near 2^63 bytes)

ASSUME SizingAssumption ==
  /\ MaxAutoWorkers \in Nat \ {0}
  /\ V1Unlimited \in Nat

Lesser(a, b)  == IF a <= b THEN a ELSE b
Larger(a, b)  == IF a >= b THEN a ELSE b

MIN_VIABLE_HEAP_MB == 128
-----------------------------------------------------------------------------
\* The file of the process's own cgroup if it can be read, else the one at the
\* root of the hierarchy.
TryReadFirst(candidates) ==
  IF candidates.own.kind # "missing" THEN candidates.own ELSE candidates.root

\* A quota of -1 (v1) or "max" (v2) is no limit; neither is what cannot be parsed.
ParseCpuLimit(raw) ==
  IF raw.kind = "quota" /\ raw.quota # -1 /\ raw.period # 0 THEN raw ELSE None

\* Memory of cgroup v2 and v1: v1 says "unlimited" by a number near 2^63.
ParseMemory(version, raw) ==
  IF raw.kind = "bytes" /\ (version = 1 => raw.mb < V1Unlimited) THEN raw.mb ELSE None

\* The files of a hierarchy that is not mounted are missing.
CpuLimitOf(files, version) ==
  IF files.version = version THEN ParseCpuLimit(TryReadFirst(files.cpu)) ELSE None

\* The async readers: cgroup.controllers tells v2 from v1.
ReadCgroupLimits(files) ==
  [cpu    |-> CpuLimitOf(files, files.version),
   memory |-> IF files.version = 0 THEN None
              ELSE ParseMemory(files.version, TryReadFirst(files.memory))]

Floor(limit) == limit.quota \div limit.period

\* The sync reader: v2 first, then v1, rounded down but to at least one.
GetCgroupCpuLimit(files) ==
  LET v2 == CpuLimitOf(files, 2)
      limit == IF v2 # None THEN v2 ELSE CpuLimitOf(files, 1)
  IN  IF limit = None THEN None ELSE Larger(1, Floor(limit))

GetCPUCount(host) ==
  LET limit == GetCgroupCpuLimit(host.files)
  IN  IF limit # None THEN Lesser(limit, host.cpus) ELSE host.cpus

\* WEB_CONCURRENCY if it is a positive integer, clamped; else the CPU count.
ComputeAutoWorkerCount(host) ==
  IF host.webConcurrency # None /\ host.webConcurrency > 0
  THEN Lesser(host.webConcurrency, MaxAutoWorkers)
  ELSE GetCPUCount(host)
-----------------------------------------------------------------------------
ValidSizingOptions(o) ==
  /\ o.memoryOverheadFactor \in 1..100 /\ o.heapRatio \in 1..100
  /\ o.minWorkers \in 1..MaxAutoWorkers /\ o.maxWorkers \in 1..MaxAutoWorkers
  /\ o.minWorkers <= o.maxWorkers

\* Heap each of so many workers would get, rounded once.
HeapMb(memory, o, workers) ==
  (memory * o.memoryOverheadFactor * o.heapRatio) \div (workers * 10000)

\* Mutant of the next definition.
StepDownPastViable(memory, o, start) ==
  LET count[w \in Nat] == IF w > o.minWorkers /\ HeapMb(memory, o, w) <= MIN_VIABLE_HEAP_MB
                          THEN count[w - 1] ELSE w
  IN  count[start]

\* Fewer workers until each gets a viable heap.
StepDown(memory, o, start) ==
  LET count[w \in Nat] == IF w > o.minWorkers /\ HeapMb(memory, o, w) < MIN_VIABLE_HEAP_MB
                          THEN count[w - 1] ELSE w
  IN  count[start]

EffectiveCpu(limits, cpus)      == IF limits.cpu = None THEN cpus ELSE Floor(limits.cpu)
EffectiveMemory(limits, memory) == IF limits.memory = None THEN memory ELSE limits.memory

(***************************************************************************)
(* calculateSizing().  The heap is rounded down twice here, the test of    *)
(* the step-down rounds once.                                              *)
(***************************************************************************)
CalculateSizing(limits, host, o) ==
  LET memory  == EffectiveMemory(limits, host.memory)
      start   == Larger(o.minWorkers, Lesser(o.maxWorkers, EffectiveCpu(limits, host.cpus)))
      workers == IF o.strategy = "cpu-first" THEN start ELSE StepDown(memory, o, start)
      perWorker == (memory * o.memoryOverheadFactor) \div (workers * 100)
      rawHeap   == (perWorker * o.heapRatio) \div 100
  IN  [workers |-> workers, memoryPerWorkerMb |-> perWorker,
       v8HeapMb |-> Larger(rawHeap, MIN_VIABLE_HEAP_MB),
       constrained |-> rawHeap < MIN_VIABLE_HEAP_MB]
-----------------------------------------------------------------------------
\* NODE_OPTIONS is a sequence of flags: the heap sizes, by their MB, and Other.
\* Without the heap sizes it is as many times Other as it had others.
Other == 0
WithoutHeap(flags) == [i \in 1..Cardinality({j \in 1..Len(flags) : flags[j] = Other}) |-> Other]

\* mergeNodeOptions(): the computed flag first, the others without theirs.
MergeNodeOptions(heap, existing, extra) ==
  <<heap>> \o WithoutHeap(existing) \o WithoutHeap(extra)

\* The heap Node gives a process: the flag on its command line, else the last
\* one in NODE_OPTIONS, else a default of V8.
EffectiveHeap(execHeap, flags) ==
  LET heaps == {i \in 1..Len(flags) : flags[i] # Other}
  IN  IF execHeap # None THEN execHeap
      ELSE IF heaps = {} THEN None
      ELSE flags[CHOOSE i \in heaps : \A j \in heaps : j <= i]
=============================================================================
