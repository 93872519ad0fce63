--------------------------------- MODULE Scrape ---------------------------------
(***************************************************************************)
(* The merged metrics of plugin-prometheus: the cache with its time to     *)
(* live, the collection in flight that concurrent scrapes share, and the   *)
(* events of the fleet that invalidate both.  The state that is exported   *)
(* is the number of events so far; a collection shows those before it      *)
(* began.                                                                  *)
(***************************************************************************)
EXTENDS Integers, Sequences

NoValue == -1            \* null

CONSTANTS
  Caching,             \* metricsCacheTtlMs > 0
  MaxCollections       \* bound on the collections that run at once

ASSUME ScrapeAssumption == Caching \in BOOLEAN /\ MaxCollections \in Nat

VARIABLES
  listening,           \* are the listeners of the plugin bound to the events?
  events,              \* events so far
  mergedMetricsCache,  \* the events its value shows, or NoValue
  inflightMetrics,     \* is there a promise to join?
  collecting,          \* the collections that run, by the events they show
  quiet                \* history: none ran at the last event

scrapeVars == <<listening, events, mergedMetricsCache, inflightMetrics, collecting, quiet>>

ScrapeTypeOK ==
  /\ {listening, inflightMetrics, quiet} \subseteq BOOLEAN
  /\ events \in Nat
  /\ mergedMetricsCache \in (0..events) \cup {NoValue}
  /\ collecting \in Seq(0..events)
  /\ inflightMetrics => collecting # <<>>

ScrapeInit ==
  /\ listening = FALSE /\ events = 0
  /\ mergedMetricsCache = NoValue /\ inflightMetrics = FALSE
  /\ collecting = <<>> /\ quiet = TRUE

\* Mutant of the next definition.
ClearCacheOnly == mergedMetricsCache' = NoValue /\ UNCHANGED inflightMetrics

ClearMergedMetricsCache == mergedMetricsCache' = NoValue /\ inflightMetrics' = FALSE

\* install() on the primary, and uninstall().
Listens(now) ==
  /\ listening' = now
  /\ ClearMergedMetricsCache
  /\ UNCHANGED <<events, collecting, quiet>>

\* worker:online, worker:exit, worker:crash, worker:restart or
\* circuit-breaker:tripped.
FleetEvent ==
  /\ events' = events + 1
  /\ quiet' = (collecting = <<>>)
  /\ IF listening THEN ClearMergedMetricsCache
                  ELSE UNCHANGED <<mergedMetricsCache, inflightMetrics>>
  /\ UNCHANGED <<listening, collecting>>

\* Neither a cached value nor a promise to join.
MustCollect == mergedMetricsCache = NoValue /\ ~inflightMetrics

\* mergedMetrics() of a scrape that has to collect.
StartCollection ==
  /\ MustCollect
  /\ Len(collecting) < MaxCollections
  /\ collecting' = Append(collecting, events)
  /\ inflightMetrics' = TRUE
  /\ UNCHANGED <<listening, events, mergedMetricsCache, quiet>>

Without(s, i) == SubSeq(s, 1, i - 1) \o SubSeq(s, i + 1, Len(s))

\* A collection has its answers, or the aggregation failed and it serves those
\* of the primary: it stores its value, whatever happened since, and clears the
\* promise, whichever it is.
CollectionEnds(i) ==
  /\ collecting' = Without(collecting, i)
  /\ mergedMetricsCache' = IF Caching THEN collecting[i] ELSE NoValue
  /\ inflightMetrics' = FALSE
  /\ UNCHANGED <<listening, events, quiet>>

\* The time to live is over.
CacheExpires ==
  /\ mergedMetricsCache # NoValue
  /\ mergedMetricsCache' = NoValue
  /\ UNCHANGED <<listening, events, inflightMetrics, collecting, quiet>>
=============================================================================
