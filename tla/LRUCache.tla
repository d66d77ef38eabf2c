----------------------------- MODULE LRUCache -----------------------------
(***************************************************************************)
(* The cache of job data, one method call at a time: Get and UpdateJob     *)
(* hold the mutex from their first to their last statement, so no two      *)
(* calls overlap. What InfluxDB and the store answer is left open.         *)
(*                                                                         *)
(* JobService uses the same list operators with the callers around them.   *)
(***************************************************************************)
EXTENDS LRUList

CONSTANTS
    Jobs,           \* job IDs
    Metadata,       \* what the store may say of a job
    MetricData,     \* what InfluxDB may return for a job
    size            \* config: CacheSize

ASSUME CacheAssumption == size \in Nat \ {0}

VARIABLES
    list,           \* sequence of items, most recently used first
    used,           \* history: the jobs that were ever in the cache
    newer           \* history: pairs <<a, b>> of used jobs, a used after b

vars == <<list, used, newer>>

Item == [id : Jobs, data : [Metadata : Metadata, MetricData : MetricData]]

Held == IdsOf(list)

\* The history after a use of the job.
Use(id) ==
    /\ used' = used \cup {id}
    /\ newer' = {p \in newer : p[1] # id /\ p[2] # id} \cup ({id} \X (used \ {id}))

\* Get of a job in the cache.
GetHit(id) ==
    /\ id \in Held
    /\ list' = Found(list, id)
    /\ Use(id)

\* Get of a job that is not in the cache and whose data could be loaded.
GetMiss(id, data) ==
    /\ id \notin Held
    /\ list' = Put(list, [id |-> id, data |-> data], size)
    /\ Use(id)

\* UpdateJob of a job in the cache whose metadata the store returned.
UpdateJob(id, metadata) ==
    /\ id \in Held
    /\ list' = ReplaceFront(Found(list, id), metadata, size)
    /\ Use(id)

\* UpdateJob of a job in the cache that the store could not read: find has moved it.
UpdateJobFails(id) ==
    /\ id \in Held
    /\ list' = Found(list, id)
    /\ Use(id)

\* A Get that could not load, and an UpdateJob of another job, change nothing.

Init ==
    /\ list = <<>>
    /\ used = {}
    /\ newer = {}

Next ==
    \E id \in Jobs :
        \/ GetHit(id)
        \/ \E data \in [Metadata : Metadata, MetricData : MetricData] : GetMiss(id, data)
        \/ \E metadata \in Metadata : UpdateJob(id, metadata)
        \/ UpdateJobFails(id)

Spec == Init /\ [][Next]_vars

---------------------------------------------------------------------------
(* Properties *)

\* The list holds well-formed items, and the histories range over jobs.
TypeOK ==
    /\ list \in Seq(Item)
    /\ used \subseteq Jobs
    /\ newer \subseteq Jobs \X Jobs

\* The cache never outgrows its size, and never holds two items of one job, of
\* which find would see only the first and UpdateJob would refresh only one.
NoDuplicates ==
    /\ Len(list) <= size
    /\ \A k, m \in 1..Len(list) : list[k].id = list[m].id => k = m

\* The list is well-formed, fits the size and holds no job twice.
Inv == TypeOK /\ NoDuplicates

\* The cache holds the most recently used jobs, in the order of their last use:
\* the list is sorted, every job that was evicted was used before every job that
\* is held, and none was evicted without need.
HoldsMostRecentlyUsed ==
    /\ Held \subseteq used
    /\ \A k, m \in 1..Len(list) : k < m => <<list[k].id, list[m].id>> \in newer
    /\ \A a \in Held, b \in used \ Held : <<a, b>> \in newer
    /\ used # Held => Len(list) = size

\* As long as a job stays in the cache it keeps the metric data it was loaded
\* with: UpdateJob exchanges the metadata and nothing else, of that job only.
DataOf(items, id) == items[CHOOSE k \in 1..Len(items) : items[k].id = id].data

KeepsMetricData ==
    [][\A id \in Held \cap IdsOf(list') :
          /\ DataOf(list', id).MetricData = DataOf(list, id).MetricData
          /\ list'[1].id # id => DataOf(list', id) = DataOf(list, id)]_vars

===========================================================================
