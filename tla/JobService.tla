---------------------------- MODULE JobService ----------------------------
(***************************************************************************)
(* The job table (JobStore) together with what serves the jobs to the      *)
(* users: the cache of job data with its mutex, the GetJob, AddTag and     *)
(* RemoveTag handlers, and the prefetch that JobStop may start.            *)
(*                                                                         *)
(* A handler reads the job without the mutex, and a store read is two      *)
(* SELECTs (the row, then its tags). What a thread does to the list        *)
(* between two operations on the store or InfluxDB is one step, since only *)
(* the holder of the mutex touches the list.                               *)
(***************************************************************************)
EXTENDS JobStore, LRUList, SampleIntervals
LOCAL INSTANCE FiniteSetsExt

CONSTANTS
    Clients,        \* goroutines of GetJob, AddTag and RemoveTag, and of prefetches
    Nobody,         \* holder of the free mutex
    size,           \* config: CacheSize
    Prefetch,       \* config: Prefetch
    SampleInterval, \* config: SampleInterval, in seconds
    TickSeconds,    \* seconds that one tick of the clock stands for
    MaxEdits        \* bound: changes to the tags

ASSUME ServiceAssumption ==
    /\ Nobody \notin Clients
    /\ size \in Nat \ {0} /\ Prefetch \in BOOLEAN
    /\ SampleInterval \in Nat \ {0} /\ TickSeconds \in Nat \ {0} /\ MaxEdits \in Nat

VARIABLES
    job_to_tags,    \* [Jobs -> IDs of the tags linked to the job], the table
    edits,          \* history: committed changes to the tags of each job
    list,           \* the cache, most recently used first
    mut,            \* the mutex: its holder, or Nobody
    client,         \* [Clients -> where the goroutine is, with its local variables]
    outdated        \* history: jobs put into the cache from an overtaken read, or
                    \* that could not be refreshed

tagVars == <<job_to_tags, edits>>
cacheVars == <<list, mut, outdated>>
serviceVars == <<job_to_tags, edits, list, mut, client, outdated>>

---------------------------------------------------------------------------
(* Data *)

\* Tags are numbered in the order of their inserts. "edits" is how many changes
\* the read of the tags has seen.
Metadata == [row : Row, tags : SUBSET Nat, edits : Nat]

\* What InfluxDB returns is told apart by the sample interval it was asked for.
Item == [id : Jobs, data : [Metadata : Metadata, MetricData : Nat]]

Readers == {"GetJob", "Prefetch"}
Editors == {"AddTag", "RemoveTag"}

IdleClient == [at |-> "idle"]

BusyClient == [at : {"ReadRow", "ReadTags", "Edit", "Lock", "Load", "RefreshRow", "RefreshTags"},
               op : Readers \cup Editors, job : Jobs, metadata : Metadata, interval : Nat]

NoMetadata == [row |-> StartedRow(0), tags |-> {}, edits |-> 0]

Held == IdsOf(list)

\* A running job is measured up to now; only a prefetch asks for one.
IntervalOf(row) ==
    LET stopTime == IF row.IsRunning THEN clock ELSE row.StopTime IN
    bestAvailableInterval((stopTime - row.StartTime) * TickSeconds, SampleInterval)

---------------------------------------------------------------------------
(* Steps of a goroutine *)

At(c, place, ops) == client[c].at = place /\ client[c].op \in ops

Goto(c, place) == client' = [client EXCEPT ![c].at = place]

Reply(c) == client' = [client EXCEPT ![c] = IdleClient]

\* A request comes in, or a prefetch goroutine starts.
Call(c, op, j) ==
    /\ client[c] = IdleClient
    /\ client' = [client EXCEPT ![c] = [at |-> "ReadRow", op |-> op, job |-> j,
                                            metadata |-> NoMetadata, interval |-> 0]]

Request(c) ==
    /\ \E op \in {"GetJob"} \cup Editors, j \in Jobs : Call(c, op, j)
    /\ UNCHANGED <<vars, tagVars, cacheVars>>

\* First SELECT of store.GetJob; a job that is not in the table is an error.
\* parseTag only wants to know that the job exists.
ReadRow(c) ==
    LET row == job_metadata[client[c].job] IN
    /\ At(c, "ReadRow", Readers \cup Editors)
    /\ \/ ~IsRow(row) /\ Reply(c)
       \/ IsRow(row) /\ client[c].op \in Editors /\ Goto(c, "Edit")
       \/ /\ IsRow(row) /\ client[c].op \in Readers
          /\ client' = [client EXCEPT ![c].at = "ReadTags", ![c].metadata.row = row]
    /\ UNCHANGED <<vars, tagVars, cacheVars>>

TagsRead(c, place) ==
    client' = [client EXCEPT ![c].at = place,
                             ![c].metadata.tags = job_to_tags[client[c].job],
                             ![c].metadata.edits = edits[client[c].job],
                             ![c].interval = IntervalOf(client[c].metadata.row)]

\* Mutant of MayUseCache: running jobs go through the cache as well.
MayAlwaysUseCache(c) == TRUE

\* GetJob turns to the cache for a finished job; a running one, other nodes,
\* another interval or raw data come straight from InfluxDB.
MayUseCache(c) == client[c].op = "GetJob" => ~client[c].metadata.row.IsRunning

\* Second SELECT, after which the interval is chosen. A user may also be refused.
ReadTags(c) ==
    /\ At(c, "ReadTags", Readers)
    /\ \/ MayUseCache(c) /\ TagsRead(c, "Lock")
       \/ client[c].op = "GetJob" /\ Reply(c)
    /\ UNCHANGED <<vars, tagVars, cacheVars>>

MoreEdits == MapThenSumSet(LAMBDA j : edits[j], Jobs) < MaxEdits

\* Mutant of Edit: RemoveTag returns without a refresh of the cache.
EditForgetsCache(c) ==
    LET j == client[c].job IN
    /\ At(c, "Edit", Editors)
    /\ \/ /\ MoreEdits /\ client[c].op = "AddTag"
          /\ edits' = [edits EXCEPT ![j] = @ + 1]
          /\ job_to_tags' = [job_to_tags EXCEPT ![j] = @ \cup {edits[j] + 1}]
          /\ Goto(c, "Lock")
       \/ /\ MoreEdits /\ client[c].op = "RemoveTag"
          /\ edits' = [edits EXCEPT ![j] = @ + 1]
          /\ \E tag \in job_to_tags[j] : job_to_tags' = [job_to_tags EXCEPT ![j] = @ \ {tag}]
          /\ Reply(c)
    /\ UNCHANGED <<vars, cacheVars>>

\* store.AddTag or store.RemoveTag; an error of either is not acted upon.
Edit(c) ==
    LET j == client[c].job IN
    /\ At(c, "Edit", Editors)
    /\ \/ UNCHANGED tagVars
       \/ /\ MoreEdits
          /\ edits' = [edits EXCEPT ![j] = @ + 1]
          /\ \/ /\ client[c].op = "AddTag"
                /\ job_to_tags' = [job_to_tags EXCEPT ![j] = @ \cup {edits[j] + 1}]
             \/ /\ client[c].op = "RemoveTag"
                /\ \E tag \in job_to_tags[j] :
                      job_to_tags' = [job_to_tags EXCEPT ![j] = @ \ {tag}]
    /\ Goto(c, "Lock")
    /\ UNCHANGED <<vars, cacheVars>>

---------------------------------------------------------------------------
(* Get of the cache *)

\* The mutex is free and the job is there.
GetHit(c) ==
    /\ At(c, "Lock", Readers) /\ mut = Nobody
    /\ client[c].job \in Held
    /\ list' = Found(list, client[c].job)
    /\ Reply(c)
    /\ UNCHANGED <<vars, tagVars, mut, outdated>>

\* Mutant of GetMiss: InfluxDB is queried without the mutex.
GetMissUnlocked(c) ==
    /\ At(c, "Lock", Readers) /\ mut = Nobody
    /\ client[c].job \notin Held
    /\ Goto(c, "Load")
    /\ UNCHANGED <<vars, tagVars, cacheVars>>

\* The mutex is free and the job is not there: InfluxDB is queried, mutex in hand.
GetMiss(c) ==
    /\ At(c, "Lock", Readers) /\ mut = Nobody
    /\ client[c].job \notin Held
    /\ mut' = c
    /\ Goto(c, "Load")
    /\ UNCHANGED <<vars, tagVars, list, outdated>>

\* GetJobData returns, never with an error. The item has the caller's metadata.
Load(c) ==
    LET j == client[c].job
        metadata == client[c].metadata
        item == [id |-> j, data |-> [Metadata |-> metadata, MetricData |-> client[c].interval]]
    IN
    /\ At(c, "Load", Readers)
    /\ list' = Put(list, item, size)
    /\ outdated' = IF metadata.edits < edits[j] THEN outdated \cup {j} ELSE outdated \ {j}
    /\ mut' = Nobody
    /\ Reply(c)
    /\ UNCHANGED <<vars, tagVars>>

---------------------------------------------------------------------------
(* UpdateJob of the cache *)

UpdateMiss(c) ==
    /\ At(c, "Lock", Editors) /\ mut = Nobody
    /\ client[c].job \notin Held
    /\ Reply(c)
    /\ UNCHANGED <<vars, tagVars, cacheVars>>

\* Mutant of UpdateHit: the mutex is given back before the store is read.
UpdateHitUnlocked(c) ==
    /\ At(c, "Lock", Editors) /\ mut = Nobody
    /\ client[c].job \in Held
    /\ list' = Found(list, client[c].job)
    /\ Goto(c, "RefreshRow")
    /\ UNCHANGED <<vars, tagVars, mut, outdated>>

UpdateHit(c) ==
    /\ At(c, "Lock", Editors) /\ mut = Nobody
    /\ client[c].job \in Held
    /\ mut' = c
    /\ list' = Found(list, client[c].job)
    /\ Goto(c, "RefreshRow")
    /\ UNCHANGED <<vars, tagVars, outdated>>

\* store.GetJob, mutex in hand.
RefreshRow(c) ==
    /\ At(c, "RefreshRow", Editors)
    /\ client' = [client EXCEPT ![c].at = "RefreshTags",
                                ![c].metadata.row = job_metadata[client[c].job]]
    /\ UNCHANGED <<vars, tagVars, cacheVars>>

\* The tags are read, and the front of the list gets the new metadata.
RefreshTags(c) ==
    LET j == client[c].job
        metadata == [row |-> client[c].metadata.row, tags |-> job_to_tags[j], edits |-> edits[j]]
    IN
    /\ At(c, "RefreshTags", Editors)
    /\ list' = ReplaceFront(list, metadata, size)
    /\ outdated' = outdated \ {j}
    /\ mut' = Nobody
    /\ Reply(c)
    /\ UNCHANGED <<vars, tagVars>>

\* Mutant of RefreshFails: an early return without the deferred Unlock.
RefreshFailsLocked(c) ==
    /\ At(c, "RefreshTags", Editors)
    /\ outdated' = outdated \cup {client[c].job}
    /\ Reply(c)
    /\ UNCHANGED <<vars, tagVars, list, mut>>

\* The store fails: UpdateJob returns and the item stays what it was.
RefreshFails(c) ==
    /\ At(c, "RefreshTags", Editors)
    /\ outdated' = outdated \cup {client[c].job}
    /\ mut' = Nobody
    /\ Reply(c)
    /\ UNCHANGED <<vars, tagVars, list>>

---------------------------------------------------------------------------
(* JobStop and the rest of the backend *)

\* The handler is in the middle of StopJob.
Stopping(h) ==
    \/ thread[h].at = "StopJob"
    \/ thread[h].at = "UpdateJob" /\ thread[h].stop # NoStop

\* JobStop prefetches the job when StopJob returns an error, and only then.
JobStopFails(h) ==
    /\ Stopping(h)
    /\ StopJobRead(h) \/ StatementFails(h)
    /\ thread'[h] = IdleThread
    /\ \/ Prefetch /\ \E c \in Clients : Call(c, "Prefetch", thread[h].job)
       \/ ~Prefetch /\ UNCHANGED client
    /\ UNCHANGED <<tagVars, cacheVars>>

JobStopProceeds(h) ==
    /\ StopJobRead(h)
    /\ thread'[h] # IdleThread
    /\ UNCHANGED serviceVars

\* Everything else that happens to the table leaves the cache alone.
TableStep ==
    /\ \/ SlurmStep
       \/ Tick
       \/ \E h \in Handlers, j \in Jobs : RefreshMetadata(h, j)
       \/ \E t \in Threads : PutJob(t) \/ RefreshMetadataRead(t) \/ UpdateJob(t)
       \/ \E h \in Handlers : ~Stopping(h) /\ StatementFails(h)
       \/ StopJobRead(Cleaner) \/ StatementFails(Cleaner)
       \/ SweepStep
    /\ UNCHANGED serviceVars

\* The tables survive; the cache and the goroutines do not.
RestartService ==
    /\ Restart
    /\ list' = <<>>
    /\ mut' = Nobody
    /\ client' = [c \in Clients |-> IdleClient]
    /\ outdated' = {}
    /\ UNCHANGED tagVars

---------------------------------------------------------------------------

ServiceInit ==
    /\ Init
    /\ job_to_tags = [j \in Jobs |-> {}]
    /\ edits = [j \in Jobs |-> 0]
    /\ list = <<>>
    /\ mut = Nobody
    /\ client = [c \in Clients |-> IdleClient]
    /\ outdated = {}

\* A step of a goroutine that waits for the mutex, and of one that need not.
EnterCache(c) == GetHit(c) \/ GetMiss(c) \/ UpdateMiss(c) \/ UpdateHit(c)

Proceed(c) ==
    \/ ReadRow(c) \/ ReadTags(c) \/ Edit(c)
    \/ Load(c)
    \/ RefreshRow(c) \/ RefreshTags(c) \/ RefreshFails(c)

ServiceNext ==
    \/ TableStep
    \/ \E h \in Handlers : JobStopProceeds(h) \/ JobStopFails(h)
    \/ \E c \in Clients : Request(c) \/ EnterCache(c) \/ Proceed(c)
    \/ RestartService

ServiceSpec == ServiceInit /\ [][ServiceNext]_<<vars, serviceVars>>

\* Goroutines are scheduled, the store and InfluxDB answer, and Go's mutex hands
\* itself to whoever waited for more than a millisecond.
FairServiceSpec ==
    /\ ServiceSpec
    /\ \A c \in Clients : /\ WF_<<vars, serviceVars>>(Proceed(c))
                          /\ SF_<<vars, serviceVars>>(EnterCache(c))

---------------------------------------------------------------------------
(* Properties *)

\* The list holds well-formed items, the mutex is free or has one holder, and every
\* goroutine is idle or between two steps with well-formed local variables.
ServiceTypeOK ==
    /\ job_to_tags \in [Jobs -> SUBSET Nat]
    /\ edits \in [Jobs -> Nat]
    /\ list \in Seq(Item)
    /\ mut \in Clients \cup {Nobody}
    /\ client \in [Clients -> BusyClient \cup {IdleClient}]
    /\ outdated \subseteq Jobs

\* However many goroutines miss the same job at the same time, the cache holds
\* it once and keeps to its size.
CacheHoldsJobOnce ==
    /\ Len(list) <= size
    /\ \A k, m \in 1..Len(list) : list[k].id = list[m].id => k = m

\* The state is well-formed, and no job is in the cache twice.
ServiceInv == ServiceTypeOK /\ CacheHoldsJobOnce

\* As long as nothing is prefetched, the cache holds only finished jobs, although
\* the job may change between the read of its row and the fill of the cache, and
\* the row is read again by every refresh.
CachedIsFinished ==
    ~Prefetch =>
        \A k \in 1..Len(list) :
            /\ ~list[k].data.Metadata.row.IsRunning
            /\ list[k].data.Metadata.row.StopTime > list[k].data.Metadata.row.StartTime

DataOf(items, id) == items[CHOOSE k \in 1..Len(items) : items[k].id = id].data

\* The goroutine changed the tags of the job and has yet to refresh the cache.
Refreshing(c, j) ==
    /\ client[c] # IdleClient /\ client[c].job = j /\ client[c].op \in Editors
    /\ client[c].at \in {"Lock", "RefreshRow", "RefreshTags"}

\* When the cache shows other tags than the table, there is a reason: a handler
\* that has yet to refresh it, an item put there from a read that the change
\* overtook, or a store that failed. A backend in which reads and edits of a job
\* do not overlap and the store answers never shows old tags.
CacheIsCoherent ==
    \A j \in Held :
        \/ DataOf(list, j).Metadata.tags = job_to_tags[j]
        \/ j \in outdated
        \/ \E c \in Clients : Refreshing(c, j)

\* While a job stays in the cache, the tags shown for it never go back to those
\* before a change that was already shown: handlers that finish in another order
\* than the store committed their changes do no harm.
CacheNeverRegresses ==
    [][\A j \in Held \cap IdsOf(list') :
          DataOf(list', j).Metadata.edits >= DataOf(list, j).Metadata.edits]_list

\* Every request is answered: the mutex is always given back, and nobody waits
\* for it for ever.
RequestsAreAnswered ==
    \A c \in Clients : client[c] # IdleClient ~> client[c] = IdleClient

---------------------------------------------------------------------------
(* What comments of the code claim *)

\* config.go:52 says that the backend prefetches "upon job completion": the job
\* that a prefetch is started for is finished.
PrefetchUponCompletion ==
    [][\A c \in Clients :
          client[c] = IdleClient /\ client'[c] # IdleClient /\ client'[c].op = "Prefetch" =>
              LET row == job_metadata'[client'[c].job] IN IsRow(row) /\ ~row.IsRunning
      ]_client

\* lru_cache.go:37 says that "Get returns the job data for the given sample
\* interval": for the one computed from the metadata that the caller read.
GetReturnsGivenInterval ==
    [][\A c \in Clients :
          At(c, "Lock", Readers) /\ client'[c] = IdleClient /\ client[c].job \in IdsOf(list') =>
              DataOf(list', client[c].job).MetricData = client[c].interval]_client

===========================================================================
