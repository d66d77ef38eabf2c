----------------------------- MODULE JobStore -----------------------------
(***************************************************************************)
(* The job table of the PostgreSQL store and everything that writes it:    *)
(*                                                                         *)
(*   - the Slurm prolog and epilog script, whose requests may be lost,     *)
(*   - the JobStart, JobStop and RefreshMetadata handlers of the router,   *)
(*     each a thread that answers first and writes later, or reads a row,  *)
(*     queries InfluxDB and writes the whole row back,                     *)
(*   - finishOvertimeJobs, the sweep that runs at start-up and every 12 h, *)
(*   - a stop of the backend, which drops what is in flight, and           *)
(*     statements and queries that fail.                                   *)
(*                                                                         *)
(* A statement of SQL is one atomic step; whatever lies between two        *)
(* statements of a thread may interleave with every other thread.          *)
(***************************************************************************)
EXTENDS Integers, FiniteSets

CONSTANTS
    Jobs,           \* job IDs Slurm hands out
    Handlers,       \* threads that serve requests
    Cleaner,        \* the thread of the sweep
    NoRow,          \* no row in the table, or none read yet
    MaxTime,        \* config: maximum wall clock time of every partition
    PartitionOf,    \* the partition a job is submitted to
    ExitCodes,      \* exit codes Slurm reports
    MaxClock,       \* bound: the last second of the model
    MaxRuns,        \* bound: how often Slurm runs a job (requeueing keeps the ID)
    MaxFailures     \* bound: restarts of the backend, and statements that fail

\* Partitions of the configuration the store was initialised with.
Partitions == DOMAIN MaxTime

Threads == Handlers \cup {Cleaner}

\* The columns of job_metadata the properties tell apart. Data stands for the
\* metadata metrics: the set of stop times they were computed up to. (A metric
\* that InfluxDB cannot deliver is left out of them without an error.)
Row == [StartTime : Nat, StopTime : Nat, IsRunning : BOOLEAN,
        ExitCode : Int, Data : SUBSET Nat]

StopJob == [StopTime : Nat, ExitCode : Int]

ASSUME StoreAssumption ==
    /\ Cleaner \notin Handlers
    /\ NoRow \notin Row
    /\ MaxTime \in [Partitions -> Nat]
    /\ PartitionOf \in [Jobs -> STRING]
    /\ ExitCodes \subseteq Int
    /\ MaxClock \in Nat /\ MaxRuns \in Nat /\ MaxFailures \in Nat

VARIABLES
    clock,          \* seconds, of Slurm's hosts and of the backend
    slurm,          \* [Jobs -> state and number of runs of the job in Slurm]
    reported,       \* history: the job_stop payloads accepted for each job
    job_metadata,   \* [Jobs -> Row or NoRow], the table
    thread,         \* [Threads -> where the thread is, with its local variables]
    sweep,          \* loop state of finishOvertimeJobs
    failures        \* restarts of the backend and failed statements so far

slurmVars == <<clock, slurm, reported>>
vars == <<clock, slurm, reported, job_metadata, thread, sweep, failures>>

---------------------------------------------------------------------------
(* Data *)

IsRow(row) == row # NoRow

IdleThread == [at |-> "idle"]

\* A busy thread: the next statement, the job, the job_stop it has to record,
\* and its copy of the row.
BusyThread == [at : {"PutJob", "StopJob", "RefreshMetadata", "UpdateJob"},
               job : Jobs, stop : StopJob, row : Row \cup {NoRow}]

Idle(t) == thread[t] = IdleThread

\* Mutant of StartedRow: an unknown end is written as -1.
StartedRowWithoutEnd(time) ==
    [StartTime |-> time, StopTime |-> -1, IsRunning |-> TRUE, ExitCode |-> 0, Data |-> {}]

\* What the prolog sends with job_start.
StartedRow(time) ==
    [StartTime |-> time, StopTime |-> 0, IsRunning |-> TRUE,
     ExitCode |-> 0, Data |-> {}]

\* Mutant of HasMetadataMetrics: an end at the start is accepted.
HasMetadataMetricsAtOnce(row) == ~row.IsRunning /\ row.StopTime >= row.StartTime

\* GetJobMetadataMetrics refuses a running job and an end not after the start.
HasMetadataMetrics(row) == ~row.IsRunning /\ row.StopTime > row.StartTime

\* Mutant of WithMetadataMetrics: metrics once computed are kept.
WithFirstMetadataMetrics(row) ==
    IF row.Data = {} THEN [row EXCEPT !.Data = {row.StopTime}] ELSE row

WithMetadataMetrics(row) == [row EXCEPT !.Data = {row.StopTime}]

\* Mutants of MarkStopped: the exit code stays, or the job stays running.
MarkStoppedKeepsCode(row, stop) ==
    [row EXCEPT !.IsRunning = FALSE, !.StopTime = stop.StopTime]

MarkStoppedKeepsRunning(row, stop) ==
    [row EXCEPT !.StopTime = stop.StopTime, !.ExitCode = stop.ExitCode]

\* The row with the report of a job_stop.
MarkStopped(row, stop) ==
    [row EXCEPT !.IsRunning = FALSE, !.StopTime = stop.StopTime, !.ExitCode = stop.ExitCode]

---------------------------------------------------------------------------
(* Slurm and its prolog and epilog script *)

\* A thread starts with its arguments at its first statement.
Spawn(t, at, job, stop, row) ==
    /\ Idle(t)
    /\ thread' = [thread EXCEPT ![t] = [at |-> at, job |-> job, stop |-> stop, row |-> row]]

Return(t) == thread' = [thread EXCEPT ![t] = IdleThread]

NoStop == [StopTime |-> 0, ExitCode |-> 0]

\* The prolog reports the start once, and a failed request is not repeated.
SlurmStartsJob(j) ==
    /\ slurm[j].state = "pending"
    /\ slurm' = [slurm EXCEPT ![j] = [state |-> "running", runs |-> @.runs + 1]]
    /\ \/ \E h \in Handlers : Spawn(h, "PutJob", j, NoStop, StartedRow(clock))
       \/ UNCHANGED thread
    /\ UNCHANGED <<clock, reported, job_metadata, sweep, failures>>

\* The epilog likewise.
SlurmEndsJob(j) ==
    /\ slurm[j].state = "running"
    /\ slurm' = [slurm EXCEPT ![j].state = "ended"]
    /\ \/ \E h \in Handlers, code \in ExitCodes :
            LET stop == [StopTime |-> clock, ExitCode |-> code] IN
            /\ Spawn(h, "StopJob", j, stop, NoRow)
            /\ reported' = [reported EXCEPT ![j] = @ \cup {stop}]
       \/ UNCHANGED <<thread, reported>>
    /\ UNCHANGED <<clock, job_metadata, sweep, failures>>

SlurmRequeuesJob(j) ==
    /\ slurm[j].state = "ended"
    /\ slurm[j].runs < MaxRuns
    /\ slurm' = [slurm EXCEPT ![j].state = "pending"]
    /\ UNCHANGED <<clock, reported, job_metadata, thread, sweep, failures>>

Tick ==
    /\ clock < MaxClock
    /\ clock' = clock + 1
    /\ UNCHANGED <<slurm, reported, job_metadata, thread, sweep, failures>>

---------------------------------------------------------------------------
(* The statements of the handlers *)

\* The thread goes on to UpdateJob with the given copy of the row.
GotoUpdateJob(t, row) ==
    thread' = [thread EXCEPT ![t].at = "UpdateJob", ![t].row = row]

\* Mutant of PutJob: an upsert.
PutJobUpserts(t) ==
    /\ thread[t].at = "PutJob"
    /\ job_metadata' = [job_metadata EXCEPT ![thread[t].job] = thread[t].row]
    /\ Return(t)
    /\ UNCHANGED <<slurmVars, sweep, failures>>

\* JobStart has answered; now the insert, which fails when the ID is taken.
PutJob(t) ==
    LET j == thread[t].job IN
    /\ thread[t].at = "PutJob"
    /\ job_metadata' = IF IsRow(job_metadata[j])
                       THEN job_metadata
                       ELSE [job_metadata EXCEPT ![j] = thread[t].row]
    /\ Return(t)
    /\ UNCHANGED <<slurmVars, sweep, failures>>

\* StopJob reads the row, fills in the report and queries the metadata metrics.
\* Without a row, or when the metrics are refused, it returns an error.
StopJobRead(t) ==
    LET j == thread[t].job
        stopped == MarkStopped(job_metadata[j], thread[t].stop)
    IN
    /\ thread[t].at = "StopJob"
    /\ \/ /\ IsRow(job_metadata[j])
          /\ HasMetadataMetrics(stopped)
          /\ GotoUpdateJob(t, WithMetadataMetrics(stopped))
       \/ /\ ~(IsRow(job_metadata[j]) /\ HasMetadataMetrics(stopped))
          /\ Return(t)
    /\ UNCHANGED <<slurmVars, job_metadata, sweep, failures>>

\* An administrator asks for fresh metadata metrics of a job.
RefreshMetadata(h, j) ==
    /\ Spawn(h, "RefreshMetadata", j, NoStop, NoRow)
    /\ UNCHANGED <<slurmVars, job_metadata, sweep, failures>>

\* RefreshMetadata reads the row and queries the metadata metrics.
RefreshMetadataRead(t) ==
    LET row == job_metadata[thread[t].job] IN
    /\ thread[t].at = "RefreshMetadata"
    /\ \/ /\ IsRow(row)
          /\ HasMetadataMetrics(row)
          /\ GotoUpdateJob(t, WithMetadataMetrics(row))
       \/ /\ ~(IsRow(row) /\ HasMetadataMetrics(row))
          /\ Return(t)
    /\ UNCHANGED <<slurmVars, job_metadata, sweep, failures>>

\* UpdateJob writes every column of the thread's copy; it creates no row.
UpdateJob(t) ==
    LET j == thread[t].job IN
    /\ thread[t].at = "UpdateJob"
    /\ job_metadata' = IF IsRow(job_metadata[j])
                       THEN [job_metadata EXCEPT ![j] = thread[t].row]
                       ELSE job_metadata
    /\ Return(t)
    /\ UNCHANGED <<slurmVars, sweep, failures>>

\* A statement, or the query of the metadata metrics, fails. A handler logs the
\* error or answers with it; the sweep ignores it.
StatementFails(t) ==
    /\ thread[t].at # "idle"
    /\ failures < MaxFailures
    /\ failures' = failures + 1
    /\ Return(t)
    /\ UNCHANGED <<slurmVars, job_metadata, sweep>>

---------------------------------------------------------------------------
(* finishOvertimeJobs *)

Asleep == [awake |-> FALSE, now |-> 0, todo |-> {}, jobs |-> {}]

\* A started backend and the 12 h timer run the sweep; it reads the time once.
\* Without partitions there is nothing to loop over.
SweepBegin ==
    /\ ~sweep.awake /\ Partitions # {}
    /\ sweep' = [awake |-> TRUE, now |-> clock, todo |-> Partitions, jobs |-> {}]
    /\ UNCHANGED <<slurmVars, job_metadata, thread, failures>>

\* One SELECT for a partition: its running jobs that started before the deadline.
SweepSelect(k) ==
    LET deadline == sweep.now - MaxTime[k]
        overtime == {j \in Jobs :
                        /\ IsRow(job_metadata[j])
                        /\ job_metadata[j].IsRunning
                        /\ PartitionOf[j] = k
                        /\ job_metadata[j].StartTime < deadline}
    IN
    /\ sweep.awake /\ sweep.jobs = {} /\ Idle(Cleaner)
    /\ k \in sweep.todo
    /\ sweep' = [sweep EXCEPT
                    !.todo = @ \ {k},
                    !.jobs = {[job |-> j, stop |-> [StopTime |-> job_metadata[j].StartTime + MaxTime[k],
                                                    ExitCode |-> 1]] : j \in overtime}]
    /\ UNCHANGED <<slurmVars, job_metadata, thread, failures>>

\* The SELECT fails: the partition is left to the next sweep.
SweepSelectFails(k) ==
    /\ sweep.awake /\ sweep.jobs = {} /\ Idle(Cleaner)
    /\ k \in sweep.todo
    /\ failures < MaxFailures
    /\ failures' = failures + 1
    /\ sweep' = [sweep EXCEPT !.todo = @ \ {k}]
    /\ UNCHANGED <<slurmVars, job_metadata, thread>>

\* StopJob for one of the rows the SELECT returned.
SweepStopJob(found) ==
    /\ found \in sweep.jobs
    /\ Spawn(Cleaner, "StopJob", found.job, found.stop, NoRow)
    /\ sweep' = [sweep EXCEPT !.jobs = @ \ {found}]
    /\ UNCHANGED <<slurmVars, job_metadata, failures>>

SweepEnd ==
    /\ sweep.awake /\ sweep.todo = {} /\ sweep.jobs = {} /\ Idle(Cleaner)
    /\ sweep' = Asleep
    /\ UNCHANGED <<slurmVars, job_metadata, thread, failures>>

---------------------------------------------------------------------------
(* A stop of the backend drops its threads; the table survives. *)

Restart ==
    /\ failures < MaxFailures
    /\ failures' = failures + 1
    /\ thread' = [t \in Threads |-> IdleThread]
    /\ sweep' = Asleep
    /\ UNCHANGED <<slurmVars, job_metadata>>

---------------------------------------------------------------------------

Init ==
    /\ clock = 0
    /\ slurm = [j \in Jobs |-> [state |-> "pending", runs |-> 0]]
    /\ reported = [j \in Jobs |-> {}]
    /\ job_metadata = [j \in Jobs |-> NoRow]
    /\ thread = [t \in Threads |-> IdleThread]
    /\ sweep = Asleep
    /\ failures = 0

SlurmStep == \E j \in Jobs : SlurmStartsJob(j) \/ SlurmEndsJob(j) \/ SlurmRequeuesJob(j)

HandlerStep(t) ==
    PutJob(t) \/ StopJobRead(t) \/ RefreshMetadataRead(t) \/ UpdateJob(t) \/ StatementFails(t)

SweepStep ==
    \/ SweepBegin
    \/ \E k \in Partitions : SweepSelect(k) \/ SweepSelectFails(k)
    \/ \E found \in sweep.jobs : SweepStopJob(found)
    \/ SweepEnd

Next ==
    \/ SlurmStep
    \/ Tick
    \/ \E h \in Handlers, j \in Jobs : RefreshMetadata(h, j)
    \/ \E t \in Threads : HandlerStep(t)
    \/ SweepStep
    \/ Restart

Spec == Init /\ [][Next]_vars

\* Threads are scheduled, time passes, and the timer of the sweep keeps firing.
\* That failures are bounded says that the store answers in the end.
FairSpec ==
    /\ Spec
    /\ WF_vars(Tick)
    /\ \A t \in Threads : WF_vars(HandlerStep(t))
    /\ WF_vars(SweepStep)

---------------------------------------------------------------------------
(* Properties *)

\* Every thread is idle or between two statements with well-formed local
\* variables, and every row has well-formed columns.
TypeOK ==
    /\ clock \in Nat
    /\ slurm \in [Jobs -> [state : {"pending", "running", "ended"}, runs : Nat]]
    /\ reported \in [Jobs -> SUBSET StopJob]
    /\ job_metadata \in [Jobs -> Row \cup {NoRow}]
    /\ thread \in [Threads -> BusyThread \cup {IdleThread}]
    /\ sweep \in [awake : BOOLEAN, now : Nat, todo : SUBSET Partitions,
                  jobs : SUBSET [job : Jobs, stop : StopJob]]
    /\ failures \in Nat

\* A job shown as finished ends after its start, and its metadata metrics are
\* those up to exactly the end that is stored with them, whichever of StopJob,
\* the sweep and RefreshMetadata wrote the row last and from however old a copy.
FinishedIsComplete ==
    \A j \in Jobs :
        LET row == job_metadata[j] IN
        IsRow(row) /\ ~row.IsRunning =>
            /\ row.StopTime > row.StartTime
            /\ row.Data = {row.StopTime}

\* How the sweep closes a job that started at the given time.
OvertimeStop(j, start) ==
    [StopTime |-> start + MaxTime[PartitionOf[j]], ExitCode |-> 1]

\* The end of a finished job is one report as a whole: the stop time and exit
\* code of one job_stop, or those the sweep assigns. Threads that overwrite each
\* other's rows never mix two reports and never make one up.
EndIsOneReport ==
    \A j \in Jobs :
        LET row == job_metadata[j]
            end == [StopTime |-> row.StopTime, ExitCode |-> row.ExitCode]
        IN
        IsRow(row) /\ ~row.IsRunning =>
            \/ end \in reported[j]
            \/ /\ PartitionOf[j] \in Partitions
               /\ end = OvertimeStop(j, row.StartTime)

\* A job is never removed, never gets another start and, once shown as finished,
\* is never shown as running again: not by a duplicate or late job_start, and not
\* by a thread that writes back a row it read before the job ended.
NeverReopened ==
    [][\A j \in Jobs :
          IsRow(job_metadata[j]) =>
            /\ IsRow(job_metadata'[j])
            /\ job_metadata'[j].StartTime = job_metadata[j].StartTime
            /\ job_metadata'[j].IsRunning => job_metadata[j].IsRunning]_job_metadata

\* A job whose stop was lost (by the network, a restart or a failing store, or
\* because it came before the insert) is nevertheless finished in the end, once it is over the
\* maximum time of its partition. The store never does this for a partition
\* without a maximum time or one that is not in its copy of the configuration.
Swept(j) == PartitionOf[j] \in Partitions /\ MaxTime[PartitionOf[j]] > 0

IsOvertime(j) ==
    /\ IsRow(job_metadata[j])
    /\ job_metadata[j].IsRunning
    /\ job_metadata[j].StartTime + MaxTime[PartitionOf[j]] < clock

OvertimeIsFinished ==
    \A j \in Jobs : Swept(j) =>
        (IsOvertime(j) ~> IsRow(job_metadata[j]) /\ ~job_metadata[j].IsRunning)

\* The table implements the life of a job.
Lifecycle == INSTANCE JobLifecycle WITH
    status <- [j \in Jobs |-> IF ~IsRow(job_metadata[j]) THEN "unknown"
                              ELSE IF job_metadata[j].IsRunning THEN "running" ELSE "finished"],
    began  <- [j \in Jobs |-> IF IsRow(job_metadata[j]) THEN job_metadata[j].StartTime ELSE 0],
    ended  <- [j \in Jobs |-> IF IsRow(job_metadata[j]) /\ ~job_metadata[j].IsRunning
                              THEN job_metadata[j].StopTime ELSE 0]

ImplementsLifecycle == Lifecycle!LifecycleSpec

---------------------------------------------------------------------------
(* What comments of the code claim *)

\* postgres_store.go:562 says that the sweep "changes running jobs that have
\* exceeded MaxTime to finished jobs": what it writes, it writes to a running job.
SweepOnlyChangesRunning ==
    [][\A j \in Jobs :
          /\ thread[Cleaner].at = "UpdateJob" /\ thread'[Cleaner] = IdleThread
          /\ job_metadata'[j] # job_metadata[j]
          => job_metadata[j].IsRunning]_vars

\* store.go:33 says that StopJob marks the job "as stopped": when it is over, a
\* job that has a row is not running.
StopJobMarksStopped ==
    [][\A h \in Handlers :
          /\ thread[h].at \in {"StopJob", "UpdateJob"} /\ thread[h].stop # NoStop
          /\ thread'[h] = IdleThread /\ failures' = failures
          /\ IsRow(job_metadata[thread[h].job])
          => ~job_metadata'[thread[h].job].IsRunning]_vars

===========================================================================
