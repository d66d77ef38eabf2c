------------------------- MODULE JobService_proofs -------------------------
(***************************************************************************)
(* Theorems about the job data of the backend. The first part is about the *)
(* table, JobStore: for every set of jobs, handlers and partitions and     *)
(* without its bounds on time, runs and failures. The second is about what *)
(* the cache shows of a job, JobService: for any number of goroutines and  *)
(* a cache of any size. The third is about the intervals at which a job is *)
(* shown, SampledJob: for any duration and any interval of its metrics.    *)
(***************************************************************************)
EXTENDS JobService, SampledJob, LRUList_proofs

---------------------------------------------------------------------------
(***************************************************************************)
(* The table of jobs                                                       *)
(***************************************************************************)

---------------------------------------------------------------------------
(* The inductive invariant *)

\* A row of the table is consistent when the job is over.
Complete(row) ==
    ~row.IsRunning => row.StopTime > row.StartTime /\ row.Data = {row.StopTime}

\* A stop is one that was reported for j, or the one of the sweep for j's row.
Accounted(table, reports, j, stop) ==
    \/ stop \in reports[j]
    \/ /\ IsRow(table[j])
       /\ PartitionOf[j] \in Partitions
       /\ stop = OvertimeStop(j, table[j].StartTime)

EndOf(row) == [StopTime |-> row.StopTime, ExitCode |-> row.ExitCode]

\* A copy of j's row that may be written: that of a finished job, complete, of an
\* existing row with the same start, with an accounted end.
GoodCopy(table, reports, j, row) ==
    /\ IsRow(row) /\ IsRow(table[j])
    /\ ~row.IsRunning
    /\ Complete(row)
    /\ row.StartTime = table[j].StartTime
    /\ Accounted(table, reports, j, EndOf(row))

\* The table.
TableInv ==
    \A j \in Jobs : IsRow(job_metadata[j]) /\ ~job_metadata[j].IsRunning =>
        GoodCopy(job_metadata, reported, j, job_metadata[j])

\* The copies that are about to be written.
CopyInv ==
    \A t \in Threads : thread[t].at = "UpdateJob" =>
        GoodCopy(job_metadata, reported, thread[t].job, thread[t].row)

\* A row that is about to be inserted is that of a running job.
InsertInv ==
    \A t \in Threads : thread[t].at = "PutJob" =>
        IsRow(thread[t].row) /\ thread[t].row.IsRunning

\* What StopJob is called with, by the handlers and by the sweep.
StopInv ==
    \A t \in Threads : thread[t].at = "StopJob" =>
        Accounted(job_metadata, reported, thread[t].job, thread[t].stop)

SweepInv ==
    \A found \in sweep.jobs : Accounted(job_metadata, reported, found.job, found.stop)

IInv == TypeOK /\ TableInv /\ CopyInv /\ InsertInv /\ StopInv /\ SweepInv

---------------------------------------------------------------------------
(* Type correctness *)

LEMMA RowTypes ==
    ASSUME NEW row \in Row
    PROVE  /\ IsRow(row)
           /\ \A stop \in StopJob : MarkStopped(row, stop) \in Row
           /\ WithMetadataMetrics(row) \in Row
    BY StoreAssumption DEF Row, IsRow, StopJob, MarkStopped, WithMetadataMetrics

LEMMA BusyIsNotIdle ==
    /\ \A b \in BusyThread : b # IdleThread /\ b.at # "idle"
    /\ IdleThread.at = "idle"
    BY DEF BusyThread, IdleThread

\* A thread at a statement is busy.
LEMMA AtStatement ==
    ASSUME TypeOK, NEW t \in Threads, thread[t].at # "idle"
    PROVE  thread[t] \in BusyThread
    BY DEF TypeOK, IdleThread

LEMMA SpawnType ==
    ASSUME TypeOK, NEW t \in Threads, NEW j \in Jobs, NEW stop \in StopJob,
           NEW row \in Row \cup {NoRow},
           NEW at \in {"PutJob", "StopJob", "RefreshMetadata", "UpdateJob"},
           Spawn(t, at, j, stop, row)
    PROVE  thread' \in [Threads -> BusyThread \cup {IdleThread}]
    BY DEF TypeOK, Spawn, BusyThread

LEMMA ReturnType ==
    ASSUME TypeOK, NEW t, Return(t)
    PROVE  thread' \in [Threads -> BusyThread \cup {IdleThread}]
    BY DEF TypeOK, Return

LEMMA GotoType ==
    ASSUME TypeOK, NEW t \in Threads, NEW row \in Row,
           thread[t].at # "idle", GotoUpdateJob(t, row)
    PROVE  thread' \in [Threads -> BusyThread \cup {IdleThread}]
    <1>1. thread[t] \in BusyThread
        BY AtStatement
    <1>2. [thread[t] EXCEPT !.at = "UpdateJob", !.row = row] \in BusyThread
        BY <1>1 DEF BusyThread
    <1>3. thread' = [thread EXCEPT ![t] = [thread[t] EXCEPT !.at = "UpdateJob", !.row = row]]
        BY DEF GotoUpdateJob, TypeOK
    <1> QED
        BY <1>2, <1>3 DEF TypeOK

LEMMA TypeInit == Init => TypeOK
    BY DEF Init, TypeOK, Asleep

LEMMA TypeStep == TypeOK /\ [Next]_vars => TypeOK'
    <1> SUFFICES ASSUME TypeOK, [Next]_vars
                 PROVE  TypeOK'
        OBVIOUS
    <1> USE StoreAssumption
    <1>1. ASSUME NEW j \in Jobs, SlurmStartsJob(j)
          PROVE  TypeOK'
        <2>1. StartedRow(clock) \in Row /\ NoStop \in StopJob
            BY DEF TypeOK, StartedRow, Row, NoStop, StopJob
        <2>2. thread' \in [Threads -> BusyThread \cup {IdleThread}]
            <3>1. CASE UNCHANGED thread
                BY <3>1 DEF TypeOK
            <3>2. CASE \E h \in Handlers : Spawn(h, "PutJob", j, NoStop, StartedRow(clock))
                BY <2>1, <3>2, SpawnType DEF Threads
            <3> QED
                BY <1>1, <3>1, <3>2 DEF SlurmStartsJob
        <2>3. slurm' \in [Jobs -> [state : {"pending", "running", "ended"}, runs : Nat]]
            BY <1>1 DEF SlurmStartsJob, TypeOK
        <2> QED
            BY <1>1, <2>2, <2>3 DEF SlurmStartsJob, TypeOK
    <1>2. ASSUME NEW j \in Jobs, SlurmEndsJob(j)
          PROVE  TypeOK'
        <2>1. slurm' \in [Jobs -> [state : {"pending", "running", "ended"}, runs : Nat]]
            BY <1>2 DEF SlurmEndsJob, TypeOK
        <2>2. /\ thread' \in [Threads -> BusyThread \cup {IdleThread}]
              /\ reported' \in [Jobs -> SUBSET StopJob]
            <3>1. CASE UNCHANGED <<thread, reported>>
                BY <3>1 DEF TypeOK
            <3>2. ASSUME NEW h \in Handlers, NEW code \in ExitCodes,
                         Spawn(h, "StopJob", j, [StopTime |-> clock, ExitCode |-> code], NoRow),
                         reported' = [reported EXCEPT ![j] = @ \cup {[StopTime |-> clock, ExitCode |-> code]}]
                  PROVE  /\ thread' \in [Threads -> BusyThread \cup {IdleThread}]
                         /\ reported' \in [Jobs -> SUBSET StopJob]
                <4>1. [StopTime |-> clock, ExitCode |-> code] \in StopJob
                    BY DEF TypeOK, StopJob
                <4>2. h \in Threads
                    BY DEF Threads
                <4>3. thread' \in [Threads -> BusyThread \cup {IdleThread}]
                    BY <3>2, <4>1, <4>2, SpawnType
                <4> QED
                    BY <3>2, <4>1, <4>3 DEF TypeOK
            <3> QED
                BY <1>2, <3>1, <3>2 DEF SlurmEndsJob
        <2> QED
            BY <1>2, <2>1, <2>2 DEF SlurmEndsJob, TypeOK
    <1>3. ASSUME NEW j \in Jobs, SlurmRequeuesJob(j)
          PROVE  TypeOK'
        BY <1>3 DEF SlurmRequeuesJob, TypeOK
    <1>4. ASSUME Tick
          PROVE  TypeOK'
        BY <1>4 DEF Tick, TypeOK
    <1>5. ASSUME NEW h \in Handlers, NEW j \in Jobs, RefreshMetadata(h, j)
          PROVE  TypeOK'
        <2>1. NoStop \in StopJob /\ h \in Threads
            BY DEF NoStop, StopJob, Threads
        <2>2. thread' \in [Threads -> BusyThread \cup {IdleThread}]
            BY <1>5, <2>1, SpawnType DEF RefreshMetadata
        <2> QED
            BY <1>5, <2>2 DEF RefreshMetadata, TypeOK, slurmVars
    <1>6. ASSUME NEW t \in Threads, PutJob(t)
          PROVE  TypeOK'
        <2>1. thread[t] \in BusyThread
            BY <1>6, AtStatement DEF PutJob
        <2>2. job_metadata' \in [Jobs -> Row \cup {NoRow}]
            BY <1>6, <2>1 DEF PutJob, BusyThread, TypeOK
        <2>3. thread' \in [Threads -> BusyThread \cup {IdleThread}]
            BY <1>6, ReturnType DEF PutJob
        <2> QED
            BY <1>6, <2>2, <2>3 DEF PutJob, TypeOK, slurmVars
    <1>7. ASSUME NEW t \in Threads, StopJobRead(t)
          PROVE  TypeOK'
        <2> DEFINE stopped == MarkStopped(job_metadata[thread[t].job], thread[t].stop)
        <2>1. thread[t] \in BusyThread
            BY <1>7, AtStatement DEF StopJobRead
        <2>2. CASE Return(t)
            BY <1>7, <2>2, ReturnType DEF StopJobRead, TypeOK, slurmVars
        <2>3. CASE IsRow(job_metadata[thread[t].job]) /\ GotoUpdateJob(t, WithMetadataMetrics(stopped))
            <3>1. job_metadata[thread[t].job] \in Row /\ thread[t].stop \in StopJob
                BY <2>1, <2>3 DEF TypeOK, BusyThread, IsRow
            <3>2. WithMetadataMetrics(stopped) \in Row
                BY <3>1, RowTypes
            <3>3. thread' \in [Threads -> BusyThread \cup {IdleThread}]
                BY <1>7, <2>3, <3>2, GotoType DEF StopJobRead
            <3> QED
                BY <1>7, <3>3 DEF StopJobRead, TypeOK, slurmVars
        <2> QED
            BY <1>7, <2>2, <2>3 DEF StopJobRead
    <1>8. ASSUME NEW t \in Threads, RefreshMetadataRead(t)
          PROVE  TypeOK'
        <2> DEFINE row == job_metadata[thread[t].job]
        <2>1. thread[t] \in BusyThread
            BY <1>8, AtStatement DEF RefreshMetadataRead
        <2>2. CASE Return(t)
            BY <1>8, <2>2, ReturnType DEF RefreshMetadataRead, TypeOK, slurmVars
        <2>3. CASE IsRow(row) /\ GotoUpdateJob(t, WithMetadataMetrics(row))
            <3>1. row \in Row
                BY <2>1, <2>3 DEF TypeOK, BusyThread, IsRow
            <3>2. WithMetadataMetrics(row) \in Row
                BY <3>1, RowTypes
            <3>3. thread' \in [Threads -> BusyThread \cup {IdleThread}]
                BY <1>8, <2>3, <3>2, GotoType DEF RefreshMetadataRead
            <3> QED
                BY <1>8, <3>3 DEF RefreshMetadataRead, TypeOK, slurmVars
        <2> QED
            BY <1>8, <2>2, <2>3 DEF RefreshMetadataRead
    <1>9. ASSUME NEW t \in Threads, UpdateJob(t)
          PROVE  TypeOK'
        <2>1. thread[t] \in BusyThread
            BY <1>9, AtStatement DEF UpdateJob
        <2>2. job_metadata' \in [Jobs -> Row \cup {NoRow}]
            BY <1>9, <2>1 DEF UpdateJob, BusyThread, TypeOK
        <2>3. thread' \in [Threads -> BusyThread \cup {IdleThread}]
            BY <1>9, ReturnType DEF UpdateJob
        <2> QED
            BY <1>9, <2>2, <2>3 DEF UpdateJob, TypeOK, slurmVars
    <1>10. ASSUME SweepBegin
           PROVE  TypeOK'
        BY <1>10 DEF SweepBegin, TypeOK, slurmVars
    <1>11. ASSUME NEW k \in Partitions, SweepSelect(k)
           PROVE  TypeOK'
        <2> DEFINE overtime == {j \in Jobs :
                                    /\ IsRow(job_metadata[j])
                                    /\ job_metadata[j].IsRunning
                                    /\ PartitionOf[j] = k
                                    /\ job_metadata[j].StartTime < sweep.now - MaxTime[k]}
                   stop(j) == [StopTime |-> job_metadata[j].StartTime + MaxTime[k], ExitCode |-> 1]
        <2>1. \A j \in overtime : stop(j) \in StopJob
            <3> SUFFICES ASSUME NEW j \in overtime
                         PROVE  stop(j) \in StopJob
                OBVIOUS
            <3>1. job_metadata[j] \in Row
                BY DEF TypeOK, IsRow
            <3>2. job_metadata[j].StartTime \in Nat /\ MaxTime[k] \in Nat
                BY <3>1 DEF Row
            <3> QED
                BY <3>2 DEF StopJob
        <2>2. {[job |-> j, stop |-> stop(j)] : j \in overtime} \subseteq [job : Jobs, stop : StopJob]
            BY <2>1
        <2>3. sweep' \in [awake : BOOLEAN, now : Nat, todo : SUBSET Partitions,
                          jobs : SUBSET [job : Jobs, stop : StopJob]]
            BY <1>11, <2>2 DEF SweepSelect, TypeOK
        <2> QED
            BY <1>11, <2>3 DEF SweepSelect, TypeOK, slurmVars
    <1>12. ASSUME NEW found \in sweep.jobs, SweepStopJob(found)
           PROVE  TypeOK'
        <2>1. found.job \in Jobs /\ found.stop \in StopJob /\ Cleaner \in Threads
            BY DEF TypeOK, Threads
        <2>2. thread' \in [Threads -> BusyThread \cup {IdleThread}]
            BY <1>12, <2>1, SpawnType DEF SweepStopJob
        <2>3. sweep' \in [awake : BOOLEAN, now : Nat, todo : SUBSET Partitions,
                          jobs : SUBSET [job : Jobs, stop : StopJob]]
            BY <1>12 DEF SweepStopJob, TypeOK
        <2> QED
            BY <1>12, <2>2, <2>3 DEF SweepStopJob, TypeOK, slurmVars
    <1>13. ASSUME SweepEnd
           PROVE  TypeOK'
        BY <1>13 DEF SweepEnd, TypeOK, Asleep, slurmVars
    <1>14. ASSUME Restart
           PROVE  TypeOK'
        BY <1>14 DEF Restart, TypeOK, Asleep, slurmVars
    <1>15. ASSUME NEW t \in Threads, StatementFails(t)
           PROVE  TypeOK'
        <2>1. thread' \in [Threads -> BusyThread \cup {IdleThread}]
            BY <1>15, ReturnType DEF StatementFails
        <2> QED
            BY <1>15, <2>1 DEF StatementFails, TypeOK, slurmVars
    <1>16. ASSUME NEW k \in Partitions, SweepSelectFails(k)
           PROVE  TypeOK'
        BY <1>16 DEF SweepSelectFails, TypeOK, slurmVars
    <1>17. CASE UNCHANGED vars
        BY <1>17 DEF vars, TypeOK
    <1> QED
        BY <1>1, <1>2, <1>3, <1>4, <1>5, <1>6, <1>7, <1>8, <1>9, <1>10, <1>11, <1>12,
           <1>13, <1>14, <1>15, <1>16, <1>17
        DEF Next, SlurmStep, HandlerStep, SweepStep

\* Every variable keeps the shape TypeOK gives it.
THEOREM TypeCorrect == Spec => []TypeOK
    BY TypeInit, TypeStep, PTL DEF Spec

---------------------------------------------------------------------------
(* Rows only move forward *)

\* What one step may do to the table and to the history of reports.
Forward ==
    \A j \in Jobs :
        /\ reported[j] \subseteq reported'[j]
        /\ IsRow(job_metadata[j]) =>
              /\ IsRow(job_metadata'[j])
              /\ job_metadata'[j].StartTime = job_metadata[j].StartTime
              /\ job_metadata'[j].IsRunning => job_metadata[j].IsRunning

LEMMA StepForward == TypeOK /\ CopyInv /\ [Next]_vars => Forward
    <1> SUFFICES ASSUME TypeOK, CopyInv, [Next]_vars
                 PROVE  Forward
        OBVIOUS
    <1>1. ASSUME NEW t \in Threads, PutJob(t)
          PROVE  Forward
        BY <1>1 DEF PutJob, Forward, TypeOK, slurmVars
    <1>2. ASSUME NEW t \in Threads, UpdateJob(t)
          PROVE  Forward
        BY <1>2 DEF UpdateJob, Forward, TypeOK, CopyInv, GoodCopy, slurmVars
    <1>3. ASSUME NEW j \in Jobs, SlurmEndsJob(j)
          PROVE  Forward
        <2>1. UNCHANGED job_metadata
            BY <1>3 DEF SlurmEndsJob
        <2>2. \A i \in Jobs : reported[i] \subseteq reported'[i]
            <3>1. CASE UNCHANGED reported
                BY <3>1
            <3>2. CASE \E stop : reported' = [reported EXCEPT ![j] = @ \cup {stop}]
                BY <3>2 DEF TypeOK
            <3>3. UNCHANGED reported \/ \E stop : reported' = [reported EXCEPT ![j] = @ \cup {stop}]
                <4> HIDE DEF TypeOK
                <4> QED
                    BY <1>3 DEF SlurmEndsJob
            <3> QED
                BY <3>1, <3>2, <3>3
        <2> QED
            BY <2>1, <2>2 DEF Forward
    <1>4. CASE UNCHANGED <<job_metadata, reported>>
        BY <1>4 DEF Forward
    <1>5. (\E j \in Jobs : SlurmStartsJob(j) \/ SlurmRequeuesJob(j)) => UNCHANGED <<job_metadata, reported>>
        BY DEF SlurmStartsJob, SlurmRequeuesJob
    <1>6. (\E t \in Threads : StopJobRead(t) \/ RefreshMetadataRead(t) \/ StatementFails(t))
            => UNCHANGED <<job_metadata, reported>>
        BY DEF StopJobRead, RefreshMetadataRead, StatementFails, slurmVars
    <1>7. (\E h \in Handlers, j \in Jobs : RefreshMetadata(h, j)) => UNCHANGED <<job_metadata, reported>>
        BY DEF RefreshMetadata, slurmVars
    <1>8. SweepStep => UNCHANGED <<job_metadata, reported>>
        BY DEF SweepStep, SweepBegin, SweepSelect, SweepSelectFails, SweepStopJob, SweepEnd, slurmVars
    <1>9. Tick \/ Restart \/ UNCHANGED vars => UNCHANGED <<job_metadata, reported>>
        BY DEF Tick, Restart, vars, slurmVars
    <1> QED
        BY <1>1, <1>2, <1>3, <1>4, <1>5, <1>6, <1>7, <1>8, <1>9 DEF Next, SlurmStep, HandlerStep

\* What was accounted for stays so, and a good copy stays good.
LEMMA Stable ==
    ASSUME Forward, NEW j \in Jobs
    PROVE  /\ \A stop : Accounted(job_metadata, reported, j, stop)
                        => Accounted(job_metadata', reported', j, stop)
           /\ \A row : GoodCopy(job_metadata, reported, j, row)
                       => GoodCopy(job_metadata', reported', j, row)
    BY DEF Forward, Accounted, GoodCopy

---------------------------------------------------------------------------
(* The invariant is inductive *)

\* Each part of the invariant holds for a thread or job that a step leaves alone,
\* so a step has to be looked at only where it writes.
LEMMA Untouched ==
    ASSUME IInv, Forward, NEW t \in Threads, thread'[t] = thread[t]
    PROVE  /\ thread'[t].at = "UpdateJob" =>
                 GoodCopy(job_metadata', reported', thread'[t].job, thread'[t].row)
           /\ thread'[t].at = "PutJob" => IsRow(thread'[t].row) /\ thread'[t].row.IsRunning
           /\ thread'[t].at = "StopJob" =>
                 Accounted(job_metadata', reported', thread'[t].job, thread'[t].stop)
    <1>1. thread[t].at # "idle" => thread[t].job \in Jobs
        BY AtStatement DEF IInv, BusyThread
    <1> QED
        BY <1>1, Stable DEF IInv, CopyInv, InsertInv, StopInv

\* The same for a thread that returned.
LEMMA Returned ==
    ASSUME IInv, Forward, NEW t \in Threads, Return(t)
    PROVE  CopyInv' /\ InsertInv' /\ StopInv'
    <1>1. \A u \in Threads : thread'[u] = thread[u] \/ thread'[u] = IdleThread
        BY DEF Return, IInv, TypeOK
    <1>2. IdleThread.at = "idle"
        BY DEF IdleThread
    <1> QED
        BY <1>1, <1>2, Untouched DEF CopyInv, InsertInv, StopInv

\* What the sweep has still to do stays accounted for.
LEMMA SweepKept ==
    ASSUME IInv, Forward, sweep'.jobs \subseteq sweep.jobs
    PROVE  SweepInv'
    <1>1. \A found \in sweep'.jobs : found.job \in Jobs
        BY DEF IInv, TypeOK
    <1> QED
        BY <1>1, Stable DEF IInv, SweepInv

\* The table after a step that does not write it.
LEMMA TableKept ==
    ASSUME IInv, Forward, UNCHANGED job_metadata
    PROVE  TableInv'
    BY Stable DEF IInv, TableInv
\* A thread that was started for j with a stop that is accounted for.
LEMMA Spawned ==
    ASSUME IInv, Forward, NEW t \in Threads, NEW j \in Jobs, NEW stop, NEW row,
           NEW at \in {"PutJob", "StopJob", "RefreshMetadata"},
           Spawn(t, at, j, stop, row),
           at = "PutJob" => IsRow(row) /\ row.IsRunning,
           at = "StopJob" => Accounted(job_metadata', reported', j, stop)
    PROVE  CopyInv' /\ InsertInv' /\ StopInv'
    <1>1. \A u \in Threads : u # t => thread'[u] = thread[u]
        BY DEF Spawn, IInv, TypeOK
    <1>2. thread'[t] = [at |-> at, job |-> j, stop |-> stop, row |-> row]
        BY DEF Spawn, IInv, TypeOK
    <1> QED
        BY <1>1, <1>2, Untouched DEF CopyInv, InsertInv, StopInv

\* A thread that goes on to UpdateJob with a good copy.
LEMMA GoneToUpdateJob ==
    ASSUME IInv, Forward, NEW t \in Threads, NEW row, thread[t].at # "idle",
           GotoUpdateJob(t, row), GoodCopy(job_metadata', reported', thread[t].job, row)
    PROVE  CopyInv' /\ InsertInv' /\ StopInv'
    <1>1. \A u \in Threads : u # t => thread'[u] = thread[u]
        BY DEF GotoUpdateJob, IInv, TypeOK
    <1>2. thread[t] \in BusyThread
        BY AtStatement DEF IInv
    <1>3. thread'[t].at = "UpdateJob" /\ thread'[t].row = row /\ thread'[t].job = thread[t].job
        BY <1>2 DEF GotoUpdateJob, IInv, TypeOK, BusyThread
    <1> QED
        BY <1>1, <1>3, Untouched DEF CopyInv, InsertInv, StopInv

\* A row that was read and marked stopped is a good copy, if its metrics are given.
LEMMA StoppedIsGood ==
    ASSUME NEW table, NEW reports, NEW j, NEW stop \in StopJob,
           table[j] \in Row,
           HasMetadataMetrics(MarkStopped(table[j], stop)),
           Accounted(table, reports, j, stop)
    PROVE  GoodCopy(table, reports, j, WithMetadataMetrics(MarkStopped(table[j], stop)))
    <1> DEFINE row == WithMetadataMetrics(MarkStopped(table[j], stop))
    <1>1. /\ row \in Row
          /\ row.StartTime = table[j].StartTime
          /\ row.StopTime = stop.StopTime
          /\ row.ExitCode = stop.ExitCode
          /\ ~row.IsRunning
          /\ row.Data = {stop.StopTime}
          /\ row.StopTime > row.StartTime
        BY DEF Row, StopJob, MarkStopped, WithMetadataMetrics, HasMetadataMetrics
    <1>2. EndOf(row) = stop
        BY <1>1 DEF EndOf, StopJob
    <1> HIDE DEF row
    <1>3. IsRow(row) /\ IsRow(table[j])
        BY <1>1, RowTypes
    <1>4. Complete(row)
        BY <1>1 DEF Complete
    <1>5. GoodCopy(table, reports, j, row)
        BY <1>1, <1>2, <1>3, <1>4 DEF GoodCopy
    <1> QED
        BY <1>5 DEF row

\* So is the row of a finished job with fresh metrics.
LEMMA RefreshedIsGood ==
    ASSUME NEW table, NEW reports, NEW j, table[j] \in Row,
           HasMetadataMetrics(table[j]),
           GoodCopy(table, reports, j, table[j])
    PROVE  GoodCopy(table, reports, j, WithMetadataMetrics(table[j]))
    <1> DEFINE row == WithMetadataMetrics(table[j])
    <1>1. /\ row \in Row
          /\ row.StartTime = table[j].StartTime
          /\ row.StopTime = table[j].StopTime
          /\ row.ExitCode = table[j].ExitCode
          /\ row.IsRunning = table[j].IsRunning
          /\ row.Data = {row.StopTime}
          /\ row.StopTime > row.StartTime
        BY DEF Row, WithMetadataMetrics, HasMetadataMetrics
    <1>2. EndOf(row) = EndOf(table[j])
        BY <1>1 DEF EndOf
    <1> HIDE DEF row
    <1>3. GoodCopy(table, reports, j, row)
        BY <1>1, <1>2, RowTypes DEF GoodCopy, Complete
    <1> QED
        BY <1>3 DEF row

LEMMA InvInit == Init => IInv
    <1> SUFFICES ASSUME Init
                 PROVE  IInv
        OBVIOUS
    <1>1. TypeOK
        BY TypeInit
    <1>2. IdleThread.at = "idle" /\ sweep.jobs = {}
        BY DEF IdleThread, Init, Asleep
    <1> QED
        BY <1>1, <1>2 DEF Init, IInv, TableInv, CopyInv, InsertInv, StopInv, SweepInv, IsRow

LEMMA InvStep == IInv /\ [Next]_vars => IInv'
    <1> SUFFICES ASSUME IInv, [Next]_vars
                 PROVE  IInv'
        OBVIOUS
    <1> USE StoreAssumption
    <1>1. TypeOK /\ TypeOK'
        BY TypeStep DEF IInv
    <1>2. Forward
        BY StepForward DEF IInv
    <1>3. ASSUME NEW j \in Jobs, SlurmStartsJob(j)
          PROVE  IInv'
        <2>1. CopyInv' /\ InsertInv' /\ StopInv'
            <3>1. CASE UNCHANGED thread
                BY <3>1, <1>2, Untouched DEF CopyInv, InsertInv, StopInv
            <3>2. ASSUME NEW h \in Handlers, Spawn(h, "PutJob", j, NoStop, StartedRow(clock))
                  PROVE  CopyInv' /\ InsertInv' /\ StopInv'
                <4>1. StartedRow(clock) \in Row /\ StartedRow(clock).IsRunning
                    BY <1>1 DEF TypeOK, StartedRow, Row
                <4>2. h \in Threads /\ IsRow(StartedRow(clock))
                    BY <4>1, RowTypes DEF Threads
                <4> QED
                    BY <1>2, <3>2, <4>1, <4>2, Spawned
            <3> QED
                BY <1>3, <3>1, <3>2 DEF SlurmStartsJob
        <2>2. UNCHANGED <<job_metadata, sweep>>
            BY <1>3 DEF SlurmStartsJob
        <2> QED
            BY <1>1, <1>2, <2>1, <2>2, TableKept, SweepKept DEF IInv
    <1>4. ASSUME NEW j \in Jobs, SlurmEndsJob(j)
          PROVE  IInv'
        <2>1. CopyInv' /\ InsertInv' /\ StopInv'
            <3>1. CASE UNCHANGED thread
                BY <3>1, <1>2, Untouched DEF CopyInv, InsertInv, StopInv
            <3>2. ASSUME NEW h \in Handlers, NEW code \in ExitCodes,
                         Spawn(h, "StopJob", j, [StopTime |-> clock, ExitCode |-> code], NoRow),
                         reported' = [reported EXCEPT ![j] = @ \cup {[StopTime |-> clock, ExitCode |-> code]}]
                  PROVE  CopyInv' /\ InsertInv' /\ StopInv'
                <4> DEFINE stop == [StopTime |-> clock, ExitCode |-> code]
                <4>1. stop \in reported'[j]
                    BY <1>1, <3>2 DEF TypeOK
                <4>2. h \in Threads /\ Accounted(job_metadata', reported', j, stop)
                    BY <4>1 DEF Accounted, Threads
                <4> QED
                    BY <1>2, <3>2, <4>2, Spawned
            <3> QED
                BY <1>4, <3>1, <3>2 DEF SlurmEndsJob
        <2>2. UNCHANGED <<job_metadata, sweep>>
            BY <1>4 DEF SlurmEndsJob
        <2> QED
            BY <1>1, <1>2, <2>1, <2>2, TableKept, SweepKept DEF IInv
    <1>5. ASSUME NEW h \in Handlers, NEW j \in Jobs, RefreshMetadata(h, j)
          PROVE  IInv'
        <2>1. CopyInv' /\ InsertInv' /\ StopInv'
            BY <1>2, <1>5, Spawned DEF RefreshMetadata, Threads
        <2>2. UNCHANGED <<job_metadata, sweep>>
            BY <1>5 DEF RefreshMetadata
        <2> QED
            BY <1>1, <1>2, <2>1, <2>2, TableKept, SweepKept DEF IInv
    <1>6. ASSUME NEW t \in Threads, PutJob(t)
          PROVE  IInv'
        <2>1. CopyInv' /\ InsertInv' /\ StopInv'
            BY <1>2, <1>6, Returned DEF PutJob
        <2>2. SweepInv'
            BY <1>2, <1>6, SweepKept DEF PutJob
        <2>3. thread[t].row.IsRunning
            BY <1>6 DEF IInv, InsertInv, PutJob
        <2>4. TableInv'
            <3>1. \A j \in Jobs : job_metadata'[j] = job_metadata[j] \/ job_metadata'[j].IsRunning
                BY <1>1, <1>6, <2>3 DEF PutJob, TypeOK
            <3> QED
                BY <1>2, <3>1, Stable DEF IInv, TableInv
        <2> QED
            BY <1>1, <2>1, <2>2, <2>4 DEF IInv
    <1>7. ASSUME NEW t \in Threads, StopJobRead(t)
          PROVE  IInv'
        <2> DEFINE j == thread[t].job
                   stop == thread[t].stop
                   copy == WithMetadataMetrics(MarkStopped(job_metadata[j], stop))
        <2>1. thread[t] \in BusyThread
            BY <1>1, <1>7, AtStatement DEF StopJobRead
        <2>2. UNCHANGED <<job_metadata, reported, sweep>>
            BY <1>7 DEF StopJobRead, slurmVars
        <2>3. CASE Return(t)
            BY <1>1, <1>2, <2>2, <2>3, Returned, TableKept, SweepKept DEF IInv
        <2>4. CASE /\ IsRow(job_metadata[j])
                   /\ HasMetadataMetrics(MarkStopped(job_metadata[j], stop))
                   /\ GotoUpdateJob(t, copy)
            <3>1. j \in Jobs /\ stop \in StopJob /\ job_metadata[j] \in Row
                BY <1>1, <2>1, <2>4 DEF BusyThread, TypeOK, IsRow
            <3>2. Accounted(job_metadata, reported, j, stop)
                BY <1>7 DEF IInv, StopInv, StopJobRead
            <3>3. GoodCopy(job_metadata, reported, j, copy)
                BY <2>4, <3>1, <3>2, StoppedIsGood
            <3>4. GoodCopy(job_metadata', reported', j, copy)
                BY <2>2, <3>3
            <3>5. CopyInv' /\ InsertInv' /\ StopInv'
                <4> HIDE DEF copy
                <4> QED
                    BY <1>2, <1>7, <2>4, <3>4, GoneToUpdateJob DEF StopJobRead
            <3> QED
                BY <1>1, <1>2, <2>2, <3>5, TableKept, SweepKept DEF IInv
        <2> QED
            BY <1>7, <2>3, <2>4 DEF StopJobRead
    <1>8. ASSUME NEW t \in Threads, RefreshMetadataRead(t)
          PROVE  IInv'
        <2> DEFINE j == thread[t].job
                   copy == WithMetadataMetrics(job_metadata[j])
        <2>1. thread[t] \in BusyThread
            BY <1>1, <1>8, AtStatement DEF RefreshMetadataRead
        <2>2. UNCHANGED <<job_metadata, reported, sweep>>
            BY <1>8 DEF RefreshMetadataRead, slurmVars
        <2>3. CASE Return(t)
            BY <1>1, <1>2, <2>2, <2>3, Returned, TableKept, SweepKept DEF IInv
        <2>4. CASE /\ IsRow(job_metadata[j])
                   /\ HasMetadataMetrics(job_metadata[j])
                   /\ GotoUpdateJob(t, copy)
            <3>1. j \in Jobs /\ job_metadata[j] \in Row
                BY <1>1, <2>1, <2>4 DEF BusyThread, TypeOK, IsRow
            <3>2. GoodCopy(job_metadata, reported, j, job_metadata[j])
                BY <2>4, <3>1 DEF IInv, TableInv, HasMetadataMetrics
            <3>3. GoodCopy(job_metadata, reported, j, copy)
                BY <2>4, <3>1, <3>2, RefreshedIsGood
            <3>4. GoodCopy(job_metadata', reported', j, copy)
                BY <2>2, <3>3
            <3>5. CopyInv' /\ InsertInv' /\ StopInv'
                <4> HIDE DEF copy
                <4> QED
                    BY <1>2, <1>8, <2>4, <3>4, GoneToUpdateJob DEF RefreshMetadataRead
            <3> QED
                BY <1>1, <1>2, <2>2, <3>5, TableKept, SweepKept DEF IInv
        <2> QED
            BY <1>8, <2>3, <2>4 DEF RefreshMetadataRead
    <1>9. ASSUME NEW t \in Threads, UpdateJob(t)
          PROVE  IInv'
        <2>1. CopyInv' /\ InsertInv' /\ StopInv'
            BY <1>2, <1>9, Returned DEF UpdateJob
        <2>2. SweepInv'
            BY <1>2, <1>9, SweepKept DEF UpdateJob
        <2>3. GoodCopy(job_metadata, reported, thread[t].job, thread[t].row)
            BY <1>9 DEF IInv, CopyInv, UpdateJob
        <2>4. TableInv'
            <3>1. \A j \in Jobs : \/ job_metadata'[j] = job_metadata[j]
                                 \/ (j = thread[t].job /\ job_metadata'[j] = thread[t].row)
                BY <1>1, <1>9 DEF UpdateJob, TypeOK
            <3> QED
                BY <1>2, <2>3, <3>1, Stable DEF IInv, TableInv
        <2> QED
            BY <1>1, <2>1, <2>2, <2>4 DEF IInv
    <1>10. ASSUME NEW k \in Partitions, SweepSelect(k)
           PROVE  IInv'
        <2>1. UNCHANGED <<job_metadata, reported, thread>>
            BY <1>10 DEF SweepSelect, slurmVars
        <2>2. CopyInv' /\ InsertInv' /\ StopInv'
            BY <1>2, <2>1, Untouched DEF CopyInv, InsertInv, StopInv
        <2>3. ASSUME NEW found \in sweep'.jobs
              PROVE  Accounted(job_metadata, reported, found.job, found.stop)
            <3> DEFINE stop(j) == [StopTime |-> job_metadata[j].StartTime + MaxTime[k], ExitCode |-> 1]
            <3>1. \E j \in Jobs : /\ IsRow(job_metadata[j])
                                  /\ PartitionOf[j] = k
                                  /\ found = [job |-> j, stop |-> stop(j)]
                <4>1. sweep'.jobs \subseteq {[job |-> j, stop |-> stop(j)] :
                                              j \in {i \in Jobs : IsRow(job_metadata[i]) /\ PartitionOf[i] = k}}
                    <5>1. sweep \in [awake : BOOLEAN, now : Nat, todo : SUBSET Partitions,
                                      jobs : SUBSET [job : Jobs, stop : StopJob]]
                        BY <1>1 DEF TypeOK
                    <5> QED
                        BY <5>1, <1>10 DEF SweepSelect
                <4> QED
                    BY <4>1
            <3> QED
                BY <3>1 DEF Accounted, OvertimeStop
        <2>4. SweepInv'
            BY <2>1, <2>3 DEF SweepInv
        <2> QED
            BY <1>1, <1>2, <2>1, <2>2, <2>4, TableKept DEF IInv
    <1>11. ASSUME NEW found \in sweep.jobs, SweepStopJob(found)
           PROVE  IInv'
        <2>1. UNCHANGED <<job_metadata, reported>> /\ sweep'.jobs \subseteq sweep.jobs
            BY <1>1, <1>11 DEF SweepStopJob, slurmVars, TypeOK
        <2>2. found.job \in Jobs /\ Cleaner \in Threads
            BY <1>1 DEF TypeOK, Threads
        <2>3. Accounted(job_metadata', reported', found.job, found.stop)
            BY <2>1 DEF IInv, SweepInv
        <2>4. CopyInv' /\ InsertInv' /\ StopInv'
            BY <1>2, <1>11, <2>2, <2>3, Spawned DEF SweepStopJob
        <2> QED
            BY <1>1, <1>2, <2>1, <2>4, TableKept, SweepKept DEF IInv
    <1>12. ASSUME Restart
           PROVE  IInv'
        <2>1. UNCHANGED job_metadata /\ sweep'.jobs = {} /\ IdleThread.at = "idle"
            BY <1>12 DEF Restart, Asleep, IdleThread
        <2>2. CopyInv' /\ InsertInv' /\ StopInv'
            BY <1>12, <2>1 DEF Restart, CopyInv, InsertInv, StopInv
        <2> QED
            BY <1>1, <1>2, <2>1, <2>2, TableKept, SweepKept DEF IInv
    <1>13. CASE /\ UNCHANGED <<job_metadata, thread>>
                /\ sweep'.jobs \subseteq sweep.jobs
        <2>1. CopyInv' /\ InsertInv' /\ StopInv'
            BY <1>2, <1>13, Untouched DEF CopyInv, InsertInv, StopInv
        <2> QED
            BY <1>1, <1>2, <1>13, <2>1, TableKept, SweepKept DEF IInv
    <1>14. ASSUME \/ \E j \in Jobs : SlurmRequeuesJob(j)
                  \/ Tick \/ SweepBegin \/ SweepEnd \/ UNCHANGED vars
                  \/ \E k \in Partitions : SweepSelectFails(k)
           PROVE  UNCHANGED <<job_metadata, thread>> /\ sweep'.jobs \subseteq sweep.jobs
        BY <1>1, <1>14, SMTT(20) DEF SlurmRequeuesJob, Tick, SweepBegin, SweepEnd, SweepSelectFails, Asleep,
                           vars, TypeOK
    <1>15. ASSUME NEW t \in Threads, StatementFails(t)
           PROVE  IInv'
        <2>1. CopyInv' /\ InsertInv' /\ StopInv'
            BY <1>2, <1>15, Returned DEF StatementFails
        <2>2. UNCHANGED <<job_metadata, sweep>>
            BY <1>15 DEF StatementFails
        <2> QED
            BY <1>1, <1>2, <2>1, <2>2, TableKept, SweepKept DEF IInv
    <1> QED
        BY <1>3, <1>4, <1>5, <1>6, <1>7, <1>8, <1>9, <1>10, <1>11, <1>12, <1>13, <1>14, <1>15
        DEF Next, SlurmStep, HandlerStep, SweepStep

THEOREM Invariance == Spec => []IInv
    BY InvInit, InvStep, PTL DEF Spec
---------------------------------------------------------------------------
(* The theorems *)

\* A finished job ends after its start and has the metrics up to its end.
THEOREM FinishedCorrect == Spec => []FinishedIsComplete
    <1>1. IInv => FinishedIsComplete
        BY DEF IInv, TableInv, GoodCopy, Complete, FinishedIsComplete
    <1> QED
        BY Invariance, <1>1, PTL

\* The end of a finished job is one report, never a mixture of two.
THEOREM EndCorrect == Spec => []EndIsOneReport
    <1>1. IInv => EndIsOneReport
        BY DEF IInv, TableInv, GoodCopy, Accounted, EndOf, EndIsOneReport
    <1> QED
        BY Invariance, <1>1, PTL

\* No interleaving of handlers, sweep and failures reopens a finished job.
THEOREM NoReopening == Spec => NeverReopened
    <1>1. IInv /\ [Next]_vars =>
            [\A j \in Jobs :
                IsRow(job_metadata[j]) =>
                  /\ IsRow(job_metadata'[j])
                  /\ job_metadata'[j].StartTime = job_metadata[j].StartTime
                  /\ job_metadata'[j].IsRunning => job_metadata[j].IsRunning]_job_metadata
        BY StepForward DEF IInv, Forward
    <1> QED
        BY Invariance, <1>1, PTL DEF Spec, NeverReopened

---------------------------------------------------------------------------
(* Refinement *)

\* Every step of the store is a step of the life of one job, or none.
LEMMA LifecycleStep ==
    IInv /\ IInv' /\ [Next]_vars => [Lifecycle!LifecycleNext]_(Lifecycle!lifecycleVars)
    <1> SUFFICES ASSUME IInv, IInv', [Next]_vars
                 PROVE  [Lifecycle!LifecycleNext]_(Lifecycle!lifecycleVars)
        OBVIOUS
    <1> USE DEF Lifecycle!lifecycleVars
    <1>1. CASE UNCHANGED job_metadata
        BY <1>1
    <1>2. ASSUME NEW t \in Threads, PutJob(t), job_metadata' # job_metadata
          PROVE  Lifecycle!LifecycleNext
        <2>1. thread[t] \in BusyThread
            BY <1>2, AtStatement DEF PutJob, IInv
        <2> PICK j \in Jobs : j = thread[t].job
            BY <2>1 DEF BusyThread
        <2>2. /\ ~IsRow(job_metadata[j])
              /\ job_metadata' = [job_metadata EXCEPT ![j] = thread[t].row]
              /\ IsRow(thread[t].row) /\ thread[t].row.IsRunning
              /\ thread[t].row \in Row
            BY <1>2, <2>1 DEF PutJob, IInv, InsertInv, BusyThread, IsRow
        <2>3. job_metadata \in [Jobs -> Row \cup {NoRow}] /\ job_metadata' \in [Jobs -> Row \cup {NoRow}]
            BY DEF IInv, TypeOK
        <2>4. thread[t].row.StartTime \in Nat
            BY <2>2 DEF Row
        <2>5. Lifecycle!Begin(j)
            BY <2>1, <2>2, <2>3, <2>4 DEF Lifecycle!Begin
        <2> QED
            BY <2>5 DEF Lifecycle!LifecycleNext
    <1>3. ASSUME NEW t \in Threads, UpdateJob(t), job_metadata' # job_metadata
          PROVE  Lifecycle!LifecycleNext
        <2> DEFINE row == thread[t].row
        <2>1. thread[t] \in BusyThread
            BY <1>3, AtStatement DEF UpdateJob, IInv
        <2> PICK j \in Jobs : j = thread[t].job
            BY <2>1 DEF BusyThread
        <2>2. GoodCopy(job_metadata, reported, j, row)
            BY <1>3 DEF UpdateJob, IInv, CopyInv
        <2>3. /\ IsRow(row) /\ IsRow(job_metadata[j])
              /\ ~row.IsRunning
              /\ row.StartTime = job_metadata[j].StartTime
              /\ row.StopTime > row.StartTime
              /\ row \in Row
              /\ job_metadata' = [job_metadata EXCEPT ![j] = row]
            BY <1>3, <2>1, <2>2 DEF GoodCopy, Complete, UpdateJob, BusyThread, IsRow
        <2>4. job_metadata \in [Jobs -> Row \cup {NoRow}] /\ job_metadata' \in [Jobs -> Row \cup {NoRow}]
            BY DEF IInv, TypeOK
        <2>5. row.StopTime \in Nat
            BY <2>3 DEF Row
        <2> HIDE DEF row
        <2>6. Lifecycle!End(j)
            BY <2>1, <2>3, <2>4, <2>5 DEF Lifecycle!End
        <2> QED
            BY <2>6 DEF Lifecycle!LifecycleNext
    <1>4. (\E t \in Threads : PutJob(t) \/ UpdateJob(t)) \/ UNCHANGED job_metadata
        BY DEF Next, SlurmStep, HandlerStep, SweepStep, SlurmStartsJob, SlurmEndsJob,
               SlurmRequeuesJob, Tick, RefreshMetadata, StopJobRead, RefreshMetadataRead,
               StatementFails, SweepBegin, SweepSelect, SweepSelectFails, SweepStopJob, SweepEnd,
               Restart, vars, slurmVars
    <1> QED
        BY <1>1, <1>2, <1>3, <1>4

\* The job table implements the abstract life of a job.
THEOREM Refinement == Spec => ImplementsLifecycle
    <1>1. Init => Lifecycle!LifecycleInit
        BY DEF Init, Lifecycle!LifecycleInit, IsRow
    <1> QED
        BY <1>1, LifecycleStep, Invariance, PTL
        DEF Spec, ImplementsLifecycle, Lifecycle!LifecycleSpec

---------------------------------------------------------------------------
(***************************************************************************)
(* The service and its cache                                               *)
(***************************************************************************)

---------------------------------------------------------------------------
(* The sample interval is one of the candidates *)

\* Position k has the least value among the first n, and is the first to have it.
First(f, n, k) == \A i \in 1..n : IF i < k THEN f[k] < f[i] ELSE f[k] <= f[i]

LEMMA OneMore ==
    ASSUME NEW f, NEW n \in Nat, NEW m \in Nat, m = n + 1, \A i \in 1..m : f[i] \in Int,
           \E k \in 1..n : First(f, n, k)
    PROVE  \E k \in 1..m : First(f, m, k)
    <1>1. PICK k \in 1..n : First(f, n, k)
        OBVIOUS
    <1>2. CASE f[m] < f[k]
        <2>1. First(f, m, m)
            BY <1>1, <1>2 DEF First
        <2> QED
            BY <2>1
    <1>3. CASE ~(f[m] < f[k])
        <2>1. First(f, m, k)
            BY <1>1, <1>3 DEF First
        <2> QED
            BY <2>1
    <1> QED
        BY <1>2, <1>3

LEMMA FirstExists ==
    ASSUME NEW f, \A i \in 1..7 : f[i] \in Int
    PROVE  \E k \in 1..7 : First(f, 7, k)
    <1>1. \E k \in 1..1 : First(f, 1, k)
        <2>1. First(f, 1, 1)
            BY DEF First
        <2> QED
            BY <2>1
    <1>2. \E k \in 1..2 : First(f, 2, k)
        <2>1. 1 \in Nat /\ 2 \in Nat /\ 2 = 1 + 1 /\ \A i \in 1..2 : f[i] \in Int
            OBVIOUS
        <2> QED
            BY <1>1, <2>1, OneMore, Zenon
    <1>3. \E k \in 1..3 : First(f, 3, k)
        <2>1. 2 \in Nat /\ 3 \in Nat /\ 3 = 2 + 1 /\ \A i \in 1..3 : f[i] \in Int
            OBVIOUS
        <2> QED
            BY <1>2, <2>1, OneMore, Zenon
    <1>4. \E k \in 1..4 : First(f, 4, k)
        <2>1. 3 \in Nat /\ 4 \in Nat /\ 4 = 3 + 1 /\ \A i \in 1..4 : f[i] \in Int
            OBVIOUS
        <2> QED
            BY <1>3, <2>1, OneMore, Zenon
    <1>5. \E k \in 1..5 : First(f, 5, k)
        <2>1. 4 \in Nat /\ 5 \in Nat /\ 5 = 4 + 1 /\ \A i \in 1..5 : f[i] \in Int
            OBVIOUS
        <2> QED
            BY <1>4, <2>1, OneMore, Zenon
    <1>6. \E k \in 1..6 : First(f, 6, k)
        <2>1. 5 \in Nat /\ 6 \in Nat /\ 6 = 5 + 1 /\ \A i \in 1..6 : f[i] \in Int
            OBVIOUS
        <2> QED
            BY <1>5, <2>1, OneMore, Zenon
    <1>7. \E k \in 1..7 : First(f, 7, k)
        <2>1. 6 \in Nat /\ 7 \in Nat /\ 7 = 6 + 1 /\ \A i \in 1..7 : f[i] \in Int
            OBVIOUS
        <2> QED
            BY <1>6, <2>1, OneMore, Zenon
    <1> QED
        BY <1>7

\* The quotient is rounded up.
LEMMA RoundedUp ==
    ASSUME NEW a \in Int, NEW b \in Nat \ {0}
    PROVE  /\ CeilDiv(a, b) \in Int
           /\ a <= CeilDiv(a, b) * b
           /\ (CeilDiv(a, b) - 1) * b < a
    <1> DEFINE q == (a + b - 1) \div b
    <1>1. a + b - 1 \in Int /\ q \in Int
        OBVIOUS
    <1>2. q * b <= a + b - 1 /\ a + b - 1 < (q + 1) * b
        OBVIOUS
    <1> HIDE DEF q
    <1>3. (q + 1) * b = q * b + b /\ (q - 1) * b = q * b - b /\ q * b \in Int
        BY <1>1
    <1>4. CeilDiv(a, b) = q
        BY DEF CeilDiv, q
    <1> QED
        BY <1>1, <1>2, <1>3, <1>4

LEMMA BestIntervalIsInt ==
    ASSUME NEW d \in Int, NEW m \in Nat \ {0}
    PROVE  m * MaxPoints \in Nat \ {0} /\ bestInterval(d, m) \in Int
    <1>1. m * MaxPoints \in Nat \ {0}
        BY PointsAssumption
    <1>2. CeilDiv(d, m * MaxPoints) \in Int
        BY <1>1, RoundedUp
    <1> QED
        BY <1>1, <1>2 DEF bestInterval

\* No candidate is closer to the best interval, and none before it as close.
LEMMA IntervalIsClosest ==
    ASSUME NEW d \in Int, NEW m \in Nat \ {0}
    PROVE  \E k \in 1..7 :
              /\ bestAvailableInterval(d, m) = Candidates(m)[k]
              /\ \A i \in 1..7 :
                    /\ Abs(Candidates(m)[k] - bestInterval(d, m)) <= Abs(Candidates(m)[i] - bestInterval(d, m))
                    /\ i < k => Abs(Candidates(m)[k] - bestInterval(d, m)) < Abs(Candidates(m)[i] - bestInterval(d, m))
    <1> DEFINE best == bestInterval(d, m)
               distance(k) == Abs(Candidates(m)[k] - best)
               closest(k) == \A i \in DOMAIN Candidates(m) :
                                IF i < k THEN distance(k) < distance(i)
                                ELSE distance(k) <= distance(i)
               f == [k \in 1..7 |-> distance(k)]
    <1>1. DOMAIN Candidates(m) = 1..7 /\ \A k \in 1..7 : Candidates(m)[k] \in Nat
        BY DEF Candidates, defaultIntervals
    <1>2. best \in Int
        BY BestIntervalIsInt
    <1> HIDE DEF best
    <1>3. \A k \in 1..7 : f[k] = distance(k) /\ f[k] \in Int
        BY <1>1, <1>2 DEF Abs
    <1>4. PICK k \in 1..7 : First(f, 7, k)
        <2> HIDE DEF f
        <2> QED
            BY <1>3, FirstExists
    <1>5. closest(k)
        <2> HIDE DEF f, distance
        <2> QED
            BY <1>1, <1>3, <1>4 DEF First
    <1> DEFINE c == CHOOSE i \in DOMAIN Candidates(m) : closest(i)
    <1>6. c \in 1..7 /\ closest(c)
        <2> HIDE DEF closest
        <2> QED
            BY <1>1, <1>5
    <1>7. bestAvailableInterval(d, m) = Candidates(m)[c]
        BY DEF bestAvailableInterval, best
    <1>8. ASSUME NEW i \in 1..7
          PROVE  distance(c) <= distance(i) /\ (i < c => distance(c) < distance(i))
        <2>1. distance(c) \in Int /\ distance(i) \in Int
            BY <1>3, <1>6
        <2>2. IF i < c THEN distance(c) < distance(i) ELSE distance(c) <= distance(i)
            BY <1>1, <1>6
        <2> HIDE DEF distance, c
        <2> QED
            BY <2>1, <2>2
    <1> HIDE DEF c
    <1> QED
        BY <1>6, <1>7, <1>8 DEF best

LEMMA CandidatesAre ==
    ASSUME NEW m \in Nat \ {0}
    PROVE  /\ Candidates(m)[1] = m /\ Candidates(m)[2] = 30 /\ Candidates(m)[3] = 60
           /\ Candidates(m)[4] = 120 /\ Candidates(m)[5] = 300 /\ Candidates(m)[6] = 600
           /\ Candidates(m)[7] = 1800
           /\ \A k \in 1..7 : Candidates(m)[k] \in Nat
BY DEF Candidates, defaultIntervals

\* The intervals of the list get wider.
LEMMA CandidatesAscend ==
    ASSUME NEW m \in Nat \ {0}, NEW i \in 2..7, NEW j \in 2..7, i <= j
    PROVE  Candidates(m)[i] <= Candidates(m)[j]
    <1>1. i = 2 \/ i = 3 \/ i = 4 \/ i = 5 \/ i = 6 \/ i = 7
        OBVIOUS
    <1>2. j = 2 \/ j = 3 \/ j = 4 \/ j = 5 \/ j = 6 \/ j = 7
        OBVIOUS
    <1> QED
        BY <1>1, <1>2, CandidatesAre

LEMMA IntervalIsNat ==
    ASSUME NEW d \in Int, NEW m \in Nat \ {0}
    PROVE  bestAvailableInterval(d, m) \in Nat
    <1>1. PICK k \in 1..7 : bestAvailableInterval(d, m) = Candidates(m)[k]
        BY IntervalIsClosest
    <1>2. \A n \in 1..7 : Candidates(m)[n] \in Nat
        BY CandidatesAre
    <1> QED
        BY <1>1, <1>2

---------------------------------------------------------------------------
(* The interval a job is shown at *)

\* The best interval of a job that has run: at least that of its metrics, and what
\* shows no more points than are aimed at, but less than one step wider.
LEMMA BestIntervalBounds ==
    ASSUME NEW d \in Nat \ {0}, NEW m \in Nat \ {0}
    PROVE  /\ m <= bestInterval(d, m)
           /\ d <= bestInterval(d, m) * MaxPoints
           /\ (bestInterval(d, m) - m) * MaxPoints < d
           /\ bestInterval(d, m) = m \/ bestInterval(d, m) = 2 * m \/ 3 * m <= bestInterval(d, m)
    <1> DEFINE q == CeilDiv(d, m * MaxPoints)
    <1>1. m * MaxPoints \in Nat \ {0} /\ MaxPoints \in Nat \ {0}
        BY BestIntervalIsInt, PointsAssumption
    <1>2. q \in Int /\ d <= q * (m * MaxPoints) /\ (q - 1) * (m * MaxPoints) < d
        BY <1>1, RoundedUp
    <1>3. bestInterval(d, m) = q * m
        BY DEF bestInterval
    <1> HIDE DEF q
    <1>4. q >= 1
        <2> SUFFICES ASSUME q <= 0
                     PROVE  FALSE
            BY <1>2
        <2> DEFINE p == m * MaxPoints
        <2>1. p \in Nat \ {0} /\ q \in Int /\ d <= q * p
            BY <1>1, <1>2
        <2> HIDE DEF p
        <2>2. q * p <= 0 /\ q * p \in Int
            BY <2>1
        <2> QED
            BY <2>1, <2>2
    <1>5. q * (m * MaxPoints) = (q * m) * MaxPoints /\ (q - 1) * (m * MaxPoints) = (q * m - m) * MaxPoints
        BY <1>1, <1>2
    <1>6. m <= q * m /\ (q = 1 => q * m = m) /\ (q = 2 => q * m = 2 * m) /\ (q >= 3 => 3 * m <= q * m)
        BY <1>2, <1>4
    <1> QED
        BY <1>2, <1>3, <1>4, <1>5, <1>6

\* The interval shown is the one of the metrics or a wider one of the list. A narrower
\* one that is not too fine for the metrics is further from the best.
LEMMA ShownInterval ==
    ASSUME NEW d \in Nat \ {0}, NEW m \in Nat \ {0}
    PROVE  LET v == bestAvailableInterval(d, m)
               b == bestInterval(d, m)
               C == {m, 30, 60, 120, 300, 600, 1800}
           IN  /\ v \in C /\ m <= v
               /\ \A c \in C : Abs(v - b) <= Abs(c - b)
               /\ \A c \in C : m <= c /\ c < v => Abs(v - b) < Abs(c - b)
    <1> DEFINE v == bestAvailableInterval(d, m)
               b == bestInterval(d, m)
               C == {m, 30, 60, 120, 300, 600, 1800}
    <1>1. b \in Int /\ m <= b
        BY BestIntervalIsInt, BestIntervalBounds
    <1>2. PICK k \in 1..7 :
              /\ v = Candidates(m)[k]
              /\ \A i \in 1..7 : /\ Abs(Candidates(m)[k] - b) <= Abs(Candidates(m)[i] - b)
                                 /\ i < k => Abs(Candidates(m)[k] - b) < Abs(Candidates(m)[i] - b)
        BY IntervalIsClosest
    <1> HIDE DEF v, b
    <1>3. v \in C /\ C \subseteq Nat
        BY <1>2, CandidatesAre
    <1>4. \A c \in C : \E i \in 1..7 : c = Candidates(m)[i]
        BY CandidatesAre
    <1>5. \A c \in C : Abs(v - b) <= Abs(c - b)
        BY <1>2, <1>4
    <1>6. m <= v
        <2> SUFFICES ASSUME v < m
                     PROVE  FALSE
            BY <1>3
        <2>1. k # 1
            BY <1>2, <1>3, CandidatesAre
        <2>2. Abs(v - b) < Abs(m - b)
            BY <1>2, <2>1, CandidatesAre
        <2> QED
            BY <1>1, <1>3, <2>2 DEF Abs
    <1>7. ASSUME NEW c \in C, m <= c, c < v
          PROVE  Abs(v - b) < Abs(c - b)
        <2>1. k # 1
            BY <1>2, <1>3, <1>7, CandidatesAre
        <2>2. CASE c = m
            BY <1>2, <2>1, <2>2, CandidatesAre
        <2>3. CASE c # m
            <3>1. PICK i \in 2..7 : c = Candidates(m)[i]
                BY <1>7, <2>3, CandidatesAre
            <3>2. i < k
                <4> SUFFICES ASSUME k <= i
                             PROVE  FALSE
                    BY <3>1
                <4>1. k \in 2..7
                    BY <2>1
                <4>2. Candidates(m)[k] <= Candidates(m)[i]
                    BY <3>1, <4>1, CandidatesAscend
                <4> QED
                    BY <1>2, <1>7, <3>1, <4>1, <4>2, CandidatesAre
            <3> QED
                BY <1>2, <3>1, <3>2
        <2> QED
            BY <2>2, <2>3
    <1> QED
        BY <1>3, <1>5, <1>6, <1>7 DEF v, b

---------------------------------------------------------------------------
(* The invariant *)

Finished(row) == ~row.IsRunning /\ row.StopTime > row.StartTime

\* A goroutine that has found the job goes on only as long as it is in the table, and
\* inside the cache it holds the mutex: a job it misses stays missing, and the job it
\* refreshes stays at the front.
MutexInv(c) ==
    LET s == client[c] IN
    /\ s.at \notin {"idle", "ReadRow"} => IsRow(job_metadata[s.job])
    /\ s.at \in {"Load", "RefreshRow", "RefreshTags"} => mut = c
    /\ s.at = "Load" => s.job \notin Held
    /\ s.at \in {"RefreshRow", "RefreshTags"} => Len(list) > 0 /\ list[1].id = s.job

\* Tags that were read and have not been changed since are those in the table.
TagsInv(c) ==
    LET s == client[c] IN
    s.at \in {"Lock", "Load"} /\ s.op \in Readers =>
        /\ s.metadata.edits <= edits[s.job]
        /\ s.metadata.edits = edits[s.job] => s.metadata.tags = job_to_tags[s.job]

\* Whoever brings a row to the cache has read it of a finished job, which stays finished.
FinishedInv(c) ==
    LET s == client[c] IN
    /\ s.at # "idle" => s.op # "Prefetch"
    /\ s.at = "ReadTags" /\ ~s.metadata.row.IsRunning =>
            Finished(s.metadata.row) /\ ~job_metadata[s.job].IsRunning
    /\ s.at \in {"Lock", "Load"} /\ s.op = "GetJob" =>
            Finished(s.metadata.row) /\ ~job_metadata[s.job].IsRunning
    /\ s.at = "RefreshTags" => Finished(s.metadata.row)

ClientInv(c) == MutexInv(c) /\ TagsInv(c) /\ (~Prefetch => FinishedInv(c))

\* An item is of a job in the table, and has seen no more changes than there were; without
\* prefetches the job is finished, in the table as well as in the item.
ItemInv(table, changes, item) ==
    /\ item.id \in Jobs
    /\ IsRow(table[item.id])
    /\ item.data.Metadata.edits <= changes[item.id]
    /\ ~Prefetch => ~table[item.id].IsRunning /\ Finished(item.data.Metadata.row)

\* A reason for which the cache may show other tags than the table.
Excused(j) == j \in outdated \/ \E c \in Clients : Refreshing(c, j)

ItemsInv ==
    \A k \in 1..Len(list) :
        /\ ItemInv(job_metadata, edits, list[k])
        /\ list[k].data.Metadata.tags = job_to_tags[list[k].id] \/ Excused(list[k].id)

CacheInv == ServiceInv /\ (\A c \in Clients : ClientInv(c)) /\ ItemsInv

ServiceIInv == IInv /\ CacheInv

---------------------------------------------------------------------------
(* Goroutines *)

\* What a goroutine that is not idle looks like.
LEMMA BusyClients ==
    ASSUME ServiceTypeOK, NEW c \in Clients
    PROVE  /\ client[c] # IdleClient => client[c] \in BusyClient
           /\ client[c].at # "idle" => client[c] \in BusyClient /\ client[c] # IdleClient
           /\ client[c] = IdleClient => client[c].at = "idle"
    BY DEF ServiceTypeOK, IdleClient

LEMMA IdleNoBusy ==
    /\ IdleClient.at = "idle"
    /\ \A s \in BusyClient : /\ s # IdleClient /\ s.at # "idle" /\ s.job \in Jobs
                             /\ s.metadata \in Metadata /\ s.interval \in Nat
                             /\ s.op \in Readers \cup Editors
                             /\ s.at \in {"ReadRow", "ReadTags", "Edit", "Lock", "Load",
                                          "RefreshRow", "RefreshTags"}
    BY DEF IdleClient, BusyClient

\* One goroutine moves.
LEMMA Moved ==
    ASSUME ServiceTypeOK, NEW c \in Clients, NEW s \in BusyClient \cup {IdleClient},
           client' = [client EXCEPT ![c] = s]
    PROVE  /\ client' \in [Clients -> BusyClient \cup {IdleClient}]
           /\ client'[c] = s
           /\ \A d \in Clients : d # c => client'[d] = client[d]
    BY DEF ServiceTypeOK

LEMMA Replied ==
    ASSUME ServiceTypeOK, NEW c \in Clients, Reply(c)
    PROVE  /\ client' \in [Clients -> BusyClient \cup {IdleClient}]
           /\ client'[c] = IdleClient
           /\ \A d \in Clients : d # c => client'[d] = client[d]
    BY Moved DEF Reply

LEMMA Went ==
    ASSUME ServiceTypeOK, NEW c \in Clients, client[c] \in BusyClient, NEW place, Goto(c, place),
           place \in {"ReadRow", "ReadTags", "Edit", "Lock", "Load", "RefreshRow", "RefreshTags"}
    PROVE  /\ client' \in [Clients -> BusyClient \cup {IdleClient}]
           /\ client'[c] = [client[c] EXCEPT !.at = place] /\ client'[c] \in BusyClient
           /\ client'[c].at = place /\ client'[c].op = client[c].op
           /\ client'[c].job = client[c].job /\ client'[c].metadata = client[c].metadata
           /\ \A d \in Clients : d # c => client'[d] = client[d]
    <1> DEFINE s == [client[c] EXCEPT !.at = place]
    <1>1. s \in BusyClient /\ s.at = place /\ s.op = client[c].op /\ s.job = client[c].job
          /\ s.metadata = client[c].metadata
        BY DEF BusyClient
    <1>2. client' = [client EXCEPT ![c] = s]
        BY DEF Goto
    <1> HIDE DEF s
    <1>3. /\ client' \in [Clients -> BusyClient \cup {IdleClient}]
          /\ client'[c] = s
          /\ \A d \in Clients : d # c => client'[d] = client[d]
        BY <1>1, <1>2, Moved
    <1> QED
        BY <1>1, <1>3 DEF s

LEMMA Called ==
    ASSUME ServiceTypeOK, NEW c \in Clients, NEW op \in Readers \cup Editors, NEW j \in Jobs,
           Call(c, op, j)
    PROVE  /\ client' \in [Clients -> BusyClient \cup {IdleClient}]
           /\ client'[c].at = "ReadRow" /\ client'[c].op = op /\ client'[c].job = j
           /\ \A d \in Clients : d # c => client'[d] = client[d]
    <1> DEFINE s == [at |-> "ReadRow", op |-> op, job |-> j,
                     metadata |-> NoMetadata, interval |-> 0]
    <1>1. NoMetadata \in Metadata
        BY DEF NoMetadata, Metadata, StartedRow, Row
    <1>2. s \in BusyClient /\ s.at = "ReadRow" /\ s.op = op /\ s.job = j
        BY <1>1 DEF BusyClient
    <1> HIDE DEF s
    <1>3. client' = [client EXCEPT ![c] = s]
        BY DEF Call, s
    <1> QED
        BY <1>2, <1>3, Moved

---------------------------------------------------------------------------
(* What a step leaves alone *)

\* Changes are counted.
TagsForward ==
    \A j \in Jobs :
        /\ edits[j] \in Nat /\ edits'[j] \in Nat /\ edits[j] <= edits'[j]
        /\ edits'[j] = edits[j] => job_to_tags'[j] = job_to_tags[j]

\* What excuses the item of a job goes on to do so, and a change is an excuse.
Keeps(j) ==
    \/ Excused(j)'
    \/ job_to_tags'[j] = job_to_tags[j] /\ ~Excused(j)

LEMMA TagsStay ==
    ASSUME ServiceTypeOK, UNCHANGED tagVars
    PROVE  TagsForward
    BY DEF ServiceTypeOK, tagVars, TagsForward

\* A goroutine that does not move, and does not hold the mutex while others use it.
LEMMA OtherKept ==
    ASSUME ServiceTypeOK, Forward, TagsForward, NEW d \in Clients, ClientInv(d),
           client'[d] = client[d],
           (UNCHANGED <<list, mut>>) \/ mut # d
    PROVE  ClientInv(d)'
    <1>1. client[d].at # "idle" => client[d].job \in Jobs /\ client[d].metadata.edits \in Nat
        BY BusyClients, IdleNoBusy DEF Metadata
    <1>2. client[d].at \notin {"idle", "ReadRow"} => IsRow(job_metadata[client[d].job])
        BY DEF ClientInv, MutexInv
    <1>3. MutexInv(d)'
        BY <1>1, <1>2 DEF ClientInv, MutexInv, Forward, Held, IdsOf
    <1>4. TagsInv(d)'
        BY <1>1 DEF ClientInv, TagsInv, TagsForward
    <1>5. ~Prefetch => FinishedInv(d)'
        BY <1>1, <1>2 DEF ClientInv, FinishedInv, Forward
    <1> QED
        BY <1>3, <1>4, <1>5 DEF ClientInv

LEMMA ItemKept ==
    ASSUME Forward, TagsForward, NEW item, ItemInv(job_metadata, edits, item),
           item.data.Metadata.edits \in Nat
    PROVE  ItemInv(job_metadata', edits', item)
    BY DEF ItemInv, Forward, TagsForward

LEMMA ItemTypes ==
    ASSUME ServiceTypeOK, NEW k \in 1..Len(list)
    PROVE  list[k] \in Item /\ list[k].data.Metadata.edits \in Nat /\ list[k].id \in Jobs
    <1>1. list[k] \in Item
        BY DEF ServiceTypeOK
    <1>2. list[k].data.Metadata \in Metadata /\ list[k].id \in Jobs
        BY <1>1 DEF Item
    <1> QED
        BY <1>1, <1>2 DEF Metadata

\* The items after a step: old ones, and perhaps one that is new.
LEMMA ItemsStep ==
    ASSUME ServiceTypeOK, Forward, TagsForward, ItemsInv, NEW item,
           \A k \in 1..Len(list') :
               \/ \E p \in 1..Len(list) : list'[k] = list[p] /\ Keeps(list[p].id)
               \/ /\ list'[k] = item
                  /\ ItemInv(job_metadata', edits', item)
                  /\ item.data.Metadata.tags = job_to_tags'[item.id] \/ Excused(item.id)'
    PROVE  ItemsInv'
    <1> SUFFICES ASSUME NEW k \in 1..Len(list')
                 PROVE  /\ ItemInv(job_metadata', edits', list'[k])
                        /\ list'[k].data.Metadata.tags = job_to_tags'[list'[k].id] \/ Excused(list[k].id)'
        BY DEF ItemsInv
    <1>1. CASE \E p \in 1..Len(list) : list'[k] = list[p] /\ Keeps(list[p].id)
        <2>1. PICK p \in 1..Len(list) : list'[k] = list[p] /\ Keeps(list[p].id)
            BY <1>1
        <2>2. ItemInv(job_metadata', edits', list[p])
            BY ItemKept, ItemTypes DEF ItemsInv
        <2>3. list[p].data.Metadata.tags = job_to_tags[list[p].id] \/ Excused(list[p].id)
            BY DEF ItemsInv
        <2>4. PICK j : j = list[p].id
            OBVIOUS
        <2>5. Keeps(j) /\ (list[p].data.Metadata.tags = job_to_tags[j] \/ Excused(j))
            BY <2>1, <2>3, <2>4
        <2>6. list'[k].data.Metadata.tags = job_to_tags'[j] \/ Excused(j)'
            BY <2>1, <2>5 DEF Keeps
        <2>7. Excused(j)' => Excused(list[k].id)'
            BY <2>1, <2>4 DEF Excused, Refreshing
        <2> QED
            BY <2>1, <2>2, <2>4, <2>6, <2>7
    <1>2. CASE ~\E p \in 1..Len(list) : list'[k] = list[p] /\ Keeps(list[p].id)
        <2>1. Excused(item.id)' => Excused(list[k].id)'
            BY <1>2 DEF Excused, Refreshing
        <2> QED
            BY <1>2, <2>1
    <1> QED
        BY <1>1, <1>2

LEMMA KeepsOthers ==
    ASSUME NEW c \in Clients, \A d \in Clients : d # c => client'[d] = client[d],
           UNCHANGED job_to_tags, NEW j, j \in outdated => j \in outdated',
           Refreshing(c, j) => Refreshing(c, j)'
    PROVE  Keeps(j)
    <1>1. ASSUME Excused(j) PROVE Excused(j)'
        <2>1. CASE j \in outdated
            BY <2>1 DEF Excused
        <2>2. ASSUME NEW d \in Clients, Refreshing(d, j) PROVE Refreshing(d, j)'
            <3>1. CASE d = c
                BY <2>2, <3>1
            <3>2. CASE d # c
                BY <2>2, <3>2 DEF Refreshing
            <3> QED
                BY <3>1, <3>2
        <2> QED
            BY <1>1, <2>1, <2>2 DEF Excused
    <1> QED
        BY <1>1 DEF Keeps

\* The list stays as it is.
LEMMA SameItems ==
    ASSUME ServiceTypeOK, Forward, TagsForward, ItemsInv, UNCHANGED list,
           \A j \in Held : Keeps(j)
    PROVE  ItemsInv'
    <1>1. \A k \in 1..Len(list') : list'[k] = list[k] /\ Keeps(list[k].id)
        BY DEF Held, IdsOf
    <1> QED
        BY <1>1, ItemsStep

\* A step of the table alone.
LEMMA ServiceKept ==
    ASSUME CacheInv, Forward, UNCHANGED serviceVars
    PROVE  CacheInv'
    <1>1. TagsForward
        BY TagsStay DEF CacheInv, ServiceInv, serviceVars, tagVars
    <1>2. ServiceInv'
        BY DEF CacheInv, ServiceInv, ServiceTypeOK, CacheHoldsJobOnce, serviceVars
    <1>3. \A c \in Clients : ClientInv(c)'
        BY <1>1, OtherKept DEF CacheInv, ServiceInv, serviceVars
    <1>4. \A j : Keeps(j)
        BY DEF Keeps, Excused, Refreshing, serviceVars
    <1>5. ItemsInv'
        BY <1>1, <1>4, SameItems DEF CacheInv, ServiceInv, serviceVars
    <1> QED
        BY <1>2, <1>3, <1>5 DEF CacheInv

\* One goroutine takes a step, and the others stay as they are.
LEMMA ActorStep ==
    ASSUME CacheInv, Forward, TagsForward, NEW c \in Clients,
           \A d \in Clients : d # c => client'[d] = client[d],
           mut \in {Nobody, c} \/ UNCHANGED <<list, mut>>,
           ServiceInv', ClientInv(c)', ItemsInv'
    PROVE  CacheInv'
    <1>1. ASSUME NEW d \in Clients, d # c PROVE ClientInv(d)'
        <2>1. (UNCHANGED <<list, mut>>) \/ mut # d
            BY <1>1, ServiceAssumption
        <2> QED
            BY <1>1, <2>1, OtherKept DEF CacheInv, ServiceInv
    <1> QED
        BY <1>1 DEF CacheInv

\* A goroutine that is idle or has just been called has nothing to keep.
LEMMA FreshClient ==
    ASSUME NEW c \in Clients, client'[c] = IdleClient \/ client'[c].at = "ReadRow",
           ~Prefetch => client'[c] = IdleClient \/ client'[c].op # "Prefetch"
    PROVE  ClientInv(c)'
    BY IdleNoBusy DEF ClientInv, MutexInv, TagsInv, FinishedInv

\* A goroutine moves without touching tags, list or mutex.
LEMMA QuietStep ==
    ASSUME CacheInv, Forward, UNCHANGED <<tagVars, cacheVars>>, NEW c \in Clients,
           client' \in [Clients -> BusyClient \cup {IdleClient}],
           \A d \in Clients : d # c => client'[d] = client[d],
           \A j \in Held : Refreshing(c, j) => Refreshing(c, j)',
           ClientInv(c)'
    PROVE  CacheInv'
    <1>1. TagsForward
        BY TagsStay DEF CacheInv, ServiceInv
    <1>2. ServiceInv'
        BY DEF CacheInv, ServiceInv, ServiceTypeOK, CacheHoldsJobOnce, tagVars, cacheVars
    <1>3. \A j \in Held : Keeps(j)
        BY KeepsOthers DEF tagVars, cacheVars
    <1>4. ItemsInv'
        BY <1>1, <1>3, SameItems DEF CacheInv, ServiceInv, cacheVars
    <1> QED
        BY <1>1, <1>2, <1>4, ActorStep DEF cacheVars

---------------------------------------------------------------------------
(* Steps without the cache *)

LEMMA CallStep ==
    ASSUME CacheInv, Forward, UNCHANGED <<tagVars, cacheVars>>, NEW c \in Clients,
           NEW op \in Readers \cup Editors, NEW j \in Jobs, Call(c, op, j),
           ~Prefetch => op # "Prefetch"
    PROVE  CacheInv'
    <1>1. /\ client' \in [Clients -> BusyClient \cup {IdleClient}]
          /\ client'[c].at = "ReadRow" /\ client'[c].op = op
          /\ \A d \in Clients : d # c => client'[d] = client[d]
        BY Called DEF CacheInv, ServiceInv
    <1>2. ClientInv(c)'
        BY <1>1, FreshClient
    <1>3. \A i : ~Refreshing(c, i)
        BY DEF Call, Refreshing
    <1> QED
        BY <1>1, <1>2, <1>3, QuietStep

\* A goroutine answers without an item having waited for it.
LEMMA ReplyStep ==
    ASSUME CacheInv, Forward, UNCHANGED <<tagVars, cacheVars>>, NEW c \in Clients, Reply(c),
           \A j \in Held : ~Refreshing(c, j)
    PROVE  CacheInv'
    <1>1. /\ client' \in [Clients -> BusyClient \cup {IdleClient}]
          /\ client'[c] = IdleClient
          /\ \A d \in Clients : d # c => client'[d] = client[d]
        BY Replied DEF CacheInv, ServiceInv
    <1>2. ClientInv(c)'
        BY <1>1, FreshClient
    <1> QED
        BY <1>1, <1>2, QuietStep

\* A row of the table that is not running is finished.
LEMMA TableFinished ==
    ASSUME IInv, NEW j \in Jobs, IsRow(job_metadata[j])
    PROVE  /\ job_metadata[j] \in Row
           /\ ~job_metadata[j].IsRunning => Finished(job_metadata[j])
    <1>1. job_metadata[j] \in Row
        BY DEF IInv, TypeOK, IsRow
    <1> QED
        BY <1>1 DEF IInv, TableInv, GoodCopy, Complete, Finished, IsRow

LEMMA ReadRowStep ==
    ASSUME IInv, CacheInv, Forward, NEW c \in Clients, ReadRow(c)
    PROVE  CacheInv'
    <1> DEFINE j == client[c].job
               row == job_metadata[j]
    <1>1. client[c].at = "ReadRow" /\ UNCHANGED <<vars, tagVars, cacheVars>> /\ ServiceTypeOK
        BY DEF ReadRow, At, CacheInv, ServiceInv
    <1>2. client[c] \in BusyClient /\ j \in Jobs /\ client[c].metadata \in Metadata
        BY <1>1, BusyClients, IdleNoBusy
    <1>3. \A i : ~Refreshing(c, i)
        BY <1>1 DEF Refreshing
    <1>4. CASE Reply(c)
        BY <1>1, <1>3, <1>4, ReplyStep
    <1>5. CASE IsRow(row) /\ client[c].op \in Editors /\ Goto(c, "Edit")
        <2>1. /\ client' \in [Clients -> BusyClient \cup {IdleClient}]
              /\ client'[c].at = "Edit" /\ client'[c].op = client[c].op /\ client'[c].job = j
              /\ \A d \in Clients : d # c => client'[d] = client[d]
            BY <1>1, <1>2, <1>5, Went
        <2>2. ClientInv(c)'
            BY <1>1, <1>5, <2>1 DEF ClientInv, MutexInv, TagsInv, FinishedInv, vars, Editors
        <2> QED
            BY <1>1, <1>3, <2>1, <2>2, QuietStep
    <1>6. CASE /\ IsRow(row) /\ client[c].op \in Readers
               /\ client' = [client EXCEPT ![c].at = "ReadTags", ![c].metadata.row = row]
        <2> DEFINE s == [client[c] EXCEPT !.at = "ReadTags", !.metadata.row = row]
        <2>1. row \in Row /\ (~row.IsRunning => Finished(row))
            BY <1>2, <1>6, TableFinished
        <2>2. [client[c].metadata EXCEPT !.row = row] \in Metadata
            BY <1>2, <2>1 DEF Metadata
        <2>3. /\ s \in BusyClient /\ s.at = "ReadTags" /\ s.op = client[c].op /\ s.job = j
              /\ s.metadata.row = row
            BY <1>2, <2>2 DEF BusyClient, Metadata
        <2>4. client' = [client EXCEPT ![c] = s]
            BY <1>6
        <2> HIDE DEF s
        <2>5. /\ client' \in [Clients -> BusyClient \cup {IdleClient}]
              /\ client'[c] = s
              /\ \A d \in Clients : d # c => client'[d] = client[d]
            BY <1>1, <2>3, <2>4, Moved
        <2>6. MutexInv(c)' /\ TagsInv(c)'
            BY <1>1, <1>6, <2>3, <2>5 DEF MutexInv, TagsInv, vars
        <2>7. ~Prefetch => FinishedInv(c)'
            BY <1>1, <1>2, <2>1, <2>3, <2>5 DEF CacheInv, ClientInv, FinishedInv, vars
        <2> QED
            BY <1>1, <1>3, <2>5, <2>6, <2>7, QuietStep DEF ClientInv
    <1> QED
        BY <1>4, <1>5, <1>6 DEF ReadRow

LEMMA ReadTagsStep ==
    ASSUME IInv, CacheInv, Forward, NEW c \in Clients, ReadTags(c)
    PROVE  CacheInv'
    <1> DEFINE j == client[c].job
    <1>1. /\ client[c].at = "ReadTags" /\ client[c].op \in Readers
          /\ UNCHANGED <<vars, tagVars, cacheVars>> /\ ServiceTypeOK
        BY DEF ReadTags, At, CacheInv, ServiceInv
    <1>2. /\ client[c] \in BusyClient /\ j \in Jobs /\ client[c].metadata \in Metadata
          /\ client[c].metadata.row \in Row /\ IsRow(job_metadata[j])
        BY <1>1, BusyClients, IdleNoBusy DEF Metadata, CacheInv, ClientInv, MutexInv
    <1>3. \A i : ~Refreshing(c, i)
        BY <1>1 DEF Refreshing
    <1>4. CASE Reply(c)
        BY <1>1, <1>3, <1>4, ReplyStep
    <1>5. CASE MayUseCache(c) /\ TagsRead(c, "Lock")
        <2> DEFINE m == [client[c].metadata EXCEPT !.tags = job_to_tags[j], !.edits = edits[j]]
                   i == IntervalOf(client[c].metadata.row)
                   s == [client[c] EXCEPT !.at = "Lock", !.metadata = m, !.interval = i]
        <2>1. i \in Nat
            <3>1. clock \in Nat
                BY DEF IInv, TypeOK
            <3>2. \A t \in Int : bestAvailableInterval(t, SampleInterval) \in Nat
                BY ServiceAssumption, IntervalIsNat
            <3>3. TickSeconds \in Nat
                BY ServiceAssumption
            <3>4. \A a, b \in Nat : (a - b) * TickSeconds \in Int
                BY <3>3
            <3>5. client[c].metadata.row.StartTime \in Nat /\ client[c].metadata.row.StopTime \in Nat
                BY <1>2 DEF Row
            <3> QED
                BY <3>1, <3>2, <3>4, <3>5 DEF IntervalOf
        <2>2. m \in Metadata /\ m.row = client[c].metadata.row /\ m.tags = job_to_tags[j] /\ m.edits = edits[j]
            BY <1>1, <1>2 DEF Metadata, ServiceTypeOK
        <2>3. client' = [client EXCEPT ![c] = s]
            BY <1>5, ZenonT(30) DEF TagsRead
        <2> HIDE DEF m, i
        <2>4. /\ s \in BusyClient /\ s.at = "Lock" /\ s.op = client[c].op /\ s.job = j
              /\ s.metadata = m
            BY <1>2, <2>1, <2>2 DEF BusyClient
        <2> HIDE DEF s
        <2>5. /\ client' \in [Clients -> BusyClient \cup {IdleClient}]
              /\ client'[c] = s
              /\ \A d \in Clients : d # c => client'[d] = client[d]
            BY <1>1, <2>3, <2>4, Moved
        <2>6. MutexInv(c)'
            BY <1>1, <1>2, <2>4, <2>5 DEF MutexInv, vars
        <2>7. TagsInv(c)'
            BY <1>1, <1>2, <2>2, <2>4, <2>5 DEF TagsInv, tagVars, ServiceTypeOK
        <2>8. ~Prefetch => FinishedInv(c)'
            BY <1>1, <1>2, <1>5, <2>2, <2>4, <2>5
            DEF CacheInv, ClientInv, FinishedInv, MayUseCache, vars
        <2> QED
            BY <1>1, <1>3, <2>5, <2>6, <2>7, <2>8, QuietStep DEF ClientInv
    <1> QED
        BY <1>4, <1>5 DEF ReadTags

LEMMA EditStep ==
    ASSUME IInv, CacheInv, Forward, NEW c \in Clients, Edit(c)
    PROVE  CacheInv'
    <1> DEFINE j == client[c].job
    <1>1. /\ client[c].at = "Edit" /\ client[c].op \in Editors /\ Goto(c, "Lock")
          /\ UNCHANGED <<vars, cacheVars>> /\ ServiceTypeOK
        BY DEF Edit, At, CacheInv, ServiceInv
    <1>2. client[c] \in BusyClient /\ j \in Jobs /\ IsRow(job_metadata[j])
        BY <1>1, BusyClients, IdleNoBusy DEF CacheInv, ClientInv, MutexInv
    <1>3. /\ client' \in [Clients -> BusyClient \cup {IdleClient}]
          /\ client'[c] \in BusyClient
          /\ client'[c].at = "Lock" /\ client'[c].op = client[c].op /\ client'[c].job = j
          /\ \A d \in Clients : d # c => client'[d] = client[d]
        BY <1>1, <1>2, Went
    <1>4. /\ edits' \in [Jobs -> Nat] /\ job_to_tags' \in [Jobs -> SUBSET Nat]
          /\ \A i \in Jobs : i # j => edits'[i] = edits[i] /\ job_to_tags'[i] = job_to_tags[i]
          /\ \/ UNCHANGED tagVars
             \/ edits'[j] = edits[j] + 1
        <2>1. edits \in [Jobs -> Nat] /\ job_to_tags \in [Jobs -> SUBSET Nat]
            BY <1>1 DEF ServiceTypeOK
        <2>2. CASE UNCHANGED tagVars
            BY <2>1, <2>2 DEF tagVars
        <2>3. CASE /\ edits' = [edits EXCEPT ![j] = @ + 1]
                   /\ \E tags \in SUBSET Nat : job_to_tags' = [job_to_tags EXCEPT ![j] = tags]
            BY <1>2, <2>1, <2>3
        <2>4. ASSUME job_to_tags' = [job_to_tags EXCEPT ![j] = @ \cup {edits[j] + 1}]
              PROVE  \E tags \in SUBSET Nat : job_to_tags' = [job_to_tags EXCEPT ![j] = tags]
            <3>1. job_to_tags[j] \cup {edits[j] + 1} \in SUBSET Nat
                BY <1>2, <2>1
            <3> QED
                BY <2>4, <3>1
        <2>5. ASSUME NEW tag, job_to_tags' = [job_to_tags EXCEPT ![j] = @ \ {tag}]
              PROVE  \E tags \in SUBSET Nat : job_to_tags' = [job_to_tags EXCEPT ![j] = tags]
            <3>1. job_to_tags[j] \ {tag} \in SUBSET Nat
                BY <1>2, <2>1
            <3> QED
                BY <2>5, <3>1
        <2> QED
            BY <2>2, <2>3, <2>4, <2>5 DEF Edit
    <1>5. TagsForward
        BY <1>1, <1>2, <1>4 DEF TagsForward, ServiceTypeOK, tagVars
    <1>6. ServiceInv'
        BY <1>1, <1>3, <1>4 DEF CacheInv, ServiceInv, ServiceTypeOK, CacheHoldsJobOnce, cacheVars
    <1>7. ClientInv(c)'
        <2>1. MutexInv(c)'
            BY <1>1, <1>2, <1>3 DEF MutexInv, vars
        <2>2. TagsInv(c)'
            BY <1>1, <1>3 DEF TagsInv, Readers, Editors
        <2>3. ~Prefetch => FinishedInv(c)'
            BY <1>1, <1>3 DEF FinishedInv, Editors
        <2> QED
            BY <2>1, <2>2, <2>3 DEF ClientInv
    <1>8. \A i \in Held : Keeps(i)
        <2>1. Refreshing(c, j)'
            BY <1>1, <1>3, IdleNoBusy DEF Refreshing
        <2>2. Keeps(j)
            BY <2>1 DEF Keeps, Excused
        <2>3. ASSUME NEW i \in Jobs, i # j, Excused(i) PROVE Excused(i)'
            <3>1. ~Refreshing(c, i)
                BY <2>3 DEF Refreshing
            <3>2. \A d \in Clients : Refreshing(d, i) => Refreshing(d, i)'
                BY <1>3, <3>1 DEF Refreshing
            <3> QED
                BY <1>1, <2>3, <3>2 DEF Excused, cacheVars
        <2>4. \A i \in Jobs : i # j => Keeps(i)
            BY <1>4, <2>3 DEF Keeps
        <2>5. Held \subseteq Jobs
            BY <1>1, ItemTypes DEF Held, IdsOf
        <2> QED
            BY <2>2, <2>4, <2>5
    <1>9. ItemsInv'
        BY <1>1, <1>5, <1>8, SameItems DEF CacheInv, cacheVars
    <1> QED
        BY <1>1, <1>3, <1>5, <1>6, <1>7, <1>9, ActorStep DEF cacheVars

---------------------------------------------------------------------------
(* Steps in the cache *)

\* A list with the items of the old one in another order.
LEMMA FoundStep ==
    ASSUME CacheInv, Forward, UNCHANGED <<vars, tagVars, outdated>>,
           NEW c \in Clients, NEW j \in Held, list' = Found(list, j),
           \A d \in Clients : d # c => client'[d] = client[d],
           \A i : Refreshing(c, i) => Refreshing(c, i)'
    PROVE  /\ list' \in Seq(Item) /\ CacheHoldsJobOnce' /\ ItemsInv'
           /\ Held' = Held /\ Len(list') > 0 /\ list'[1].id = j
    <1>1. list \in Seq(Item) /\ Distinct(list) /\ j \in IdsOf(list) /\ ServiceTypeOK
        BY DEF CacheInv, ServiceInv, ServiceTypeOK, CacheHoldsJobOnce, Distinct, Held
    <1>2. /\ list' \in Seq(Item) /\ Len(list') = Len(list) /\ Len(list) > 0
          /\ Distinct(list') /\ IdsOf(list') = IdsOf(list) /\ list'[1].id = j
        BY <1>1, FoundFacts
    <1>3. \A k \in 1..Len(list') : \E p \in 1..Len(list) : list'[k] = list[p]
        BY <1>1, FoundItems
    <1>4. CacheHoldsJobOnce'
        BY <1>2 DEF CacheInv, ServiceInv, CacheHoldsJobOnce, Distinct
    <1>5. \A i : Keeps(i)
        BY KeepsOthers DEF tagVars
    <1>6. TagsForward
        BY <1>1, TagsStay
    <1>7. ItemsInv'
        BY <1>1, <1>3, <1>5, <1>6, ItemsStep DEF CacheInv
    <1> QED
        BY <1>2, <1>4, <1>7 DEF Held

LEMMA GetHitStep ==
    ASSUME CacheInv, Forward, NEW c \in Clients, GetHit(c)
    PROVE  CacheInv'
    <1>1. /\ client[c].at = "Lock" /\ client[c].op \in Readers /\ Reply(c) /\ mut = Nobody
          /\ client[c].job \in Held /\ list' = Found(list, client[c].job)
          /\ UNCHANGED <<vars, tagVars, mut, outdated>> /\ ServiceTypeOK
        BY DEF GetHit, At, CacheInv, ServiceInv
    <1>2. /\ client' \in [Clients -> BusyClient \cup {IdleClient}]
          /\ client'[c] = IdleClient
          /\ \A d \in Clients : d # c => client'[d] = client[d]
        BY <1>1, Replied
    <1>3. \A i : ~Refreshing(c, i)
        BY <1>1 DEF Refreshing, Readers, Editors
    <1>4. list' \in Seq(Item) /\ CacheHoldsJobOnce' /\ ItemsInv'
        BY <1>1, <1>2, <1>3, FoundStep
    <1>5. ServiceInv'
        BY <1>1, <1>2, <1>4 DEF ServiceInv, ServiceTypeOK, tagVars
    <1>6. ClientInv(c)'
        BY <1>2, FreshClient
    <1>7. TagsForward
        BY <1>1, TagsStay
    <1> QED
        BY <1>1, <1>2, <1>4, <1>5, <1>6, <1>7, ActorStep

LEMMA UpdateHitStep ==
    ASSUME CacheInv, Forward, NEW c \in Clients, UpdateHit(c)
    PROVE  CacheInv'
    <1> DEFINE j == client[c].job
    <1>1. /\ client[c].at = "Lock" /\ client[c].op \in Editors /\ Goto(c, "RefreshRow")
          /\ mut = Nobody /\ mut' = c /\ j \in Held /\ list' = Found(list, j)
          /\ UNCHANGED <<vars, tagVars, outdated>> /\ ServiceTypeOK
        BY DEF UpdateHit, At, CacheInv, ServiceInv
    <1>2. client[c] \in BusyClient /\ j \in Jobs /\ IsRow(job_metadata[j])
        BY <1>1, BusyClients, IdleNoBusy DEF CacheInv, ClientInv, MutexInv
    <1>3. /\ client' \in [Clients -> BusyClient \cup {IdleClient}]
          /\ client'[c] \in BusyClient
          /\ client'[c].at = "RefreshRow" /\ client'[c].op = client[c].op /\ client'[c].job = j
          /\ \A d \in Clients : d # c => client'[d] = client[d]
        BY <1>1, <1>2, Went
    <1>4. \A i : Refreshing(c, i) => Refreshing(c, i)'
        BY <1>1, <1>3, IdleNoBusy DEF Refreshing
    <1>5. /\ list' \in Seq(Item) /\ CacheHoldsJobOnce' /\ ItemsInv'
          /\ Len(list') > 0 /\ list'[1].id = j
        BY <1>1, <1>3, <1>4, FoundStep
    <1>6. ServiceInv'
        BY <1>1, <1>3, <1>5 DEF ServiceInv, ServiceTypeOK, tagVars
    <1>7. ClientInv(c)'
        <2>1. MutexInv(c)'
            BY <1>1, <1>2, <1>3, <1>5 DEF MutexInv, vars
        <2>2. TagsInv(c)'
            BY <1>1, <1>3 DEF TagsInv
        <2>3. ~Prefetch => FinishedInv(c)'
            BY <1>1, <1>3 DEF FinishedInv, Editors
        <2> QED
            BY <2>1, <2>2, <2>3 DEF ClientInv
    <1>8. TagsForward
        BY <1>1, TagsStay
    <1> QED
        BY <1>1, <1>3, <1>5, <1>6, <1>7, <1>8, ActorStep

LEMMA GetMissStep ==
    ASSUME CacheInv, Forward, NEW c \in Clients, GetMiss(c)
    PROVE  CacheInv'
    <1> DEFINE j == client[c].job
    <1>1. /\ client[c].at = "Lock" /\ client[c].op \in Readers /\ Goto(c, "Load")
          /\ mut = Nobody /\ mut' = c /\ j \notin Held
          /\ UNCHANGED <<vars, tagVars, list, outdated>> /\ ServiceTypeOK
        BY DEF GetMiss, At, CacheInv, ServiceInv
    <1>2. /\ client[c] \in BusyClient /\ j \in Jobs /\ IsRow(job_metadata[j])
          /\ TagsInv(c) /\ (~Prefetch => FinishedInv(c))
        BY <1>1, BusyClients, IdleNoBusy DEF CacheInv, ClientInv, MutexInv
    <1>3. /\ client' \in [Clients -> BusyClient \cup {IdleClient}]
          /\ client'[c] \in BusyClient
          /\ client'[c].at = "Load" /\ client'[c].op = client[c].op /\ client'[c].job = j
          /\ client'[c].metadata = client[c].metadata
          /\ \A d \in Clients : d # c => client'[d] = client[d]
        BY <1>1, <1>2, Went
    <1>4. ServiceInv'
        BY <1>1, <1>3 DEF CacheInv, ServiceInv, ServiceTypeOK, CacheHoldsJobOnce, tagVars
    <1>5. ClientInv(c)'
        <2>1. MutexInv(c)'
            BY <1>1, <1>2, <1>3 DEF MutexInv, Held, IdsOf, vars
        <2>2. TagsInv(c)'
            BY <1>1, <1>2, <1>3 DEF TagsInv, tagVars
        <2>3. ~Prefetch => FinishedInv(c)'
            BY <1>1, <1>2, <1>3 DEF FinishedInv, vars
        <2> QED
            BY <2>1, <2>2, <2>3 DEF ClientInv
    <1>6. TagsForward
        BY <1>1, TagsStay
    <1>7. \A i : Keeps(i)
        <2>1. \A i : ~Refreshing(c, i)
            BY <1>1 DEF Refreshing, Readers, Editors
        <2> QED
            BY <1>1, <1>3, <2>1, KeepsOthers DEF tagVars
    <1>8. ItemsInv'
        BY <1>1, <1>6, <1>7, SameItems DEF CacheInv
    <1> QED
        BY <1>1, <1>3, <1>4, <1>5, <1>6, <1>8, ActorStep

LEMMA UpdateMissStep ==
    ASSUME CacheInv, Forward, NEW c \in Clients, UpdateMiss(c)
    PROVE  CacheInv'
    <1>1. \A i \in Held : ~Refreshing(c, i)
        BY DEF UpdateMiss, Refreshing
    <1> QED
        BY <1>1, ReplyStep DEF UpdateMiss

\* What a load does to the list: a new item, and old ones.
LEMMA LoadedList ==
    ASSUME CacheInv, NEW c \in Clients, client[c] \in BusyClient, Load(c)
    PROVE  \E item \in Item :
              /\ item.id = client[c].job /\ item.data.Metadata = client[c].metadata
              /\ item.id \notin Held
              /\ list' \in Seq(Item) /\ Distinct(list') /\ Len(list') <= size
              /\ \A k \in 1..Len(list') : list'[k] = item \/ \E p \in 1..Len(list) : list'[k] = list[p]
    <1> DEFINE j == client[c].job
    <1>1. /\ client[c].at = "Load" /\ j \in Jobs /\ client[c].metadata \in Metadata
          /\ client[c].interval \in Nat
        BY IdleNoBusy DEF Load, At
    <1>2. j \notin Held
        BY <1>1 DEF CacheInv, ClientInv, MutexInv
    <1>3. PICK item : item = [id |-> j, data |-> [Metadata |-> client[c].metadata,
                                                  MetricData |-> client[c].interval]]
        OBVIOUS
    <1>4. /\ item \in Item /\ item.id = j /\ item.data.Metadata = client[c].metadata
          /\ list' = Put(list, item, size)
        BY <1>1, <1>3 DEF Item, Load
    <1>5. /\ list' \in Seq(Item) /\ Distinct(list') /\ Len(list') <= size
          /\ \A k \in 1..Len(list') : list'[k] = item \/ \E p \in 1..Len(list) : list'[k] = list[p]
        <2>1. list \in Seq(Item) /\ Distinct(list) /\ Len(list) <= size /\ size \in Nat \ {0}
            BY ServiceAssumption
            DEF CacheInv, ServiceInv, ServiceTypeOK, CacheHoldsJobOnce, Distinct
        <2>2. /\ list' \in Seq(Item) /\ Distinct(list') /\ list'[1] = item
              /\ \A k \in 2..Len(list') : list'[k] = list[k - 1]
              /\ Len(list) < size => Len(list') = Len(list) + 1
              /\ Len(list) = size => Len(list') = size
            BY <1>2, <1>4, <2>1, PutFacts DEF Held
        <2>3. Len(list) \in Nat
            BY <2>1
        <2>4. Len(list') <= size /\ Len(list') <= Len(list) + 1
            BY <2>1, <2>2, <2>3
        <2>5. \A k \in 2..Len(list') : k - 1 \in 1..Len(list)
            BY <2>3, <2>4
        <2> QED
            BY <2>2, <2>4, <2>5
    <1> QED
        BY <1>2, <1>4, <1>5

LEMMA LoadStep ==
    ASSUME CacheInv, Forward, NEW c \in Clients, Load(c)
    PROVE  CacheInv'
    <1> DEFINE j == client[c].job
    <1>1. /\ client[c].at = "Load" /\ client[c].op \in Readers /\ Reply(c) /\ mut' = Nobody
          /\ UNCHANGED <<vars, tagVars>> /\ ServiceTypeOK
        BY DEF Load, At, CacheInv, ServiceInv
    <1>2. /\ client[c] \in BusyClient /\ j \in Jobs /\ client[c].metadata \in Metadata
          /\ client[c].interval \in Nat
          /\ mut = c /\ j \notin Held /\ IsRow(job_metadata[j])
          /\ TagsInv(c) /\ (~Prefetch => FinishedInv(c))
        BY <1>1, BusyClients, IdleNoBusy DEF CacheInv, ClientInv, MutexInv
    <1>3. PICK item \in Item :
              /\ item.id = j /\ item.data.Metadata = client[c].metadata
              /\ item.id \notin Held
              /\ list' \in Seq(Item) /\ Distinct(list') /\ Len(list') <= size
              /\ \A k \in 1..Len(list') : list'[k] = item \/ \E p \in 1..Len(list) : list'[k] = list[p]
        BY <1>2, LoadedList
    <1>4. outdated' = IF client[c].metadata.edits < edits[j] THEN outdated \cup {j}
                      ELSE outdated \ {j}
        BY DEF Load
    <1>5. /\ client' \in [Clients -> BusyClient \cup {IdleClient}]
          /\ client'[c] = IdleClient
          /\ \A d \in Clients : d # c => client'[d] = client[d]
        BY <1>1, Replied
    <1>6. ServiceInv'
        <2>1. CacheHoldsJobOnce'
            BY <1>3 DEF CacheHoldsJobOnce, Distinct
        <2>2. outdated' \subseteq Jobs
            BY <1>1, <1>2, <1>4 DEF ServiceTypeOK
        <2> QED
            BY <1>1, <1>5, <1>3, <2>1, <2>2 DEF ServiceInv, ServiceTypeOK, tagVars
    <1>7. ClientInv(c)'
        BY <1>5, FreshClient
    <1>8. TagsForward
        BY <1>1, TagsStay
    <1>9. \A p \in 1..Len(list) : Keeps(list[p].id)
        <2>1. \A i : ~Refreshing(c, i)
            BY <1>1 DEF Refreshing, Readers, Editors
        <2>2. \A i : i # j /\ i \in outdated => i \in outdated'
            BY <1>4
        <2>3. \A i : i # j => Keeps(i)
            BY <1>1, <1>5, <2>1, <2>2, KeepsOthers DEF tagVars
        <2> QED
            BY <1>2, <2>3 DEF Held, IdsOf
    <1>10. /\ ItemInv(job_metadata', edits', item)
           /\ item.data.Metadata.tags = job_to_tags'[item.id] \/ Excused(item.id)'
        <2>1. client[c].metadata.edits <= edits[j]
              /\ (client[c].metadata.edits = edits[j] => client[c].metadata.tags = job_to_tags[j])
            BY <1>1, <1>2 DEF TagsInv
        <2>2. client[c].metadata.edits \in Nat /\ edits[j] \in Nat
            BY <1>1, <1>2 DEF Metadata, ServiceTypeOK
        <2>3. client[c].metadata.tags = job_to_tags[j] \/ j \in outdated'
            BY <1>4, <2>1, <2>2
        <2>4. ItemInv(job_metadata', edits', item)
            BY <1>1, <1>2, <1>3, <2>1 DEF ItemInv, FinishedInv, Readers, vars, tagVars
        <2> QED
            BY <1>1, <1>3, <2>3, <2>4 DEF Excused, tagVars
    <1>11. ItemsInv'
        BY <1>1, <1>3, <1>8, <1>9, <1>10, ItemsStep DEF CacheInv
    <1> QED
        BY <1>2, <1>5, <1>6, <1>7, <1>8, <1>11, ActorStep

LEMMA RefreshRowStep ==
    ASSUME IInv, CacheInv, Forward, NEW c \in Clients, RefreshRow(c)
    PROVE  CacheInv'
    <1> DEFINE j == client[c].job
               row == job_metadata[j]
               s == [client[c] EXCEPT !.at = "RefreshTags", !.metadata.row = row]
    <1>1. /\ client[c].at = "RefreshRow" /\ client[c].op \in Editors
          /\ UNCHANGED <<vars, tagVars, cacheVars>> /\ ServiceTypeOK
        BY DEF RefreshRow, At, CacheInv, ServiceInv
    <1>2. /\ client[c] \in BusyClient /\ j \in Jobs /\ client[c].metadata \in Metadata
          /\ IsRow(row) /\ mut = c /\ Len(list) > 0 /\ list[1].id = j
        BY <1>1, BusyClients, IdleNoBusy DEF CacheInv, ClientInv, MutexInv
    <1>3. row \in Row /\ (~row.IsRunning => Finished(row))
        BY <1>2, TableFinished
    <1>4. ~Prefetch => Finished(row)
        <2>1. 1 \in 1..Len(list)
            BY <1>1, <1>2 DEF ServiceTypeOK
        <2>2. ItemInv(job_metadata, edits, list[1])
            BY <2>1 DEF CacheInv, ItemsInv
        <2> QED
            BY <1>2, <1>3, <2>2 DEF ItemInv
    <1>5. [client[c].metadata EXCEPT !.row = row] \in Metadata
        BY <1>2, <1>3 DEF Metadata
    <1>6. /\ s \in BusyClient /\ s.at = "RefreshTags" /\ s.op = client[c].op /\ s.job = j
          /\ s.metadata.row = row
        BY <1>2, <1>5 DEF BusyClient, Metadata
    <1>7. client' = [client EXCEPT ![c] = s]
        BY DEF RefreshRow
    <1> HIDE DEF s
    <1>8. /\ client' \in [Clients -> BusyClient \cup {IdleClient}]
          /\ client'[c] = s
          /\ \A d \in Clients : d # c => client'[d] = client[d]
        BY <1>1, <1>6, <1>7, Moved
    <1>9. MutexInv(c)' /\ TagsInv(c)'
        BY <1>1, <1>2, <1>6, <1>8 DEF MutexInv, TagsInv, vars, cacheVars
    <1>10. ~Prefetch => FinishedInv(c)'
        BY <1>1, <1>4, <1>6, <1>8 DEF FinishedInv, Editors
    <1>11. \A i : Refreshing(c, i) => Refreshing(c, i)'
        BY <1>1, <1>6, <1>8, IdleNoBusy DEF Refreshing
    <1> QED
        BY <1>1, <1>8, <1>9, <1>10, <1>11, QuietStep DEF ClientInv

\* What a refresh does to the list: the front has new metadata.
LEMMA RefreshedList ==
    ASSUME CacheInv, NEW c \in Clients, client[c] \in BusyClient, RefreshTags(c)
    PROVE  \E item \in Item :
              /\ item.id = client[c].job
              /\ item.data.Metadata = [row |-> client[c].metadata.row,
                                       tags |-> job_to_tags[client[c].job],
                                       edits |-> edits[client[c].job]]
              /\ Len(list) > 0 /\ list[1].id = item.id
              /\ list' \in Seq(Item) /\ Len(list') = Len(list) /\ list'[1] = item
              /\ \A k \in 2..Len(list) : list'[k] = list[k]
              /\ \A k \in 2..Len(list) : list[k].id # item.id
              /\ Distinct(list')
    <1> DEFINE j == client[c].job
    <1>1. client[c].at = "RefreshTags" /\ ServiceTypeOK
        BY DEF RefreshTags, At, CacheInv, ServiceInv
    <1>2. j \in Jobs /\ client[c].metadata \in Metadata /\ Len(list) > 0 /\ list[1].id = j
        BY <1>1, IdleNoBusy DEF CacheInv, ClientInv, MutexInv
    <1>3. PICK metadata : metadata = [row |-> client[c].metadata.row, tags |-> job_to_tags[j],
                                      edits |-> edits[j]]
        OBVIOUS
    <1>4. metadata \in Metadata /\ list' = ReplaceFront(list, metadata, size)
        BY <1>1, <1>2, <1>3 DEF Metadata, RefreshTags, ServiceTypeOK
    <1>5. PICK item : item = [list[1] EXCEPT !.data.Metadata = metadata]
        OBVIOUS
    <1>6. list \in Seq(Item) /\ Distinct(list) /\ Len(list) <= size /\ size \in Nat \ {0}
        BY ServiceAssumption
        DEF CacheInv, ServiceInv, ServiceTypeOK, CacheHoldsJobOnce, Distinct
    <1>7. 1 \in 1..Len(list) /\ list[1] \in Item
        BY <1>2, <1>6
    <1>8. item \in Item /\ item.id = j /\ item.data.Metadata = metadata
        BY <1>2, <1>4, <1>5, <1>7 DEF Item
    <1>9. /\ list' \in Seq(Item) /\ Len(list') = Len(list) /\ list'[1] = item
          /\ \A k \in 2..Len(list) : list'[k] = list[k]
        BY <1>2, <1>4, <1>5, <1>6, <1>8, ReplaceFrontFacts
    <1>10. \A k \in 1..Len(list') : list'[k].id = list[k].id
        BY <1>2, <1>8, <1>9
    <1>11. Distinct(list')
        BY <1>6, <1>9, <1>10 DEF Distinct
    <1>12. \A k \in 2..Len(list) : list[k].id # j
        BY <1>2, <1>6, <1>7 DEF Distinct
    <1> QED
        BY <1>2, <1>3, <1>8, <1>9, <1>11, <1>12

LEMMA RefreshTagsStep ==
    ASSUME CacheInv, Forward, NEW c \in Clients, RefreshTags(c)
    PROVE  CacheInv'
    <1> DEFINE j == client[c].job
    <1>1. /\ client[c].at = "RefreshTags" /\ client[c].op \in Editors /\ Reply(c) /\ mut' = Nobody
          /\ outdated' = outdated \ {j}
          /\ UNCHANGED <<vars, tagVars>> /\ ServiceTypeOK
        BY DEF RefreshTags, At, CacheInv, ServiceInv
    <1>2. /\ client[c] \in BusyClient /\ j \in Jobs /\ mut = c
          /\ ~Prefetch => Finished(client[c].metadata.row)
        BY <1>1, BusyClients, IdleNoBusy DEF CacheInv, ClientInv, MutexInv, FinishedInv
    <1>3. PICK item \in Item :
              /\ item.id = j
              /\ item.data.Metadata = [row |-> client[c].metadata.row, tags |-> job_to_tags[j],
                                       edits |-> edits[j]]
              /\ Len(list) > 0 /\ list[1].id = item.id
              /\ list' \in Seq(Item) /\ Len(list') = Len(list) /\ list'[1] = item
              /\ \A k \in 2..Len(list) : list'[k] = list[k]
              /\ \A k \in 2..Len(list) : list[k].id # item.id
              /\ Distinct(list')
        BY <1>2, RefreshedList
    <1>4. /\ client' \in [Clients -> BusyClient \cup {IdleClient}]
          /\ client'[c] = IdleClient
          /\ \A d \in Clients : d # c => client'[d] = client[d]
        BY <1>1, Replied
    <1>5. ServiceInv'
        <2>1. CacheHoldsJobOnce'
            BY <1>3 DEF CacheInv, ServiceInv, CacheHoldsJobOnce, Distinct
        <2>2. outdated' \subseteq Jobs
            BY <1>1 DEF ServiceTypeOK
        <2> QED
            BY <1>1, <1>3, <1>4, <2>1, <2>2 DEF ServiceInv, ServiceTypeOK, tagVars
    <1>6. ClientInv(c)'
        BY <1>4, FreshClient
    <1>7. TagsForward
        BY <1>1, TagsStay
    <1>8. \A i : i # j => Keeps(i)
        <2>1. \A i : i # j => ~Refreshing(c, i)
            BY DEF Refreshing
        <2>2. \A i : i # j /\ i \in outdated => i \in outdated'
            BY <1>1
        <2> QED
            BY <1>1, <1>4, <2>1, <2>2, KeepsOthers DEF tagVars
    <1>9. /\ ItemInv(job_metadata', edits', item)
          /\ item.data.Metadata.tags = job_to_tags'[item.id]
        <2>1. edits[j] \in Nat
            BY <1>1, <1>2 DEF ServiceTypeOK
        <2>2. 1 \in 1..Len(list)
            BY <1>1, <1>3 DEF ServiceTypeOK
        <2>3. ItemInv(job_metadata, edits, list[1])
            BY <2>2 DEF CacheInv, ItemsInv
        <2> QED
            BY <1>1, <1>2, <1>3, <2>1, <2>3 DEF ItemInv, vars, tagVars
    <1>10. \A k \in 1..Len(list') : \/ \E p \in 1..Len(list) : list'[k] = list[p] /\ Keeps(list[p].id)
                                    \/ list'[k] = item
        BY <1>3, <1>8
    <1>11. ItemsInv'
        BY <1>1, <1>7, <1>9, <1>10, ItemsStep DEF CacheInv
    <1> QED
        BY <1>2, <1>4, <1>5, <1>6, <1>7, <1>11, ActorStep

LEMMA RefreshFailsStep ==
    ASSUME CacheInv, Forward, NEW c \in Clients, RefreshFails(c)
    PROVE  CacheInv'
    <1>0. PICK j : j = client[c].job
        OBVIOUS
    <1>1. /\ client[c].at = "RefreshTags" /\ Reply(c) /\ mut' = Nobody
          /\ outdated' = outdated \cup {j}
          /\ UNCHANGED <<vars, tagVars, list>> /\ ServiceTypeOK
        BY <1>0 DEF RefreshFails, At, CacheInv, ServiceInv
    <1>2. j \in Jobs /\ mut = c
        BY <1>0, <1>1, BusyClients, IdleNoBusy DEF CacheInv, ClientInv, MutexInv
    <1>3. /\ client' \in [Clients -> BusyClient \cup {IdleClient}]
          /\ client'[c] = IdleClient
          /\ \A d \in Clients : d # c => client'[d] = client[d]
        BY <1>1, Replied
    <1>4. ServiceInv'
        BY <1>1, <1>2, <1>3 DEF CacheInv, ServiceInv, ServiceTypeOK, CacheHoldsJobOnce, tagVars
    <1>5. ClientInv(c)'
        BY <1>3, FreshClient
    <1>6. TagsForward
        BY <1>1, TagsStay
    <1>7. \A i : Keeps(i)
        <2>1. Keeps(j)
            BY <1>1 DEF Keeps, Excused
        <2>2. \A i : i # j => ~Refreshing(c, i)
            BY <1>0 DEF Refreshing
        <2>3. \A i : i # j => Keeps(i)
            BY <1>1, <1>3, <2>2, KeepsOthers DEF tagVars
        <2> QED
            BY <2>1, <2>3
    <1>8. ItemsInv'
        BY <1>1, <1>6, <1>7, SameItems DEF CacheInv
    <1> QED
        BY <1>2, <1>3, <1>4, <1>5, <1>6, <1>8, ActorStep

---------------------------------------------------------------------------
(* The other steps, and all together *)

LEMMA RestartStep ==
    ASSUME IInv, CacheInv, RestartService
    PROVE  CacheInv'
    <1>1. /\ list' = <<>> /\ mut' = Nobody /\ outdated' = {}
          /\ client' = [c \in Clients |-> IdleClient] /\ UNCHANGED tagVars /\ ServiceTypeOK
        BY DEF RestartService, CacheInv, ServiceInv
    <1>2. ServiceInv'
        BY <1>1, ServiceAssumption DEF ServiceInv, ServiceTypeOK, CacheHoldsJobOnce, tagVars
    <1>3. \A c \in Clients : ClientInv(c)'
        BY <1>1, FreshClient
    <1>4. ItemsInv'
        BY <1>1 DEF ItemsInv
    <1> QED
        BY <1>2, <1>3, <1>4 DEF CacheInv

\* To the table every step of the service is one of JobStore.
LEMMA ServiceStepIsStoreStep == [ServiceNext]_<<vars, serviceVars>> => [Next]_vars
    <1>1. ASSUME NEW c \in Clients, Request(c) \/ EnterCache(c) \/ Proceed(c)
          PROVE  UNCHANGED vars
        BY <1>1 DEF Request, EnterCache, Proceed, GetHit, GetMiss, UpdateMiss, UpdateHit, ReadRow,
                    ReadTags, Edit, Load, RefreshRow, RefreshTags, RefreshFails
    <1>2. ASSUME NEW h \in Handlers, JobStopProceeds(h) \/ JobStopFails(h)
          PROVE  Next
        <2>1. StopJobRead(h) \/ StatementFails(h)
            BY <1>2 DEF JobStopProceeds, JobStopFails
        <2> QED
            BY <2>1 DEF Next, HandlerStep, Threads
    <1>3. TableStep => Next
        BY DEF TableStep, Next, HandlerStep, Threads
    <1>4. RestartService => Next
        BY DEF RestartService, Next
    <1> QED
        BY <1>1, <1>2, <1>3, <1>4 DEF ServiceNext

LEMMA JobStopFailsStep ==
    ASSUME IInv, CacheInv, Forward, NEW h \in Handlers, JobStopFails(h)
    PROVE  CacheInv'
    <1>1. UNCHANGED <<tagVars, cacheVars>>
        BY DEF JobStopFails
    <1>2. thread[h].at # "idle"
        BY DEF JobStopFails, Stopping
    <1>3. thread[h].job \in Jobs
        BY <1>2, AtStatement DEF IInv, Threads, BusyThread
    <1>4. CASE Prefetch /\ \E c \in Clients : Call(c, "Prefetch", thread[h].job)
        BY <1>1, <1>3, <1>4, CallStep DEF Readers
    <1>5. CASE UNCHANGED client
        BY <1>1, <1>5, ServiceKept DEF serviceVars, tagVars, cacheVars
    <1> QED
        BY <1>4, <1>5 DEF JobStopFails

LEMMA ServiceInit_Inv == ServiceInit => ServiceIInv
    <1> SUFFICES ASSUME ServiceInit PROVE ServiceIInv
        OBVIOUS
    <1>1. IInv
        BY InvInit DEF ServiceInit
    <1>2. ServiceInv
        BY ServiceAssumption DEF ServiceInit, ServiceInv, ServiceTypeOK, CacheHoldsJobOnce
    <1>3. \A c \in Clients : ClientInv(c)
        BY IdleNoBusy DEF ServiceInit, ClientInv, MutexInv, TagsInv, FinishedInv
    <1>4. ItemsInv
        BY DEF ServiceInit, ItemsInv
    <1> QED
        BY <1>1, <1>2, <1>3, <1>4 DEF ServiceIInv, CacheInv

LEMMA ServiceStep == ServiceIInv /\ [ServiceNext]_<<vars, serviceVars>> => ServiceIInv'
    <1> SUFFICES ASSUME ServiceIInv, [ServiceNext]_<<vars, serviceVars>>
                 PROVE  ServiceIInv'
        OBVIOUS
    <1>1. IInv' /\ Forward /\ IInv /\ CacheInv
        BY ServiceStepIsStoreStep, InvStep, StepForward DEF ServiceIInv, IInv
    <1>2. CASE TableStep \/ (\E h \in Handlers : JobStopProceeds(h)) \/ UNCHANGED <<vars, serviceVars>>
        BY <1>1, <1>2, ServiceKept DEF TableStep, JobStopProceeds, ServiceIInv
    <1>3. CASE \E h \in Handlers : JobStopFails(h)
        BY <1>1, <1>3, JobStopFailsStep DEF ServiceIInv
    <1>4. ASSUME NEW c \in Clients, Request(c) PROVE ServiceIInv'
        <2>1. \E op \in Readers \cup Editors, j \in Jobs : op # "Prefetch" /\ Call(c, op, j)
            BY <1>4 DEF Request, Readers, Editors
        <2> QED
            BY <1>1, <1>4, <2>1, CallStep DEF ServiceIInv, Request
    <1>5. ASSUME NEW c \in Clients, EnterCache(c) PROVE ServiceIInv'
        BY <1>1, <1>5, GetHitStep, GetMissStep, UpdateMissStep, UpdateHitStep
        DEF ServiceIInv, EnterCache
    <1>6. ASSUME NEW c \in Clients, Proceed(c) PROVE ServiceIInv'
        BY <1>1, <1>6, ReadRowStep, ReadTagsStep, EditStep, LoadStep, RefreshRowStep,
           RefreshTagsStep, RefreshFailsStep
        DEF ServiceIInv, Proceed
    <1>7. CASE RestartService
        BY <1>1, <1>7, RestartStep DEF ServiceIInv
    <1> QED
        BY <1>2, <1>3, <1>4, <1>5, <1>6, <1>7 DEF ServiceNext

---------------------------------------------------------------------------
(* The theorems *)

\* The invariant of table, goroutines and cache holds in every behaviour of the service.
THEOREM ServiceInvariance == ServiceSpec => []ServiceIInv
    BY ServiceInit_Inv, ServiceStep, PTL DEF ServiceSpec

\* Goroutines of GetJob, AddTag, RemoveTag and prefetches do to the table what JobStore
\* allows, so that its theorems hold for the service as well.
THEOREM ServiceImplementsStore == ServiceSpec => Spec
    <1>1. ServiceInit => Init
        BY DEF ServiceInit
    <1> QED
        BY <1>1, ServiceStepIsStoreStep, PTL DEF ServiceSpec, Spec

\* What the table promises it promises with the cache before it: a job has one life, and a
\* finished one is complete and stays as one report described it.
THEOREM ServiceKeepsPromises ==
    ServiceSpec => /\ ImplementsLifecycle
                   /\ NeverReopened
                   /\ []FinishedIsComplete
                   /\ []EndIsOneReport
    BY ServiceImplementsStore, Refinement, NoReopening, FinishedCorrect, EndCorrect

\* The state of cache and goroutines is well-formed, and however many goroutines miss a
\* job at the same time, the cache holds it once and keeps to its size.
THEOREM ServiceCorrect == ServiceSpec => []ServiceInv
    <1>1. ServiceIInv => ServiceInv
        BY DEF ServiceIInv, CacheInv
    <1> QED
        BY ServiceInvariance, <1>1, PTL

\* Without prefetches the cache holds only finished jobs, although rows are read without
\* the mutex and by refreshes.
THEOREM CachedCorrect == ServiceSpec => []CachedIsFinished
    <1>1. ServiceIInv => CachedIsFinished
        BY DEF ServiceIInv, CacheInv, ItemsInv, ItemInv, Finished, CachedIsFinished
    <1> QED
        BY ServiceInvariance, <1>1, PTL

\* In a list without duplicates, the data of a job are those of its item.
LEMMA DataOfItem ==
    ASSUME NEW l, \A k, m \in 1..Len(l) : l[k].id = l[m].id => k = m, NEW k \in 1..Len(l)
    PROVE  DataOf(l, l[k].id) = l[k].data
    BY DEF DataOf

\* The cache shows the tags of the table, or there is one of the reasons: a handler that
\* has yet to refresh it, a read that a change overtook, a store that failed.
THEOREM CoherenceCorrect == ServiceSpec => []CacheIsCoherent
    <1>1. ServiceIInv => CacheIsCoherent
        <2> SUFFICES ASSUME ServiceIInv, NEW j \in Held
                     PROVE  DataOf(list, j).Metadata.tags = job_to_tags[j] \/ Excused(j)
            BY DEF CacheIsCoherent, Excused
        <2>1. PICK k \in 1..Len(list) : list[k].id = j
            BY DEF Held, IdsOf
        <2>2. DataOf(list, j) = list[k].data
            BY <2>1, DataOfItem DEF ServiceIInv, CacheInv, ServiceInv, CacheHoldsJobOnce
        <2> QED
            BY <2>1, <2>2 DEF ServiceIInv, CacheInv, ItemsInv
    <1> QED
        BY ServiceInvariance, <1>1, PTL

---------------------------------------------------------------------------
(* The tags of a cached job never go back *)

\* For that, no position may show fewer changes than the one with the same job before.
LEMMA ByPosition ==
    ASSUME CacheInv, CacheInv',
           \A k \in 1..Len(list'), p \in 1..Len(list) :
              list'[k].id = list[p].id =>
                  list'[k].data.Metadata.edits >= list[p].data.Metadata.edits
    PROVE  \A j \in Held \cap IdsOf(list') :
              DataOf(list', j).Metadata.edits >= DataOf(list, j).Metadata.edits
    <1> SUFFICES ASSUME NEW j \in Held \cap IdsOf(list')
                 PROVE  DataOf(list', j).Metadata.edits >= DataOf(list, j).Metadata.edits
        OBVIOUS
    <1>1. PICK p \in 1..Len(list) : list[p].id = j
        BY DEF Held, IdsOf
    <1>2. PICK k \in 1..Len(list') : list'[k].id = j
        BY DEF IdsOf
    <1>3. DataOf(list, j) = list[p].data
        BY <1>1, DataOfItem DEF CacheInv, ServiceInv, CacheHoldsJobOnce
    <1>4. DataOf(list', j) = list'[k].data
        BY <1>2, DataOfItem DEF CacheInv, ServiceInv, CacheHoldsJobOnce
    <1> QED
        BY <1>1, <1>2, <1>3, <1>4

\* Items that were there show what they showed.
LEMMA OldItem ==
    ASSUME CacheInv, NEW item, NEW p \in 1..Len(list), item.id = list[p].id,
           \E q \in 1..Len(list) : item = list[q]
    PROVE  item.data.Metadata.edits >= list[p].data.Metadata.edits
    <1>1. item = list[p]
        BY DEF CacheInv, ServiceInv, CacheHoldsJobOnce
    <1>2. ServiceTypeOK
        BY DEF CacheInv, ServiceInv
    <1> QED
        BY <1>1, <1>2, ItemTypes

LEMMA NoRegress ==
    ASSUME ServiceIInv, [ServiceNext]_<<vars, serviceVars>>,
           NEW k \in 1..Len(list'), NEW p \in 1..Len(list), list'[k].id = list[p].id
    PROVE  list'[k].data.Metadata.edits >= list[p].data.Metadata.edits
    <1>1. CacheInv /\ ServiceTypeOK /\ list \in Seq(Item) /\ Distinct(list)
        BY DEF ServiceIInv, CacheInv, ServiceInv, ServiceTypeOK, CacheHoldsJobOnce, Distinct
    <1> DEFINE goal == list'[k].data.Metadata.edits >= list[p].data.Metadata.edits
    <1>0. ASSUME \E q \in 1..Len(list) : list'[k] = list[q] PROVE goal
        BY <1>0, <1>1, OldItem
    <1> HIDE DEF goal
    <1> SUFFICES goal
        BY DEF goal
    <1>2. CASE UNCHANGED list
        BY <1>0, <1>2
    <1>3. ASSUME NEW c \in Clients, GetHit(c) \/ UpdateHit(c)
          PROVE  goal
        <2>1. client[c].job \in IdsOf(list) /\ list' = Found(list, client[c].job)
            BY <1>3 DEF GetHit, UpdateHit, Held
        <2>2. \E q \in 1..Len(list) : list'[k] = list[q]
            BY <1>1, <2>1, FoundItems
        <2> QED
            BY <1>0, <2>2
    <1>4. ASSUME NEW c \in Clients, Load(c)
          PROVE  goal
        <2>1. client[c] \in BusyClient
            BY <1>1, <1>4, BusyClients DEF Load, At
        <2>2. PICK item \in Item :
                 /\ item.id \notin Held
                 /\ \A m \in 1..Len(list') : list'[m] = item \/ \E q \in 1..Len(list) : list'[m] = list[q]
            BY <1>1, <1>4, <2>1, LoadedList
        <2>3. list'[k] # item
            BY <2>2 DEF Held, IdsOf
        <2> QED
            BY <1>0, <2>2, <2>3
    <1>5. ASSUME NEW c \in Clients, RefreshTags(c)
          PROVE  goal
        <2>1. client[c] \in BusyClient
            BY <1>1, <1>5, BusyClients DEF RefreshTags, At
        <2>2. PICK item \in Item :
                 /\ item.id = client[c].job
                 /\ item.data.Metadata = [row |-> client[c].metadata.row,
                                          tags |-> job_to_tags[client[c].job],
                                          edits |-> edits[client[c].job]]
                 /\ Len(list) > 0 /\ list[1].id = item.id
                 /\ Len(list') = Len(list) /\ list'[1] = item
                 /\ \A m \in 2..Len(list) : list'[m] = list[m]
                 /\ \A m \in 2..Len(list) : list[m].id # item.id
            BY <1>1, <1>5, <2>1, RefreshedList
        <2>3. CASE k = 1
            <3>1. p = 1
                BY <1>1, <2>2, <2>3
            <3>2. list[1].data.Metadata.edits <= edits[list[1].id]
                BY <1>1, <3>1 DEF CacheInv, ItemsInv, ItemInv
            <3>3. list[1].data.Metadata.edits \in Nat /\ edits[list[1].id] \in Nat
                BY <1>1, <3>1, ItemTypes DEF ServiceTypeOK
            <3> QED
                BY <2>2, <2>3, <3>1, <3>2, <3>3 DEF goal
        <2>4. CASE k # 1
            <3>1. k \in 2..Len(list)
                BY <2>2, <2>4
            <3>2. list'[k] = list[k]
                BY <2>2, <3>1
            <3> QED
                BY <1>0, <3>1, <3>2
        <2> QED
            BY <2>3, <2>4
    <1>6. CASE RestartService
        BY <1>6 DEF RestartService
    <1>7. ASSUME NEW c \in Clients, \/ Request(c) \/ GetMiss(c) \/ UpdateMiss(c) \/ ReadRow(c)
                                    \/ ReadTags(c) \/ Edit(c) \/ RefreshRow(c) \/ RefreshFails(c)
          PROVE  UNCHANGED list
        BY <1>7 DEF Request, GetMiss, UpdateMiss, ReadRow, ReadTags, Edit, RefreshRow, RefreshFails,
                    cacheVars
    <1>8. TableStep \/ (\E h \in Handlers : JobStopProceeds(h) \/ JobStopFails(h)) => UNCHANGED list
        BY DEF TableStep, JobStopProceeds, JobStopFails, serviceVars, cacheVars
    <1> QED
        BY <1>2, <1>3, <1>4, <1>5, <1>6, <1>7, <1>8
        DEF ServiceNext, EnterCache, Proceed, serviceVars

\* While a job stays in the cache, the tags shown for it never go back to those before a
\* change that was shown, in whatever order handlers finish.
THEOREM RegressCorrect == ServiceSpec => CacheNeverRegresses
    <1>1. ServiceIInv /\ ServiceIInv' /\ [ServiceNext]_<<vars, serviceVars>> =>
            [\A j \in Held \cap IdsOf(list') :
                DataOf(list', j).Metadata.edits >= DataOf(list, j).Metadata.edits]_list
        BY NoRegress, ByPosition DEF ServiceIInv
    <1> QED
        BY ServiceInvariance, <1>1, PTL DEF ServiceSpec, CacheNeverRegresses

---------------------------------------------------------------------------
(* A job that is shown again and again *)

\* How wide the interval shown is at least, beside the best one.
LEMMA IntervalWideEnough ==
    ASSUME NEW d \in Nat \ {0}, NEW m \in Nat \ {0}, d <= 1800 * MaxPoints
    PROVE  bestInterval(d, m) <= (IF m < 7 THEN 15 ELSE 2) * bestAvailableInterval(d, m)
    <1> DEFINE v == bestAvailableInterval(d, m)
               b == bestInterval(d, m)
               C == {m, 30, 60, 120, 300, 600, 1800}
    <1>1. /\ b \in Int /\ m <= b /\ (b - m) * MaxPoints < d
          /\ b = m \/ b = 2 * m \/ 3 * m <= b
        <2>1. b \in Int
            BY BestIntervalIsInt
        <2>2. /\ m <= b /\ (b - m) * MaxPoints < d
              /\ b = m \/ b = 2 * m \/ 3 * m <= b
            BY BestIntervalBounds
        <2> QED
            BY <2>1, <2>2
    <1>2. v \in C /\ m <= v /\ \A c \in C : Abs(v - b) <= Abs(c - b)
        BY ShownInterval
    <1> HIDE DEF v, b
    <1>3. b - m < 1800
        <2> SUFFICES ASSUME 1800 <= b - m
                     PROVE  FALSE
            BY <1>1
        <2>1. 1800 * MaxPoints <= (b - m) * MaxPoints
            BY <1>1, PointsAssumption
        <2> QED
            BY <1>1, <2>1, PointsAssumption
    <1>4. v \in Nat
        BY <1>2
    <1>5. CASE 20 <= b
        <2>1. CASE b <= 3600
            <3>1. \E c \in C : b <= 2 * c /\ 2 * c <= 3 * b
                <4>1. \E c \in {30, 60, 120, 300, 600, 1800} : b <= 2 * c /\ 2 * c <= 3 * b
                    BY <1>1, <1>5, <2>1
                <4> QED
                    BY <4>1
            <3>2. PICK c \in C : b <= 2 * c /\ 2 * c <= 3 * b
                BY <3>1
            <3>3. Abs(v - b) <= Abs(c - b) /\ c \in Nat
                BY <1>2
            <3>4. b <= 2 * v
                BY <1>1, <1>4, <3>2, <3>3 DEF Abs
            <3> QED
                BY <1>1, <1>4, <3>4 DEF v, b
        <2>2. CASE 3600 < b
            <3>1. b = m
                BY <1>1, <1>3, <2>2
            <3> QED
                BY <1>2, <1>4, <3>1 DEF v, b
        <2> QED
            BY <1>1, <2>1, <2>2
    <1>6. CASE b < 20
        <2>1. CASE b <= 2 * m
            BY <1>1, <1>2, <1>4, <2>1 DEF v, b
        <2>2. CASE 3 * m <= b
            <3>1. m < 7
                BY <1>1, <1>6, <2>2
            <3>2. Abs(v - b) <= Abs(30 - b)
                BY <1>2
            <3>3. b <= 15 * v
                <4>1. CASE v = m
                    BY <1>1, <1>6, <3>2, <4>1 DEF Abs
                <4>2. CASE v # m
                    BY <1>1, <1>2, <1>6, <4>2
                <4> QED
                    BY <4>1, <4>2
            <3> QED
                BY <3>1, <3>3 DEF v, b
        <2> QED
            BY <1>1, <2>1, <2>2
    <1> QED
        BY <1>1, <1>5, <1>6

\* The interval does not get finer.
LEMMA IntervalsAscend ==
    ASSUME NEW d \in Nat \ {0}, NEW e \in Nat, d < e, NEW m \in Nat \ {0}
    PROVE  bestAvailableInterval(d, m) <= bestAvailableInterval(e, m)
    <1> DEFINE v == bestAvailableInterval(d, m)
               w == bestAvailableInterval(e, m)
               b == bestInterval(d, m)
               c == bestInterval(e, m)
               C == {m, 30, 60, 120, 300, 600, 1800}
    <1>0. e \in Nat \ {0}
        OBVIOUS
    <1>1. b \in Int /\ c \in Int
        BY <1>0, BestIntervalIsInt
    <1>2. b <= c
        <2> DEFINE p == m * MaxPoints
                   x == CeilDiv(d, p)
                   y == CeilDiv(e, p)
        <2>1. p \in Nat \ {0}
            BY BestIntervalIsInt
        <2>2. x \in Int /\ y \in Int /\ (x - 1) * p < d /\ e <= y * p
            <3> HIDE DEF p
            <3>1. x \in Int /\ (x - 1) * p < d
                BY <2>1, RoundedUp
            <3>2. y \in Int /\ e <= y * p
                BY <2>1, RoundedUp
            <3> QED
                BY <3>1, <3>2
        <2>3. b = x * m /\ c = y * m
            BY DEF bestInterval
        <2> HIDE DEF p, x, y, b, c
        <2>4. x <= y
            <3> SUFFICES ASSUME y <= x - 1
                         PROVE  FALSE
                BY <2>2
            <3>1. y * p <= (x - 1) * p
                BY <2>1, <2>2
            <3>2. y * p \in Int /\ (x - 1) * p \in Int
                BY <2>1, <2>2
            <3> QED
                BY <2>2, <3>1, <3>2
        <2> QED
            BY <2>2, <2>3, <2>4
    <1>3. /\ v \in C /\ m <= v
          /\ \A k \in C : m <= k /\ k < v => Abs(v - b) < Abs(k - b)
        BY ShownInterval
    <1>4. /\ w \in C /\ m <= w
          /\ \A k \in C : Abs(w - c) <= Abs(k - c)
        BY <1>0, ShownInterval
    <1> HIDE DEF v, w, b, c
    <1>5. v \in Nat /\ w \in Nat
        BY <1>3, <1>4
    <1> SUFFICES ASSUME w < v
                 PROVE  FALSE
        BY <1>5 DEF v, w
    <1>6. Abs(v - b) < Abs(w - b) /\ Abs(w - c) <= Abs(v - c)
        BY <1>3, <1>4
    <1> QED
        BY <1>1, <1>2, <1>5, <1>6 DEF Abs

SampledJobIInv == duration \in Nat /\ metricInterval \in Nat \ {0}

LEMMA SampledJobInvariance == SampledJobSpec => []SampledJobIInv
    <1>1. SampledJobInit => SampledJobIInv
        BY SampledJobAssumption DEF SampledJobInit, SampledJobIInv
    <1>2. SampledJobIInv /\ [ShownLater]_sampledVars => SampledJobIInv'
        BY SampledJobAssumption DEF ShownLater, sampledVars, SampledJobIInv
    <1> QED
        BY <1>1, <1>2, PTL DEF SampledJobSpec

\* A job that lasts no longer than the points aimed at, 30 minutes apart, is never shown
\* with many more points than that, nor at an interval finer than that of its metrics.
THEOREM PointsCorrect == SampledJobSpec => []PointsAreBounded
    <1>1. SampledJobIInv => PointsAreBounded
        <2> DEFINE shown == bestAvailableInterval(duration, metricInterval)
                   best == bestInterval(duration, metricInterval)
                   samples == CeilDiv(duration, shown)
        <2> SUFFICES ASSUME SampledJobIInv, duration > 0
                     PROVE  /\ shown >= metricInterval
                            /\ duration <= 1800 * MaxPoints => samples <= Excess * MaxPoints
            BY DEF PointsAreBounded, SamplesShown
        <2>1. duration \in Nat \ {0} /\ metricInterval \in Nat \ {0} /\ MaxPoints \in Nat \ {0}
            BY PointsAssumption DEF SampledJobIInv
        <2>2. shown \in Nat /\ shown >= metricInterval
            BY <2>1, ShownInterval, IntervalIsNat
        <2>3. best \in Int /\ duration <= best * MaxPoints
            BY <2>1, BestIntervalIsInt, BestIntervalBounds
        <2>4. shown \in Nat \ {0}
            BY <2>1, <2>2
        <2>5. samples \in Int /\ (samples - 1) * shown < duration
            <3> HIDE DEF shown
            <3> QED
                BY <2>1, <2>4, RoundedUp
        <2>6. Excess \in Nat
            BY DEF Excess
        <2>7. ASSUME duration <= 1800 * MaxPoints
              PROVE  samples <= Excess * MaxPoints
            <3>1. best <= Excess * shown
                BY <2>1, <2>7, IntervalWideEnough DEF Excess
            <3> HIDE DEF shown, best, samples
            <3>2. best * MaxPoints <= (Excess * shown) * MaxPoints
                BY <2>1, <2>3, <2>4, <2>6, <3>1
            <3>3. (Excess * shown) * MaxPoints = (Excess * MaxPoints) * shown
                BY <2>1, <2>4, <2>6
            <3>4. (samples - 1) * shown < (Excess * MaxPoints) * shown
                BY <2>1, <2>3, <2>4, <2>5, <2>6, <3>2, <3>3
            <3> DEFINE bound == Excess * MaxPoints
            <3>5. bound \in Nat
                BY <2>1, <2>6
            <3> HIDE DEF bound
            <3>6. (samples - 1) * shown < bound * shown
                BY <3>4 DEF bound
            <3>7. samples - 1 < bound
                <4> SUFFICES ASSUME bound <= samples - 1
                             PROVE  FALSE
                    BY <2>5, <3>5
                <4>1. bound * shown <= (samples - 1) * shown
                    BY <2>4, <2>5, <3>5
                <4>2. bound * shown \in Int /\ (samples - 1) * shown \in Int
                    BY <2>4, <2>5, <3>5
                <4> QED
                    BY <3>6, <4>1, <4>2
            <3> QED
                BY <2>5, <3>5, <3>7 DEF bound
        <2> QED
            BY <2>2, <2>7
    <1> QED
        BY <1>1, SampledJobInvariance, PTL

\* A job that runs on is never shown at a finer interval than before, and is still
\* offered all the intervals it was offered before.
THEOREM IntervalsOfRunningJob == SampledJobSpec => IntervalsGrow
    <1> DEFINE Grows == duration > 0 =>
            /\ bestAvailableInterval(duration', metricInterval) >= bestAvailableInterval(duration, metricInterval)
            /\ intervals(duration, metricInterval) \subseteq intervals(duration', metricInterval)
    <1>1. SampledJobIInv /\ ShownLater => Grows
        <2> SUFFICES ASSUME SampledJobIInv, ShownLater, duration > 0
                     PROVE  /\ bestAvailableInterval(duration', metricInterval)
                                    >= bestAvailableInterval(duration, metricInterval)
                            /\ intervals(duration, metricInterval) \subseteq intervals(duration', metricInterval)
            OBVIOUS
        <2> DEFINE v == bestAvailableInterval(duration, metricInterval)
                   w == bestAvailableInterval(duration', metricInterval)
        <2>1. /\ duration \in Nat \ {0} /\ duration' \in Nat /\ duration < duration'
              /\ metricInterval \in Nat \ {0}
            BY SampledJobAssumption DEF SampledJobIInv, ShownLater
        <2>2. v \in Nat /\ w \in Nat /\ v <= w
            BY <2>1, IntervalsAscend, IntervalIsNat
        <2>3. \A x \in {defaultIntervals[k] : k \in DOMAIN defaultIntervals} : x \in Nat
            BY DEF defaultIntervals
        <2>4. intervals(duration, metricInterval) \subseteq intervals(duration', metricInterval)
            <3> HIDE DEF v, w
            <3>1. /\ intervals(duration, metricInterval) =
                        {x \in {defaultIntervals[k] : k \in DOMAIN defaultIntervals} : metricInterval <= x /\ x <= v}
                  /\ intervals(duration', metricInterval) =
                        {x \in {defaultIntervals[k] : k \in DOMAIN defaultIntervals} : metricInterval <= x /\ x <= w}
                BY DEF intervals, v, w
            <3> QED
                BY <2>2, <2>3, <3>1
        <2> QED
            BY <2>2, <2>4
    <1>2. SampledJobIInv /\ [ShownLater]_sampledVars => [Grows]_sampledVars
        BY <1>1
    <1> QED
        BY <1>2, SampledJobInvariance, PTL DEF SampledJobSpec, IntervalsGrow

===========================================================================
