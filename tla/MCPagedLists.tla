---------------------------- MODULE MCPagedLists ----------------------------
EXTENDS PagedLists

\* A short and a long job that are over and started together with a running one, and
\* an older one that still runs.
MCJobs ==
    {[Id |-> 1, StartTime |-> 3, StopTime |-> 4, NumNodes |-> 1, IsRunning |-> FALSE],
     [Id |-> 2, StartTime |-> 3, StopTime |-> 9, NumNodes |-> 2, IsRunning |-> FALSE],
     [Id |-> 3, StartTime |-> 5, StopTime |-> 0, NumNodes |-> 2, IsRunning |-> TRUE],
     [Id |-> 4, StartTime |-> 1, StopTime |-> 0, NumNodes |-> 1, IsRunning |-> TRUE]}

===========================================================================
