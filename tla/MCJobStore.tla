---------------------------- MODULE MCJobStore ----------------------------
(***************************************************************************)
(* Instances of JobStore for TLC. Partition "short" has a maximum time of  *)
(* one second, "open" none that the sweep could use.                       *)
(***************************************************************************)
EXTENDS JobStore

MaxTimeShort == [short |-> 1]
MaxTimeBoth == [short |-> 1, open |-> 0]

OneJob == [j \in Jobs |-> "short"]

===========================================================================
