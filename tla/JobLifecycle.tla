--------------------------- MODULE JobLifecycle ---------------------------
(***************************************************************************)
(* What JobMon promises about the life of a job, whatever happens between  *)
(* Slurm, the request handlers and the clean-up timer: a job is unknown,   *)
(* then shown as running, then shown as finished, and never the other way  *)
(* round.  A finished job always carries an end that lies after its start; *)
(* the end may be amended later, by a late or repeated report.             *)
(*                                                                         *)
(* JobStore is shown to implement this specification.                      *)
(***************************************************************************)
EXTENDS Naturals

CONSTANTS Jobs       \* the job IDs

VARIABLES
    status,          \* [Jobs -> {"unknown", "running", "finished"}]
    began,           \* [Jobs -> Nat], the start of a job that is known
    ended            \* [Jobs -> Nat], the end of a job that is finished

lifecycleVars == <<status, began, ended>>

LifecycleInit ==
    /\ status = [j \in Jobs |-> "unknown"]
    /\ began  = [j \in Jobs |-> 0]
    /\ ended  = [j \in Jobs |-> 0]

\* The first report of a job's start makes it known.
Begin(j) ==
    /\ status[j] = "unknown"
    /\ status' = [status EXCEPT ![j] = "running"]
    /\ began'[j] \in Nat
    /\ began' = [began EXCEPT ![j] = began'[j]]
    /\ UNCHANGED ended

\* A running job ends, or the end of a finished one is amended.
End(j) ==
    /\ status[j] # "unknown"
    /\ status' = [status EXCEPT ![j] = "finished"]
    /\ ended'[j] \in Nat
    /\ ended'[j] > began[j]
    /\ ended' = [ended EXCEPT ![j] = ended'[j]]
    /\ UNCHANGED began

LifecycleNext == \E j \in Jobs : Begin(j) \/ End(j)

LifecycleSpec == LifecycleInit /\ [][LifecycleNext]_lifecycleVars

===========================================================================
