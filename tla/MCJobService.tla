--------------------------- MODULE MCJobService ---------------------------
(***************************************************************************)
(* Instances of JobService for TLC. A tick of the clock is 12000 s, long   *)
(* enough that one and two ticks are shown at different intervals.         *)
(***************************************************************************)
EXTENDS JobService, TLC

\* No partition has a maximum time, or one of a tick.
MaxTimeNone == [k \in {} |-> 0]
MaxTimeShort == [short |-> 1]

AllShort == [j \in Jobs |-> "short"]

Symmetry == Permutations(Clients) \cup Permutations(Jobs)

===========================================================================
