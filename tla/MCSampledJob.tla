--------------------------- MODULE MCSampledJob ---------------------------
(***************************************************************************)
(* SampledJob with the points of the code, for jobs of up to a week, just  *)
(* around the multiples of 200 samples; 3000 s are the longest that is     *)
(* shown at an interval of 1 s.                                            *)
(***************************************************************************)
EXTENDS SampledJob

MCDurations ==
    {0, 1, 59, 3000, 3600} \cup
    UNION {{k * 6000 - 1, k * 6000, k * 6000 + 1} : k \in 1..20 \cup {30, 40, 50, 60, 61, 80, 100}}

===========================================================================
