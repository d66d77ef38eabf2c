-------------------------- MODULE SampleIntervals --------------------------
(***************************************************************************)
(* CalculateSampleIntervals of job.go: at which interval the samples of a  *)
(* job are shown, and which other intervals the web page offers.           *)
(*                                                                         *)
(* The Go code computes with floats; a quotient that is rounded up is an   *)
(* integer division here, exact for whole seconds.                         *)
(***************************************************************************)
EXTENDS Integers, Sequences

CONSTANTS MaxPoints     \* DEFAULT_MAX_POINTS_PER_JOB

ASSUME PointsAssumption == MaxPoints \in Nat \ {0}

defaultIntervals == <<30, 60, 120, 300, 600, 1800>>

Abs(x) == IF x < 0 THEN -x ELSE x

\* Mutant of CeilDiv: rounded down.
FloorDiv(a, b) == a \div b

CeilDiv(a, b) == (a + b - 1) \div b

\* The interval that would show at most MaxPoints samples of a job of d seconds
\* whose metrics are sampled every m seconds.
bestInterval(d, m) == CeilDiv(d, m * MaxPoints) * m

\* The loop starts from the metrics' own interval.
Candidates(m) == <<m>> \o defaultIntervals

\* A later candidate is taken only if it is strictly closer.
bestAvailableInterval(d, m) ==
    LET best == bestInterval(d, m)
        distance(k) == Abs(Candidates(m)[k] - best)
        closest(k) == \A i \in DOMAIN Candidates(m) :
                        IF i < k THEN distance(k) < distance(i) ELSE distance(k) <= distance(i)
    IN  Candidates(m)[CHOOSE k \in DOMAIN Candidates(m) : closest(k)]

\* Mutant of intervals: only those next to the chosen one.
intervalsNearBest(d, m) ==
    LET best == bestAvailableInterval(d, m) IN
    {v \in {defaultIntervals[k] : k \in DOMAIN defaultIntervals} : best <= 2 * v /\ v <= best}

\* The intervals the page offers beside it.
intervals(d, m) ==
    LET best == bestAvailableInterval(d, m) IN
    {v \in {defaultIntervals[k] : k \in DOMAIN defaultIntervals} : m <= v /\ v <= best}

===========================================================================
