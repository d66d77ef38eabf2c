---------------------------- MODULE SampledJob ----------------------------
(***************************************************************************)
(* A job that is shown again and again while it runs, each time with the   *)
(* sample interval that SampleIntervals computes for its duration so far.  *)
(***************************************************************************)
EXTENDS SampleIntervals

CONSTANTS
    Durations,      \* seconds from the start to now, or to the stop
    MetricIntervals \* config: SampleInterval, in seconds

ASSUME SampledJobAssumption ==
    /\ Durations \subseteq Nat
    /\ MetricIntervals \subseteq Nat \ {0}

VARIABLES duration, metricInterval
sampledVars == <<duration, metricInterval>>

SampledJobInit == duration \in Durations /\ metricInterval \in MetricIntervals

\* The job is shown again later.
ShownLater ==
    /\ duration' \in {d \in Durations : d > duration}
    /\ UNCHANGED metricInterval

SampledJobSpec == SampledJobInit /\ [][ShownLater]_sampledVars

---------------------------------------------------------------------------
(* Properties *)

SamplesShown(v) == CeilDiv(duration, v)

\* How many times the points aimed at a job may be shown with. Below 30 s there is
\* nothing to choose but the metrics' own interval, which is too fine for a job that
\* has long more points than that, if the metrics are sampled every few seconds.
Excess == IF metricInterval < 7 THEN 15 ELSE 2

\* As long as the widest interval is no obstacle, a job is never shown with more
\* than twice the points aimed at, if its metrics are sampled every 7 seconds or
\* less often, nor at an interval finer than its metrics have.
\* (A job that starts this very second is: the best interval is then zero.)
PointsAreBounded ==
    LET shown == bestAvailableInterval(duration, metricInterval) IN
    duration > 0 =>
        /\ shown >= metricInterval
        /\ duration <= 1800 * MaxPoints => SamplesShown(shown) <= Excess * MaxPoints

\* The interval of a job that runs on never gets finer, and no interval that was
\* offered disappears: a page that asks again with its old choice finds it offered.
IntervalsGrow ==
    [][duration > 0 =>
        /\ bestAvailableInterval(duration', metricInterval) >= bestAvailableInterval(duration, metricInterval)
        /\ intervals(duration, metricInterval) \subseteq intervals(duration', metricInterval)]_sampledVars

===========================================================================
