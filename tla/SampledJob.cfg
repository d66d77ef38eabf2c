SPECIFICATION SampledJobSpec
CONSTANTS
    MaxPoints = 200
    Durations <- MCDurations
    MetricIntervals = {1, 5, 6, 7, 10, 30, 45, 60}
INVARIANTS
    PointsAreBounded
PROPERTIES
    IntervalsGrow
CHECK_DEADLOCK FALSE
