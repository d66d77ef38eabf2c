SPECIFICATION Spec
CONSTANTS
    Jobs = {j1, j2, j3, j4}
    Metadata = {m1, m2}
    MetricData = {d1, d2}
    size = 3
SYMMETRY Symmetry
INVARIANTS
    Inv
    HoldsMostRecentlyUsed
PROPERTIES
    KeepsMetricData
