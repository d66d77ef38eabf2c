SPECIFICATION ServiceSpec
CONSTANTS
    Jobs = {j1, j2}
    Handlers = {h1}
    Clients = {c1, c2}
    Cleaner = cleaner
    NoRow = NoRow
    Nobody = Nobody
    MaxTime <- MaxTimeNone
    PartitionOf <- AllShort
    ExitCodes = {0}
    MaxClock = 1
    MaxRuns = 1
    MaxFailures = 0
    size = 2
    Prefetch = FALSE
    MaxEdits = 2
    SampleInterval = 30
    TickSeconds = 12000
    MaxPoints = 200
SYMMETRY Symmetry
INVARIANTS
    ServiceInv
    CachedIsFinished
    CacheIsCoherent
PROPERTIES
    CacheNeverRegresses
