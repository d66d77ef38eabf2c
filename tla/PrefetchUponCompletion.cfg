SPECIFICATION ServiceSpec
CONSTANTS
    Jobs = {j1}
    Handlers = {h1}
    Clients = {c1, c2}
    Cleaner = cleaner
    NoRow = NoRow
    Nobody = Nobody
    MaxTime <- MaxTimeNone
    PartitionOf <- AllShort
    ExitCodes = {0}
    MaxClock = 1
    MaxRuns = 1
    MaxFailures = 1
    size = 1
    Prefetch = TRUE
    MaxEdits = 1
    SampleInterval = 30
    TickSeconds = 12000
    MaxPoints = 200
PROPERTIES
    PrefetchUponCompletion
