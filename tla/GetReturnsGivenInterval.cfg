SPECIFICATION ServiceSpec
CONSTANTS
    Jobs = {j1}
    Handlers = {h1}
    Clients = {c1}
    Cleaner = cleaner
    NoRow = NoRow
    Nobody = Nobody
    MaxTime <- MaxTimeShort
    PartitionOf <- AllShort
    ExitCodes = {0}
    MaxClock = 4
    MaxRuns = 1
    MaxFailures = 0
    size = 1
    Prefetch = FALSE
    MaxEdits = 0
    SampleInterval = 30
    TickSeconds = 12000
    MaxPoints = 200
PROPERTIES
    GetReturnsGivenInterval
