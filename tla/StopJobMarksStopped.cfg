SPECIFICATION Spec
CONSTANTS
    Jobs = {j1}
    Handlers = {h1, h2}
    Cleaner = cleaner
    NoRow = NoRow
    MaxTime <- MaxTimeShort
    PartitionOf <- OneJob
    ExitCodes = {0, 2}
    MaxClock = 3
    MaxRuns = 1
    MaxFailures = 0
PROPERTIES
    StopJobMarksStopped
