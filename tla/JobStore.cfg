SPECIFICATION FairSpec
CONSTANTS
    Jobs = {j1}
    Handlers = {h1, h2}
    Cleaner = cleaner
    NoRow = NoRow
    MaxTime <- MaxTimeBoth
    PartitionOf <- OneJob
    ExitCodes = {2}
    MaxClock = 3
    MaxRuns = 2
    MaxFailures = 1
INVARIANTS
    TypeOK
    FinishedIsComplete
    EndIsOneReport
PROPERTIES
    NeverReopened
    ImplementsLifecycle
    OvertimeIsFinished
