SPECIFICATION FairSpec
CONSTANTS
    User = u
    Partition = p
    Tag = t
    None = None
    MaxLimit = 2
    MaxPending = 2
    MaxEdits = 2
    MaxFailures = 1
CHECK_DEADLOCK FALSE
INVARIANTS
    Inv
    ListFollowsParams
PROPERTIES
    AppliesWhatIsShown
    ComesToRest
