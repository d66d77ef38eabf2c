SPECIFICATION FairLivePageSpec
CONSTANTS
    Hour = 1
    MaxNow = 3
    MaxMessages = 1
    MaxShown = 3
    Null = Null
CHECK_DEADLOCK FALSE
INVARIANTS
    LiveInv
    WatchingIsSafe
    OlderMetricsFit
PROPERTIES
    GoroutinesEnd
