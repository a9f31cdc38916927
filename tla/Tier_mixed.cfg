SPECIFICATION Spec
CONSTANTS
    MaxData = 10
    PrefixLen = 2
    RecLens <- MixedLens
    ClockSteps <- Increasing
    MagicLen = 7
    MagicField = 4
    GarbageTS <- FarFuture
    MaxClock = 7
    MaxFailures = 2
    MaxRestarts = 1
CHECK_DEADLOCK FALSE
INVARIANTS
    TypeOK
    CurrentPassWhole
    RecentRangeExact
    LatestExact
    
PROPERTY
    PassIsLog
