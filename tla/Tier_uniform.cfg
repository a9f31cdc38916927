SPECIFICATION Spec
CONSTANTS
    MaxData = 11
    PrefixLen = 2
    RecLens <- OneLen
    ClockSteps <- Increasing
    MagicLen = 7
    MagicField = 4
    GarbageTS <- FarFuture
    MaxClock = 12
    MaxFailures = 0
    MaxRestarts = 2
CHECK_DEADLOCK FALSE
INVARIANTS
    SegmentsOnBoundary
    KeepsCapacity
    OldestIsLowerBound
PROPERTY
    TierIsLog
