SPECIFICATION Spec
CONSTANTS
    MaxData = 10
    PrefixLen = 2
    RecLens <- MixedLens
    ClockSteps <- Increasing
    MagicLen = 7
    MagicField = 4
    GarbageTS <- FarFuture
    MaxClock = 6
    MaxFailures = 0
    MaxRestarts = 1
CHECK_DEADLOCK FALSE
PROPERTY
    RestartKeepsLatest
