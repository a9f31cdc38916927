SPECIFICATION Spec
CONSTANTS
    MaxSamples = 2
    DefaultPoints = 2
    MaxPoints = 3
    NumTiers = 3
    Ratio1 = 2
    Ratio2 = 2
    Finds <- WholeFiles
    Windows <- AllWindows
    Points <- SomePoints
    Failures <- Lost
    MaxWrites = 6
    MaxCached = 1
    MaxFailures = 1
    MaxRestarts = 0
CHECK_DEADLOCK FALSE
INVARIANT
    CacheCurrent
