SPECIFICATION Spec
CONSTANTS
    MaxSamples = 2
    DefaultPoints = 2
    MaxPoints = 3
    NumTiers = 3
    Ratio1 = 2
    Ratio2 = 2
    Finds <- SmallFiles
    Windows <- AllWindows
    Points <- SomePoints
    Failures <- Lost
    MaxWrites = 10
    MaxCached = 2
    MaxFailures = 2
    MaxRestarts = 1
CHECK_DEADLOCK FALSE
INVARIANTS
    TypeOK
    RollupComplete
    BlockSizes
    LatestCurrent
    PointsBounded
    AnswerComplete
    CacheFresh
