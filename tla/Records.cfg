SPECIFICATION Spec
CONSTANTS
    MaxRunning = 7
    UserLimit = 4
    LowByte = 8
    KindBinary = 2
    KindJSON = 6
    LongStrings <- OneLong
    GroupOrder <- TwoGroups
    Samples <- FourSamples
    Ratio1 = 2
    Ratio2 = 2
    FirstTime = 9
    MaxSamples = 4
    OldFormats <- FormatsBefore
CHECK_DEADLOCK FALSE
INVARIANTS
    NothingElseLost
    OldFormatsRead
    PeaksKept
    AverageBetween
    ReadBackCommutes
