SPECIFICATION FairPairSpec
CONSTANTS
    TimeOut = 5
    CheckAt = 7
    WrapAt = 10
    Base = 3
    LedMax = 6
    Glow = 3
INVARIANTS
    TypeOK
    SleepJustified
    FiveVoltsOnlyToMeasure
    OneQuestionPerCycle
    LedIsTrue
    RecreatesUpdate
PROPERTIES
    EndsByItself
