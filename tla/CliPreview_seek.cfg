SPECIFICATION FairSpec
CONSTANTS
    Pairs = 3
    TotalPairs = 4
    SkipCount = 2
    SeekStep = 1
PROPERTIES
    SeekIsShown
CHECK_DEADLOCK FALSE
