SPECIFICATION Spec
CONSTANTS
    N = 2
    Backends = {"VramPool"}
    SourceLengths = {6}
    FrameLimits = {100}
INVARIANTS
    PreviousPositionOfPreviousFrame
CHECK_DEADLOCK FALSE
