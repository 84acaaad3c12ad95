SPECIFICATION MCSpec
CONSTANTS
    BufferCount = 2
    MaxFrames = 1
    Outputs = 1
    Starts = {0}
    SyncOffsets <- MCSyncOffsets
    Limits = {2}
    Candidates = 1
    CodecDelay = 0
    Sizes = {1}
    Formats = {"i420"}
    MaxChanges = 0
    Durations = {}
    MaxTime = 0
    Capacities = {0}
    Gates = {1}
    MaxEvents = 0
    Segments <- MCSegments
    Unreadable = {"bad"}
    Nothing = Nothing
    Picked = Picked
    MaxChain <- MCMaxChain
    MaxRecordings = 2
INVARIANTS
    RecordsOwnFrames
CHECK_DEADLOCK FALSE
