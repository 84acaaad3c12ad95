SPECIFICATION MCSpec
CONSTANTS
    BufferCount = 2
    MaxFrames = 7
    Outputs = 3
    Starts = {0, 1}
    SyncOffsets <- MCSyncOffsets
    Limits = {2, 9}
    Candidates = 2
    CodecDelay = 1
    Sizes = {1, 2}
    Formats = {"i420", "bgra"}
    MaxChanges = 3
    Durations = {0, 2}
    MaxTime = 4
    Capacities = {0, 1, 2}
    Gates = {1, 2}
    MaxEvents = 5
    Segments <- MCSegments
    Unreadable = {"bad"}
    Nothing = Nothing
    Picked = Picked
    MaxChain <- MCMaxChain
    MaxRecordings = 1
INVARIANTS
    BuffersBounded
    FinishOkMeansAllEncoded
    OutputsAgree
    OkMeansWhole
    ReturnsFinishedFrames
    FileContiguous
    AudioInStep
    FinishedIsWhole
    AttachmentTracked
    ReplayWindow
    EventsAccounted
    
    PreviewShowsSelection
PROPERTIES
    OutputsEnd
    IsFramePipe
    FramesReturn
    ObsGoesOn
    JobsEnd
CHECK_DEADLOCK FALSE
