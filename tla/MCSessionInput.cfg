SPECIFICATION MCSpec
CONSTANTS
    N = 4
    Backends = {"VramPool", "D3d11Staging"}
    SourceLengths = {0, 1, 2, 3, 4, 5, 6, 7, 8, 9, 10, 12, 15}
    FrameLimits = {0, 1, 3, 7, 100}
    Modes = {"Buffered", "Immediate"}
    Lengths = {0, 1, 4}
    SyncOffsets <- MCSyncOffsets
    StreamLengths = {0, 1, 2, 3, 5, 8}
    Delays = {0, 1, 2, 4}
    KeyInterval = 3
    MaxSeeks = 2
    FileLengths = {3, 4}
    Offsets <- MCOffsets
    TimeBases = {600, 1000}
    Fps = 30
    MaxForward = 2
    ChannelCap = 1
    Pairs = 2
    TotalPairs = 3
    SkipCount = 2
    SeekStep = 1
INVARIANTS
    PoolNeverExhausted
    RendersOwnPixels
    WholeWindows
    CompleteRun
    SlotHeldOnce
    PairsInSync
    AllPairsDelivered
    NoneMeansFinished
    ShownIsIndexed
    RecordingsApart
PROPERTIES
    IsFramePipe
    InputEnds
    PlaybackEnds
    InterruptHeard
CHECK_DEADLOCK FALSE
