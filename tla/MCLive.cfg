SPECIFICATION MCSpec
CONSTANTS
    Intervals = {0, 2, 3}
    MaxCoast = 2
    MaxJump = 2
    AnchorRadius = 1
    Residencies = {"InPlace", "D3d11Staging"}
    Yaws = {0, 2, 3}
    Weights = {0, 1}
    MaxSeen = 2
    SourceLength = 9
    Capacity = 1
    LateStart = 0
    Backends = {"i420", "nv12", "nvmm", "v4l2", "rpicam", "duplicate"}
    MaxTicks = 3
INVARIANTS
    DetectionsRecent
    NoPhantomBall
    CoasterAgrees
    InStepUntilDrop
    LentIsKept
PROPERTIES
    LostOnce
    NoLeap
    CamerasEnd
CHECK_DEADLOCK FALSE
