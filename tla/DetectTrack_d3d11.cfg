SPECIFICATION Spec
CONSTANTS
    Intervals = {1}
    MaxCoast = 1
    MaxJump = 2
    AnchorRadius = 1
    Residencies = {"D3d11Staging"}
    Yaws = {0}
    Weights = {0}
    MaxSeen = 1
    SourceLength = 5
INVARIANTS
    DetectionsAreCurrent
CHECK_DEADLOCK FALSE
