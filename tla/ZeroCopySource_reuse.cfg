SPECIFICATION Spec
CONSTANTS
    Modes = {"Immediate"}
    Lengths = {4}
    SyncOffsets = {0}
INVARIANTS
    DrawnFromOwnPair
CHECK_DEADLOCK FALSE
