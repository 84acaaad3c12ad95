SPECIFICATION Spec
CONSTANTS
    Sizes = {1, 2}
    Formats = {"i420"}
    MaxChanges = 1
PROPERTIES
    UnrelatedUpdateKeepsRecorder
CHECK_DEADLOCK FALSE
