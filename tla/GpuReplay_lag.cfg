SPECIFICATION Spec
CONSTANTS
    MaxFrames = 7
PROPERTIES
    TwoSubmitsAgo
