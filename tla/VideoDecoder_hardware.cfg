SPECIFICATION Spec
CONSTANTS
    Path = "Hardware"
    StreamLengths = {3, 5}
    Delays = {0, 1, 2}
    KeyInterval = 3
    MaxSeeks = 0
INVARIANTS
    NoneMeansFinished
