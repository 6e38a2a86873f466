SPECIFICATION TrackerSpec
CONSTANTS
    Places <- MCPlaces
    BoxSize = 20
    MaxOverlap = 45
    MaxDistance = 80
    MaxAge = 2
    NInit = 3
    MaxDetections = 4
    MaxFrames = 1
INVARIANTS Thinned
CHECK_DEADLOCK FALSE
