SPECIFICATION TrackerSpec
CONSTANTS
    Places <- MCPlaces
    BoxSize = 20
    MaxOverlap = 45
    MaxDistance = 80
    MaxAge = 2
    NInit = 3
    MaxDetections = 3
    MaxFrames = 6
CHECK_DEADLOCK FALSE
INVARIANTS TrackerTypeOK DealtFairly
PROPERTIES LifeCycle
