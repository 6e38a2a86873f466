CONSTANTS
    BoxRing = 4
    ImageRing = 2
    QueueSize = 4
    Threshold = 3
    Limit = 3
    MaxFrames = 4
    MaxBoxes = 2
    MaxBoots = 2
    None = None
SPECIFICATION UploadSpec
CHECK_DEADLOCK FALSE
INVARIANTS UploadTypeOK DataInStep PostedOnceInOrder
PROPERTIES BacklogDrains
