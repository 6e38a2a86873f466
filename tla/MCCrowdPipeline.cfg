SPECIFICATION Spec
CONSTANTS
    ConvBufs = 3
    GrabEvery = 2
    QueueSize = 2
    MaxTracks = 2
    Tracked <- MCTracked
    MaxFrames = 4
    MaxSuspensions = 1
CHECK_DEADLOCK FALSE
INVARIANTS TypeOK SharedInTime FewWhileSuspended
PROPERTIES FramesFlow
