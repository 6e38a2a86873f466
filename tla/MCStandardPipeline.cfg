SPECIFICATION FairSpec
CONSTANTS
  VdoFrames = 3
  Tensors = 3
  ImageQueue = 8
  DispatchQueue = 16
  SyncQueue = 3
  ResultQueue = 6
  MaxFrames = 8
  MaxFaults = 1
CHECK_DEADLOCK FALSE
INVARIANTS TypeOK QueuesSuffice
PROPERTIES ImagesFollowResults FramesKeepComing
