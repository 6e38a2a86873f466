SPECIFICATION FairSpec
CONSTANTS
  ModelCells = 1
  ImageCells = 2
  MaxImages = 2
  MaxStarts = 2
  MaxFaults = 1
CHECK_DEADLOCK FALSE
INVARIANTS TypeOK FramingKept
PROPERTIES SendsReturn
