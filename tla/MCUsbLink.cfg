SPECIFICATION LinkSpec
CONSTANTS
    MaxIn = 2
    MaxOut = 2
    InChunks = 2
    OutChunks = 1
    MaxDrops = 1
CHECK_DEADLOCK FALSE
INVARIANTS LinkTypeOK LinkKept
PROPERTIES LinkServes
