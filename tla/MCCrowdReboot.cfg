SPECIFICATION Spec
CONSTANTS
    MaxBoots = 3
    MaxImages = 1
    MaxBusy = 2
CHECK_DEADLOCK FALSE
INVARIANTS TypeOK RecordTruthful FlashGuarded
PROPERTIES TroubleEnds
