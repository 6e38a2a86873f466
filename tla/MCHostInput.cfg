SPECIFICATION FairSpec
CONSTANTS
  Producers = {p1, p2}
  Images = {i1, i2, i3, i4}
  Cap = 2
  None = none
CHECK_DEADLOCK FALSE
INVARIANTS TypeOK OwnedOnce NoLeak RejectOnlyIfRaced
PROPERTIES ImagesServed
