SPECIFICATION FairSpec
CONSTANTS
  Threads = {t1, t2}
  None = none
  Slots = 4
  PeerCalls = 1
  MaxCalls = 6
  MaxPackets = 2
INVARIANTS TypeOK EventsExact
PROPERTIES CallsReturn
CHECK_DEADLOCK FALSE
