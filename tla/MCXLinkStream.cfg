SPECIFICATION FairSpec
CONSTANTS
  w1 = w1
  w2 = w2
  r1 = r1
  Threads = {w1, w2, r1}
  Role <- MCOneWay
  Sizes = {1, 3}
  Buffer <- MCBuffer
  Line = 2
  MaxPackets = 3
  MaxWrites = 5
INVARIANTS TypeOK CreditSound
PROPERTIES CallsReturn ImplementsChannel
CHECK_DEADLOCK FALSE
