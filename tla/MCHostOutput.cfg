SPECIFICATION FairSpec
CONSTANTS
  Cap = 2
  WatchdogPolls = 2
  MaxHeaders = 4
CHECK_DEADLOCK FALSE
INVARIANTS TypeOK ItemsOwned
PROPERTIES ResultsServed
