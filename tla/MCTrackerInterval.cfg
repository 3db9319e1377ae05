SPECIFICATION FairSpec
CONSTANT MaxTimers = 3
CHECK_DEADLOCK FALSE
PROPERTIES
  EveryInterval
