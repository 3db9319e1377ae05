SPECIFICATION USpec
CONSTANT MaxTimers = 3
CHECK_DEADLOCK FALSE
INVARIANT
  ResponsesMatch
