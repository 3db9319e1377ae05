SPECIFICATION PSpec
CONSTANTS
  Pieces = {p1, p2}
  NumBlocks = 2
  MaxBlocks = 2
  MaxDownloads = 2
  NoPiece = NoPiece
  MaxSlots = 2
  ChokeBudget = 0
  CancelBudget = 0
  RaceBudget = 0
CHECK_DEADLOCK FALSE
INVARIANTS
  DiskGood
