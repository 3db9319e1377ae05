SPECIFICATION PSpec
CONSTANTS
  Pieces = {p1}
  NumBlocks = 4
  MaxBlocks = 2
  MaxDownloads = 1
  NoPiece = NoPiece
  MaxSlots = 1
  ChokeBudget = 0
  CancelBudget = 0
  RaceBudget = 0
CHECK_DEADLOCK FALSE
INVARIANTS
  WindowRespected
