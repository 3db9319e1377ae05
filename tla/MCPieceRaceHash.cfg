SPECIFICATION PSpec
CONSTANTS
  Pieces = {p1}
  NumBlocks = 3
  MaxBlocks = 2
  MaxDownloads = 1
  NoPiece = NoPiece
  MaxSlots = 1
  ChokeBudget = 0
  CancelBudget = 0
  RaceBudget = 1
CHECK_DEADLOCK FALSE
INVARIANTS
  HonestPeer
