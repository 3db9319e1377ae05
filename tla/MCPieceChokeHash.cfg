SPECIFICATION PSpec
CONSTANTS
  Pieces = {p1}
  NumBlocks = 2
  MaxBlocks = 2
  MaxDownloads = 1
  NoPiece = NoPiece
  MaxSlots = 2
  ChokeBudget = 1
  CancelBudget = 0
  RaceBudget = 0
CHECK_DEADLOCK FALSE
INVARIANTS
  HonestPeer
