SPECIFICATION PFairSpec
CONSTANTS
  Pieces = {p1}
  NumBlocks = 2
  MaxBlocks = 1
  MaxDownloads = 1
  NoPiece = NoPiece
  MaxSlots = 2
  ChokeBudget = 1
  CancelBudget = 1
  RaceBudget = 1
CHECK_DEADLOCK FALSE
PROPERTIES
  HandlersReturn
  PiecesFinishUndisturbed
