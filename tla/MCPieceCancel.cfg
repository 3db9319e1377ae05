SPECIFICATION PSpec
CONSTANTS
  Pieces = {p1, p2}
  NumBlocks = 2
  MaxBlocks = 1
  MaxDownloads = 2
  NoPiece = NoPiece
  MaxSlots = 2
  ChokeBudget = 0
  CancelBudget = 1
  RaceBudget = 0
CHECK_DEADLOCK FALSE
SYMMETRY Symmetry
INVARIANTS
  NoneStranded
