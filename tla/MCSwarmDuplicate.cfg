SPECIFICATION SSpec
CONSTANTS
  n1 = n1
  n2 = n2
  p1 = p1
  p2 = p2
  Peers = {n1}
  Pieces = {p1}
  MaxDownloads = 1
  NoPeer = NoPeer
  NoPiece = NoPiece
  RemoteHas <- AllHave
  MaxPeers = 1
  ConnBudget = 2
  ChokeBudget = 0
  FailBudget = 1
CHECK_DEADLOCK FALSE
SYMMETRY Symmetry
INVARIANTS
  NoDuplicatePeer
