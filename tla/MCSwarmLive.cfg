SPECIFICATION SFairSpec
CONSTANTS
  n1 = n1
  n2 = n2
  p1 = p1
  p2 = p2
  Peers = {n1, n2, n3}
  Pieces = {p1, p2}
  MaxDownloads = 1
  NoPeer = NoPeer
  NoPiece = NoPiece
  RemoteHas <- OneHasOne
  MaxPeers = 2
  ConnBudget = 3
  ChokeBudget = 0
  FailBudget = 0
CHECK_DEADLOCK FALSE
PROPERTIES
  DownloadCompletes
  HandlerTerminates
INVARIANTS
  PeerCountExact
