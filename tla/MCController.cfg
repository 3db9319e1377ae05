SPECIFICATION Spec
CONSTANTS
  Peers = {n1, n2, n3}
  Pieces = {p1, p2, p3}
  MaxDownloads = 2
  NoPeer = NoPeer
  NoPiece = NoPiece
CHECK_DEADLOCK FALSE
SYMMETRY Symmetry
INVARIANTS
  TypeOK
  TotalsMatch
  NoStuckRequests
  WithinLimit
  RequestsJustified
  NoIdlePeer
PROPERTIES
  UsefulRequests
  EndgameOnly
