SPECIFICATION ESpec
CONSTANTS
  p1 = p1
  p2 = p2
  Pieces = {p1, p2}
  MaxGains = 1
  MaxRepeats = 1
CHECK_DEADLOCK FALSE
SYMMETRY Symmetry
INVARIANTS
  ETypeOK
  PiecesAnnounced
  InterestShown
  RequestsServable
