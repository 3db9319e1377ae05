SPECIFICATION StSpec
CONSTANTS
  w1 = w1
  w2 = w2
  Torrents <- Layouts
  Writers = {w1, w2}
  MaxHandovers = 2
  MaxStarts = 3
  Idle = Idle
CHECK_DEADLOCK FALSE
SYMMETRY Symmetry
INVARIANT
  BlocksCover
