SPECIFICATION UFairSpec
CONSTANT MaxTimers = 3
CHECK_DEADLOCK FALSE
INVARIANTS
  UTypeOK
  OneAnnounce
  IdIssued
PROPERTIES
  ImplementsTracker
  QuitHonoured
