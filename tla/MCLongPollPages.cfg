SPECIFICATION Spec
CONSTANTS
  a = a
  b = b
  u1 = u1
  w1 = w1
  w2 = w2
  Channels <- OneChannel
  Pages <- OneChannel
  Urls <- OneUrl
  Writers <- TwoWriters
  TTL = 0
  MaxWrites = 2
  MaxErrors = 1
  MaxClock = 2
SYMMETRY WriterSymmetry
CHECK_DEADLOCK FALSE
INVARIANTS TypeOK NoLostWakeup PageFresh
