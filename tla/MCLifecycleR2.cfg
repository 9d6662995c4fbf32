SPECIFICATION FairSpec
CONSTANTS
  s1 = s1
  s2 = s2
  s3 = s3
  s4 = s4
  Streams <- TwoStreams
  NumPastStreams = 1
  Local = FALSE
  Reactivates = FALSE
  Faults = {"error", "crash", "delete"}
  MaxClock = 2
  MaxFaults = 1
CHECK_DEADLOCK FALSE
PROPERTIES ExpiredPruned RequestEnds
