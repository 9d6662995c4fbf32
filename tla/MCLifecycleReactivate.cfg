SPECIFICATION Spec
CONSTANTS
  s1 = s1
  s2 = s2
  s3 = s3
  s4 = s4
  Streams <- ThreeStreams
  NumPastStreams = 2
  Local = TRUE
  Reactivates = TRUE
  Faults = {}
  MaxClock = 4
  MaxFaults = 0
CHECK_DEADLOCK FALSE
INVARIANT EndedNotLive
