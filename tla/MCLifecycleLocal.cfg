SPECIFICATION Spec
CONSTANTS
  s1 = s1
  s2 = s2
  s3 = s3
  s4 = s4
  Streams <- FourStreams
  NumPastStreams = 1
  Local = TRUE
  Reactivates = FALSE
  Faults = {"error", "crash"}
  MaxClock = 5
  MaxFaults = 2
CHECK_DEADLOCK FALSE
SYMMETRY Symmetry
INVARIANTS TypeOK LiveFollowsWorker RetentionBound ViewersAgree
PROPERTIES NoLiveDelete AnnounceCommitted
